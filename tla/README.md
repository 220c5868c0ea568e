# Habena, modelled and checked

Habena is a proxy between an AI assistant and the MCP servers it uses. Every tool
call passes a policy engine, a budget, a threat check and, when it came from a
phone, a stricter floor; a call that needs a human waits in an approval queue that
a terminal, a dashboard and a Telegram bot can all answer. This directory holds TLA+ models
of the parts of the proxy that decide, wait, count and supply, and of the tools its operator
uses beside it, the TLC runs that check them, and proofs by TLAPS about the dispatcher and
the metering for every configuration. Paths below are relative to
`src/packages/core/src/` unless they start otherwise; `web:` is `src/packages/web/src/`.

## 1. The system

| Part | State it keeps | Operations | Interacts with |
|---|---|---|---|
| dispatcher `proxy/server.ts` | calls in flight (the stack of `handleToolCall`) | dispatch, await approval, resume, forward | everything below, on every call |
| policy engine `policy/engine.ts` | lockdown, session overrides, rule lists | evaluate, setLockdown, add/list/revoke override | read by the dispatcher; written by it (overrides) and over IPC |
| budget `cost/budget.ts` | none (reads the tracker) | check | dispatcher |
| metering `cost/tracker.ts`, `audit/store.ts` | spend and call records, result tokens, audit rows | record, sums over windows, hydrate at start | dispatcher, budget, CLI, dashboard |
| approval queue `approval/queue.ts` | pending entries with timers and promises | request, respond, timeout, shutdown | dispatcher awaits; IPC, Telegram and timers settle; emits events |
| Telegram approval channel `approval/channels/telegram.ts` | prompts by token, tokens by approval, warning timers, poll loop | send prompt, handle tap, edit, warn, stop | listens to the queue, responds to it; Bot API over the network |
| chat manager `chat/manager.ts` (+ limiter, binding) | active run, queue, limiter windows, subscribers | handleInbound, drain, flush, rearm | bridge events in, status events out; the dispatcher reads `active` |
| gateway bridge `chat/openclaw-bridge.ts` | socket, generation, reconnect timer, correlation ids | start, stop, send, frames, reconnect | the OpenClaw gateway over a WebSocket |
| threat engine `threat/*` | flags per tool, snapshots on disk | scanTools, checkCall | downstream catalogue in, verdicts to the dispatcher |
| downstream manager `downstream/*` | clients, catalogue, owner index, restart backoff | start, refresh, restartServer, forward, stop | child processes; the start command's re-scan timer |
| IPC server `ipc/*` | socket file, connections, subscriptions | replay and broadcast of approvals, respond with acknowledgement, lockdown, overrides, chat, list | queue, engine, manager; CLI and dashboard are its clients |
| terminals `cli/commands/watch.ts`, `approvals.ts` | the prompt shown and those behind it; webhook posts and their failures in a row | watch, respond, forward | IPC server; a webhook |
| dashboard `web:` approvals page, chat panel | cards, polls in flight; bubbles, run and offline flags, the guards of the seed | poll, act, stream, history and status | IPC server through the dashboard's routes |
| dashboard `web:lib/audit.ts`, `lib/agents.ts`, `lib/dashboard.ts` | none (reads the database) | summaries, spend, threats, activity | the audit database the proxy writes |
| installer `install/openclaw.ts`, `downstream-add/installer.ts` | the assistant's file and its backups, `config.yaml` | install, uninstall, add, remove | files that a second terminal writes too |
| configuration `policy/packs.ts`, `policy/presets.ts`, `config/loader.ts`, `identity/registry.ts` | files | resolve imports, load, apply a preset, register | policy engine |
| policy audit and learn `policy/audit.ts`, `learn/analyzer.ts` | none | find rules without effect; propose rules from the log | configuration, audit database |
| doctor `doctor/*` | none | seven checks, repair, exit code | socket, database, servers, assistant |
| start command `cli/commands/start.ts` | the wiring, re-scan timer, shutdown order | boot, hydrate counters, re-scan, shutdown | all |
| registries, OAuth, other commands and pages | none of their own | look up, log in, print | HTTP, files |

Everything in the core runs on one Node event loop. A handler runs to its next
`await` without interruption, so the interleavings are between: tool calls held at
the `await` in `handleToolCall`; IPC lines; taps and edits of the Telegram poll
loop; timers (approval timeouts, warnings, reconnects, re-scans); socket events of
the bridge; and everything that happens outside (gateway runs, Telegram, child
processes). That is where the models put their steps.

### What makes it hard, and what must hold

- **Deciding a call.** Four layers speak, one call waits while others pass, an
  override may be granted or expire in between. Must hold: no layer's objection is
  lost; boundaries and lockdown outrank everything; a decision is final; a held
  call is settled; overrides do what was approved and no more.
- **Approvals.** Three surfaces and a timer race. Must hold: one settling answer,
  never a self-approval by the phone, a prompt that can still act stands for
  something that still waits, the phone is told the truth.
- **Chat.** A run lives at the gateway, its shadow in the manager, the link
  between them drops. Must hold: serial runs, each under its own channel, ended by
  its own event; every accepted message settled; what a sender is told of a message true.
- **Supply.** Child servers die, change their tools, and are respawned by several
  events at once, while scans, a snapshot file and kills of the proxy interleave.
  Must hold: a catalogue survives its server; a name has one owner; a changed definition
  is reported, across restarts too; a dead server comes back.
- **Operating.** A person answers approvals in several places over a socket that a
  second proxy may take away; a page is fetched and streamed to at once; two setup
  commands rewrite the same files and are killed between writes. Must hold: an answer is
  acknowledged as what it did; a follower hears of every approval; pages converge on what
  is so; no server is lost.
- **Configuring.** Rules come from packs, presets, a host file, a log. Must hold: the host
  is a floor; a preset gives its posture; what the audit says of a rule, and what learning
  proposes, is so in the engine.
- **Metering.** The limits are read from memory that is lost with the process and
  rebuilt from a log whose writes can fail. Must hold: nothing is forwarded unlogged; a
  restart gives no fresh budget and charges nothing twice; the dashboard shows the same.

`PROJECT.json` lists the hazards line by line with the properties that would catch
each of them, or the reason none does yet.

## 2. Modules

| Module | Models | State and actions |
|---|---|---|
| `Decisions` | `policy/decisions.ts`, `stricter` | operators: the decision record (action, enforcement, tier) and the stricter-of-two merge |
| `PolicyEngine` | `policy/engine.ts`, `matcher.ts`, `built-in-rules.ts` | operators: matching, condition resolution, tier order; a pattern is the set of values it accepts |
| `BudgetEnforcer` | `cost/budget.ts` | operators over a meter reading: which limit bites, and with what decision |
| `ApprovalQueue` | `approval/queue.ts` | `queue`, `origin`, `choice` (the promise), `via`; `request`, `respond`, `expire`, `shutdown`; `QueueSpec` is the queue as its users see it |
| `Proxy` | `proxy/server.ts` with all of the above | `pc` is where a call is in its handler; `Dispatch` is everything up to the `await`, `Resume` everything after it, `Forwarded` the settled forward; the operator's, the chat manager's and the clock's steps interleave |
| `ToolGate` | (abstract) | what the proxy promises for a call: ruled on once, held until consent, cleared only by the ruling or consent |
| `TelegramChannel` | `approval/channels/telegram.ts` over `ApprovalQueue` | `sent` (the sendMessage in flight), `prompts`, `armed` (warning timers), `screen`, `edits` in flight, `updates`/`polling`/`batch`/`acking` (the poll loop) |
| `OpenClawBridge` | `chat/openclaw-bridge.ts` and, external, the gateway | `ws`, `up`, `reconnectTimer`, `pendingSend`, `activeRun`; the wire (`uplink`, `downlink`) and the gateway's runs |
| `ChatManager` | `chat/manager.ts`, `ratelimit.ts`, `telegram-binding.ts` over the bridge | `active`, `waiting`, limiter, binding flag; `fate` and `phone` are histories of what was reported |
| `Catalogue` | `downstream/types.ts` | constants and keys shared by the two next modules: servers, tools, definitions |
| `DownstreamManager` | `downstream/manager.ts`, `downstream/client.ts` | `child` holds the client objects (stage, process, cached list), `clients` the manager's map, `respawns` the `restartServer` calls in flight, `asked` the refresh's open requests, `index` the public list, `cooling` the backoff |
| `ThreatEngine` | `threat/engine.ts`, `threat/snapshots.ts` | `flags`, `snaps` in memory, `disk`; `scanTools`, `load`, and `checkCall` as an operator |
| `Supply` | the two wired by `cli/commands/start.ts` | `StartCommand` (spawn and boot scan), `Rescan` (the end of a timer tick), `Crash`, `CrashInScan`; histories of what was seen and reported |
| `Metering` | `cost/tracker.ts`, `audit/store.ts`, hydration and `onAudit` in `cli/commands/start.ts`, with `BudgetEnforcer` | `records`, `metered`, `inserts`: the tracker; `allowed`, `denied`, `meter`: the database; `agent`: whom the process serves; `Dispatch`, `Returns`, `ForwardFails`, `onAudit` (the row of a chat message), `Tick`, `Killed`, `Start` |
| `AuditViews` | `web:lib/audit.ts`, `lib/agents.ts`, `lib/dashboard.ts` | operators over the rows that `Metering` writes, for calls and for chat messages: summary, spend, threats, activity |
| `IpcServer` | `ipc/server.ts`, `ipc/client.ts`, `web:lib/approval-ipc.ts` over `ApprovalQueue` | `path` (whom the socket file leads to), `proxy`, `rival` (a second proxy), `ask` (one-shot answers on their connections and what the asker was told), `follow`, `inbox`, `typed` (long-lived clients); connect, broadcast, respond, time out, stop, kill, take over |
| `Surfaces` | `cli/commands/watch.ts`, `approvals.ts`; `web:` approvals page and card | `asking`, `backlog`: watch's prompt; `posting`, `posted`, `failures`: forward; `cards`, `polls`: the page |
| `ChatPanel` | `web:components/chat/ChatPanel.tsx`, `lib/chat-ipc.ts`, the manager as its subscribers see it | `ring`, `wire`: what is emitted and streamed; `messages`, `running`, `offline`, the two guards, `seed` (history, then status) |
| `Setup` | `install/openclaw.ts`, `downstream-add/installer.ts` | `assistant`, `config`, `backups`: the files; `job`: what the command of each terminal has still to write |
| `Operator` | the four above together | `desk`: the tools in use in a behaviour |
| `Configuration` | `policy/packs.ts`, `policy/presets.ts`, `policy/audit.ts`, `config/loader.ts`, `chat/config.ts`, `identity/registry.ts`, `cli/commands/policy.ts` | operators from files to rule lists, and the audit's findings on them |
| `Learn` | `learn/analyzer.ts`, `cli/commands/learn.ts` | operators from audit rows to proposed rules |
| `PolicyChecks` | (checks) | assumptions that evaluate `Configuration` and `Learn` with `PolicyEngine` |
| `Doctor` | `doctor/*`, `cli/commands/doctor.ts` | operators from a machine to verdicts, the repair and the exit code, and assumptions on them |
| `MCProxy`, `MCTelegram`, `MCChat`, `MCSupply`, `MCMetering`, `MCOperator`, `MCPolicy` | | small instances for TLC |
| `Numbers` | | lemmas on extrema, induction over finite sets, and sums |
| `RuleProofs` | | theorems and proofs about `Decisions`, `PolicyEngine` and `Configuration` |
| `ProxyProofs`, `MeteringProofs`, `SupplyProofs`, `ChatProofs`, `TelegramProofs`, `OperatorProofs` | | theorems and proofs about the module of that name |

`Proxy` composes `PolicyEngine`, `BudgetEnforcer` and `ApprovalQueue`;
`TelegramChannel` extends `ApprovalQueue` and is checked to implement its
`QueueSpec`; `ChatManager` extends `OpenClawBridge`; `Supply` composes
`DownstreamManager` and `ThreatEngine`; `AuditViews` extends `Metering`; `Operator`
composes `Setup` with the chain `ApprovalQueue`, `IpcServer`, `Surfaces`, `ChatPanel`.
`MCTelegram` extends `MCPolicy`, and `MCOperator` extends `Doctor`, so that TLC evaluates
their assumptions before those runs. `Proxy` sees the threat engine as a verdict
that may be any its detectors and modes can give, sees the chat manager
as `ChatRunChanges` (any change of `active`), and the Telegram channel as
`TapOnTelegram` (what `QueueSpec`, which the channel implements, lets a tap do):
each composed module over-approximates the neighbours that are detailed elsewhere.

Operators whose comment begins "Faulty variant" are not the code: each is a
plausible bug, substituted for the definition it follows to see that a property
notices.

### Abstractions

- Arguments, tools and messages are members of small sets; a rule's pattern is the
  set of values it accepts. Reason texts and risk levels are left out; the rewording
  of a warn-mode allow (`proxy/server.ts:103-108`) with them.
- `respond()` resolves the promise and the handler resumes in a microtask of the same
  turn; the model lets anything happen in between, which only adds behaviours.
- Timers are untimed: a timeout may fire at any moment its entry exists. Only the
  rolling call windows and the expiry of overrides use the clock `now`.
- In `Proxy`, one agent, one session and one day: the per-session, daily and monthly
  dollar readings coincide; `Metering` tells them apart. The `alert_at` notifications are left out.
- `TelegramChannel` has one approval: two share nothing in the channel but the order
  in which the poll loop handles their taps. Commands and chat text in a batch are
  passed on without touching the approval state and are left out.
- The bridge's generation counter is replaced by the test it exists for: a socket is
  current iff it is `ws`, as every step that bumps the one changes the other.
- The gateway replies to a send before the events of the run it starts
  (`tests/chat/fixtures/README.md`, "immediate ack") and closes a run once.
- `ApprovalQueue.cancel` has no caller; `shutdown` runs only as the process exits
  and is in the Telegram model, where it follows `stop()`.
- The rules `tool_tag` and `registry` never match at run time: the dispatcher passes
  the engine a tool and its arguments only. `fieldsMatch` says so.
- A server's answer to a listing is any of the lists its program may give, chosen when
  it answers. Spawning a child and its handshake are one stage, as nothing reads the
  client between them. A slot of `child` is reused once nothing refers to it.
- At most one refresh is in flight: the re-scan interval (minutes) is longer than the
  MCP client's request timeout. A re-scan interval configured below that timeout is
  outside the model.
- No handler watches for a child's exit; the model has no step that would tell the
  manager, only failed requests.
- A public name is the pair of prefix and tool. That the code joins the two with a `/`
  makes further names alike (a bare tool `a/b` and the tool `b` of a server `a`), which the
  model does not show. Environment expansion, the
  authentication probe and status texts are left out.
- Text detectors are given by the severities they find on a definition or a call's
  arguments; what a regular expression matches is not modelled.
- `Metering`: a chat message has a row without a cost, allowed or denied, and nothing else:
  why the manager takes or rejects it is in `ChatManager`. A row of it that cannot be
  written is not told from a message that did not come. The record of the tracker and the row
  of the log stand for the call they were made for, with one time for both (they are made in
  one turn of the event loop). A call's price and the size of its result are constants of the instance. Approvals, which
  separate the check from the count, are in `Proxy`. One process at a time uses the
  database: of two proxies on one, each would enforce the limits on its own calls only,
  while the pages show both.
- `IpcServer`: a line on a socket is a message, and each connection keeps its order. A
  second proxy of the same user has no approvals of its own. None of the clients modelled
  acts on `approval_resolved`.
- `Surfaces`: a browser shows one page. A request of the browser that is lost leaves the
  cards as they were.
- `ChatPanel`: the manager is reduced to what a subscriber can tell apart. The pauses
  before the browser opens a broken stream again are of any length.
- `Setup`: an uninstall, and a server added to the assistant by other means, happen while
  no command is running; the commands of two terminals do interleave. Backups have names
  of their own, which bear the second. A write that is cut short leaves the
  assistant's file unreadable, and `config.yaml` with any part of its entries.
- `Configuration`: a file is its names of packs and its rules; what YAML parsing refuses
  is `NoPack`. Defaults that bear on no decision are left out. `Doctor`: what a check
  measures with is given by what it can find.

## 3. Runs

All runs take seconds to two minutes with two workers. `CHECK_DEADLOCK FALSE` throughout: the
system comes to rest when every call, tap or message of the instance is used up.

| Run | Instance | Shows |
|---|---|---|
| `proxy` (passes) | two calls, each any of an allowed tool, a held one, a held one with destructive arguments; one call a minute; `timeout_action: allow`; threat verdicts in warn and block mode; chat runs coming and going; a call window of one tick and overrides of two, so that an override outlives the window it was counted in, clock to 2 | every layer consents; boundaries and lockdown; final decisions; overshoot only by held calls; scoped overrides; `GateSpec`; held calls settle |
| `proxy_lockdown` (violation) | the same | a held call is cleared under lockdown |
| `proxy_host_floor` (violation) | calls of the held tool with arguments the host allows and denies | an override clears what the host denies |
| `proxy_call_limit` (violation) | one dollar a day, `on_exceed: require_approval`, one call a minute | a call past the call limit is approvable |
| `telegram` (passes) | one approval, three taps (owner's or not, allow or deny) | the channel implements the queue; the screen tells the truth; no prompt lives for ever; before it, the assumptions of `PolicyChecks` |
| `telegram_late_tap` (violation) | the same | a late prompt turns to "Allowed" although the call was denied |
| `chat` (passes) | two phone messages, one dashboard message, two sockets, queue depth 1, limit 1, one foreign run at a time | serial runs, right channel, no stranded bridge, senders told what became of their messages, all accepted messages settled |
| `chat_floor` (violation) | the same | a run from the phone outlives its connection and runs without the floor |
| `supply` (passes) | three servers that share a tool name until one drops it and changes its other tool; two without a configured prefix, the third with one that is the first one's name; five client objects; two faults among deaths, failed starts, failed calls, failed writes and kills | catalogues, public names, drift across restarts, no leak beyond the known ones, a dead server comes back |
| `supply_sticky` (violation) | a poisoned definition that gives way to a plain one; no fault | a re-scan replaces the flags of the session |
| `metering` (passes) | two calls of each of two agents and a chat message over four ticks: a month's end, two midnights; one call an hour, for one agent one dollar a day, two a month; pruning at every second insert; hydration of at most two rows; two faults among kills, failed writes and failed hydrations | nothing forwarded unlogged; counters and limits survive restarts; the spend page exceeds the enforcer's counters by the chat rows alone, which no agent is charged for after a restart; before it, that the other pages' figures add up |
| `operator` (passes) | nine desks (below), two approvals, two one-shot answers, overlapping polls, a second proxy, four chat events, two terminals setting up, one lost request or broken stream, one kill | acknowledgements are true; followers miss nothing; settled cards go; the chat panel loses nothing said and follows the run; no server is lost; before it, the assumptions of `Doctor` |

Why the bounds are enough: two calls are what it takes to hold one while another is
judged, granted, expired or counted; a third adds no actor that the second is not
already. A clock of 2 ticks sees an override live and expired, and a window pass.
Three taps are a first, a duplicate and a stale or forged one. Two sockets are a
connection and its successor; three messages fill a queue of one behind a run.
Five client objects are the servers' first ones and two overlapping respawns, of one
server or of two; a third server is what it takes for a collision of bare names to meet a
configured prefix; two faults kill a server and then a respawn of it, or kill the
proxy in a scan and once more. In `metering` each of the three limits is the one that
binds in some behaviour, pruning happens before and after the turn of the month, and
two faults allow two restarts, or one and a failed write before or after it; the chat
message comes before or after either, and its row may displace a call's from a hydration.
In `operator` the parts that share no state are looked at apart, as what one does cannot
change what another sees: each of the two followers with two approvals while proxies come
and go, since the order of two is what a backlog or a broadcast could get wrong; two
one-shot answers of one approval, racing each other, a typed one and the timer, with and
without the socket being taken over; two overlapping polls; the chat with four events
(enough for a run to begin and end around either fetch, with a break of the stream) and
with an approval and a poll that outlives its run; and setup with one server name, which is
what collides, two terminals and two backups.

`CallCountsSurvive`, `TokenCountsSurvive` and `LimitsHoldAcrossRestarts` name their exceptions exactly. One
deserves a note: pruning and hydration keep what began *this month*, so a rolling hour
that contains the first midnight of a month loses its earlier part when either happens in
it, and an agent may get up to its hourly limit again (`cost/tracker.ts:49`,
`cli/commands/start.ts:70`).

`NoOtherStrays` likewise: a child process is leaked when an overlapping respawn displaces
its client, or when its first listing fails after the handshake, at boot or in a respawn
(`downstream/client.ts:106-109`), and in no other way. `NamesAreUnique`, the second half of
`CatalogueSurvives`, excepts two servers to which the configuration gives one prefix, by one
namespace twice or by one that is another server's name: nothing rejects such a file, and
`findTool` answers with the server that was indexed last.

`SpendPageAgrees` excepts counters that could not be rebuilt and that first hour of a month,
where the page counts what the enforcer forgot. It adds to the enforcer's figures the rows
of the agent type `chat`, which `cli/commands/start.ts:180` writes into the same table for
every chat message: the page counts those that were taken, although `web:lib/audit.ts:174`
speaks of "allowed calls", the counters only the ones a restart has read back, under an
agent type that is no agent's. An agent named `chat` is therefore excepted from
`CallCountsSurvive`: a restart adds the messages to its calls. `AckIsTruthful` says nothing
of an asker who gave up waiting: the terminal then prints "Server rejected respond:
timeout", although the answer may have counted. `SaidStays` and `PanelFollowsRun` name what
the chat panel does not hold: the notice of a failed run sets no guard and may be replaced
by a history that arrives after it; a status that passes while the stream is broken is not
made up for (`ChatPanel.tsx` seeds once); and an event that is both in the history and on
the stream may be shown twice. `FollowersMissNothing` speaks of clients connected to *this*
proxy: a second proxy of the same user unlinks a socket file that is in use, and the first
one's exit unlinks whatever the path then leads to (`ipc/server.ts:48`, `:93`), after which
new clients reach nobody. `ServersSurvive` allows `config.yaml` to be cut short by a kill,
although `downstream-add/installer.ts:24` calls its write atomic: it rewrites the file in
place.

### Assumptions TLC evaluates

`PolicyChecks` and `Doctor` state facts about pure operators as assumptions over all small
inputs: lists of up to three of nine rules, pairs of pack directories over two names, logs
of three rows, and some ninety thousand machines. Some promise what the code is for, others
show where a reader of it would be misled:

- `HostIsAFloor`, `PhoneHasAFloor`, `PresetsHold`, `ListedIsImported`,
  `LearnedIsConservative`, `SabotageIsFlagged`: what their comments say.
- `UnreachableNeverFires` holds of rules behind a wildcard without arguments;
  `NarrowWildcardIsTakenForAll`: the audit reports rules behind a narrowed one too, which
  do fire (`policy/audit.ts:57`). Likewise `OverriddenIsTheHostsDecision` and `OverriddenMayAllow` for
  rules the audit says the host overrides, and `OrphanFires`: a rule for a server that is not
  configured is said to "never fire", but the matcher does not read the field.
- `PackRulesWin`: imported rules come before the file's own in a first-match list, although
  `policy/packs.ts` and `policy/types.ts` say that the user's take precedence. So a preset
  applied to a file with packs leaves them in front of it, `deny-all` included.
- `BrokenFileHidesPack`: a file of the operator's that does not parse hides the shipped pack
  of its name from imports, while the list still shows it (`policy/packs.ts:48`).
- `VariantForgetsBudget` (`identity/registry.ts:71`), `LearnedMixesAgents`: a variant made
  without amounts has none of its base's; rules learned from all agents allow one what
  another did (`learn/analyzer.ts:144`).
- `HungProxyHasNoQueue`, `DefaultTimeoutIsNeverStale`, `RepairComesTooLate`,
  `MisspelledOnlyPasses`: doctor finds the queue of a hung proxy empty; no approval lives
  long enough under the default timeout for its warning; `--fix` repairs the native module
  after the database was found broken by it; `--only` with a wrong name passes.
- `PagesAddUp`, `BarsHoldTheDay` (in `MCMetering`): the dashboard's figures count every row
  once; no decision is ever pending in them, as the proxy writes none.

### Fairness

- `Proxy`: approval timers fire and a settled promise resumes its waiter
  (`WF` on `TimeOut` and `Resume`). No answer, no call, no downstream reply is assumed.
- `TelegramChannel`: approval timers fire. Nothing is assumed of Telegram or the owner.
- `ChatManager`: frames that arrived are handled; the gateway answers what it has
  received and its runs end. Without the last, a message waits for ever: the code
  has no run timeout. Reconnection is not assumed: a lost connection settles messages.
- `Supply`: the re-scan timer ticks and its requests are answered or time out (the MCP
  client's request timeout), a backoff elapses, and a respawn completes or fails (the
  child is local and the handshake has the same timeout). Failures themselves are
  bounded by `MaxFaults`: a server that fails for ever stays down.
- `Metering`: none; its properties are safety properties.
- `Operator`: the page's timer ticks and each request for the list is answered or times out,
  per poll. Nothing is assumed of the operator, the proxy or the stream.

## 4. Proofs

`tlapm` checks every leaf. Every safety property of a passing run, invariant, action
property or refinement, is a theorem; what TLC shows on a small instance holds for all
values of the constants. The same goes for most of the assumptions on rule lists that
`PolicyChecks` evaluates and for `PagesAddUp` of `MCMetering`: the theorems have their names.

### What is assumed

The theorems rest on the assumptions that the modules name, which TLC evaluates on every
instance. Most give constants their types (`NoDecision` is no decision, rule lists are
well-formed, prices and durations are naturals). The others state what the code settles:

- `ProxyAssumption`: a threat decision bears the tier `built_in` (`threat/engine.ts:80-86`).
- `MeteringAssumption`: calls and chat messages are finitely many, some month has begun at the first tick, and
  a budget gives each limit a natural or `Unset`. So dollar amounts and prices are whole
  units here, in the proofs as in the runs.
- `DownstreamAssumption`: finitely many servers with room for the first client of each.
  Configured prefixes are any.
- `DesksAssumption`: a browser shows one page, approvals or chat.

Three theorems about behaviours have a hypothesis of their own. `ImplementsGate`: an
approval queue is attached (without one a call that needs approval is refused in the step
that rules on it, which the gate does not offer). `LimitHolds`: the limit is set.
`CatalogueOutlivesFailures`: no server offers an empty list (the index has no entry of a
server without tools, so it cannot show that it still knows it); `NamesHaveOneOwner` does
without. The theorems about rules are for well-formed rules (`RuleOK`) and, where an override
would decide, for tools without one; those about a finding of the audit hold for the shape of
rule that they name, since `PolicyChecks` has a call for which the finding is wrong otherwise
(`OverriddenMayAllow`, `NarrowWildcardIsTakenForAll`).

### How the proofs go

An inductive invariant strengthens the properties in parts with names of their own, a lemma
for each action, or group of actions, shows which parts it can disturb, and the theorems
follow.

- `RuleProofs`. `StricterIsStrictest`: `stricter` returns the more restrictive of its
  arguments. It is a maximum in an order of actions and enforcements (`OutranksIsAnOrder`), so that a
  merge never turns a host's decision into anything but itself or a strictly stricter one
  (`MergeKeepsHost`). A list decides by its least
  matching position (`FirstHitDecides`, `NoHitNoDecision`), so what stands first decides
  first: `PackRulesWin`, along the unfolding of the concatenated packs, and
  `UnreachableNeverFires`, as no position behind the wildcard is the least. Below the
  boundaries, and without an override, the engine is no more lenient than the host's or the
  user's list (`NoTierIsLaxer`); hence `HostIsAFloor`, `OverriddenHasNoEffect` and the
  presets' promises, `DenyAllDenies`, `CautiousAsks` and `ObserveAllows`.
  `ListedIsImported`: the directory a listed pack is taken from is the last that has its
  name, the one `getPack` chooses.
- `ProxyProofs`. `MergedIsStrictest` follows, whatever the order of the layers, and
  `HostPolicyIsFloor`: where the host's file rules, neither the user's rules nor the budget,
  the threat check or the chat floor replace what it says by something as strict. Lemma
  `Invariance`: the safety properties alone are not inductive. That no objection is lost
  needs to know, of a held call, that no recorded layer denied it, that it is queued or
  answered but not both, and that a new call has no answer; that the phone never
  approves needs which choices each source can make; that boundaries hold needs that a
  boundary call was denied by a layer. From `IInv` follow `TypeCorrect`,
  `LayersConsent`, `PhoneNeedsIpc`, `BoundaryHolds`, `DecisionsAreFinal`, `LimitHolds`,
  and `LockdownHolds`: a call that comes in under lockdown is refused.
  `SessionGrantsAreScoped` adds `Scope` (every override stems from an `allow_session`
  answer over IPC, which neither a tap nor a timeout can give) and that of all layers
  and tiers only the override lookup answers from the session tier
  (`SessionTierIsPolicy`). `ImplementsGate`, the refinement: every step of the
  dispatcher is a step of `ToolGate` or a stutter.
- `MeteringProofs`. The log shows as allowed exactly the calls let through (`Logged`):
  `LogIsComplete`. While nothing was lost, the memory holds the calls and the
  metered results of this month (`Recorded`, `Metered`): pruning keeps them, a hydration that
  was not cut reads all of them, and the start of the month only moves forward. So
  `CountsSurviveRestarts` and `TokensSurviveRestarts`. `LimitsOutliveRestarts` needs that
  no recorded call lies in the future (`Timely`) and that each limit held when its
  window was last added to: the check of a new call reads a memory that covers the window, and
  no earlier window changes. `PageAgreesWithEnforcer` matches the rows the page reads one to
  one with the calls in memory and sums both by agent; the rows of chat messages are a
  class of their own on either side. `PagesAddUp`, for any log: the classes
  that a page counts are disjoint, and they cover its rows unless more agents called
  than it has lines for.
- `SupplyProofs`. For the manager: clients that respawns and requests refer to are not reused by other
  servers, a fresh client is nobody's until installed, what is served from has come up once,
  and the process a respawn will stop is the one served or already a stray
  (`OnlyTheseStrays`); the index is always one that was rebuilt: from lists with a tool
  (`CatalogueOutlivesFailures`), with a prefix for each of two servers that share one, which
  differ unless both come from the configuration or a configured one is the other's name
  (`NamesHaveOneOwner`). For the threat engine: a tool without
  flags has been seen with the recorded definition only (`DriftIsAlwaysCaught`), and what was
  not reported is on file (`NoDriftIsSilent`).
- `ChatProofs`. One inductive invariant for manager, bridge and wire: a running message was sent on the
  current socket and is the only one; the reply awaited is to the message on the wire; a run's
  frames are its reply and then its closing event. From it `BridgeIsNeverStranded`,
  `RunsAreSerialised`, `RegimeFollowsRun`, `SendersAreToldTheTruth` and
  `PhoneHearsItsOwn`, for any number of messages, sockets and foreign runs.
- `TelegramProofs`. `ScreenIsTruthful` covers the edits under way and the tap being
  acknowledged besides the screen. `ChannelImplementsQueue`: a tap is an answer the queue allows a tap to
  give, or a stutter. Both for any number of approvals; the run has one.
- `OperatorProofs`. The parts share little state and have an invariant each. `NoServerIsLost`: a
  command's remaining writes are sound with respect to what the files hold now, whatever the
  other terminal wrote. `AcksAreTruthful`: an answer on the wire is already true.
  `NothingIsMissed`: a pending approval is at exactly one place of the path to the
  follower. `PanelSeesTheRun`: the last status on the wire is
  the manager's state; without one, what was received or read is. `SaidIsNeverLost`: before
  the history is shown and before an event of the conversation was received, only notices
  of failed runs are on the screen. `CardsOnlyInARun`, `OperatorIsTyped`.
- `Numbers`. Folds of the community modules are unfolded to the equation of their
  recursive function; that such a function exists and what it returns is shown by
  `SubsetInduction`, a least counterexample among the subsets of a finite set. So the sums
  in `Metering` and `AuditViews` do not depend on the order of their terms, lose a term's
  weight with the term (`TotalAdds`) and can be taken class by class (`TotalOfClasses`); the
  bubbles folded from a history are bubbles (`FoldTypes`).

### Model-checked only

- Liveness (`HeldCallSettles`, `PromptIsConsumed`, `AcceptedIsSettled`, `DeadServerComesBack`,
  `ResolvedCardGoes`): TLAPS does not reach liveness under fairness.
- Of the assumptions on pure operators, for the inputs they enumerate: what learn proposes
  (`LearnedIsConservative`: `propose` is a `SelectSeq`, which `tlapm` does not
  unfold), the remaining ones of `PolicyChecks`, which are
  counterexamples or evaluate one small table, `BarsHoldTheDay` and `Doctor`'s.
- The six violations of section 5, which are traces.

## 5. Findings

Six places where the code does not do what a document or comment of the repository
says; each is a violation run and is quoted in `PROJECT.json`: a held call is cleared
under lockdown; session overrides pass the host policy; a dollar overrun softens a call
limit; a late prompt can claim "Allowed"; the Telegram floor forgets a run when the
connection drops; a re-scan with findings replaces the flags it should add to.

## 6. Plan

Done: the dispatcher and its layers, the Telegram channel, the chat, the supply of tools,
the metering, the operator's terminals and pages, setup under crashes, configuration and
learning, doctor; the proofs of all safety properties of the runs, and those of the
assumptions on rule lists and pages. Left: (1) the catalogue for servers with empty lists,
once the index tells them from unknown ones; (2) `LearnedIsConservative` for logs of any
length, with the filter as a fold and a lemma that a finite total order can be sorted.

### Not modelled

- Registry lookups and the OAuth dialogue of `downstream-add`, and what commands and pages
  print: input and output without a state of their own.
- The owner's commands to the Telegram bot: `/lockdown` and `/resume` do what the IPC requests
  in `Proxy` do; `/status` and `/help` print.
- `alert_at` of the budget: it writes to stderr. `approval.require_for`: nothing in the core reads it.
- YAML and JSON parsing, regular expressions of the detectors, prompt wording.
