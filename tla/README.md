# A verification project for sandbox-dev

TLA+ modules, TLC runs and TLAPS proofs about this repository: the broker that
leases sandboxes, the plugin that uses them, the runtime and the Daytona client
that provide them, and the commands that reach files in them. What do their
handlers do to Redis, Kafka, Docker and each other when they interleave, fail
and restart, and which of their promises survive that?

## 1. The system

Agents run on a client machine; their tools run in Linux sandboxes on a server.

| Part | State it keeps | Operations | Talks to |
|---|---|---|---|
| **OpenCode plugin** `packages/opencode-plugin` | a map session → sandbox handle, in memory | `getHandle` (acquire, poll, start), tool calls, `session.idle` and `session.deleted` events | broker over HTTP, runtime over HTTP |
| **Broker service** `packages/broker/src/api` | none of its own: local variables of handlers | `acquire`, `release`, `heartbeat`, `poll`, `sweepExpiredLeases`, `processQueue`, `fulfillTicket`, exec and resize | Redis, Kafka, the provider |
| **Lease manager** `state/lease-manager.ts` | Redis: slot counter, leases, session/user/pool → sandbox mappings, tickets, the waiting list | single Redis commands and three Lua scripts | Redis |
| **Queue service** `queue/kafka.ts` | Kafka: one topic with one partition, a consumer group offset | publish, `eachMessage` | Kafka, the broker service |
| **Broker process** `index.ts`, `config.ts` | timers, configuration | start, sweep timer, shut down | all of the above |
| **Providers** `providers/*` | none | create, get, start, stop, delete, exec, resize of a sandbox | runtime or Daytona |
| **Sandbox runtime** `packages/sandbox-runtime` | Docker containers, a cache of records in memory | the same operations on containers, files | Docker, the AIO HTTP server in a container |
| **Shared helpers** `packages/shared` | none (pure) | Redis keys, work directories, account hash, process limits, quoting | |
| AIO shim, images, scripts, deployment | | a shell behind HTTP, test drivers, compose files | |

An `acquire` takes one of `MAX_SANDBOX_CONCURRENCY` slots and creates or starts
a sandbox, or, when no slot is free, becomes a *ticket* that is put in a Redis
list **and** published to Kafka. A `release` stops or deletes the sandbox of the
last session that leases it, gives the slot back and drains the list. The
Kafka consumer fulfils the same tickets on its own. A timer releases leases
whose heartbeat is too old.

**What is hard here.** There is no lock. Node runs one handler at a time but
every `await` lets the others in, so each handler is a sequence of single
Redis, Kafka and provider calls with everybody else's in between; only the
three Lua scripts are atomic. The same ticket is known to a list, a topic and a
record; the same sandbox to a lease and to up to two mappings; a slot to a
counter that says nothing of who holds it. Any call may fail half way through a
handler that does not undo what it did, and a restart drops all handlers while
Redis keeps what they had written. PROJECT.json lists each such hazard at its
line.

**What makes each part correct.**

* Broker, leases and slots: the counter stays within its bounds; every lease is
  covered by a slot; no more sandboxes are under lease than the cap; slots are
  given back exactly once.
* Broker, sandboxes: a sandbox is shared only by sessions whose mode shares it;
  no mapping names a deleted sandbox; nothing is stopped under a lease; what
  runs is what is leased.
* Queue: no waiting ticket is lost, none is fulfilled twice at a time, none
  waits beside a free slot.
* Sweep: stale leases go, renewed ones stay.
* Plugin: one sandbox per session whatever tool calls run in parallel; no tool
  call in a sandbox its session does not lease; no lease without a session that
  wants it.
* Runtime: an answer says what Docker has; a command reaches the sandbox it
  names; a failed create leaves no container; a confirmed kill is final.
* Daytona: a resize takes effect whatever the sandbox's state and direction.
* Tools and helpers: a session finds with every tool what it wrote with any
  other, in a directory no other session writes to, under its user's account.

## 2. The modules

| Module | What it is |
|---|---|
| `Broker` | the broker: state, one action per `await`, `Spec`, `FairSpec` |
| `BrokerProps` | types, safety, action and liveness properties; the refinement `Pool` |
| `LeasePool` | abstract specification: a pool that never holds more than `Cap` leases |
| `BrokerInv` | the inductive invariants of the proofs about the broker |
| `BrokerProofs` | TLAPS: `IInv` (types, what a handler has at each label, the slot counter) |
| `BrokerIsolation` | TLAPS: `OInv`, whose sandbox is whose; `DInv`, no mapping to a deleted sandbox is left behind |
| `BrokerSlots` | TLAPS: `SInv`, every lease has a slot; the refinement of `LeasePool`; `TInv`, every ticket that waits for a slot is known to somebody; `KInv`, a ticket stays its session's |
| `Plugin` | the plugin on top of `Broker` (`EXTENDS`): a plugin call is the client of the broker's handler of the same name |
| `PluginProps` | what both promise together |
| `PluginInv`, `PluginProofs` | TLAPS: the plugin's invariants; its types, and that it is the client the slot accounting needs |
| `PluginTools` | TLAPS: the sandboxes of tool calls, whose they are, how many run, and that their session has a lease |
| `DockerRuntime` | the runtime: one action per answer of Docker or of an AIO server |
| `RuntimeProps` | what it promises; the refinement `Life` |
| `RuntimeInv`, `RuntimeProofs` | TLAPS: the runtime's inductive invariant, every property of the run `runtime` |
| `Daytona`, `DaytonaProps` | the Daytona provider and handle: one action per SDK call; the same refinement |
| `SandboxLife` | abstract specification: the life of a sandbox as a provider's clients see it |
| `DaytonaProofs` | TLAPS: every property of the run `daytona` |
| `Hands`, `HandsProps` | tools, quoting, isolation and paths, run by a model of the shell |
| `MCBroker`, `MCPlugin`, `MCRuntime`, `MCDaytona`, `MCHands` | instances for TLC |

How they compose: `Plugin` and `Broker` are one specification (the plugin's
steps and the broker's interleave over Redis, Kafka and the sandboxes).
`SandboxLife` is the seam below them: `Broker` uses sandboxes that appear, start,
stop and are deleted for good, and both `DockerRuntime` and `Daytona` are shown
to provide that. `Hands` is about one sandbox once it is leased.

### How `Broker` corresponds to the code

*State.* `activeCount`, `leases`, `bound`, `tickets`, `queue` are the Redis keys
of `REDIS_KEYS` (`bound` holds the three mappings: its domain is sessions, users
and pools). `topic` and `offset` are the Kafka log and the group's offset.
`sandbox` is what the provider has, `owner` a history variable: the key a
sandbox was created for, which the code writes in its labels. A *process* is an
HTTP request being served (`Workers`), a callback of the sweep timer
(`Sweepers`) or the consumer; `pc` says at which `await` it is and `job` holds
its local variables.

*Actions.* The name of an action is the handler and the call it is about to
make: `Acq*` acquire, `Enq*` enqueue, `Cl*` createLease, `Rel*` release,
`Pq*` processQueue, `Ft*` fulfillTicket, `Hb*` heartbeat, `Sw*` the sweep.
createLease is one piece of code with two callers: `LeaseMade` and `LeaseFailed`
return to the caller, recognised by whether the job has a ticket. release is
called by a client and by the sweep: `Released` replies or goes on with the
sweep's next lease. fulfillTicket is called by processQueue and by the consumer
(`Fulfilled`, `FulfilThrows`): when it throws, processQueue swallows the error
and the consumer has the message delivered again.

*Abstractions.*
* A session is a `(userId, sessionId)` pair; `UserOf` and `PoolOf` give its user
  and pool, `ModesOf` the modes its requests may name.
* The arrival of a request is merged with its first `getLease`.
* `provider.get` and `provider.start` are one step: nothing happens between them
  that a later start would not meet as well, since a deleted sandbox never comes
  back. The runtime's own awaits are in `DockerRuntime`.
* A lease keeps its mode, its sandbox and whether its heartbeat is younger than
  `LEASE_TTL_MS`. `Expire` makes it too old. A sweep compares with the clock it
  read before `KEYS`, so a lease that gets too old before that sweep's `MGET` is
  for the next one: `Expire` waits for it.
* A provider call may fail before or after it took effect; a create that fails
  may leave a sandbox running. A call on a deleted sandbox fails; a delete that
  overlaps another one may also succeed, and so may one that failed, since the
  runtime's `kill` takes some errors for a missing container (`RelKill`).
* A publish that throws may have reached Kafka (`EnqPublish`). After a restart
  Kafka delivers again what was finished and not committed; a consumer group that
  never committed anything starts at the end of the topic instead, because
  `subscribe` does not ask for the beginning (`Crash`).
* Fresh ids (`uuid`) are any unused one; unused ids differ in nothing else.
* `poll` and `status` only read. `resize` changes nothing the properties
  mention. Resources, work directories and isolation records are left out.
* Redis commands do not fail: ioredis retries for ever
  (`maxRetriesPerRequest: null`). A reply lost after the command ran, which
  would run it twice, is not modelled.

### How `Plugin` corresponds to the code

`handle` is the map `sessions` of `BrokerSessionManager`. A worker `w` runs a
plugin call (`step[w]`, `seat[w]`) and at most one request at the broker
(`pc[w]`, `job[w]` of `Broker`); a call that is answered goes on in the same step
(`Answered`). `CallAgain`, `Reopen` and `Beat` are `getHandle` for a session in
the map, `CallFirst`, `PollReady`, `Connect`, `Prepare` and `Keep` for a new one,
`Run` the tool's command or two, `Event` the two session events. Polls that find
a ticket queued change nothing; `PollTimeout` may come at any time before it is
ready. `Overlap` says which calls of one session may overlap: none in the runs
that pass. Three history variables say what the properties except: `failed` (the
last release was answered with an error or not at all: the map may be behind
Redis), `abandoned` (a call ended before it had a handle, leaving a ticket or a
lease behind; only `LeaseWanted` excepts those) and `regranted` (a lease of the
session was replaced by one on another sandbox: the session still has a lease,
but perhaps not on the sandbox its tools are in).

### How `DockerRuntime` corresponds to the code

A handler that waits is at the call it made; the daemon's step leaves an answer
in `job[p].ans`, the handler's next step reads it. So an answer can be old when
it is read, and answers arrive in any order. `then` is what the caller of a
method does when it returns (`exec` calls `get`, which calls `resolve`). The record
is one shared object per sandbox, as in the code, where handlers keep a reference
to the object in the Map; only when two lookups both miss the Map are there two
objects, of which the model keeps the second. Addresses are given to containers
that run and are free again when they stop. `Restart` empties the memory and may
find another `RUNTIME_BACKEND`; the starts, stops and removals that were under
way stay with the daemon (`late`), which carries them out or refuses them at any
later time (`Finish`). `kill` takes an error for a missing container when its
text has "No such container" or "404" in it. The first is the answer `gone`. The
second is a failed call too when the text quotes the container's id, 64 hex
digits: `Has404` are the ids of such containers, whose calls may fail with
`error404`. A file call may fail although its sandbox is well: `cat` or `mkdir`
of the path ends with a code other than 0, or the AIO server refuses it (`Ran`).
A request that never ended would be a deadlock:
only when no handler is at work may the model wait (`AwaitCalls`).

### How `Daytona` corresponds to the code

One sandbox and several requests. `job[p].copy` is the local SDK object, which a
request decides on; `Call` performs an SDK call, refuses it, or fails before or
after its effect. Amounts are in half units, so rounding happens. CPU, memory and
disk are sent in every create and resize, the disk as 3 GiB when the request
names none (`Wanted`); `resize` looks for a decrease of CPU and memory only
(`Less`). What Daytona answers to a stop of a stopped sandbox, and to a resize to
another disk (`OtherDisk`), is not in the code: both answers are possible. That
CPU and memory are not taken from a started sandbox is what `resize` relies on.
A download or upload may fail for its path (`handle_file`).

### How `Hands` corresponds to the code

A text is a sequence of tokens in which quote, backslash, blank and `&&` are
tokens of their own, so `shellQuote` can be modelled by what it does: `Sh` takes
a text apart again, layer by layer (`limits`, `sudo`, `cd`), and returns what the
command did, as whom, to which file. `SetUp` are the commands that make a
session's directories (broker, then plugin), the tools are actions. `Hash` is the
account hash with its width as a constant (32 bits in the code). A command with
a quote that is not closed fails, as it does in a shell. grep and ls put the path
into the command without quotes: of a name with a quote or a blank the shell
makes another word or a syntax error, and that is what the model does too.
`ReadsOwnWrites` and `CommandsWork` leave out just those calls (`Mistaken`);
read, write, edit and bash quote the name and are held to both.
Assumptions: the account the container runs as may enter the accounts' homes (a
matter of the image), and the broker's `PROJECT_BASE_PATH` is the runtime's work
directory when a sandbox is made (their defaults agree).

*Definitions marked `mutant`* are plausible bugs (a dropped guard, a missing
push, a counter given back twice). No action uses them; each shows that a
property notices.

## 3. The runs

| Run | Instance | Shows |
|---|---|---|
| `plugin` | 2 exclusive sessions, cap 1, 4 tool calls and events, not overlapping within a session, a provider, publish or crash fault | `PluginTypeOK`, `SlotsCover`, `ToolUnderLease`, `MapIsLeased`, `RunningCap`, `ToolsIsolated`, `IsLeasePool` |
| `two_slots` | 3 exclusive sessions, cap 2, `stop_keep`, 3 tool calls or events at a time and 5 in all, not overlapping within a session, no faults | `ToolUnderLease`, `MapIsLeased` |
| `races` | 3 sessions of one user, two share, one exclusive; cap 1; 4 overlapping acquire, release and exec calls, a provider, publish or crash fault | `TypeOK`, `SlotBound`, `OwnerIsolation`, `TicketIsolation`, `OInv`, `NoLostTicket` |
| `sequential_shared` | the plugin with 3 sessions, 2 users, 9 tool calls and events one at a time, policy `delete`, both reasons | `ToolUnderLease`, `MapIsLeased`, `SlotsExact`, `RunningExact`, `OneSandboxPerUser`, `NoStopUnderLease` |
| `fair` | `FairSpec`, an exclusive session and one of a pool, cap 1, 3 calls, sweep, policy `delete` | `NoDeadBinding`, `HandlersEnd`, `StaleReclaimed` |
| `runtime` | 2 sandboxes, one with 404 in its id, 2 addresses, 2 requests at a time, 4 in all, both backends, one fault (a Docker call, a container's end, a restart) | `TypeOK`, `AioKept`, `RunsInOwn`, `AnswersTrue`, `NoSpuriousError`, `FailedCreateCleans`, `KeepsPromises` |
| `daytona` | 2 requests at a time, 4 in all, 18 sizes to ask for, one fault | `TypeOK`, `SizeTakes`, `LeavesState`, `NoSpuriousError`, `KeepsPromises` |
| `hands` | 3 sessions, 2 users with one account, 3 modes, 2 backends, a name with `./` and one with a quote, 2 writes, an edit in flight | `TypeOK`, `ReadsOwnWrites`, `CommandsWork`, `OwnAccount` |

Bounds of the broker: `MaxRequests` client calls (`MaxCalls` plugin calls),
`MaxFaults` faults, the number of workers and sweepers, `SandboxIds` and
`TicketIds`; the ids are never used up within the calls and faults allowed,
except in `sequential_shared`, whose cap is never reached. Two workers, a sweeper
and the consumer give every pair of handlers a chance to interleave at every
await, and the races found need two of them; a cap of 1 is reached by one lease,
so queueing, requeueing, draining and a refused fulfilment all happen within
three to five calls; a fault breaks off each handler at each call. In `two_slots`
the cap is the default one (`config.ts:104`): 2 leases, a queued request and the
two releases that let two handlers serve its ticket at once are 5 calls of 3
workers, and without the exception for replaced leases TLC finds both properties
violated within them: the case happens. In `runtime`
four requests are a create for each sandbox and an overlapping pair, or a create
and three requests on one; a second address-holder is what an address taken over
needs. In `daytona` a create, a request and an overlapping pair fit; the amounts
are zero, a fraction and a whole number of units, and the disk is named (less
than a unit) or not. In `hands` the hash is 16 bits wide with 4 accounts: it wraps around on
three characters and two users collide, as 32 bits and 32 accounts do on longer
names; no name there has a blank, which grep and ls split like a name with a
quote, since a third name takes TLC past the time it is given. The proofs of
section 5 have no bounds.

A run stops in a state where nothing runs and nothing is left to consume by a
self-loop that only exists there; deadlock is checked everywhere, so a handler
that could not go on would be reported.

*Fairness* (`FairSpec`): weak fairness of each handler's next step (the event
loop resumes a handler whose call was answered, and answers and errors both
count as steps), of the consumer (it keeps polling) and of the sweep timer
(`setInterval`). No call of a client, no fault and no expiry is fair. The plugin,
the runtime and Daytona have no fairness: nothing in them retries by itself but
the bounded poll.

*Symmetry* is used in `plugin`, `two_slots`, `races`, `runtime` and
`daytona`, which check no liveness: workers, handlers and addresses differ in
nothing but the name, and so do sessions of one user that ask for the same. The
containers of `runtime` differ in their ids and are not permuted.

### Where the code does not keep what is said of it

Each of these runs checks one property and TLC finds it violated; PROJECT.json
has the quotations.

| Run | What happens |
|---|---|
| `failed_ticket_lost` | a ticket taken off the list whose sandbox could not be made is `queued` and in no queue |
| `ghost_lease` | requeueing writes the ticket before and again after another handler fulfilled it: once its session is idle it is served a second time, to nobody |
| `tool_over_cap` | a tool call during its session's release starts the sandbox again after the slot went to somebody else |
| `parallel_tools_split` | two tool calls of a new session each acquire a sandbox |

More paths were met on the way and have no run of their own; TLC finds each once
the condition that excludes it is lifted. They are why some runs limit what
overlaps or fails, and why some properties name exceptions:

* with a second free slot the requeue of `ghost_lease` has another end: two
  handlers fulfil the ticket, the session's tools work in the first sandbox and
  its lease names the second. This needs no fault, and no overlap within a
  session, only the default cap of two; `ToolUnderLease` and `MapIsLeased`
  therefore say "on that sandbox" only of sessions whose lease was not replaced;
* a removal that fails with the container's id in the message is taken for a
  missing container when that id has 404 in it: `kill` confirms the delete and
  the container is there, the exception that `KeepsPromises` makes;
* attaching to a user's *stopped* sandbox takes no slot, no race needed, so the
  cap is passed with `stop_keep` in the shared modes;
* a session that changes from `user_shared` to `exclusive` keeps the shared
  sandbox;
* policy `pool` frees the slot and leaves the sandbox running;
* overlapping first acquires of a user make two sandboxes;
* after the sweep reclaimed a lease the session's next command starts the sandbox
  again, without a slot;
* a runtime restarted as AIO sends the commands of e2b sandboxes to an AIO server
  they do not have (the AIO design rules mixed backends out in its first version);
* a lease renewed while a sweep is at work on an earlier one is reclaimed all
  the same, and a heartbeat that overlaps a release brings the lease back;
* a ticket pushed after the slot was freed waits with nobody to drain the list;
* a failing stop or delete in a release keeps the slot for ever;
* two releases of one session, or a release and a sweep, give its slot back twice;
* a stop that overlaps a kill in the runtime makes the kill fail, the container
  stopped and present;
* a resize stops the sandbox before Daytona refuses the disk it asks for.

`SlotsCover`, `IsLeasePool`, `ToolUnderLease` and `MapIsLeased` therefore hold for
plugins whose calls on one session do not overlap, without a sweep. `SlotsExact`,
`RunningExact`, `OneSandboxPerUser` and `NoStopUnderLease` hold where nothing
overlaps, nothing fails, released sandboxes are deleted and no request ever has to
wait for a slot: with two users and one slot the consumer serves tickets while a
call is at work, and TLC finds all four violated although the plugin's calls come
one at a time. `RunningCap` and `NoLostTicket` hold without faults.
`OwnerIsolation` and `TicketIsolation` need no such condition beyond sessions that
keep to one mode. In the runtime and Daytona `calm` marks sandboxes whose requests
never overlapped: only the refinement, `AioKept` and `FailedCreateCleans` hold
whatever overlaps.

## 4. The abstract specifications

`LeasePool` promises that sessions enter a pool of at most `Cap` and leave it.
`IsLeasePool` maps `held` to the sessions with a lease key in Redis. Each step
of the broker is an admission, a departure or a stutter; the run covers grants
through tickets, redelivered messages, failed fulfilments and restarts. The
argument is `SlotsCover`: each lease and each handler on its way to one has a
slot, and a slot is only taken below the cap.

`SandboxLife` promises that a sandbox appears once, is announced to its client
only when it exists, starts and stops, and that a delete is confirmed only when
it is gone for good. `KeepsPromises` maps a container's status, or a Daytona
sandbox's state, to it; it is checked for both under overlapping requests,
faults and restarts. In the runtime the hard case is `kill`: three Docker calls,
any of which may find the container gone, and an error filter that goes by the
text of the error. The filter takes a failed call for a missing container when
the text quotes an id with 404 in it, so of those ids `SandboxLife` does not
promise that a confirmed delete happened (`Doubtful`, which the runtime fills
with `Has404` and Daytona with nothing). Of all others it does.

## 5. The proofs

Every theorem holds for arbitrary sets of sessions, users, pools, workers,
sweepers, requests and ids, any cap, fault kinds and bounds. What is assumed of
the constants:

* `NamesAssumption` (sets of names are disjoint, maps typed), `RecordsAssumption`
  (a missing key differs from any record), `ConfigAssumption` (what `config.ts`
  can produce); for the runtime `NamesAssumption` of `DockerRuntime` (ids,
  addresses and `None` are no answer of Docker, such as "ok" or "running"); for
  Daytona `DaytonaAssumption` and `NoneAssumption`.
* Some theorems are about a part of the instances only, and say so in their
  `ASSUME`. Each condition excludes behaviours on which the property is false.
  For the tickets, two exclusive sessions and a cap of two are enough, without
  any fault: a second request of s1 is queued, s1's release is about to delete its
  sandbox, s2's release frees a slot, and the ticket is fulfilled on the sandbox
  that then goes; TLC finds it with policy `delete` and with a client's `deleted`
  alike. A mapping outlives its sandbox when the provider deletes and then
  fails, when the broker restarts before `cleanupMappings`, and under
  `stop_keep` when the `RelKeep` of one release follows the delete of another:
  TLC finds each of the three. Section 3 has the paths of lost slots.

No safety property below is inductive as it stands: a handler writes many awaits
after it has read, so each proof has an invariant that says what a handler can be
sure of at each label. All of them rest on the types. The proofs of a component
have one lemma per action, or per group of actions that move alike; the lemmas at
the head of each module do what the actions have in common.

### The broker

| Theorem | Condition | Invariant |
|---|---|---|
| `TypeCorrect`, `SlotsBounded` | none | `IInv` |
| `Ownership`, `Isolated`, `TicketsIsolated` | `StickyModes`: no session asks for two modes | `OInv` |
| `SlotsCovered`, `ImplementsPool` | `OwnLeases`, `SerialClients`: exclusive sessions, one request each at a time, no sweep | `SInv` |
| `TicketsKept` | `NothingDeleted`: neither the policy nor a client deletes sandboxes | `TInv` |
| `TicketsBelong` | none | `KInv` |
| `NoDeadBindings` | `DeletesEnd`: policy `delete` or `pool`, no provider fault and no restart | `DInv` |

* `IInv` adds to the types `HandlersOK` (at each label the handler has the
  session, sandbox or ticket the next call uses), `ConsumerOK` (a consumer at
  work has a message, so its offset stays within the log) and `SlotBound`.
* `OInv` says that whatever names a sandbox (a lease, a mapping that may be read,
  a ready ticket, a handler's variable) names one *created for the key of its
  owner*; keys are shared exactly as modes share sandboxes, which gives both
  isolation properties. It holds however often tickets are claimed and slots are
  lost, so isolation does not depend on the accounting that section 3 shows to
  be broken. `RelKeep` is the one step that needs `StickyModes`.
* `SInv`: whoever is on the way to a lease holds a slot, and a release or a
  heartbeat about to write finds the lease it read, because its session sends
  nothing else meanwhile. So a lease that ends, or a handler that gives up, ends
  one unit of what `SlotsCover` counts, and only then is the slot given back. A
  ticket fulfilled twice costs a slot and never gains one: a second lease record
  for a session replaces the first. `ImplementsPool` follows, since a step that
  adds a lease turns a holder into a lease while the count is below the cap.
* `TInv`: while no call has failed, the consumer is at work on the message it has
  not committed, and nobody is on a failure path (`WorkAtOffset`), because a call
  on a sandbox can only be refused when that was deleted (`AliveOK`). Then each
  step that takes a ticket out of the list or the topic has it in hand, and each
  handler that lets go of one has pushed it, or found it claimed or ready. With
  deletes the property is false without any fault: a fulfilment whose
  sandbox is deleted under it puts its ticket back into the record and nowhere
  else (`failed_ticket_lost`).
* `KInv`: the session of a ticket is copied into each handler that serves it, and
  written back with it when it is requeued; nothing that is put back, redelivered
  or cut off by a restart changes it.
* `DInv`: names are right in every mode (`NamesOK`, without `StickyModes`, since
  nothing is kept for a session), and a sandbox just created is its creator's
  alone until it is bound (`FreshOK`), so nobody can delete it before. A mapping
  can then only point to a deleted sandbox from the delete on, and the release
  that deleted it leaves the three labels of `cleanupMappings` only after it
  cleared that very mapping or saw another sandbox in it.

### The plugin

`PluginTypeCorrect` has no condition: `PInv` says that a call that waits for the
broker has a handler there, and that a ticket a client polls exists and names a
sandbox when it is ready. `PluginSlotsCovered` and `PluginImplementsPool` put the
two halves together: the broker's theorems ask for `SerialClients`, and a plugin
whose calls on one session do not overlap (`Overlap = {}`) is such a client
(`OneCall`), whatever the broker itself was told about its clients.

| Theorem | Condition | Invariant |
|---|---|---|
| `PluginTypeCorrect` | none | `PInv` |
| `PluginSlotsCovered`, `PluginImplementsPool` | `OwnLeases`, `Overlap = {}` | `SInv`, `OneCall` |
| `PluginIsolated`, `ToolsAreIsolated` | `StickyModes` | `OInv`, `RolesOK`, `HandlesOwned` |
| `RunningStaysCapped` | `OwnLeases`, `Overlap = {}`, `Stops`: a policy that stops or deletes what is released | `RInv` |
| `ToolsUnderLease`, `MapStaysLeased` | `OwnLeases`, `Overlap = {}` | `LeaseKnown` |

* `ToolsAreIsolated`: the plugin takes a sandbox from an answer, from a ticket or
  from its map, and the lease it came from may have gone since. `RolesOK` says
  what the request of a waiting call is doing, and that its ticket is its
  session's (`KInv`); so what it is told comes from a lease or a ticket of that
  session, and `OInv` says whose sandbox that is. Sandboxes never change owners,
  so `HandlesOwned` survives everything that makes the map stale.
* `RunningStaysCapped`: it is not so that every running sandbox has a lease. When a
  requeued ticket is served by two handlers, the second lease replaces the first
  while the tools go on in the first sandbox; and a heartbeat or a release that
  was overtaken by such a lease acts on the old one. `Charged` says what makes up
  for it: each sandbox that runs, or will when a call that has it in hand starts
  it, and to which no lease and no request leads (`Loose`), and each request whose
  lease was replaced (`Stale`), is charged to a slot that neither a lease nor a
  handler accounts for (`Slack`). A lease that replaces another ends a holder
  without adding a lease, so it leaves the slot that the old sandbox is charged
  to; a release of the new lease gives one slot back, not two. So the second
  fulfilment of a ticket loses a slot for good, and that is what keeps the cap.
  `RInv` also says that a release serves the session of its client, which is why
  no tool call is about to start the sandbox that a release stops.
* `ToolsUnderLease`, `MapStaysLeased`: the tool call, the answer it took, the ticket
  it waits for and the map each hold a copy of the lease's sandbox that was made
  at another time. What is claimed of a copy (`LeasedOn`) is that the session has
  a lease, on that sandbox or, once one of its leases was replaced, on another;
  so it stays true when a second handler saves its lease, whatever the cap
  (`KnownStays`), and `regranted` says of which sessions the weaker half is all
  there is. It ends only with the lease, at `RelDelete`, by the session's own
  release, and no call of that session is then at work (`OneCall`). Everything
  else the invariant says is of the way there: a handler that answers has saved
  the lease it answers with, and a ticket that is ready names a sandbox its
  session was given, until its release. Requests that fail, waits given up,
  restarts and the tools' own starts and stops are all steps that leave leases
  and answers what they were (`Calm`). Leases are replaced with two slots or more:
  section 3 says how.

### The runtime and Daytona

* `RuntimeProofs` states all seven properties of the run `runtime`. Its `IInv` has
  four parts: the types; `Sandboxes` (a record is never ahead of its container, an
  address belongs to one running container); `Work` (what a handler has at the
  call it waits for, that it is told "gone" only for good, that a create is alone
  with its id); and `Undisturbed`, about sandboxes in `calm`: what a handler was
  told of them is still so. The first three hold whatever overlaps and give
  `TypeCorrect`, `AioIsKept`, `FailedCreatesClean` and `ImplementsLife`; the
  fourth gives `CommandsRunInTheirOwn`, `AnswersAreTrue` and `ErrorsAreReal`.
* `DaytonaProofs` states all five properties of the run `daytona`. `IInv` adds to the
  types that a call is made only by an operation that makes it, with its
  amounts, and that every operation but create works on a sandbox its client was
  given: a delete could otherwise be confirmed for a sandbox that was never
  announced. Each action is `Legal`, a relation on the sandbox's state before and
  after and on what was answered; `LegalLives` maps a legal step to a step of
  `SandboxLife` or a stutter. Requests overlap freely there. `CalmOK` is for those
  that do not: it says at each call what size and state the sandbox has reached,
  from which `SizesTake`, `StatesAreLeft` and `ErrorsAreReal` follow.

### Only model-checked

* The liveness properties `HandlersEnd` and `StaleReclaimed`: fairness and
  `ENABLED` are out of the prover's reach.
* All of `Hands`: it takes shell texts apart with `RECURSIVE` operators, and what
  a recursive definition computes for every input needs an induction over data
  that the prover does not offer.
* `SlotsExact`, `RunningExact`, `OneSandboxPerUser` and `NoStopUnderLease` (run
  `sequential_shared`): they hold in so narrow a setting (section 3) that a
  theorem would say little about the broker as it is used.
* The runs that expect a violation.

## 6. Plan

Done: every part of section 1 that has logic of its own; the proofs above.

1. What a sweep leaves of the plugin's promises (the cap is not among them, see
   section 3).
2. Background commands of the two handles.

## 7. Not modelled

* Authentication, status codes and JSON of the HTTP APIs; reading the
  environment (`config.ts`); logging: no state of the system depends on them.
* Resource amounts outside Daytona's resize; the amounts of process limits.
* Background commands (`tools.ts:30`, `:49`): Daytona's process sessions and
  `nohup` belong to the sandbox's operating system. `glob`'s pattern.
* A restart of the plugin process: it loses its map, and its leases end by the
  sweep, like those of any client that has gone.
* Daytona's transitional states, which the code does not look at, and what it
  answers to a change of the disk, which the code neither compares nor expects.
* `wrapBubblewrapFallback` and `detectIsolationBackend`, which nobody calls.
* Images, deployment and scripts: no logic of the system's own. Their texts are
  used as promises.
