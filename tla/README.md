# Verification of vlessok

TLA+ specifications of vlessok, a desktop VPN client for Windows (a Tauri shell
in Rust, a page in JavaScript, sing-box as a child process), the TLC
configurations that check them on small instances, and TLAPS proofs of what
matters most. Paths such as `singbox.rs:153` are below `src/src-tauri/src/` for
Rust, `src/src/` for JavaScript and HTML, and `src/docs/stable/` for the Go
sources of the engine.

## 1. The system

| part | state | operations | talks to |
|---|---|---|---|
| **Engine manager** (`singbox.rs`, `platform/windows.rs`) | handle of the child, path of its config file, job object, last stderr lines | `start`, `stop`, `is_running`, `drop`; `assign_process` | the child process, the file system, the page (event `singbox-error`) |
| **Commands** (`lib.rs`) | `AppState`: the manager, the routing rules, the icon cache, each behind a mutex | `connect_vless`, `disconnect`, `is_connected`, `relaunch_as_admin`, nine routing commands, DNS fix, network reset, ping, processes, icons | called by the page, call everything else |
| **Windows of the shell** (`lib.rs`) | main window, connections window | `open_connections_window`, `CloseRequested` | the manager (`stop`) |
| **Main window: connection** (`main.js`) | status text, two buttons, info panel, selected profile, running handlers | connect, disconnect, poll every second, `autoReconnect` after a change | commands, by `invoke` and `await` |
| **Main window: rules editor** (`main.js`) | copy of the rules, undo and redo stacks | add, remove, paste, mass import, presets, clear, undo, redo | routing commands |
| **Main window: profiles** (`main.js`) | list and selection in `localStorage` | add, edit, delete, select | connection |
| **Routing rules** (`routing.rs`) | mode and three lists; `routing.json`, `.tmp`, `.bak` | `load`, `save`, add and remove | commands |
| **Configuration generator** (`config.rs`) | none | `vless_url_to_singbox_config` | rules, pack files |
| **Russia Pack** (`russia_pack.rs`) | `inside.json`, `outside.json` | download and merge, in a thread at start | configuration, engine |
| **Connections monitor** (`connections.js`) | list of connections | fetch, sort, draw | clash API of the engine |
| **Engine: rule sets** (`route/rule/rule_set_*.go`, `route/router.go`) | rules, tag, file watcher, reference count of each set | load, watch, reload, fetch, save, clean up | pack files, servers of the sets, cache file |
| **Engine: DNS router and client** (`dns/router.go`, `dns/client.go`) | cache, locks of questions, rules | exchange, lookup | transports, dialers (`common/dialer/resolve.go`) |
| **Engine: DNS over UDP** (`dns/transport/udp.go`, `conn_pool.go`) | shared connection, query ids, callbacks | acquire, release, exchange, receive, reset, close | network |

How they interact. Synchronous Tauri commands and window events run one at a
time on the shell's main thread; only `open_connections_window` is async. A
handler of the page is an async function: at every `await` another handler may
run, and the handler goes on with what it read before. The engine is an
independent process that may exit at any time; the shell may be killed at any
time, and the job object then kills the engines assigned to it.

What is hard, and what makes each part correct:

* *Engine manager*: crashes and kills between the steps of `start`, and failing
  calls halfway. Correct when whatever runs can be stopped, there are no two
  engines, none survives the shell, no config file is deleted early or left
  behind, and a crash is noticed and reported for what it is.
* *Connection page*: interleavings at awaits and late replies. Correct when
  changed rules come into force, a reconnect completes, and text, buttons and
  panel end up telling the truth.
* *Rules file*: a crash or an error between two file operations. Correct when a
  start finds the last acknowledged list or the one being saved.
* *Configuration*: the order of rules and which of them are there. Correct when
  the tunnel is never routed into itself, listed things are proxied and nothing
  else is, and the engine accepts the result.
* *Rules editor*: shared stacks and a copy of the rules around awaits. Correct
  when the page differs from the shell only where an answer is still to come, and
  undo restores only lists that were there.
* *Profiles*: a list edited while the engine runs or starts. Correct when the
  engine runs with the profile selected wherever the page can see to it.
* *Rule sets*: a thread that overwrites in place what an engine reads, watches
  and serves from, and a publisher that answers what it likes. Correct when the
  built-in list is always routed, a torn file heals, new lists come into force,
  and a tag names the rules it came with.
* *DNS*: queries that wait for one another, share a cache under another key than
  their locks, and dial through one another. Correct when locks are released,
  only accepted answers are cached, no circle of waits arises that the
  configuration does not contain, and every query returns.
* *Connection pool*: dials that end after their user, the pool or the network has
  gone. Correct when nothing is leaked, every connection waited on is read by
  exactly one loop, and ids are not confused before they have gone round.
* *Monitor*: answers out of order.

`PROJECT.json` lists the hazards one by one with their lines.

## 2. Modules

| module | models | checked by |
|---|---|---|
| `VpnSession` | what the manager promises: at most one engine, only while the main window is open, none after an orderly close | refined by `SingBoxManager` |
| `SingBoxManager` | manager, job object, the commands and window events that use them | `MCSingBoxManager`, `MCOrphan` |
| `MainWindow`, `MCMainWindow` | the connection part of the page and its profiles over an abstract shell | `MCMainWindow`, `MCMainWindowLive`, `MCPanel` |
| `RulesEditor`, `MCRulesEditor` | the copy of the rules, the undo and redo stacks, the handlers that edit | `MCRulesEditor` |
| `EditHistory` | what undo and redo promise | refined by `RulesEditor` while handlers do not overlap |
| `DurableRules` | what saving promises: an atomic store | refined by `RoutingStore` |
| `RoutingStore` | rules in memory and the three files | `MCRoutingStore` |
| `RoutePlan`, `MCRoutePlan` | the rule lists and the route section generated from them | `MCRoutePlan` |
| `RussiaPack` | the download thread and the two pack files | with `EngineRuleSets` |
| `EngineRuleSets`, `MCRuleSets` | the rule sets of the engine over its life, on the files of `RussiaPack` | `MCRuleSets`, `MCReloadMissed` |
| `DnsClient`, `MCDnsClient` | queries of the engine's DNS router and client | `MCDnsClient` |
| `ConnPool` | the connection pool of the DNS transports, single mode | with `UdpTransport` |
| `UdpTransport`, `MCUdpTransport` | exchanges over UDP on that pool | `MCUdpTransport` |
| `…Proofs` | theorems about the module whose name they begin with | `tlapm` |

Composition: `EngineRuleSets` extends `RussiaPack` (they share the files),
`UdpTransport` extends `ConnPool` (an exchange is a user of the pool); the three
abstract specifications are instantiated with refinement mappings.

**SingBoxManager.** `process` and `configPath` are the manager's fields. The
main thread has one program counter `pc`; `start` and `stop` are cut where the
outside world can see the difference: before the temporary file, the write, the
spawn, the assignment, the store, the kill, the removal. `resume` says where
control goes after `stop`, which `disconnect`, a second `start` and the closing
window share. Engines and their files carry one number, so "the config file of
that engine" needs no further state. `alive`, `inJob` and `files` are the
machine; `crashed`, `reported`, `lost` and `unassigned` are history and guard
nothing. The constant `Faults` says which operating system calls may fail; the
passing run lets all eight fail at any time. Killing the shell and closing its
last window are steps; after the latter the runtime may or may not drop the
manager, and both are allowed.

**MainWindow.** A task is one running handler, `at[t]` the await it stands at,
`url[t]` the profile it captured. Requests wait in `calls`; a request is
executed in one step of the shell and its answer delivered in another. With
`InOrder = FALSE` both happen in any order, which is more than Tauri promises
and makes the passing runs stronger; the violation run uses `TRUE`, so that what
it finds does not depend on reordering. The engine is reduced to what it was
started with. `connect_vless` may succeed, fail before the old engine is stopped
or fail after it. An edit may be refused, saved, or left in memory by a save
that failed; `acked` is the last version the user was told was applied. A
handler makes one edit here. A profile is its URL: `SelectProfile` is the change
event, with the handler that follows it; `SaveProfiles` is adding, editing and
deleting, which change the selection and the button and start no handler.
`unfollowed` and `off` are history: the present choice was made by such an edit,
or the last look of its reconnect came before a start that had already taken the
old profile along; and the user has disconnected while no handler was about to
start the engine without looking at it again, and has not clicked connect since.

**RulesEditor.** The lists and the mode are one set of entries. A behaviour
starts as the page does: its copy is blank (mode "global", no lists), the shell
holds the list of its file or the default one (`Stored`), and the first
`loadRoutingRules` is under way and awaited by nobody, so edits, pastes and
clears may come before its answer. Commands run and are answered in the order of
the requests, as Tauri's main thread does it; the handlers of the page overlap at
every await. `EditHistory` is what a user expects of undo and redo, and holds as
long as no two handlers have overlapped and no save has failed (`alone`); what is
true in every case is `SnapshotsReal` and `PageTracks`. The history variables
`held`, `touched`, `unseen`, `loaded` and `early` guard nothing: `unseen` begins
as the whole list, which the page has not read yet, and `early` remembers that a
handler kept the blank copy.

**RoutingStore.** One step for each file operation of `save`; writes and copies
are two steps, since a crash in the middle leaves a torn file. `rename` is
atomic. A list is a set of entries whose kind does not matter to the file.

**RoutePlan.** The lists change by the commands of `routing.rs`; `Plan(s)` is
the list of route rules for a server of kind `s`, in the order in which
`config.rs` pushes them, and `Route` lets the first rule that matches decide, as
sing-box does. A rule that `config.rs` leaves out is a rule that matches
nothing. A geo entry is a pair of kind and name, the name a sequence of pieces
in which colons and dashes stand by themselves; `Dashed` is the replacing of
colons by which a tag is made of an entry, so that two entries may get one tag.
Connections carry at most two facts: for any two rules there is one that both
match. Each generated rule has one kind of item, so the engine's way of
combining kinds is not needed.

**RussiaPack and EngineRuleSets.** `fs::write` is two steps, truncating and
writing, each of which may fail, and the shell may die between them. A launch
runs the thread once; a failed download is an empty list and the base list is
written all the same. The engine goes through the stages `new` (files are read),
`start` (watchers and first fetches, in any order), `postStart`, `started` and
`running` (sets nobody names are dropped). A write raises an event only for a
watcher that is started; `missed` remembers the writes that raise none. A remote
set has a version and the tag it was delivered with, the server may answer with
or without a tag, with a page that is no rule set or not at all, and the cache
file may not be written. The history runs over all lives of the engine and no
restart resets it: `answered` is the version last delivered or confirmed,
`untagged` the sets ever answered without a tag, and `copy` says whether the
cache file holds the last answer, an older one, or an older one that the engine
was started on.

**DnsClient.** A task is a query of a connection, or one made to dial a server
known by name, in the context of the query it serves. It walks through the rules;
each attempt looks in the cache, takes the lock of its question and transport or
waits for the query that holds it, asks, stores and releases. The cache is shared
by all transports unless `independent_cache` is set while the lock is not, a
waiter that wakes up to an empty cache asks without the lock, and a cached
answer is not put to the rule's test again: all of it as the code has it. A
lookup goes on to the next rule after any failure under a limited rule, an
exchange only after a rejection. The end of a context and of an exchange's time
are steps that may come at any time.

**ConnPool and UdpTransport.** What the pool does under its mutex is one step;
dialling, handing over, waking up and closing are steps of their own, of the
goroutine that does them. The states that a reset replaces are numbered, and
`closeState` goes through an old state's connections one step after it was
replaced. Exchanges register, write, wait and give up; answers may be lost, late
or repeated, and ids wrap.

## 3. Runs

| run | bounds | states | shows |
|---|---|---|---|
| `manager` | 2 starts, 2 launches, all 8 faults | 65 555 | `Stoppable`, `ConfigWhileRunning`, `StrayExplained`, `OnlyCrashesReported`, refinement of `VpnSession`, `ShellDeathKillsEngine`, and with fairness `CommandsReturn` and `CrashNoticed` |
| `orphan` | 1 start, 1 launch, no fault | | **violated**: an engine survives a shell killed between `spawn()` and `assign_process()` |
| `window` | 2 profiles, 2 handlers, 1 poll, 4 events | 693 947 | `RulesFresh`, `ProfileFollows`, `DisconnectHolds` under any reordering (up to symmetry) |
| `window_live` | 1 profile or none, 2 handlers, 1 poll, 3 events | 155 166 | `RulesApplied`, `ReconnectCompletes`, `StatusConverges` |
| `panel` | 1 profile, in order | | **violated**: the panel says "protected" with the engine down |
| `store` | 2 entries, 3 edits, 3 launches, all faults | 16 929 | `AckedSurvives`, `Agree`, refinement of `DurableRules` |
| `routes` | 1 domain, 8 geo inputs, 2 process inputs, 2 packs | 6 144 | `BypassFirst`, `ProcessFirst`, `RefusedOnlyFor`, `ModeDecides`, `AddingKeeps` |
| `editor` | 2 domains, 1 geo entry, mode, a stored list, 2 handlers, depth 2, 4 handlers started after the first read | 1 674 480 | `TypeOK`, `PageTracks`, `SnapshotsReal`, `HistoryWhenAlone` (refinement of `EditHistory`; up to symmetry) |
| `rule_sets` | 2 launches, 2 starts, 1 remote set of 2 versions, 2 updates | 233 179 | `BaseAlwaysRouted`, `RemoteMatchesAnswer`, `TornHeals`, `RulesCatchUp` |
| `reload_missed` | the same | | **violated**: a file saved between reading and watching is not reloaded |
| `dns` | 2 callers and 1 dial, 2 questions, 2 transports, 3 set-ups | 112 910 | `LocksHeld`, `AnswersSound`, `WaitsEnd`, `QueriesReturn` |
| `udp` | 3 exchanges, 2 dials, 1 reset, 2 ids | 204 025 | `NothingLeaks`, `OneReceiver`, `LateByATurn`, `ExchangesReturn` |

Why the bounds are enough. Two starts give the crash and reconnect, the failed
stop and retry and the second launch next to an orphan of the first; three
starts in one launch and two starts in three launches were checked as well and
show nothing new. Two handlers and a poll are the smallest set in which a
reconnect overlaps another reconnect, a click and a late status; four events let
an edit, a click, a crash and a change of profile meet. Three edits over three
launches allow a failed save between two good ones with a crash around it. The
geo inputs of `routes` hold every preset, an entry for the list of a combo, one
that gets the tag of the advertising list when its colon becomes a dash, two
that get each other's in the same way (`a:b`, `a-b`), and one that must be
refused; the process names are two spellings of one. The stored list of `editor`
is not blank, so that the page and the shell differ at the start. Depth 2 with
four handlers fills and overflows the undo stack. Two launches give a torn file
and its repair, two starts a restart from the cache file. In `dns` one caller
can lead, one wait and one dial; the three set-ups are a resolver that ends the
chain, one that leads back, and the rules themselves. Two ids are the smallest
space that wraps, two dials and a reset let an old dial end behind a new one.
`MCRuleSets` and `MCUdpTransport` split the instance by a variable `focus`: pack
files or remote sets; resets, closing, or late answers. All the safety
properties and refinements of these runs are proved besides, for every bound
(section 4); the type invariants of `RoutingStore`, `RoutePlan`,
`EngineRuleSets`, `DnsClient` and `UdpTransport` are proved there and need no
run.

Deadlock is not checked in `manager`, `store`, `editor`, `rule_sets`, `dns` and
`udp`: the user may never act again and the bounds end every run. Everywhere
else it is.

**Fairness.** `SingBoxManager`: weak fairness of the steps of a running command
(the thread runs on), strong fairness of `IsConnected`, since the poll comes
every second and requests are served in the order in which they arrive; nothing
is assumed of the user, of crashes or of kills. `MainWindow`: weak fairness of
executing and delivering requests, of timers and of the poll; nothing is assumed
of clicks. `StatusConverges` speaks of an engine that stays up, or down.
`EngineRuleSets`: the download thread runs on (each request has a time limit of
ten seconds) and a started watcher calls back; nothing of servers or of the user.
`DnsClient`: every query runs on and the time of an exchange ends; nothing of
servers. `UdpTransport`: the goroutine of every exchange runs on and its context
ends in the end; nothing of the network, of dials or of answers.

## 4. Proofs

All proofs rest on the named assumptions of the modules alone, which say that
bounds are numbers, that sets of names do not overlap and that domains are facts
of their own kind; none assumes a fairness. They hold for every value of the
constants. Every invariant, action property and refinement that a passing run
checks is stated by a theorem.

`SingBoxManagerProofs`:

* `ManagerInvariant`: `IInv = TypeOK /\ ThreadInv /\ EngineInv /\ FileInv` is
  inductive. `Stoppable` is not inductive as it stands: it speaks of the time
  between commands and says nothing of what each step of `start` and `stop` may
  rely on. `EngineInv` says it for every value of `pc` (none within reach after
  the kill, only the one just spawned before the store), `ThreadInv` ties `pc`
  to the window and the counter, `FileInv` ties the tracked path to the tracked
  handle.
* `TypeCorrect`, `AlwaysStoppable`, `ConfigStays` follow from it.
* `Implements`: every step maps to a step of `VpnSession` or a stutter.
* `ReportsAreTrue` adds `CrashInv`: a handle whose engine is gone belongs to an
  engine that crashed.
* `StraysAreExplained` adds `StrayInv`: a tracked path that `start` may
  overwrite belongs to a crash or a failed call.
* `DeathKillsEngine` adds `JobInv`: an engine is in the job object, was refused
  by it, or was spawned a step ago.
* `CommandsAdvanceAlways`: `stop` comes back only to a later step of whoever
  called it, so a command passes each step once.

`RoutingStoreProofs` proves `StoreInvariant` (what the three files hold at each
step of a save), `StoreTypes`, `AckedListSurvives`, `MemoryAgrees` and
`Implements`.

`MainWindowProofs`: `RulesFresh` is inductive together with `WaitInv` (versions
grow, an answer means what the handler that awaits it takes it for).
`ProfileFollows` is not inductive: an engine gets its profile from a start that
took it along, so `FollowInv` says of starts under way what `ProfileFollows`
says of the engine. Neither needs the queue of requests, so both hold in order
and out of order. `WindowTypes` does need it: each task that waits has exactly
one request in the queue (`QueueInv`), and the bound on the versions is a count,
since every version and every edit under way came from an event of its own
(`EditsInv`). `DisconnectHolds` needs `OffInv`: while `off` holds there is no
engine, and no handler that would start one without a look at it first. All
steps of handlers but the executing of a request are moves of one form
(`Moves`), which is treated once. `HandlersAdvanceAlways`: no handler goes back
to an earlier await.

`RulesEditorProofs`: `FlightInv` says that a handler has one request under way,
to be executed or to be answered; `TouchInv` and `ReadInv` say that what a list
that was read misses of the shell's is what later answers have yet to tell.
`PageTracks` follows; `SnapshotsReal` follows from `TypeInv`, in which the page,
once it has been read, and every answer hold only lists the shell has had, and
the blank page gets onto a stack only with `early`. For `HistoryWhenAlone`,
`AloneInv` says that one handler at most runs and that the page holds the shell's
list until its change is made; the mapping, which puts back what a handler has
taken off a stack before its change is made, is computed once for each place a
handler may be at (`MapTable`), and each step is compared before and after.

`RoutePlanProofs`: the plan always has eleven rules (`PlanShape`), the first
match is the least position that matches (`LeastHit`), so each promise is a
statement about which of the eleven can match. For `AddingKeeps` the table of
matches (`PlanTable`) is used before and after the step. `ModeDecides`
is one statement for each mode (`RuleModeHolds`, `GlobalModeHolds`).
`RefusedOnlyFor` is about tags: `Clash` compares entries piece by piece, and two
names are dashed alike exactly if they differ in colons for dashes
(`SameDashes`, `TypedTags`); a clash gives two sets with one tag
(`ClashRepeats`), two sets with one tag come from a clash (`UniqueWithoutClash`),
and no rule names a set that is not there (`TagsComplete`).

`EngineRuleSetsProofs`: `PackInv` (a file that parses holds the built-in
entries) is the shell's alone; `StageInv` ties what is loaded to the stage of
the engine; `TagInv` ties the tag held to the version in use and to the one last
delivered, through the request that carries it and the copy in the cache file,
over stops and restarts (`AskedInv`, `ContentInv`, `CopyInv`). They give
`BaseAlwaysRouted` and `RemoteMatchesAnswer`. `NoChangeLost` and `TornIsAhead`
say what is still to come for a list that is not in force and for a torn file,
and `ThreadAdvances` that the thread gets there.

`UdpTransportProofs`: `PoolInOrder` (`TypeInv` and `DialInv`: where each dial
stands, who has claimed it, which state tracks it) gives `NothingLeaks`, and
`RetiredUntouched`, on which closing a replaced state without the mutex rests.
`OneReceiver` needs `ReceiverInv`: a connection is served, or the user told to
look after it has still to start. `LateByATurn` needs `NumberInv` and the fact
that two numbers with one id are equal or a whole turn apart (`SameIdApart`).
`ExchangesAdvanceAlways` needs `RoundInv`: a dial is taken from its state before
those who wait are told, and a state is replaced before its context ends, so an
exchange that begins again finds neither.

`DnsClientProofs`: `TypeInv` (with the walk never past the last rule), `LockInv`,
`AnswerInv` and `ChildInv` (a query that dials has one child, which asks what the
set-up says). `WaitsEnd` follows by picking, in any set of queries, one whose
transport none of the others' servers needs. `QueriesAdvanceAlways`: an attempt
passes each place once, and the next one is for a later rule.

Only model-checked are the liveness properties (`CommandsReturn`, `CrashNoticed`,
`RulesApplied`, `ReconnectCompletes`, `StatusConverges`, `TornHeals`,
`RulesCatchUp`, `QueriesReturn`, `ExchangesReturn`), since fairness and ENABLED
are out of the prover's reach. Where such a property rests on a course that cannot
turn back or on an event that cannot get lost, that part is safety and is proved:
`CommandsAdvance`, `HandlersAdvance`, `QueriesAdvance`, `ExchangesAdvance`,
`ThreadAdvances`, `TornIsAhead` and `NoChangeLost`. What TLC adds is that some
step is always there to be taken.

## 5. What the models leave out

* The log threads and the stderr buffer: they supply the text of one message.
* The text of URLs, domains and JSON; the DNS and TLS blocks of the
  configuration, on which no property depends.
* The loss of power, as opposed to the death of a process; a second shell on the
  same directory, which nothing prevents and for which nothing could be promised.
* The connections monitor (the list it draws outlives no answer), the DNS fix and
  network reset (scripts against the settings of Windows; one answer to the
  page), the ping, the external address, the process list and the icon cache.
* In `MainWindow` a kill that fails is not distinguished from one that succeeds,
  since the manager gives up its handle in both cases and answers "not running"
  from then on. Nor does its `is_connected` give the false "not running" of a
  failing `try_wait` (`singbox.rs:287`), after which the page would show an engine
  as stopped that `SingBoxManager`, which has that fault, still knows to run.
* In `DnsClient`: the pair of an address query of each family (the generated
  configuration asks for IPv4 only), empty answers, the expiry of cached answers
  and rejections, fake addresses, predefined answers, reverse mapping. The
  transport manager refuses circles of declared resolvers; circles through the
  outbound a transport dials with remain possible and are in the model.
* In `ConnPool`: the ordered mode, which the UDP transport does not use. In
  `UdpTransport`: the retry over TCP of a truncated answer, the reset of the
  advertised size, and the error of a query that cannot be packed
  (`udp.go:203-206`), which returns without a write and keeps the connection.
* The rest of the engine: protocols, inbounds, TUN and network monitors,
  services, daemon and platform code. It is by far the larger part of the sources
  under `docs/stable`, is not part of the client's own code, and mostly transforms
  bytes: what of it has the state and the interleavings that a model can say
  something about begins with the three parts modelled here.

## 6. Where documentation and code disagree

Shown by runs:

1. `orphan`: the job object does not cover the engine between
   `singbox.rs:153` and `singbox.rs:158`; the project's README guarantees its end (line 37).
2. `panel`: the panel that says "protected" (`index.html:124`) is shown after an
   await and without a look at the engine (`main.js:402`).
3. `reload_missed`: a local rule set is read when the engine is created
   (`rule_set_local.go:60`) and watched only once it starts; a file saved in
   between, as the download thread may do, is not read again, though the
   documentation says it is "automatically reloaded if file modified".

Met while modelling, and kept as the exact condition of a property that holds:

4. `singbox.rs:25` keeps the path to delete the file after the engine stops;
   after a crash the next start overwrites it (`singbox.rs:214`) and the file,
   which holds the user's credentials, stays. `StrayExplained` says that nothing
   else leaves one behind.
5. "All traffic goes through the proxy" (the project's README, line 26), but the direct
   rules of `config.rs:299-333` are in force in both modes; `ModeDecides`
   says what goes through the proxy in each of them.
6. A combo next to its own geosite entry, an entry for the category of
   advertising, or two entries that differ only in colons for dashes
   (`geosite:a:b` and `geosite:a-b`; the tag is the entry with its colons
   replaced, `config.rs:400`) give two rule sets with one tag
   (`config.rs:366-419`), which the
   engine refuses (`docs/stable/route/router.go:75`); and `config.rs:170-171` says
   the bypass covers addresses and names, but for IPv6 hosts and for names that
   begin with a digit it is no valid prefix (`config.rs:253`). `RefusedOnlyFor`
   says that these, and nothing else, make the engine refuse a configuration.
7. Editing or deleting the selected profile while connected starts no reconnect,
   and one selected between the first await of a connect and its end finds no
   engine to restart (`main.js:354`, `866-872`): `ProfileFollows`.
8. A reconnect that has looked at the engine stops it, sleeps and starts it: a
   disconnect of the user in between is undone (`main.js:556-569`).
   `DisconnectHolds` says that nothing else undoes one.
9. The page starts with a blank copy of the rules (`main.js:81-86`) and does not
   await the first read (`main.js:992`): what edits, undo and redo keep or clear
   before the answer is a list that the user never had. `SnapshotsReal` and
   `PageTracks` say how far that goes.
10. A failed edit drops the snapshot on top of the undo stack, which is another
    handler's if they overlap (`main.js:622`): `HistoryWhenAlone` holds for
    handlers that do not.
11. An entry added again after a failed save is refused as a duplicate, and the
    file never gets it unless a later save succeeds (`routing.rs:96`): `Agree`
    speaks of saves that did not fail.
12. `start()` clears the handle of a crashed engine without reporting it
    (`singbox.rs:87`): `CrashNoticed` takes that for noticed.
13. An engine started on a cache file whose last save failed serves an older
    version until its server answers, and after an answer without a tag it keeps
    the tag of an earlier one (`rule_set_remote.go:281-313`), so that a later
    "not modified" may confirm the wrong rules. `RemoteMatchesAnswer` says that
    nothing else puts rules and server out of step.

## 7. Plan

Done: the client's own components but for those section 5 names, three parts of
the engine, three refinements, and proofs about all eight state machines that
carry safety properties. What would come next, in this order:

1. `ConnectionsMonitor` with the engine's table of connections
   (`experimental/clashapi/trafficontrol`): overlapping fetches, answers out of order.
2. The ordered mode of the pool (`acquireOrdered`) and the TCP transport on it.
3. `StoreInstances`: two shells on one directory, once the code has a lock.
4. Proofs: the same kind of theorems for these modules; and the liveness
   properties themselves from the variants of section 4, once a prover that can
   treat `ENABLED` is at hand.
