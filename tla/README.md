# proxy-admin: formal model

proxy-admin is one Go process (`src/backend/`) that manages one sing-box proxy on
the same host: a database of inbounds, users and outbounds, a config generated
from it, and the process that runs that config. A static Next.js front end is
embedded in the binary. This directory holds TLA+ models of the parts whose
correctness depends on the order of events, TLC runs that check them on small
instances, and TLAPS proofs for every size of them.

| Module | Models | Runs | Proofs |
|---|---|---|---|
| `ManagedSingbox` | what the panel may assume of process control | `process`, `startup` | implemented by `SingboxProcess`, kept by `Startup` |
| `SingboxProcess` | `internal/singbox`: Start, Stop, Restart, ApplyConfig, SaveConfig and the OS | `process`, `pid_reuse`, `duplicate_start` | `SingboxProcess_proofs` |
| `PanelConfig` | `internal/inbound`: transactions on the tables, Regenerate | `panel`, `torn_read` | `PanelConfig_proofs` |
| `TrafficPoller` | `internal/traffic/poller.go`: accounting of users' traffic | `traffic`, `traffic_restart`, `traffic_shutdown` | `TrafficPoller_proofs` |
| `Throttle` | `internal/auth/throttle.go` as operators on its map | through `Sessions` | through `Sessions_proofs` |
| `Sessions` | Login, ChangePassword, the check of every request | `sessions`, `sessions_overlap` | `Sessions_proofs` |
| `Startup` | `cmd/server/main.go`, `seed.go`, the meta table; requests over both mutexes; shutdown | `startup` | `Startup_proofs` |
| `LiveMonitor` | `internal/traffic/live.go` | `views` | `Monitoring_proofs` |
| `ConnectionLog` | `internal/singbox/logs.go` | `views` | `Monitoring_proofs` |
| `ClientRules` | `routing.go`, `subscription.go` and what a client makes of them | `views` | `ClientRules_proofs` |

`Inductions` holds the lemmas about finite sets, folds and listings that several
proof modules rest on; it models nothing. `MC<module>` is what TLC runs: a module with its symmetry sets or test data,
`MCPanelViews` three modules side by side. `<name>.cfg` gives a run its constants.
Definitions named `Faulty...` are plausible bugs, each written before the
definition whose place it would take; no action uses them. Replacing the
definition by its `Faulty...` form must break the property PROJECT.json pairs
it with, which shows that the property depends on the code.

## 1. Inventory

| Component | State | Operations | Talks to |
|---|---|---|---|
| process control (`internal/singbox`) | `config.json`, `sing-box.pid`, `ownPid`, `osEnv.exited`, `Service.mu` | Start, Stop, Restart, SaveConfig, ApplyConfig, Status | the OS: spawn, signal, reap, pids |
| panel database (`internal/inbound`) | inbounds, users, outbounds, user_inbounds, meta, in SQLite | create, update, reset, delete of each; Regenerate | process control |
| config generation (`generate.go`, drivers, keys, certificates) | none | Generate, settings of a new row | panel database |
| traffic accounting (`traffic/poller.go`, `connections.go`) | `lastSeen`, `pending` | pollOnce, flush, Run | Clash API of sing-box, users' counters |
| sessions (`internal/auth`, `handlers/auth.go`, `middleware`) | throttle entries, admin row, signed cookies | Login, ChangePassword, RequireAuth, Logout | database |
| startup and shutdown (`cmd/server/main.go`, `seed.go`, `database.go`) | meta marks | seed, backfill, migrate, choose the Clash address, start sing-box | all of the above |
| live monitor (`traffic/live.go`) | the last sample | Run, Snapshot | Clash API |
| client rules, subscription (`routing.go`, `subscription.go`) | meta rows | get, set, render | panel database |
| connection log (`singbox/logs.go`) | none; reads a file | tail, group by connection | sing-box's log |
| diagnostics (`diagnostics/probe.go`) | none | parallel dials | network |
| front end, deployment scripts | copies of answers | | HTTP API |

How they interact. A request handler runs in its own goroutine. A change of the
database validates and writes in one SQLite transaction, commits, and then calls
`Regenerate`, which under `inbound.Service.mu` reads the tables back in separate
queries, generates a config and hands it to `singbox.Service.ApplyConfig`. That
takes the second mutex, `singbox.Service.mu`, writes the file, validates it and
stops and starts sing-box. The poller runs beside them, reads sing-box's
connections over HTTP and writes counters to the same database. sing-box
outlives the panel: a restarted panel finds it through the pid file.

What is hard, by component, and what makes it correct (the full list with lines is
"hazards" in PROJECT.json):

- *Process control.* The pid file, the process table and the memory of the panel
  disagree whenever something dies: a stale file, a recycled pid, a zombie that
  still answers signal 0, a child whose pid could not be written, a panel killed
  between spawn and record. Correct: what is reported as running is the panel's
  own sing-box, there is never a second, none is lost, no foreign process is
  signalled, success means the config on file is in force, every call returns.
- *Panel database.* Checks and writes of concurrent requests; a commit while
  another request's regeneration is between its queries; a failure or a crash
  after the commit. Correct: references and ports stay consistent, and when
  requests have returned the file is what the database generates.
- *Traffic.* The table knows only bytes since a connection opened, writes fail
  half way, ids come back, users are reset and deleted meanwhile, the panel is
  stopped. Correct: every polled byte is counted once and reaches the database.
- *Sessions.* bcrypt takes tens of milliseconds between reading the admin row and
  acting on it, so logins and password changes overtake each other; failures of
  one address arrive while it is already locked out; entries are collected
  meanwhile. Correct: accepted sessions were issued under the password in force;
  the lockout holds for who failed often enough in a row and for nobody else.
- *Startup.* Idempotent-looking steps, each of which may fail or be cut short,
  against marks that say they are done, while the API address may be moved from
  under a config that names it. Correct: a one-time step is done once and for
  good, a serving panel agrees with its database on the address, no inbound takes
  a port of the panel, startup ends, the panel always comes up or exits.
- *Live monitor.* A stream that ends between two samples, or with its sing-box.
  Correct: a rate on display outlives at most one stream.
- *Client rules.* First match wins, rules of three authors, old formats on file.
  Correct: every destination goes where its author meant.
- *Log.* Interleaved lines, ids that come back, a tail that begins and ends inside
  a line. Correct: an entry is one connection, with all its lines.

## 2. Process control: `SingboxProcess`, `ManagedSingbox`

Each goroutine in `Req` makes one call at a time. `op` is the method, `arg` the
config it was given, `pc` the next interaction with the file system or the
process table. `Acquire` is `s.mu.Lock()`, `Release` the deferred `Unlock`.

| Code | Actions |
|---|---|
| `SaveConfig`, `ConfigStore.Save` | `Save` (the rename is atomic; an I/O error leaves the file) |
| `ApplyConfig` | `Save`, `ApplyGate`, `ApplyCheck`, then Stop and Start |
| `ProcessManager.Stop` | `StopGate`, `StopTerm`, `StopPoll`, `StopKill`, `StopClear` |
| `resolveBin`, `ProcessManager.Start` | `StartResolve`, `StartGate`, `StartCheck`, `StartSpawn`, `StartRecord`, `StartSettle` |
| `Alive`, `CommandLine`, `ManagedRunning`, `forget` | `Alive`, `CommandLineIsOurs`, `ManagedRunning`, `Forget` |
| the goroutine that Waits for a child | `Reap` |
| process table | `SingboxExit`, `OtherStart`, `OtherExit` |
| panel killed and started again | `PanelRestart` |

`ManagedSingbox` is the promise to the rest of the panel: a file and at most one
controlled sing-box, launched only from "down", with the config on file, if that
is valid; it may go down at any time. The refinement maps `up` to the config of
the running process that the pid file names.

Abstractions. The poll of Stop (30 looks) is its last look, since the earlier
ones only decide how soon it comes; the settle loop of Start likewise. A
process can exit between any two steps. `sing-box check` is a fixed set `Valid`.
Reaping and marking the pid as exited is one step (the hazard at `env.go:96` says
why). The boolean constants switch on two environments: `PidReuseInCall` lets
the kernel recycle a pid while Stop holds it, `BinMayVanish` lets the binary be
gone when ApplyConfig looks for it.

`process`: two callers, two pids, two valid configs and a refused one. Two callers
are enough for the mutex to matter; two pids give an old sing-box and a new one, or
one of them and an unrelated process (three at once: the theorems, which hold for
any number); two valid configs tell the one in force from the one on file. It shows
`ManagedIsOurs`, `SignalsOnlyOurs`, `NoSecondSingbox`, `NoLostSingbox`,
`SuccessMeansInForce` and `RefusedConfigLeavesProcess`, the refinement of the contract
and the liveness properties `CallsReturn` and `CrashNoticed`.

Fairness. A call keeps taking steps (weak fairness of `Work`: every system call
it makes returns, and `sing-box check` ends). `sync.Mutex` hands the lock to a
waiter that has waited a millisecond, so a waiter is not overtaken for ever
(strong fairness of `Acquire`). A process that got SIGKILL dies and Wait returns.
Nothing is assumed of SIGTERM, of sing-box, or of the disk.

Findings. `pid_reuse`: the gate of Stop says it can never signal an unrelated
process (`process.go:110`), but a sing-box inherited from an earlier panel is not
a child, so its pid can be recycled between the gate and the two signals; so can
that of a child that exits and is reaped in between.

`duplicate_start`: main's comment says that ProcessManager rejects duplicate
starts (`main.go:234`), but it rejects only what the pid file shows. A child whose
pid could not be written, or whose panel died before it wrote it, is an orphan,
and the next start launches a second sing-box beside it. `NoSecondSingbox` and
`NoLostSingbox` except orphans; `NoDuplicateStart` excepts nothing and is violated.

Outside the runs: when sing-box runs but its binary is gone, `ApplyConfig` reports
success and leaves the old config in force (`service.go:154`), which its comment
does not say. The runs have `BinMayVanish = FALSE` for that reason; with TRUE TLC shows
the behaviour as a violation of `SuccessMeansInForce`.

A hazard without a property: `StopKill` does not wait for the death it asked for
(`process.go:124`), so the launch that follows may fail. That is reported, and no
comment promises more; the contract lets sing-box go down at any time.

## 3. Database and generated config: `PanelConfig`

Rows keep what the properties tell apart: a port with its network, the outbound
of a user, and one value for all else that reaches the config. Tags are checked
for uniqueness by a query like the port's and are part of that value.

A request opens a transaction, validates, and decides its write (`CreateInbound`
... `DeleteOutbound`); `Commit` writes it. SQLite serialises: a transaction that
has read what another one changed since is in `outdated` and cannot commit.
(`Commit`, `Rollback` and `WriteRow` are external: they stand for gorm and SQLite.
With the rollback journal that `database.go` gets by default, of two open
transactions of which one wants to write what the other has read, one is
refused with SQLITE_BUSY or times out; the model lets the first to commit win,
and `Rollback` covers the rest.) Then `Lock`, `ReadInbounds`,
`ReadLinks`, `ReadUsers`, `ReadOutbounds` (the queries of `regenerate`; the
preload of users is three), and `Apply` or `ApplyError`. `Generate` is the
config as the properties see it: what listens, with whose credentials, where
each user goes out, and the outbounds. `PutConfig` is the raw editor,
`PanelRestart` a crash. Ids of deleted rows may be used again, which includes
what SQLite does. `behind` and `direct` are history variables.

Runs. `panel`: two goroutines, two requests in one behaviour from every
consistent database of two inbounds, a user and an outbound, three ports of which
one is reserved, with failing queries and applies, crashes and edits by hand. All
initial databases stand in for longer histories, so two requests
suffice to race any operation with any other. It shows `ReferencesExist`,
`PortsDistinct`, `QuietInSync`, and, since regenerations queue on the mutex,
`EventuallyInSync`. Fairness is as in section 2. The bound on requests ends
behaviours, so deadlock is not checked.

Finding. `torn_read`: `DeleteOutbound` refuses while a user is assigned, because
falling back to direct "would silently expose the client's address"
(`outbound.go:119`); but a regeneration that has read the users before they
were moved, and the outbounds after the old one was deleted, generates the
moved user as direct. The next queued regeneration repairs it.

Partly modelled: the meta table is in `Startup` and `ClientRules`; the encodings
inside a row are nowhere.

## 4. Traffic: `TrafficPoller`

`conn` is sing-box's table, `lastSeen` and `pending` the poller's maps (0 for
a missing key), `total` the column in the database. `PollOnce` is one poll,
`Delta` its rule for counters that fell. `FlushTick`, `FlushWrite(u)`, `FlushFail(u)`
and `FlushEnd` are one flush, user by user; `RunEnds` the deferred one;
`StopPoller`, `MainExits`, `PanelStart` the panel's process. Upload and download
are counted alike, so there is one counter. `sampled` and `due` are history: what
the polls saw pass.

`traffic`: one connection id, two openings of it, two bytes, two users and a
restart. It has a connection that ends between polls, an id that comes back, for
another user or for none, a flush that fails at either user, and a reset or
deletion in the middle of a flush. It shows `Accounted`, `CountersOnlyGrow` and,
given that database errors are transient (strong fairness of each user's write)
and tickers tick, `TrafficStored`. A second connection id was tried and finds
nothing else.

Findings. `traffic_shutdown`: Run flushes when cancelled (`poller.go:132`), but main
returns without waiting for it. `traffic_restart`: the poller's memory of what was
counted is lost with the process while sing-box and its connections live on, so
they are counted again from zero.

## 5. Sessions and throttle: `Sessions`, `Throttle`

`password` and `version` are the one admin row. `cookies` are the session cookies
ever signed and not expired, wherever they are: `ver` is the claim, `pw` a
history of the password they were issued under. A request moves through
`pc`: `LoginAllow` (the throttle), `LoginRead` (the row), `LoginFail` or `LoginOk`
(after bcrypt); `ChangeBegin` (`RequireAuth` and the checks of the body),
`ChangeRead`, then `ChangeWrite` or `ChangeRefused`. Reading and writing the row
are different steps because two bcrypt operations lie between them. The
operators of `Throttle` are the methods of the throttle, which run under its own
mutex and so are atomic: `Collect` is `gcLocked`, `Recorded` the cap on the map,
`Fail` the rest of `Fail`. `Tick` moves the clock; all times are in the unit of one tick.
`PanelRestart` forgets the throttle, and the cookies too if the secret could
neither be configured nor persisted (`main.go` only warns). `fails` is a
history of the last `MaxFailures` recorded failures of a key since its last
success or restart.

Logout only clears the caller's cookie in the browser and changes nothing the
server keeps. Failing queries refuse a request, which other actions already do.
A cookie is in `cookies` from the write of the row, a moment before the response.

`sessions`: two requests, two addresses of which the map has room for one, two
passwords, two failures in a window of two ticks lock out for two, entries are
collected at most every second tick (so a lapsed entry can survive until the next
failure), five ticks, three versions. Five ticks pass a window, a
lockout and what follows it; three versions give a login that is overtaken twice.
Password changes do not overlap (`Overlap = FALSE`). It shows `SessionsCurrent`,
`RevokedForGood`, `LockoutHolds`, `LockoutJustified`.

Finding. `sessions_overlap`: `ChangePassword` writes the successor of a version it
read before bcrypt. Two changes that overlap write the same version, and the cookie
issued for the one that was overwritten stays valid under the other's password,
which contradicts "Bumping the version invalidates every cookie issued under the
old password" (`auth.go:141`).

Two facts about the throttle the model makes precise. Requests that passed
`Allow` before the lockout still end in `Fail`, so more than `MaxFailures`
comparisons can be under way at once; the properties are about recorded
failures. And `Block` must not exceed `Window` (`ThrottleAssumption`; the panel
uses 15 minutes for both) for the proof that a lapsed entry may be dropped.

## 6. Startup, requests, shutdown: `Startup`

`Startup` composes what the other modules keep apart: main's sequence and the
requests of several goroutines, both mutexes (`imu` of `inbound.Service`, `smu` of
`singbox.Service`), the database (`meta` the Clash API address, `rows` the inbounds
by port, `mark` the migration), `config.json`, sing-box, and the ports other
processes hold. `stage` is where main is, `call` where a goroutine is in
Regenerate or Restart, `exp` the address the poller and the live monitor were
given, `reserved` the ports no inbound may have.

| Code | Actions |
|---|---|
| `main` until `APIConfig` | `Boot`, `ReservePanelPort`, `SetClashAPIAddr`, `APIConfig` |
| `EnsureClashAPIAvailable`, `ReservePort` | `EnsureClashAPIAvailable`, `ReserveAPIPort` |
| `SeedDefaults` | `SeedCount`, `SeedFirst`, `SeedSecond` |
| `BackfillUserTokens`, `MigrateClientRouting` | `BackfillUserTokens`, `MigrateClientRouting`, `SaveMark` |
| `startManagedSingbox` | `StartManagedSingbox` |
| `Regenerate`, `ApplyConfig`, `Service.Restart` | `ReadTables`, `Save`, `Gate`, `StopSingbox`, `LaunchSingbox`, `Restart`, all ending in `Return` |
| handlers | `CreateInbound`, `DeleteInbound`, `ApplyButton`, `StartButton`, `StopButton`, `PutConfig` |
| signal, `Shutdown`, death | `Drain`, `Exit`, `Crash` |
| the host | `SingboxExits`, `PortTaken`, `PortReleased` |

Process control is used at the level of its contract `ManagedSingbox`, which
`SingboxProcess` implements and `WithinContract` shows the panel keeps to: `up`
is what the managed sing-box runs. Any call can fail; a failed Stop still leaves
sing-box down, because what can fail there is the removal of the pid file after
the kill. `Gate` has the case that sing-box runs without its binary: the apply ends
with success and sing-box keeps what it runs. The
queries of one regeneration are one step here, which is the abstraction of
section 3. A generated config is its API address, its inbounds and whether it
is `legacy`, that is, from a version that routed destinations on the server;
a config written by hand is `Edited` and may start or not. The start, stop and
restart buttons hold `smu` while they work; start and stop are one step.

Three history variables say what the properties may excuse. `behind`: the address
was changed at startup and nothing has regenerated since, an apply failed or was
cut short, or the file was edited. `skipped`: an apply found no binary and left the
running sing-box with an older config. `origin`: what made the inbounds, a seeding
(`"seeds"`), a seeding that failed or was cut short (`"cut"`), or an administrator
(`"admin"`).

`startup`: two requests in two goroutines, two starts, from a fresh host, from
one last run by an old version, and from one in use; five ports, of which two
are free for the API, one is both a seed's and a possible API port, and other
processes hold one at a time. Two starts are one that is cut short anywhere and
one that finds what it left; two requests suffice for an apply and a restart, or
two applies, to interleave. Every request can come at any moment. It shows
`InStep`, `MigratedForGood`, `SeedsWhole`, `PanelPortsKept`, `WithinContract`,
`SomebodyMoves` (no deadlock between the mutexes) and `StartupEnds`. `SomebodyMoves`
is `Unjammed`, which says who may go on in terms of the mutexes (`CanGoOn`) and is
proved, and the claim that `CanGoOn` is what ENABLED says, which TLC checks. The bounds on
starts and requests end behaviours, so deadlock is not checked otherwise.

Fairness: main keeps running. No request runs before it serves, so its calls
never wait for a mutex.

Where the code does not keep what its comments promise. Two definitions state the
promises without the excuses; no passing run can have them, TLC violates both as an
invariant on the bounds of `startup`, and section 8 has the condition under which
each holds.

`AddressAgrees`: by the comment of `SetClashAPIAddr` (`service.go:528`) config, monitor
and reservation "always agree". That holds only once something regenerates. On a
host that is seeded and migrated nothing does: the new address is stored, the
poller and the monitor ask it, and sing-box is started with, or keeps, the old one
until the next change. `EnsureClashAPIAvailable` moves the address in the same way.
The repository's README (lines 158-160) knows the symptom.

`SeedingIdempotent`: `SeedDefaults` "creates one vless-reality and one hysteria2
inbound when there are none yet. Idempotent." A seeding that ended after the first
row is never completed, because the next start counts one inbound. `SeedsWhole`
excuses it.

Smaller things the model makes precise:

- main's comment that "Seeding and backfill regenerate the config" (`main.go:107`)
  is not true of the backfill, which changes no config.
- `ReservePort` does not look at the inbounds there are: an address chosen for
  the API may be the port of one. `CanRun` is then false and sing-box stays down,
  with the panel up.

## 7. What the panel shows: `LiveMonitor`, `ConnectionLog`, `ClientRules`

Three independent machines; `MCPanelViews` runs them in one model, each
behaviour in one of them.

*`LiveMonitor`.* A sample is the run of sing-box it comes from and its number.
`Check`, `Open`, `ReadSample`, `EndOfStream`, `ReadFails` and `Wait` are the loop of
`Run` and `readStream`; `Shown` is `setLatest` or `setDown`. The stream of a sing-box
that is gone is sure to end (`ReadEnds`); that of one still running may end at any
time (`StreamCloses`). `LiveTypeOK` says among others that a stream is open exactly
while it is read, whichever way the reading ended. `wire` is what was sent
and not yet read, so samples of a dead sing-box still arrive. A line that is not
JSON is skipped by the code and is as if it had not been sent. Three runs of two
samples: a rate can outlive its stream, meet a second one that ends without a
sample, and a third. `RateIsCurrent`; and under fairness of the loop alone
(requests are answered or refused) `DownShowsZero`.

*`ConnectionLog`.* A line is its connection's id, the kind the parser's
expressions see in it, and a value; in bytes it is two chunks, so that the tail can
begin inside a line and a write can end inside one. `ParseLine` is the body of
the parser's loop, `Fill` its assignments, `Complete` the trimming at both ends,
`ConnectionLogs` the function. User, inbound, source and target are set by the same rule
from different lines; `source` and `target` stand for them. `byID` gives every id a
number, 0 for a missing key. Every log of five
lines with two ids, at a tail of four lines and a page of two connections: both
bounds bite, ids come back after a restart. `EntriesExact` compares with a
definition by sets of lines (`Shows`), `TruncationTold` relates the page to the
whole log. Assumed of sing-box: it writes its "started" line before any
connection of that run. Numbering ids and outbounds in order of first use, and
naming a source first, are symmetries.

*`ClientRules`.* `normalizeRouteRules` and the rules section of
`UserSubscription` as operators, on every list of up to three of fifteen test
rules: current and legacy, sloppy and refused ones, two sources under one
rule set name. The reference is `Wanted`: where the administrator and the comments of
`UserSubscription` send a destination. `Decision` is Mihomo's rule matching, which
is external: first match wins, a name is resolved when a rule needs its address and
has no `no-resolve`. `DecisionsWanted` compares the two for every destination the
rules tell apart; `ProvidersComplete` and `SavedStaysReadable` are about the lists.
Abstracted: a value is what it covers and whether it is in normal form. The types
whose values only have a syntax (ports, processes, UIDs, expressions, ASNs) are
left out: normalisation treats them alike and the model keeps one type of each
other kind.

One exception shows in `DecisionsWanted`: `hostOnly` leaves the brackets of an IPv6
address without a port (a `Host` header on port 80 or 443), `net.ParseIP` does
not take them, and the subscription gets `DOMAIN,[...],DIRECT` for the panel's own
address, which the next rule then rejects.

## 8. What is proved

All proofs are checked by TLAPS for every value of the constants the named
assumptions allow: any number of goroutines, pids, configs, ids, ports,
addresses, passwords, and any bounds.

*`SingboxProcess_proofs`.* The inductive invariant `IInv` adds to `TypeOK`: who is past
the mutex (`MutexInv`); how the process table, the children and the exited marks
agree (`ProcInv`); that a running sing-box is named by the pid file or in the
hands of the call that spawned it (`TrackInv`); and what each control point knows
(`StopInv`, `StartInv`, `ApplyInv`, `DoneInv`). None of the safety properties is
inductive alone: that Start finds nothing running when it spawns needs that the
gate's answer is exact, which is `ManagedExact`, and that needs `ProcInv` and
`TrackInv`. From it follow the six safety properties of `process`
(`SignalsOnlyOursThm` if pids are not recycled inside a call,
`SuccessMeansInForceThm` if the binary does not vanish) and `ImplementsContractThm`,
the refinement of `ManagedSingbox`. Three more theorems say what no run does.
`StopMeansStoppedThm`: when Stop has answered "stopped" or "not running", no recorded
sing-box runs until it has returned; its own invariant, `StopDone`, follows a stop
through its control points. `OnlyLaunchesManageThm`: only a spawn or the recording of
its pid turns `ManagedRunning` from false to true, so nothing that happens to pids,
children, marks or the panel brings back a sing-box that was gone (after `TypeOK`,
this is what `CrashNoticed` needs besides fairness). `CallsCountDownThm`, below.
Assumption: `ConstantsAssumption`.

*`PanelConfig_proofs`.* `WritesValid`: the write of a transaction nobody has overtaken
is still allowed by the tables as they are. `SnapshotsFresh`: what a regeneration
has read is what the tables hold, or someone is queued behind it. `FileInSync`:
with nobody regenerating or queued, the file is in sync. With `TypeOK` they are
inductive and give `ReferencesExistThm`, `PortsDistinctThm` and `QuietInSyncThm`.
From `QuietInSyncThm` and `ReferencesExistThm` follows what a user of the panel sees,
`RoutedAsAssignedThm`: when requests have returned and nothing was left behind, every
user in the config on file leaves by the outbound the database assigns.
Assumptions: `PanelAssumption` (among others that no outbound has the tag
`direct`), `AbsentAssumption`.

*`Sessions_proofs`.* Row and throttle share few steps, so the invariant has two
halves. `RowInv`, while password changes do not overlap: a cookie or a login
under way holds the present row or an older version, and a change about to write
holds the present version, so its write overtakes them all. That gives
`SessionsAreCurrent` and the action property `RevocationLasts`. `KeyInv` says how an
entry summarises its key's history: `failures` counts the end of it, all in a
row; before those lies nothing, a gap longer than the window, or a failure from
which a lockout runs; a missing entry means the last failure is older than
the window. `FailKey` and `CollectKey` are the lemmas that `Fail` and `gcLocked` keep it;
`LockoutAlwaysHolds` and `LockoutIsJustified` read the two properties off it.
`OverlapHarmless` is about changes that do overlap, see below.
Assumptions: `ThrottleAssumption`, `NoEntryAssumption`, `SessionsAssumption`.

*`Startup_proofs`.* `IInv` adds to `TypeOK`: main's address is the database's from
`APIConfig` on, and reserved from `ReserveAPIPort` on (`AddrInv`); only main calls
before it serves (`CallInv`); unless `behind`, the file is what the tables generate
or someone is about to write it, and a config read under `imu` is fresh or its
reader is followed by another regeneration (`SyncInv`); the mark implies no legacy
config on file, nor running but in a sing-box that was skipped, and main between the
regeneration and the mark knows the same (`MarkInv`); how far the seeding has come (`SeedInv`). `InStep` is not inductive
because a request that commits while another applies makes file and tables
differ, which `SyncInv` accounts for through the goroutine that still has to
regenerate. From it: `InStepThm`, `MigratedForGoodThm`, `SeedsWholeThm`,
`PanelPortsKeptThm` and `WithinContractThm`, for any number of goroutines, ports and
starts. Assumptions: `StartupAssumption`, `EditedAssumption`.

The two mutexes do not jam: `UnjammedThm` adds that sing-box's mutex is only held by
a goroutine past every lock, so that someone can always go on.

*`TrafficPoller_proofs`.* The first part says what a sum over a set of connections is
worth: it grows by what one connection adds, and by nothing else. `IInv` adds to
`TypeOK` how the poller's memory and the history follow a connection (`lastSeen` is
what was last sampled of it, or it is new) and `Accounted` in a form that
survives a flush that fails half way. From it: `TypeCorrect`, `AccountedThm` for any
finite set of connections and any number of users, and the action property
`CountersOnlyGrowThm`. Assumption: `TrafficAssumption`; that the set of connections is
finite is sing-box's table at any one time.

*`Monitoring_proofs`.* `LiveMonitor`: everything on the wire is from the run the open
stream belongs to, and `ended` counts what it should at each step of the loop;
`RateIsCurrentThm` follows. Assumption: `LiveAssumption`. `ConnectionLog`: the state
invariant `LogInv` is only the shape of the log; the work is in one state. `Parsed`
is the invariant of the parser's loop: after the lines of a set `s` the entries are
the connections of `s` in the order they were opened, each the entry `Expected`
defines by sets of lines, and `byID` has exactly those of the run of sing-box being
read. `ParsedGrows` is its step: a line changes the entry of its connection as
`Fill` says (`ExpectedGrows`, `UsedGrows`), opens one, or starts a run whose number no
connection has yet (`EpochForm`). `TailForm` and `EntriesForm` show which lines
`Complete` keeps for each parity of `Start`. Together: `EntriesExactThm` and
`TruncationToldThm`, for logs, tails and pages of any length. Assumption:
`LogAssumption`.

*`ClientRules_proofs`.* The state is a list of rules (`Listed`); the theorems are about
every such list. A list that can be saved is described rule by rule: `NormalForm` is
what normalisation makes of an accepted rule, `NormalAgain` that it leaves that
alone, which gives `SavedStaysReadableThm`. `OneSource` shows that the last
provider of a name is every rule's provider, which gives `ProvidersCompleteThm`.
`LinesForm` gives the lines of a subscription by position, `LineByLine` which of them
match a destination, `FirstMatch` that a client decides by the first that does;
`Decided` then compares with `Wanted` by cases. `DecisionsWantedThm` holds for lists of
any length over any names, nets and rule sets, with the exception of section 7.
Assumption: `RulesAssumption` (the names and nets the panel's own rules speak of are
different, and markers such as `Blank` are not values).

*The findings, delimited.* Six runs find a property violated, and sections 2 and 6
have three more that the code does not keep. For each a theorem states the condition
under which it holds, for every value of the constants, so that TLC's counterexample
is known to be the only kind there is:

| Run or property | Holds if | Theorem |
|---|---|---|
| `pid_reuse` | no pid is recycled while Stop holds it (`~PidReuseInCall`) | `SignalsOnlyOursThm` |
| `duplicate_start` | the pid of every spawned sing-box gets recorded (no `orphans`) | `NoDuplicateStartThm` |
| `SuccessMeansInForce` | the binary stays (`~BinMayVanish`) | `SuccessMeansInForceThm` |
| `AddressAgrees` | the address never changes under a generated config | `AddressAgreesThm` |
| `SeedingIdempotent` | no seeding fails or is cut short (`origin` is never `"cut"`) | `SeedingIdempotentThm` |
| `torn_read` | no deletion of an outbound is committed between the queries of users and of outbounds (`OutboundsHeld`) | `EgressKeptThm` |
| `sessions_overlap` | no password change writes over a row newer than the one it read (`OverwritesNothing`); overlapping alone does no harm | `OverlapHarmless`, `SessionsAreCurrent` |
| `traffic_restart` | no connection that a poll has counted is still open when the panel starts (`FreshStarts`) | `NeverOverCountedThm` |
| `traffic_shutdown` | main leaves only after the poller's last flush (`MainWaits`); about the first life of the panel, a later one starts from whatever that left | `ShutdownKeepsTrafficThm` |

The conditions are assumptions on a constant (`~PidReuseInCall`, `~BinMayVanish`) or
action properties added to the specification, `Spec /\ [][A]_vars`, and TLC has found
the theorems true of the restricted specifications before they were proved; each
leaves states in which the interesting case happens (a shutdown that flushed, a
restart with connections nobody has polled, two changes of which the later is
refused). They say which change of the code would end the finding: one transaction
around the four queries, an update that names the version it read, counters kept per
connection across a restart, main waiting for `Run`, a child killed when its pid
cannot be written, a regeneration whenever the address changed, both default inbounds
in one transaction.

*Counting down.* Liveness needs ENABLED and fairness, which stay with TLC. What the
code has to provide for it is safety and is proved: a number that every step of the
one concerned lowers, that nobody else raises, and that is positive only while a step
is left. With the fairness of section 2, 3, 6 or 7, which says those steps are
taken, the end follows.

| Liveness checked | Count | Theorem |
|---|---|---|
| `CallsReturn` | `StepsLeft`, at most 16 per call; who holds the mutex has some left | `CallsCountDownThm` |
| `EventuallyInSync` | `ToDo`, at most 7 per request | `RequestsCountDownThm` |
| `StartupEnds` | `MainLeft`, at most 78 from the start to serving; main never waits for a mutex meanwhile | `StartupCountsDownThm` |
| `DownShowsZero` | `DownLeft`, samples on their way and 3, while sing-box is down | `DownIsNoticedThm` |

`CrashNoticed` and `TrafficStored` have no such number: the first waits for the
system, in the second a failing write is tried again without bound.

*`Inductions`.* The library's induction theorems take an operator, which the
installed provers cannot instantiate. These proofs look at a smallest
counterexample instead, which is a set: `MinimalSubset` is the well-foundedness of
strict inclusion on finite sets, and `MinOf`, `MaxOf` follow. `TableExists` and
`TableUnique` say that a recursive function over the subsets of a finite set
exists and is the only one, which is what the folds of the community modules
choose; `PrefixTable` gives their values over the prefixes of a sequence. So sums,
`FoldLeft` and loops are proved about without RECURSIVE. `Lists`, `Ranked` and
`ListingGrows` are about listing a finite set by a key, where `Cardinality` of the
smaller ones is the place.

## 9. What is only model-checked

- Liveness (`CallsReturn`, `CrashNoticed`, `EventuallyInSync`, `TrafficStored`,
  `StartupEnds`, `DownShowsZero`), and that `CanGoOn` is what ENABLED says in
  `SomebodyMoves`: out of the prover's reach, which has no rule for WF, SF or
  ENABLED. The safety half of four of them is proved (Counting down, section 8), and
  the other half of `SomebodyMoves` is `UnjammedThm`. Every other property of a passing
  run is a theorem.
- The violations, which are single behaviours; where they end is proved (section 8).

## 10. Not modelled, and what is left

Open, in this order:

1. `PanelConfig` and `Startup` meet only through `Generated`: a regeneration with its
   separate queries (section 3) inside the two mutexes (section 6) is not one model.
2. That a request whose apply failed says so (`ApplyError`): `QuietInSync` excuses a
   failed or interrupted apply through `behind`, and checks only that the next
   regeneration repairs it.

Left out for good: protocol drivers, key and certificate generation (sequential
encoders), `database.Init` and the first admin row, diagnostics (parallel dials,
each into its own slot), the parsing of environment variables, HTTP plumbing, the
front end (a client of the modelled handlers), deployment scripts. systemd kills
the whole control group, sing-box included, when the unit stops: to the models
that is a crash and an exit of sing-box, in either order.

## 11. Running

    tlc -workers 2 -config <run>.cfg MC<module>.tla
    tlapm <module>_proofs.tla
