# A verification of GRF

GRF is a desktop program and a command line tool that register accounts in bulk
through a pipeline of concurrent workers, keep the resulting credentials, and
serve them through a local API gateway. This directory specifies the parts of it
whose correctness rests on concurrency and bookkeeping: TLA+ modules translated
from the Go source, TLC runs over small instances, and TLAPS proofs for every
size. Code is cited as `file:line`, relative to `internal/` unless it starts
with another directory.

## 1. The system

| Part | State | Operations | Talks to |
|---|---|---|---|
| Registration engine (`pipeline/pipeline.go`) | `done`, `reserved`, four worker pools, `oauthCh`, `ctx` | S mints tokens, P reserves a seat and prepares a verified mailbox, C signs up, OAuth exchanges, probes, counts, exports; `run` shuts down | inventory (calls), gateway sink (call), stop file, manual OAuth tasks |
| Inventory (`inventory/inventory.go`) | token queue, mailbox queue, slot semaphores | `PutT`, `PutQ`, `ClaimPair`, `Depths`, purge | called by the engine's workers |
| Gateway account pool (`gateway/selector.go`, `store.go`, `http.go`, `build.go`) | account rows (SQLite), leases per account (memory) | acquire a lease, forward, refresh, save tokens, mark, release | HTTP clients, provider, operator, health sweep, engine (import) |
| Gateway health sweep (`gateway/health.go`) | running flag, timer, cancel function | check every account, persist verdicts, configure, stop | account rows |
| Gateway server (`gateway/manager.go`, `desktop/app/app.go`) | settings file, current server, its status | save, apply, start, stop, serve until closed | desktop application |
| Gateway stream (`gateway/compat.go`) | open blocks and tool calls of one answer | translate each event, finish | provider, client, request log |
| Request log (`gateway/request_log.go`) | ring buffer of entries | record, list, clear | gateway handlers |
| Manual OAuth (`manualoauth/store.go`, `desktop/app/manual_oauth.go`) | one JSON file per task, the active task id | enqueue, wait, start, finish, cancel, list, remove | worker process and desktop process, through files |
| Daemon and worker (`daemon/`, `runner/`, `state/`, `cmd/grok/main.go`) | PID file, stop file, lock file, state file | start in background, run, request stop, stop, kill | two processes, through files |
| Browser pool (`turnstile/browser_pool.go`, `pool_bridge.go`) | idle slots, closing flag, child process | warm, borrow, return, close, restart | S workers |
| Account files (`gateway/import.go`, `sink.go`, `desktop/app/app.go`) | account rows, the report of an import, an archive | import, export | account rows, engine |
| External clients (`protocol`, `email`, `oauth`, `onboarding`, `clearance`, `cpa`) | none shared | HTTP calls, files | engine, gateway |
| Adapters, configuration, user interface | none shared | conversion, parsing, display | all |

What is hard in it, and what correctness means part by part:

- **Engine.** Four pools race on two counters that are read and written
  separately; a seat taken by one worker is given back by another, on one of
  nine failure paths; the shutdown closes a channel others send on, after waits
  that are bounded. Correct means: seats and slots are accounted for exactly, no
  more than `-t` accounts are counted, each attempt is settled once, a stop ends
  the process and loses no account it had promised to settle.
- **Gateway accounts.** A selection is made from a listing read before the lock;
  requests, health sweep, operator and the engine's import write the same row.
  Correct means: leases are released on every path, no account serves more
  requests at once than it may, a verdict is not overwritten by a weaker one.
- **Gateway server and stream.** Saves, a failing `Serve` and a shutdown meet on
  one manager; events of one dialect become events of another, in any order and
  cut off anywhere. Correct means: the shown status is true, a save is applied, no
  listener escapes, a client reads a whole well-formed stream.
- **Manual OAuth.** Two processes and three goroutines read and write one file
  with no lock between them. Correct means: an authorization obtained is not
  lost, one session at a time, a session ends only its own task.
- **Daemon.** Two starters, one stopper and a dying worker share four files.
  Correct means: one worker at a time, a stop reaches it, what is shown of it is true,
  though each writes over what the others wrote.
- **Browser pool.** Slots are borrowed, returned and closed concurrently.
  Correct means: a slot has one user, none is lost, no browser outlives the pool.
- **Account files.** A file is imported credential by credential and found again
  by a key derived from it, while tokens rotate and rows are deleted. Correct
  means: the report adds up, an archive comes back to the rows it left.

`PROJECT.json` lists every hazard at its line with the properties that cover it.

## 2. Plan

1. `Pipeline` with the abstract `SeatLedger` (done): engine and inventory.
2. `PipelineProofs` (done): types, seats, refinement.
3. `GatewayPool` and `GatewayPoolProofs` (done): requests, health sweeps and the
   operator on the account rows.
4. `ManualOAuth`, `Daemon` (done, with proofs): the two parts that two processes
   share through files.
5. `GatewayServer`, `BrowserPool`, `RequestLog`, `GatewayStream` and `AccountFiles`
   (done, with proofs): what surrounds the engine and the pool. `MCServices` puts the
   seven of 4 and 5 into one pair of runs, `ServicesProofs` what is proved of them.
6. The rest of `Pipeline`'s invariants (done): slots, one job per worker, the
   channel, the manual drain.
7. What a later extension would take, in this order: the bridge to the Python
   process (`turnstile/pool_bridge.go`: start, reader, restart and close race on
   one child), the stored responses (`gateway/responses_store.go`), a composition
   of `Daemon` with `Pipeline` in which a stop that outlasts its wait kills an
   engine that is draining.

## 3. Pipeline and SeatLedger

### What is modelled

`Pipeline` is the engine of `pipeline/pipeline.go` together with the inventory
it keeps its tokens and mailboxes in. Every loop of every worker kind is there,
with each early return.

| In the model | In the code |
|---|---|
| `done`, `reserved` | `Engine.done`, `Engine.reserved`, two atomics |
| `fate[a]`, `by[a]` | how far account attempt `a` got, and the worker holding it; an attempt begins with a successful `tryReserve` |
| `tFresh`, `tStale` | tokens in the inventory, alive and past their age but not purged |
| `With({"queued"})`, `With({"stale"})` | mailboxes in the inventory, likewise |
| `tSlots`, `qSlots`, `phys`, `qPending` | free slots of the four semaphores |
| `With({"handoff"})` | `oauthCh` |
| `sw`, `pw`, `cw`, `ow`, `pd`, `ran` | control point of each worker; `d` of `tryReserve`; `last` of `oauthWorker` is set |
| `main`, `cancelled`, `closed`, `forced`, `rushed`, `crashed` | `run`, `ctx`, `close(oauthCh)`, the first wait timed out, the second did, a goroutine panicked |

One action is one step other goroutines can see. What the code does in several
visible steps is several actions: `remainingCapacity` and the depth check
(`SGate`, `SEnough`/`SStart`; `PGate`, `PEnough`/`PStart`), the load of `done`
and the CAS on `reserved` (`PStart`/`PReload`, `PReserve`), the CAS on `done` and
the release of the seat (`OComplete`, `OSettle`), the release of a pair and the
hand-over (`CSignup`, `CSend`). What it does under one lock or in one CAS is one
action; every inventory operation purges first, so every such action purges.

Abstractions:
- tokens are counted, not named; which mailbox of the queue a pair takes and
  which job of the channel a worker takes is left open (the code is FIFO);
- an external call succeeds or fails (`CallsFail`), and takes any time;
  `WriteAtomic` and the database may fail on their own (`LocalFail`);
- `remainingCapacity` is one read although it loads two atomics: it is only a
  gate, what it decides is decided again by `tryReserve`, whose race is modelled;
- a timeout of 15 s or 30 s can pass only while a worker is inside an external
  call, since everything else a worker does is short;
- waits of the loops are nothing: the worker may look again at any time;
- `run` ends with the deferred `Close` of its solver (`MainClose`). The browser pool's
  waits for the solves under way, without a bound (`CloseWaits`); the other solvers'
  do not;
- castle tokens, the snapshot, the SSO files and the upload carry no control.

`SeatLedger` is what the run promises of each attempt, without workers: opened
once, counted once (never more than the target) or closed, nothing undone.
`LedgerView` maps a fate to its entry.

### Runs

| Run | Instance | Question and answer |
|---|---|---|
| `pipeline` | 1 S, 2 P, 1 C, 2 OAuth workers, width 2, 3 attempts, target 2, channel of 1, everything may fail or expire | the accounting, the ownership and the ledger hold in all 1,150,000 states |
| `pipeline_stop` | one worker each, 2 attempts, target 2, manual flow, nothing expires, `Close` waits | a stop ends the process, if no solve hangs, and the accounts handed over are settled first |
| `pipeline_starved` | one worker each, nothing fails | the run may hang below its target |
| `pipeline_closed_send` | one worker each | a slow signup sends on the closed channel |
| `pipeline_overshoot` | 2 P workers, target 2 | one account more than the target is started |
| `pipeline_leak` | one worker each, expiry | an expired mailbox keeps its seat |
| `pipeline_last_import` | one worker each | the last success is not imported |

The bounds: two P workers are needed for `tryReserve` to race and two OAuth
workers for `tryComplete` to find the target met by the other; a third attempt
is needed for an overshoot of target 2; a channel of one makes C wait for OAuth.
A token and a mailbox slot per worker make every semaphore run empty. `Width` is
2, so that a lost slot shows before the pool is dead. Workers of a kind and
attempts are symmetric; the liveness runs use no symmetry.

Properties (the comment before each in `Pipeline.tla` says more):
- `SeatsAccounted`: `reserved` is the attempts that hold a seat, leaks included,
  on every path; `SeatsWithinTarget`: the target bounds successes and seats.
- `SlotsConserved`: each semaphore's slots are free or held, one holder each, so
  the silent drop in `Semaphore.Release` never happens.
- `OneJobPerWorker`: no worker holds two accounts, none idles holding one.
- `CrashOnlyAfterTimeout`: the shutdown order protects `oauthCh` unless the first
  wait timed out. `pipeline_closed_send` shows that it can.
- `ManualStopDrains`, `StopTerminates`: what a stop must do.
- `ImplementsLedger`: the refinement.

Fairness. `FairSpec`: every goroutine that can take a step of its own
eventually does (the Go scheduler), and nothing is assumed of external calls.
`StopTerminates` needs no more, but for the solver whose `Close` waits: that its
calls end (`SolvesEnd`) is not assumed but a premise of the property, since the code
puts no limit on the launch of a browser and the opening of a context
(`browser.go:127`, `331`). With a Chrome that hangs there a stopped process stays
until it is killed. `FullFairSpec` adds that external calls return.
`ReachesTarget` fails even so. With two ready cases a `select` is not assumed
fair between them.

### Findings

- **Starvation** (`ReachesTarget`). S mints only while `done + reserved <
  target`. If P reserves the last seats before S has minted for them, nobody
  mints any more and the run hangs below its target.
- **Send on a closed channel** (`NoSendAfterClose`). The wait for the register
  workers is bounded by 15 s, their signup calls do not watch `ctx`.
- **Seats leak** (`SeatsInFlight`): a mailbox that expires in the queue, and an
  OAuth worker cancelled in its minimum interval, keep their seats.
- **More accounts than `-t` are started** (`SeatBound`), though never counted.
- **The last success is not imported** (`SuccessIsImported`): reaching the
  target cancels the context the import runs under.

### Proofs

`PipelineProofs` holds for all finite pools, any number of attempts, and any target
and width allowed by `PipelineAssumption` (`deriveWorkers` gives every pool the same
width, at most the target).

- `TypeCorrect`: `TypeOK` is inductive by itself.
- `SeatsAreAccounted`, `TargetIsNeverExceeded`: the inductive invariant is
  `SeatInv == TypeOK /\ SeatsAccounted /\ SeatsWithinTarget`. The argument is
  about sets first (`SeatStep`: every step keeps the set of seated attempts,
  adds one to it and increments `reserved`, or removes one and calls
  `releaseReserve`; `SuccessStep`: likewise for `done`), and finite cardinality
  turns it into the counters. `releaseReserve` never meets a zero counter
  because the attempt that releases is itself counted. `ReservedStep` bounds
  `reserved` with any value of the old `done`, since it is a natural number.
- `OneJobAlways`, `CrashNeedsTimeout`, `SlotsAlwaysConserved`,
  `ManualStopAlwaysDrains`: the inductive invariant is `WorkInv`, of five parts.
  `JobInv` says of each pool which accounts its workers have in hand; `JobStep`
  shows that a step leaves them alone or moves one account of one worker.
  `CrashInv` adds `ClosedInOrder` (after an orderly close the C workers are gone),
  and needs `JobInv`: a worker about to send is busy, so it is not gone.
  `SlotInv` counts the holders of a slot fate by fate, so that a purge, a move and
  an expiry are each one line of arithmetic; that the sum is `Width` is what keeps
  `Freed` from dropping a release. `DrainInv` says, of the manual flow without
  expiry, that nothing is spaced or leaked and that an OAuth worker leaves only a
  closed and empty channel; it needs at least one such worker, which
  `deriveWorkers` starts (`SomeWorkerAuthorizes`).
- `LedgerImplemented`: `ViewStep` says what each step does to `LedgerView`,
  and `SeatInv` gives the ledger's bound on counted entries.

## 4. GatewayPool

### What is modelled

| In the model | In the code |
|---|---|
| `row[a]` | a row of `gateway_accounts`: enabled, `auth_status`, `health_status`, `cooldown_until` in the future, `max_concurrent`; ids are `AUTOINCREMENT`, so a deleted row is gone for good |
| `leases[a]` | `Selector.leases`, in memory |
| `pc`, `on`, `seen`, `lim`, `answer` | a handler goroutine in `Acquire` and `handleResponsesPath`: its listing, the account it holds, the limit it was admitted under, what `Forward` returned |
| `healthRunning`, `sweep`, `chk`, `verdict` | the flag, each caller of `CheckAccounts`, and where its workers are with each account |

Every statement on the database is one action, and each has an action for its
failure (`LoadFail`, `SaveFail`, `MarkFail`, and those of a check): the client's
context may be done, the row gone, the database busy. `Forward` and `CheckHealth`
are one action each, since all they change is the caller's own credential: the
outcome is chosen freely within what the control flow allows (a 401 is final
only after a refresh or without a refresh token; a call that gets no response
forgets the refresh). A failed listing leaves no trace and is no action. The
flag's CAS and the listing that follows are one action: nobody else can act on
the flag in between.

Left out: token values, the choice by last use (any eligible account may be
picked), failure counts, model names and the copying of the response.

### Runs

| Run | Instance | Question and answer |
|---|---|---|
| `gateway` | 1 account, 3 requests, 2 callers of the sweep, limits 1 and 2, symmetric requests and callers | the six safety properties hold in all 490,000 states |
| `gateway_ends` | 1 account, 1 request, 2 callers, limit 1 | leases come back, sweeps end |
| `gateway_limit` | 1 account, 2 requests, limits 1 and 2 | a request is admitted above a limit that was just lowered |

One account is enough for what the properties say, each speaks of one account at
a time; the theorems cover any number. Two limits and three requests are the
least that lets old and new limits mix in one account.

- `LeasesAccounted`: leases are the requests that hold the account, on every
  error path, also when the row was deleted.
- `AdmissionBound`: every set of requests sharing an account contains one that
  was admitted under a limit at least as large as the set. It is what remains
  true when the limit is changed while listings are in flight, and it is the
  plain bound when the limit is never changed.
- `OneCheckPerAccount`, `DeletedStaysDeleted`, `UnhealthyUntilChecked`: the
  concurrent writers of one row.
- `LeasesReturned`, `SweepEnds`: under `FairSpec`, in which a handler and a
  health worker always go on: provider calls have a timeout, and a client that
  neither reads nor leaves is not considered.

Finding (`SelectionWithinLimit`): the limit is read before the lock. The operator
lowers it, and a request is still admitted under the old one.

### Proofs

`GatewayPoolProofs` proves all six safety properties of the run for any set of
accounts, finite set of requests and any sweeps. The inductive invariant is
`IInv == TypeOK /\ LeasesAccounted /\ AdmissionBound /\ SweepsExclude`.
`TypeOK` is not inductive alone: that a release leaves a natural number needs
`LeasesAccounted`. `LeaseSteps` says that a step picks, releases, or leaves the
holders alone, so that the counting is done once for each kind. `AdmissionBound`
survives a pick because the new request is admitted with `leases < limit` and
every set it belongs to is within the holders. `SweepsExclude` strengthens
`OneCheckPerAccount`: at most one caller is in a sweep, the flag is up while it
is, and a caller outside has no check left. `RowSteps` classifies the writes and
gives the two action properties.

## 5. The services around them

Seven modules, one per component, each with its own specification. They share no
state, so that interleaving them says no more than each alone: `MCServices`
extends all of them, chooses one in its variable `part`, and lets that one move.
A property of any module is thus checked in the behaviours of its part, and the
two runs below are small model checks of the seven parts in one.

### What is modelled

**`Daemon`** (`daemon/daemon.go`, `daemon_unix.go`, `runner/worker.go`,
`state/state.go`, `grf start|stop|status` of `cmd/grok/main.go`, `App.Start`,
`App.Stop` and `GetDashboard` of `desktop/app/app.go`).

| In the model | In the code |
|---|---|
| `pidFile`, `stopFile`, `lock`, `snap` | the PID file, the stop file, the lock file and `state.json` |
| `snapTmp`, `set[w]` | `state.json.tmp`, one for all processes, and the `Store.Set` process `w` is in |
| `proc[p]` | how far worker process `p` is in `RunWorker` and in the first and last steps of `pipeline.Run` |
| `cmd[c]` | how far a terminal or the desktop is in a start or a stop |
| `kids[c]` | children never waited for: once ended they are zombies, which `PIDAlive` takes for alive |
| `Dashboard`, `Reconciled`, `FormatStatus` | what the window, `reconcileSnapshot` and `grf status` make of `state.json` |

Each read or write of a file is a step. A worker may die at any of them, and a start
may fail or be interrupted at any of its own. A truncated PID file, open but not
written, is a state of its own; so are the open, the write and the rename of
`state.json.tmp` (`SetBegin`, `SetWrite`, `SetRename`). A `Set` of another process may
come between them: it truncates what was written, leaves a tail of the longer text,
renames the file of the other, or takes the name away so that the other's rename
fails. The disk may refuse any `Set`, whose error every caller drops, and a stop file,
upon which `daemon.Stop` returns before it signals or kills (`StopRequestFails`).
Three histories say when the promises below are off: `overlapped` (commands met),
`spoiled` (a `Set` met another, or failed, since one had the file for itself), `cut`
(the worker whose PID a start wiped without writing it back). What the engine does
between its first and its last write is left to `Pipeline`.

**`ManualOAuth`** (`manualoauth/store.go`, `desktop/app/manual_oauth.go`).
`file[t]` is the status in a task's file, `waiter[t]` the worker's goroutine that
polls it, `active` and `owner` are `App.oauthTaskID` and whose `oauthCancel` is
kept; `at[s, r]` is the control point of the three goroutines of one call of
`StartManualOAuth`: the call, the wait for the Chrome window, the poll for the
token. `finishManualOAuth` is three steps, since it empties the slot under the
mutex and reads and writes the file after it. `lister` is `ListManualOAuthTasks`,
which reads the tasks and writes some of them back. A write is an open and an end:
the temporary file bears the task and the process id, so that two goroutines of the
desktop that write one task tear each other's (`mixed`, `SaveEnds`), and an error
leaves the file alone. `DesktopRestart` loses every
goroutine and keeps the files.

**`GatewayServer`** (`gateway/manager.go`; `ServiceStartup`, `ServiceShutdown`,
`SaveSettings`, the gateway switch and `patchEnvFile` of `desktop/app/app.go`).
`config` and `tmp` are the settings file and the temporary file every save writes
first, `mgr` the manager's fields, `srv[v]` each `http.Server` ever started with
its `Serve` goroutine, `call[c]` the calls of the window, `appMu` the holder of
`App.mu`. `net.Listen` reports the address it bound, which for a host name is not
the one it was given (`Bound`). `serving` are the servers with requests in flight:
`Stop` waits for those of the server it read at its beginning and gives up on them
after five seconds, which ends the save with an error (`GivesUp`, history
`outlived`).

**`GatewayStream`** (the stream writer of `gateway/compat.go`; the response writer
of `gateway/request_log.go`). `provider` is the external event source, `writer`
the fields of `compatibilityStreamWriter`, `out` the events the client has been
sent, `seen` the usage the log reads from them. Every handler of an event type is
an operator that returns the events written and the new writer, so that one event
is one action. Text and arguments are left out, the numbering of blocks and of
tool calls is not. The provider may send any event at any time, arguments of an item
it has already ended among them (`provider.late`), which the writer passes on
(`compat.go:544`). A usage is the triple of input, output and total: the Anthropic
dialect writes the first two (`WithoutTotal`), and the log sums a missing total
(`NormalizeUsage`).

**`RequestLog`** (`gateway/request_log.go`): `entries`, `nextID` and `usage` of
the buffer, the handlers that append and the window that reads (`view`) and
clears. Each method runs under the lock and is one action.

**`BrowserPool`** (`turnstile/browser_pool.go`): `ready` is the channel of slots,
`user[b]` a call of `Solve` and the slot it borrowed, `browser` the slots whose
process lives, `streak` their failures in a row, `toClose` how far `Close` is.
A slot given back after the channel was closed is in it or not, either way. A call
launches its browser if need be (`borrowed`), opens a context (`opening`) and works in
it (`solving`); only the last has a deadline in the code.

**`AccountFiles`** (`gateway/import.go`, `sink.go`, `ImportGatewayAccountFiles` and
`exportGatewayAccountFiles` of `desktop/app/app.go`, `SaveAccount`'s source key).
`rows` are the accounts with the key each is found again by, `import` and `report`
the import under way and what it will tell, `export` the archive being built.
Credentials are records of what they name; a field may be missing.

### Runs

| Run | Question and answer |
|---|---|
| `services` | all safety properties below hold, in 1,290,000 states |
| `services_end` | all liveness properties below hold, in 57,000 states |

| Part | Instance of `services` (and of `services_end`, where it differs) | Why it is enough |
|---|---|---|
| daemon | a terminal and the desktop, two workers (one) | two commands meet and two workers compete for the lock and the files; a third command repeats one of the two |
| oauth | one task, two sessions (one) | the stale goroutines of one session meet another of the same task, which is the hard case: the slot is compared by task. Liveness needs one session, since `SlotTellsSession`, checked with two and proved for any number, says the slot always has its own owner |
| server | two calls, an address and a host name (the host name), two servers | saves that meet, the late goroutine of a failed server, a save after one that gave up on its requests. A host name is the address with which every save restarts the server |
| stream | two tool calls, counts of zero and one, five events (one call, two events) | two calls and the text in any order, with usage twice, whose total fits the sum, does not, or stands alone; nothing of it is about liveness |
| log | two handlers, a buffer of two, five requests (smaller) | the buffer fills, evicts twice, is cleared half full |
| pool | three borrowers, two slots, threshold two | a call waits for a slot, a slot fails twice, `Close` meets all stages of a call |
| files | one user, one address, two tokens, one client, up to two selected files of two credentials, of which one is read, two rows (none) | an owner named either way, both or not at all; a file beyond the limit; rotation and deletion during an export. One file of an import is read in the run; `ReportAddsUpAlways` covers any number. A second client only multiplies the keys |

Both cfgs name a VIEW, which tells TLC what to compare two states by; it merges
states that differ in nothing the properties or the steps look at:
- sessions and calls are counted by what they are like and not by name (`Alike`). No
  action and no property of the two parts names one, so this is what a symmetry set
  would do;
- `tmp` counts while a call is about to rename it, which every call writes first, and
  `crowded` while there are calls, since it is reset with the last;
- of a daemon in which commands have overlapped, `ServicesView` keeps the processes,
  the commands and the files they are guided by. No action's guard reads `snap`,
  `snapTmp`, `spoiled`, `cut` or what a `Set` writes, and the two properties that do
  say nothing once commands have overlapped. `EndView` does the same to every daemon
  state: `StopEndsItsWorker` is about `cmd` and `proc`.

Safety:
- `OneWorkerAtWork`: the lock file is held exactly by the worker inside, and is
  free once it is gone. `WorkerIsFindable`: between commands that follow each
  other the PID file names the engine at work, but for a worker whose entry a start
  wiped and was cut short. `StatusTellsWorker`: the dashboard and `grf status`, which
  decide differently, both tell of it and of its PID, though each process writes its
  own copy of the whole file; where two of these writes met, that or an unparsable
  file until the next one; nothing after one the disk refused.
- `SlotTellsSession`: the desktop's slot and the sessions agree in both
  directions: a live session owns the slot, and a taken slot has a live owner.
  `OnlyTokensAuthorize`: whoever writes a task file last, a task is authorized
  only if a token for it was issued.
- `RunningIsServing`, `ListenersAreManaged`, `SettingsApplied`: the shown status
  is true, no listener escapes, and a save that met no other and succeeded leaves the
  gateway as the file says. The second excepts what the code does not prevent, a
  `Serve` goroutine that clears a newer server's fields. The third also says where the
  requests in flight are: at the server that listens, or left by a `Shutdown` that
  gave up on them or a `Serve` that failed. A second save that disables the gateway
  does succeed while they run.
- `StreamIsGood`: whatever order the provider's items come in, the client has read the
  beginning of a well-formed stream of its dialect; only the block of an item whose
  arguments the provider goes on sending after its end may be written after its stop.
  `EveryStreamIsFinished`: it is complete when the handler returns, also when the
  provider broke off. `UsageReachesTheLog`: the log counts the provider's last usage,
  although it reads the translated events: all three numbers for Chat Completions,
  input, output and their sum for Anthropic's clients.
- `LogKeepsTheLatest`, `IdsNeverReused`: eviction, totals and IDs, also across a
  clear.
- `SlotsAreConserved`, `NoBrowserOutlivesThePool`: no slot is lost or shared, and
  nothing is alive when `Close` has returned.
- `ImportReportAddsUp`: files, failures, notes and stored credentials agree at
  every step. `ArchiveIsReimportable`: no entry of an archive hides another, and
  each comes back to the row it left.

Liveness, under `ServicesSpec`:
- `StopEndsItsWorker`: weak fairness of the steps of a command, and none of the
  worker: the kill is what ends it. A start may be interrupted at any time, a stop
  is taken to run to its end once its request is written; one whose request cannot be
  written leaves the worker alone.
- `SlotIsFreed`, `AbandonedIsRetryable`: weak fairness of a session's steps (the
  device flow has a deadline, which is one of them) and of the list, which the
  window asks for again and again; and strong fairness of a list's write that succeeds
  (`ListMends`): the disk does not refuse the same task for ever. The user closing the
  window is not assumed.
- `SavesReturn`: weak fairness of a call's steps and strong fairness of taking
  `App.mu`: `sync.Mutex` hands itself over to a waiter that has waited 1 ms.
- `CloseReturns`: weak fairness of `Close` and of the bounded steps of each call
  (`BoundedStep`). The launch and the opening of a context run under
  `context.Background` (`browser.go:127`, `331`): no fairness is assumed of them, and
  that they end is the premise `LaunchesEnd`.

### Noticed, and left as it is

These are behaviours of the models that follow from the code. Most are contradicted
by no text of the repository. Where one is, the text is quoted; the properties except
the case by name, and the model has it:

- A token that arrives while the list is between its read and its write of the
  same task is overwritten and lost (`desktop/app/manual_oauth.go:44`).
- Two goroutines of the desktop that write one task at once share a temporary file
  (`manualoauth/store.go:98`); a torn task file ends the worker's wait with an error.
- Two processes that write `state.json` at once share `state.json.tmp` and may leave a
  file that does not parse (`state/state.go:106`), although the type says "Snapshot is
  written atomically" (`:36`). The next write mends it.
- A start that is interrupted, or whose disk is full, between the truncation of the PID
  file and its write leaves a worker that published itself before without an entry
  (`daemon/daemon.go:47`): `grf stop` then finds nothing to stop.
- A stop whose request file cannot be written ends before the signal and the kill
  (`daemon/daemon.go:126`).
- A worker that ended while the desktop lives is a zombie: `Stop` fails on it and
  the window says it runs (`daemon/daemon_unix.go:48`).
- A start interrupted before the spawn leaves `running` without a PID: `grf
  status` says running, the dashboard stopped (`cmd/grok/main.go:270`).
- Settings stay saved although the gateway then fails to listen: `SaveSettings` writes
  the file first (`desktop/app/app.go:438`), while
  `docs/plans/2026-07-23-embedded-build-api-design.md:62` says of an occupied address
  "Enable fails without changing persisted running state". And an error at startup
  keeps the gateway from being applied until the next start (`:179`).
- With a host name in the address every save restarts the server, since the bound
  address never equals the saved one (`desktop/app/app.go:760`).
- An account imported first by its address and later by its user id gets a second
  row, and an archive drops the OAuth client (`gateway/store.go:301`,
  `desktop/app/app.go:635`).
- A save that disables the gateway fails when requests outlast the five seconds; the
  next one finds no server and succeeds while they still run (`desktop/app/app.go:760`).
- A usage that is a total only is lost to the log for an Anthropic client, and a total
  that is not the sum is replaced by the sum (`gateway/compat.go:590`).
- Arguments of an item the provider has already ended are written into its stopped
  block (`gateway/compat.go:544`).
- A hanging launch of Chrome keeps `Close`, and a stopped engine, for good
  (`turnstile/browser_pool.go:206`).
- `response.failed` ends a translated stream as a normal answer
  (`gateway/compat.go`).

### Proofs

Each proof module shows its type invariant and the theorems named here for every
value of the constants.

- `DaemonProofs`: `OneWorkerAlways` from `LockTells` (a worker is inside exactly
  while it holds the lock). The other two need `InOrder`: as long as no command
  met another, one command at most is under way (`Alone`), a command finds a
  worker only at the stages its own step allows, and that one (`CommandFits`), the
  PID file names a worker that has published itself unless the starter has just
  truncated it (`PidTold`), every `Set` under way while a worker is up says that it
  runs (`SetsTold`), and `state.json` names the engine at work or does not parse
  (`StateTold`). `StateStep` classes the steps by what they do to a `Set`, and
  `SetsFit` says that a `Set` which met no other finds the temporary file as it left
  it, and where a process may be in one.
- `ManualOAuthProofs`: `OIInv` is the types, `SlotInv`, `TokenInv` and
  `TokensNamed`. `SlotTellsSession` becomes inductive with `Unasked` and `Early` (a
  session not asked for, or not yet past its claim, has started nothing and is
  not cancelled); `OnlyTokensAuthorize` with `TokenKept` (a goroutine about to
  write success belongs to a session with a token).
- `GatewayServerProofs`: `GIInv` is the types, `CallInv` (who is inside `App.mu`,
  what is left when the desktop is off, and that a save that met no other finds
  the files as it wrote them) and `SrvInv`: besides the properties, the manager's
  fields fit the server they hold except while it is shut down (`MgrTells`), and
  what a call has made sure of at each of its steps (`ApplyTells`). Where the requests
  in flight are (`RequestsKnown`) is an invariant of its own on top of it.
- `GatewayRequestProofs`, the log: `LogIInv` is the types, `LogKeepsTheLatest` and
  `ViewIsPast` (every ID the window shows was given before), which the second theorem
  needs.
- `ServicesProofs`, the browser pool: `PoolIInv` adds to `SlotsAreConserved` that a
  call holds a slot at work and none outside (`HeldWhileAtWork`), also while it
  launches and opens, and that `Close` ends slots only when no call is left, and each
  one (`CloseIsOrderly`).

- `GatewayRequestProofs`, the stream: `StreamIInv` is `TypesInv`, `PhaseInv` (how far
  the writer is follows the provider's answer) and `OpenInv`, which splits on the
  dialect and on whether the writer has finished. For Anthropic's stream the heart is
  `BlocksInv`, a statement about the events written and the writer's table at once:
  every number below `nextBlock` was started once and in order, belongs to the text
  or to one call, and is stopped exactly when its owner is closed, with nothing
  written to it after. Each method of the writer is a lemma about the events it
  appends. `finishStream` is the hard one: `StopAll` writes the stops of the calls
  still open in an order nobody chooses (the code ranges over a map). The proof takes
  any enumeration of them and shows that its stops (`StopsOf`) close every block
  once; nothing in it is an induction. `ChatInv` does the same for the chat dialect,
  where order is all. That usage reaches the log (`observe`) needs that only the last
  events carry any.
- `AccountFilesProofs`: `FilesIInv` is `RowsInv` (a row's key names the owner of its
  credential, `RowsKeyed`, which is what survives a rotation, and no key twice),
  `ImportInv`, and `ExportInv`: each entry comes from a credential whose key it can
  be given again, and entries of one owner have the numbers up to their count, each
  its own. `OneRowPerKey` and `IdsNameOneAccountAlways` are stated by the theorems
  only: an ID, once given, stays with one account.
- `ServicesProofs`, the composition: a step of `MCServices` is a step of one
  component and a stutter of the others (`PartsStep`), so a behaviour of the whole is
  one of each (`ComponentsKeepTheirSpecs`), and what is proved of each holds of all
  together (`ServicesTypeCorrect`, `ServicesAreSafe`). The components share no state,
  which is what makes this short.

## 6. What is only checked, and what is not modelled

Proved for every value of the constants: every invariant and action property
that the passing runs check, in all nine components modelled, and the refinement
of `SeatLedger`. The proofs rest on the assumptions on the constants, which each
module states and TLC evaluates, and on the library's facts about finite sets,
functions and sequences. Each theorem is about the specification without its
fairness (`Spec`, `StreamSpec`, `LogSpec`, `FilesSpec`, or the safety part,
`DSafety`, `OSafety`, `GServerSafety`, `PoolSafety`, `ServicesSafety`), so that it
holds with any.

Only model-checked:
- liveness (`StopTerminates`, `LeasesReturned`, `SweepEnds` and the five of
  `services_end`): fairness and `ENABLED` are out of the prover's reach. That these
  hold for more workers, requests or slots than the runs have is not shown;
- the six properties of the violation runs, which are refuted by an example and
  not proved.

Not modelled:
- **Stored responses** (`gateway/responses_store.go`) and the translation of
  requests and whole responses: single statements and pure conversions.
- **Keys, encryption, migrations, the list of models**: single statements and
  pure functions.
- **Token values**: that a rotated refresh token can be lost is named under the
  hazards; the models have the steps at which it happens.
- **The bridge to Python processes** (`turnstile/pool_bridge.go`): see the plan.
- **External clients** (`protocol`, `email`, `oauth`, `onboarding`, `clearance`,
  `cpa/upload.go`): they call outside services, and to the rest each call
  succeeds, fails or does not return.
- **Configuration, paths, logging, menus, web front end, packaging**: parsing,
  layout and display, without state a property is about.

The invariants are checked under every interleaving of the actions and the
failures named above; nothing is said about the Go memory model, whose role the
atomics, mutexes and channels of the code make small in the parts modelled.
