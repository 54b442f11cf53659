# A verification project for scum_run

scum_run is the program that runs beside a SCUM game server on the machine of
whoever hosts it. It starts and stops the game server process, keeps a
connection to the management server (scum_server), executes the jobs it is
sent, tails the game's logs, and installs and updates the game and itself. This
directory holds TLA+ models of the parts of it that decide something: what they
promise, in which orders their steps can happen, and what is proved about them.

Paths below are relative to the repository, and `file.go:123` is a line in it.

## 1. The system

scum_run has two modes (`main.go`). In *host-agent mode* it registers with the
management server over HTTP, polls it for operations and sends heartbeats. In
*legacy mode* it keeps a WebSocket open, over which messages arrive and logs
leave. Both modes hold a process manager through the local runtime. In host-agent
mode the only operations polled for are database queries and file reads, so the
manager is called for the bootstrap start and for its status; in legacy mode
messages, jobs, timers and the shutdown call it.

```
        scum_server
      HTTP |      | WebSocket
           v      v
   +-----------+  +---------------------------------+
   | hostagent |  | client  (legacy mode)           |
   |  two loops|  |  one goroutine per message      |---- websocket_client
   +-----+-----+  |  jobs --> jobprotocol (journal) |
         |        |  logs <-- logmonitor, buffers   |
         |        |  install / update / self-update |---- updater (script)
         v        +--------------+------------------+
   +-----------+                 |
   | local     |  capabilities   |
   | runtime   |<----------------+
   +-----+-----+
         v
   +-----------------+   state file, startup lock file
   | process.Manager |<----------------> disk (outlives the program)
   +-----+-----------+
         v
   SCUM server process (outlives the program)
```

### Components

| Component | State it keeps | Operations | What makes it correct |
|---|---|---|---|
| **Execution-job journal** `internal/jobprotocol` | `records` (job id to record), the journal file | Accept, MarkProgress, MarkResult, Cancel, Reconcile, cleanup, load, save | a redelivered job runs once; capacity holds; a result can be asked for again; an outcome never changes |
| **Job handling** `internal/client/job_protocol.go` | one goroutine per message | accept, progress, execute, report | as above, for goroutines that race and programs that die |
| **Startup lock** `internal/process/state.go:167` | one file per service | acquire, release | one Start at a time; a crash does not leave the service locked |
| **Process manager** `internal/process/manager.go` | `cmd` and its pipes, `waitDone`, the waiter goroutine of each child | Start, Stop, ForceStop, Restart, GetStatus, IsRunning, UpdateConfig, CleanupOnExit | never two servers; a running server is never lost; every call returns; crash loops are stopped |
| **Persisted process state** `internal/process/state.go` | one JSON file per service and generation | read, write (temporary file and rename), record failures and exits | what the file says can be reconciled with what runs |
| **WebSocket client** `internal/websocket_client` | `conn`, `isRunning`, `lastHeartbeat`, three kinds of goroutine | Connect, Close, SendMessage, ReadMessage, heartbeat, monitor, reconnect | a lost connection comes back, is authenticated, and leaves none behind |
| **Legacy client** `internal/client/client.go` | component pointers, install flag, semaphore, buffers | Start, Stop, ForceStop, handleMessage and one handler per message type | handlers that overlap do not undo each other |
| **Installation and update** `client.go:1148-1633`, `internal/steam` | `installing`, `AutoStartAfterInstall` | automatic installation, update, initialisation afterwards | one installation at a time; the server comes back after an update |
| **Log pipeline** `internal/logmonitor`, `client.go:2715-2939` | an offset per file; two batch buffers, a rate window | scan, tick, file events; add, flush, send | no line lost, repeated or out of order; batches bounded |
| **Host agent** `internal/hostagent` | session token, capability fingerprint, bootstrap marker | register, heartbeat, poll, execute, sync capabilities, bootstrap start | the session is renewed; the server knows the current capabilities; operations get a result |
| **Local runtime** `internal/localruntime` | current launch profile | ApplyLaunchProfile, ExecuteCapability, ProcessReadiness | a profile change does not disturb what runs |
| **Self-update** `internal/updater`, `client.go:1993-2165` | the new binary, a generated script | download, prepare, hand over to the script, exit | either the old or the new program comes up again |
| **Backups and files** `client.go:2267-2665, 3261-4620` | none between requests | one goroutine per request | results of one request are its own |
| **Database** `internal/database` | a SQLite handle | query, execute | statements that only read do not write |
| **Monitors** `internal/monitor` | last sample | periodic sampling | (no decision depends on them) |
| **Environment** `internal/runtime, network, signal, utils, logger` | none | dependency installation, port check, signals, encodings, log files | (their outcomes are inputs of the others) |
| **Configuration** `config`, `model`, `internal/const` | constants | reading | (data) |

### How they interact

* *Calls.* In legacy mode `handleMessage` starts a goroutine per message, so the
  process manager's operations are called by messages, jobs and a scheduled restart
  at once; the host agent's two loops call its status, and the bootstrap its start.
  Nothing orders these calls but the manager's own mutex and its lock file.
* *Shared state.* `Manager.mutex` guards the fields in memory, `Journal.mu` the
  journal, `Client.mutex` of the WebSocket client its connection. The state file is
  guarded by nothing.
* *Callbacks and channels.* The waiter goroutine of a child tells at most one
  receiver of the exit through `waitDone` and then closes it. `handleDisconnection`
  signals a monitor through an unbuffered channel without waiting. `onConnect` and
  `onReconnect` send the token after the connection's mutex has been released.
* *Disk.* Journal, state file, lock file, bootstrap marker and the updater script
  outlive the program, and so does the game server itself.

### What is hard here

1. Two goroutines inside one operation, or inside two that share the state file:
   state is read, the lock is released, a process is waited for, and the state read
   at first is written back.
2. The program ends at any moment; what is on disk then decides what the next run does.
3. Messages arrive twice, late, in another order, or for an earlier program run.
4. Time-outs race with the answers they wait for (ten seconds for an exit, a stale
   lock, a stale heartbeat).
5. Things that must go on for ever: reconnecting, freeing capacity, returning to the
   caller.

The list of hazards, each at its line and with the property that watches it, is in
`PROJECT.json` under `hazards`.

## 2. Plan

The models follow the order in which a mistake would cost most: first what decides
whether a job runs twice or a second server starts, then what must come back by
itself, then what carries data.

| # | Module | Composes / implements | State |
|---|---|---|---|
| 1 | `JobJournal` | journal and the handler goroutines over it | done, proofs in `JobJournalProofs` |
| 2 | `StartupLock` | implements `Mutex`, proved | done, proofs in `StartupLockProofs` |
| 3 | `ProcessManager` | calls, waiters, state files, the lock as one step | done, proofs in `ProcessManagerProofs` |
| 4 | `WsClient` | the client's goroutines and the reader of `internal/client` | done, proofs in `WsClientProofs` |
| 5 | `HostAgent` | both loops, scum_server, the bootstrap start | done, proofs in `HostAgentProofs` |
| 6 | `LogMonitor`, `BatchBuffer` | a batch buffer implements `LineStream`, proved | done, proofs in `LogPipelineProofs` |
| 7 | `LogPipeline` | the monitor and two batch buffers | done, proofs in `LogPipelineProofs` |
| 8 | `ServerInstall`, `SelfUpdate` | the install flag and the goroutines that outlive it; the files and the script of an update of the client | done |
| 9 | `LegacyClient` | `ServerInstall`, `SelfUpdate`, the end and the restart of the program | done, proofs in `LegacyClientProofs` |
| 10 | `Transfers`, `Backups`, `Operations` | file requests and backups of one program | done, proofs in `OperationsProofs` |
| 11 | `StateFile` | two writers, one temporary file name | planned |
| 12 | `JobContract` | abstract specification that `JobJournal` implements: a job is new, running or decided, and runs once | planned |

Abstract specifications: `Mutex` and `LineStream` are there; `JobContract` is next; for `WsClient` a
link that is up, down or closed would do.

Proofs planned: the refinement of `JobContract`. Every type invariant and every safety property of the
runs is proved (section 6).

The runs are kept to a dozen, one for each question. The disagreements between the code
and its words are listed in section 7; one of them, two servers after a change of the launch profile,
has a run that refutes what the comments say (`process_profile`), the others are where the
properties stop.

## 3. The models and the code

A model keeps the control of the code (guards, early returns, error paths, the order
of steps) and takes what happens under one mutex as one step, unless the code waits,
does I/O that another process can see, or releases the mutex in between. Data is
reduced to what the properties tell apart.

**`JobJournal`** (`internal/jobprotocol/journal.go`, `internal/client/job_protocol.go`).
`records` is `Journal.records`, `disk` the file. `Accept`, `Reconcile`, `Cancel`, `Mark`
are the methods, one step each because all hold `Journal.mu` throughout, and each
includes the cleanup and the save it ends with. `pc[h]` follows a goroutine through
`handleExecutionJob`: accepted, running, executed, idle. `NewJournal` is a program
start, `Crash` its end at any point. Time is a clock that ticks; a record is
expired by comparison with `Retention`. A job id with white space around it is
`padded`: `Accept` stores it trimmed, `MarkProgress` and `MarkResult` look it up raw.

**`StartupLock`, `Mutex`** (`internal/process/state.go:167-193`). A call opens the file
exclusively, else stats it, else removes it when old: three steps of `at[s]`, since
another process can act between any two. `Release` removes the file by path, whoever
owns it by then. A crash takes all calls of a process. `Mutex` is what the callers
are promised, with a `Break` for a lock given up as stale.

**`ProcessManager`** (`internal/process/manager.go`, `state.go`, `manager_other.go`). One
caller is one goroutine in one call, `call[c].at` the place where it last left the
mutex, waited or touched a file. `Start` runs `Acquire`, `Look`, `Read`/`Attach`, `Reread`,
`Prepare`, `WriteStarting`, `Spawn`, `WriteRunning`, `Publish`, `Settle`; `Stop` and
`ForceStop` either wait for the child in memory or signal the process the file names.
The waiter goroutine of a child reaps, clears memory, reads the state, writes
the exit and announces it. Every state-file access is a step of its own, and each may fail (`MayFail`): Start and
Stop return then, the waiter records nothing, `recordStartFailure` writes over the configured state, and all but
the `starting` state go on without a write that failed. `Changes` says between which generations
`UpdateConfig` may switch. `missed` notes that the state file has missed a change of the process it names. The lock is
taken in one step here; `StartupLock` shows what that step rests on. A lock left by a
dead program is `"leftover"` and expires. A server is running, a zombie or gone;
it survives the program.

**`WsClient`** (`internal/websocket_client/client.go`, reader in `internal/client`).
`Connect` is the dial and what follows under the mutex. `Disconnect`,
`SignalReconnect`, `SignalDropped` are `handleDisconnection`, for whichever goroutine
runs it. Each monitor and each reconnect is a goroutine of its own, and the rendezvous
on `reconnectChan` needs a monitor that stands in its select.
`doubled` notes that a reconnect was started beside another or for a connection that
was already back.

**`HostAgent`** (`internal/hostagent/agent.go`). `Poll` is `Run` followed by `pollLoop`,
`Heart` is `heartbeatLoop`. Each has at most one request, in `req[l]`; `at[l]` says where
it is between "about to send" and "answered, failed or refused", and where its
loop goes on. `register` is `Build`, `Send`/`Answer`, `SetSessionToken`,
`ApplyProfile`, `Declare`, each a step because the other loop can do the
same in between. `syncCapabilities` is `Compare` and `Uploaded`, the bootstrap
`CheckBootstrap`, `StartServer`, `MarkBootstrap`. `Synced` and `Registered` are the
places these functions return to. scum_server is a small environment: it
stores capabilities, hands out a launch profile generation, claims operations for the
agent, forgets sessions. Capabilities are known by their fingerprint, an operation by
its name. Every hello is answered with a profile in the argv launch mode.

**`LogMonitor`** (`internal/logmonitor/monitor.go`). A line that the game writes is a piece with a
number; a file is the sequence of its pieces and its size their count. `content` is what is on
disk, `offset` the monitor's memory (`fileStates`), `handed` what the callback has still to take. `Watch` and `ScanExistingFiles` are the start,
`HandleFileEvent` takes one of the watcher's events, `CheckFileChanges` and `CheckNext` are
a tick over all files, and `Stat` and `Read` the two looks at a file from which
`checkFileForNewLines` decides what is new; the game can write between any two of them. Either look may fail
for a file that exists (`LookFails`, `ReadFails`): a failed Stat deletes the offset, a failed read may have handed over
a part. `forgotten` notes the pieces that may then be handed over once more, or not at all.

**`BatchBuffer`, `LineStream`** (`client.go:2715-2914`). `Add` is `addLogFileDataToBuffer`: within the
rate window it may drop the line, else the line is kept, and a full buffer is sent. `Flush` is
the ticker's. Time since the last batch counts up to the window and stays there.
`LineStream` is what a buffer promises: accepted lines leave in order, each once, in batches of
a bounded size; a line may be refused.

**`LogPipeline`** composes the monitor, the buffer for its lines and a second one (`INSTANCE`) for the
output of the game process, and stops them in the order of `ForceStop` (`Client.Stop`, which does
the same, is called by nobody).

**`ServerInstall`** (`client.go:228-311`, `541-643`, `911-1085`, `1148-1690`). `reader` is the goroutine that
handles messages one after the other, `auto` the automatic installation, `worker[w]`
the goroutine an update leaves behind, each between the places where it can be interrupted:
preparing SteamCMD, running it, initialising components. `installing` and `autoStart` are the
fields and configuration they share, `saved[w]` what an update has put aside.

**`SelfUpdate`** (`client.go:1993-2165`, `internal/updater`). `update[u]` is a client_update in the program,
`script[u]` the script it has launched; `exe`, `fresh` and `backup` are the three files, each absent,
old, new, or torn when a copy was interrupted. Every command of the script is a step that
can fail, after which the script goes on as its error branch says. Files behave as on
Windows: a running program cannot be overwritten.

**`LegacyClient`** composes both: the exit of an update ends the goroutines of an installation, the
script or the user starts the program again. `ForceStop` waits for the goroutines it knows of.

**`Transfers`** (`client.go:851-859`, `2267-2661`, `3030-3089`, `3886-4618`). All requests are about one file,
the worst case. `place[r]` is where a request stands, `position[r]` how far it has read or
written, `size[r]` the length it has seen or is to write. A unit of the file records who has
written it. The game server extends or empties the file between any two steps (`GameWrites`). `touched[r]` notes whether
it or another request has written or emptied the file since r began with it.
A read in another encoding, which reads the whole file first, sends the same chunks. The program
may end at any step, which leaves the file as it is.

**`Backups`** (`client.go:3261-3320`, `3509-3796`). Archives are numbered in the order in which they are begun;
a name is a server and a second. `archives` are the files that are there, `whole` those that hold all
they should, `doomed` what `cleanOldBackups` has listed to delete. A walk that comes to its end leaves
an archive that is whole or is not: the errors of copying and closing are swallowed (section 7).

**`Operations`** composes both under their semaphores.

## 4. The runs

Every run searches its bounded instance completely.

| Run | Question | Bounds and why they suffice |
|---|---|---|
| `journal_safety` | redelivered, reordered, stale, badly spaced jobs over a crash: run once, capacity, results replay, outcomes stay | 3 ids (two share a key, one without), 2 handlers, 2 program runs, one record kept, retention 0: duplicates by id and by key, eviction and expiry all occur |
| `journal_liveness` | with saves that fail: a job counted as active has a handler, and a full journal gets free again | 1 program run (with a second one it does not, section 7), 3 ids, time up to 2 |
| `lock_exclusion` | file owner is the caller inside until a lock goes stale; refinement of `Mutex`; a leftover is taken over; calls return | 3 calls in 2 processes, 1 crash, 1 file error, stale after 2 ticks: all three contenders of the interesting race |
| `process_restarts` | two callers of Start, Stop, GetStatus over two program runs that end at any step, failing reads and writes, servers that exit at any time | 2 servers, 2 callers (symmetric): a waiter of the old server meets a start of the new one; 3.5 million states |
| `process_profile` | are two servers excluded while the generation, hence the state and lock file, changes under the calls? They are not: expected violation | 2 callers of Start, Stop, GetStatus, 2 generations, 2 servers |
| `process_calls` | Restart, Stop, ForceStop (and the Start within Restart) return | one caller that restarts, one that stops, 1 server, 2 generations, a leftover lock, 1 program run |
| `ws_recovery` | a lost connection returns, authenticated, none left behind; the reader ends | 1 monitor, 1 reconnect, 2 connections: old and new connection together |
| `agent_safety` | the agent's belief about uploads and profile; a single bootstrap | 2 program runs, 1 fault, 2 capabilities, 2 generations, 1 operation of each kind; 2.2 million states |
| `agent_liveness` | an expired session is renewed, every operation is served | 1 program run, 2 faults (the session expires and the re-registration is lost, which ends `Heart`), 2 operations |
| `logs` | offsets, repetitions, order and bounds of what is accepted; what is written is read | 1 file, 3 lines (one blank), 2 changes of the file (created, renamed, removed, truncated), 1 failed look or read, batches of 2, 1 line of output: a full batch, a window and a rotation under every step of the monitor |
| `client` | the flag, the configuration and the files of updates, with exits and restarts in between | 2 server updates beside the automatic one, 2 client updates, 1 start request; 400 thousand states |
| `operations` | what is reported of files and backups, and whether reported archives stay | 3 requests, 2 at a time, 2 changes by the game server, files of up to 3 units in chunks of 2, 3 backups of 2 servers within 3 seconds, 2 kept, 3 of all these together: two requests and a change between their steps; 1.2 million states |

`client` is checked under the constraint `Followed`: a behaviour is not followed further once two
scripts have worked on the same files, nor, together with an update of the client, once two
server updates overlap. Both are reachable and what the properties say there is nothing
(section 7); without the constraint the instance is the same question over more states.

Symmetry is used in `process_restarts`, `client` and `operations`, which check no liveness. Deadlock checking is off
where the system may rightly stop (a stopped program need not be started again, a
stopped client neither) and on in the runs of `StartupLock`.

What the invariants show, beyond the table: `FileIsTrue` ends where the file has missed a change of the
process it names (`missed`): the read or write for the launch or the exit of that process failed, the program
ended between `Spawn` and `WriteRunning`, or a call wrote an older process over it, all reachable
(section 7). Failed reads and writes, ends of the program and overtaken updates of any other kind are
within it: they are repaired by what follows. In the same way
`OneConnection` is about runs in which no reconnect overlaps another, `CapacityBound`
about runs in which no running job's record is dropped, `ExclusiveUntilStale` about the
time before a lock goes stale, and `FingerprintIsUploaded` and `ProfileIsNewest` about
moments when no answer is lost or noted out of order. `ReplaceIsSafe` is about updates of the client
whose scripts do not work together, `InstallFlags` about `AutoStartAfterInstall` while no two updates overlap, and
`ReportsAreTrue` says all of a file until somebody else touches it, that nothing announced is missing and nothing
written has gaps until somebody empties it, and nothing after that; of a mixture of two writers' units it does not complain. `BackupsAreKept` lets a reported archive go only to `Keep` newer ones of its server,
whole or not, or to a backup of its name. Each reservation names
the hazard that makes it necessary, and is as narrow as TLC allows.

## 5. Fairness

* *Goroutines run.* Weak fairness of each goroutine's steps: the Go scheduler does not starve a
  runnable goroutine.
* *Mutexes.* Strong fairness of the callers in `ProcessManager` and of `Connect` in
  `WsClient`: `sync.Mutex` hands over to a waiter after a millisecond (its starvation
  mode), so a caller that can get it again and again does.
* *The network returns.* The strong fairness of `Connect` includes the dial: a dial tried
  again and again succeeds in the end. `reconnect` tries without a limit.
* *Requests end.* Weak fairness of the host agent's two loops: `RequestTimeout` bounds each
  request, tickers bound each wait. `LoseRequest` and a crash have no fairness.
* *Faults are finite.* File errors (`MaxErrors`), lost requests (`MaxFaults`), program
  starts. Nothing is promised when they go on for ever.
* *The log monitor.* Strong fairness of its event case, as Go's `select` chooses among ready cases at random, and weak
  fairness of its steps, of the callback and of a stop that has begun. The game need not write.
* *The clock.* Weak fairness of the lock's `Tick`. The journal's clock has none; nothing
  waits for it.
* *Users.* `LockRecovers` assumes that Start is called again and again; nothing else does.

## 6. The proofs

Everything below holds for every value of the constants that satisfies the `ASSUME`s of
the module (disjoint names, finite sets of handlers and job ids, natural bounds).

* **Journal** (`JobJournalProofs`). `TypeCorrect`; `JobsRunAtMostOnce` from
  `OnceInv`; `AtMostMaxActiveJobs` from `CapacityInv`. `AtMostOnce` is not inductive: that
  a job in hand has no rival follows only when each job that was executed or is in hand
  still has a record in memory *and* in the file (`Recorded`), as `Accept` saves before
  the goroutine starts. `CapacityInv` bounds the active records, in memory and in
  the file, and ties each busy handler to a record of its own. It needs no
  reliable storage: a journal that could not be loaded starts empty, and so do the
  handlers. `OutcomesAreFinal` needs nothing more: a handler that updates a record
  holds an active one, so a terminal record is out of its reach. `ResultsCanBeReplayed`
  from `ReplayInv`: a reported result is terminal in memory *and* in the file, which
  is where the next program run finds it; `OnceInv` says that the record a result is
  written to still carries the key of its job. `CapacityIsNotLost` from `HandlerInv`: the
  records a start loads are of earlier runs, so an active one of this run was made by `Accept`, whose handler keeps
  it until its result makes it terminal. Its hypothesis `NothingPadded` is needed: the record of a padded id
  stays active for ever (section 7).
* **Lock** (`StartupLockProofs`). `TypeCorrect`, `OwnerIsInside` from `Fresh` (while no lock went
  stale, the age is within the limit, nobody is removing, and a holder owns the file);
  `FileIsMutex` maps every step to a step of `Mutex` or a stutter.
* **WebSocket client** (`WsClientProofs`). `NoConnectionLeftBehind` and `TypeCorrect` from
  `IInv`: types, one dialing goroutine at most while nothing was doubled, one open
  connection. The dialer is what makes it inductive: `Connect` overwrites `conn`, and
  only the absence of a second dialer makes the old one closed by then.
* **Host agent** (`HostAgentProofs`). `UploadsAreKnown`, `ProfileIsTheNewest`, `TypeCorrect`
  from `IInv`. A belief is right when nothing is in flight; the invariant says what is in
  flight: either the belief is right, or the loop whose upload (hello) the server took
  last is still noting it and holds exactly what the server stored (answered).
  `Paths` records how each place is reached (nothing but `register` runs in the first
  stage; only a hello leads to a profile). `OneBootstrapStart` from `BootstrapInv`: without
  the marker the server has not been started, save while the marker is being written; all
  other steps of both loops are `Quiet`.

* **Log pipeline** (`LogPipelineProofs`). `BuffersAreBounded` and `BuffersKeepOrder`, for
  every batch size up to the rate: the buffer is empty throughout the window, so that what is flushed
  is all that was accepted and the stream of accepted lines is what was sent followed by what is
  buffered; each step maps to a step of `LineStream` or a stutter. `StopSendsAll`: a stop leaves nothing behind
  in a buffer it flushes. Both buffers are steps of one relation (`Flushed`, `Added`), so each fact is
  proved once.
  `OffsetsAreTrue` and `RepeatsAreForCreation` are about the monitor, for any number of files and
  changes, from `MonitorInv`. A file is present, or it is not, under a name that may come back, so the offset
  alone says little; the invariant adds where the rest is known. `Contents`: a piece is written once. `Queue`: a queued
  removal is of a file that is gone or whose creation is the next event about it. `FreshInv`: what
  has been handed over of a file that exists, unless a failed look has forgotten it (`Counted`), lies before its offset, or a check for its creation is under
  way, or its state is gone and a creation is the first event about it. `CoveredInv`: as long as
  only writes are queued, what lies before the offset was handed over or skipped, and the size a check
  has seen is not beyond the file. `TypeCorrect` covers monitor, buffers and client.
* **Process manager** (`ProcessManagerProofs`). `TypeCorrect` with `CallsFit`, which says for each place what
  a call there holds: the operation it was made for, the process it is about and what its mutex or lock file
  covers. `InMemory` and `FirstRun` from `StartInv` and `FirstRunInv`: a call
  past `Acquire` holds the lock file; past `Look` there is no child that has not been waited for, since only
  Start makes children and only the waiter clears them; what it has spawned is alive or a zombie, and
  has no waiter before it is in memory. In the first run every server that runs is such a child or one about
  to be. They hold under `OneGeneration` (one launch profile, any number of callers) or `OneCaller` (one caller,
  while the profile changes under it): the host agent changes it but starts the server from its bootstrap
  alone, legacy mode has many callers. With two callers and two generations it is false: each
  has a lock file of its own, and two Starts are then inside together (section 7).
  `FileTrue` from `KnowledgeInv` (what a call or a waiter has read names a process that was started) and `FileInv`:
  until the file has missed a change, a server that runs is named by the file or by the Start that is about to
  write it; a Start past its read finds no live process in the file, nor does a
  failure about to be recorded, and an exit once recorded is of no process that the file names.
  It is for `OneGeneration`, any number of callers and program runs, crashes at any step and reads and
  writes that fail.
* **Legacy client** (`LegacyClientProofs`). `FlagsAreKept`: what an update has saved is the configured value as long
  as it borrows it alone (`SavedIsConfigured`). `ProgramIsSafe`: scripts that work one after the other have the
  whole files they copy from (`HasFiles`), and a torn program was left by one that was copying
  or restoring, with its backup in place (`TornIsLeft`). `TypeCorrect`.
* **Operations** (`OperationsProofs`). `ReportsHold` from `TransferInv`: a read of a file that was not emptied
  stands at the beginning of a chunk it has counted (`AtChunk`), and chunk k is the last exactly when
  it reaches the end (`ChunkArithmetic`), so it neither falls short nor silent; a writer whose file nobody has touched
  finds its own units in it, and one whose file others have written finds requests' units up to its position (`Filled`).
  To the others a step leaves the file alone, empties it, or writes without shortening it (`Meets`, `StaysSound`).
  `BackupsStay`, an action property, from `BackupInv`: the archive under way is there and not reported, and what is to
  be deleted has `Keep` newer archives of its server *beside it*. That survives each deletion because the newest goes
  first: all that is newer than it is also newer than the rest. `TypeCorrect` includes the bound of the semaphore.

Only model-checked: all liveness (`BusyIsTransient`, `LockRecovers`, `CallReturns`, `CallsReturn`, `EventuallyRead`,
`Reconnects`, `Authenticated`, `ReaderStops`, `SessionRenewed`, `OperationsServed`), since tlapm proves nothing about
fairness. No model uses recursion.

## 7. Where code and words disagree

Met while modelling, as the models describe them; the properties stop where they begin.

* A crash during a job takes its capacity slot for ever: its record stays active, nothing finishes it
  and it never expires (`journal.go:95`, against the advice to retry at `types.go:86`). `BusyIsTransient`
  is checked for one program run; with two TLC refutes it.
* Of two Start calls that find a stale lock, the slower one removes the fresh lock of the faster one, and
  both are inside (`state.go:188`, against "exclusive" at `:166`): `Exclusion` ends when a lock goes stale.
* A service whose server crashes right after every start is never blocked: each Start writes
  states with a failure count of 0 (`manager.go:219`, against `state.go:63`).
* The record limit drops the oldest records whatever their state (`journal.go:329`), so
  more than `maxActive` (`:38`) jobs can run. `CapacityBound` excludes it by `evicted`.
* A journal that cannot be loaded starts empty and its next save replaces the file
  (`journal.go:58`, against the comment at `:47`).
* A job id with white space is stored trimmed and looked up raw (`journal.go:106`, `:136`,
  `:162`): its result is refused and its record stays active.
* The reconnect signal is dropped when no monitor stands in its select, which
  `client.go:358` of the WebSocket client takes for a reconnect in progress. The next
  tick of a monitor repairs it (`Reconnects`).
* The waiter records an exit from a state that another call has replaced
  (`manager.go:1090`), `GetStatus` marks a state crashed that it did not judge (`:955`). Where an older process is
  written over a newer one so, the server that runs is lost: `missed`.
* A read of the state file that fails leaves the exit of a server unrecorded (`manager.go:1090-1093`): it stays
  "running" in the file with the pid of a dead process; a failed write does the same. `missed`, where the file names that process.
* Two Starts between which the launch profile's generation, or in legacy mode the configured service name or
  port, changes (`client.go:1038`) use two locks (`state.go:156`), and both find no process in memory before
  either publishes its own: two servers run, against "exclusive startup lock for one service ... an error when
  another fresh startup is already in progress" (`state.go:166-167`). Run `process_profile` shows it with two callers and two
  generations, so the theorems of `ProcessManager` are about one service identity or one caller.
* `acquireStartupLock` has no bound on its rounds (`state.go:181`).
* One failed re-registration ends `heartbeatLoop` while polling goes on (`agent.go:341`, against
  `:327`); the poll loop still renews the session (`SessionRenewed`).
* An operation whose result does not arrive is not reported again (`agent.go:389`, against
  "reports execution results" at `:353`): `lost`.
* File operations wait while database operations keep coming (`agent.go:386-391`): `OperationsServed`
  holds because the operations are finitely many.
* An older hello or upload can overtake a newer one (`agent.go:441`): `disputed`.
* An answer 204 to a poll is taken for an operation without an id (`agent.go:1016`); the modelled
  server answers 404 when there is none.
* The flag `installing` is free while the goroutine of an update installs: its reset is deferred in the
  handler that starts the goroutine (`client.go:1580`). Two updates, or an update and the automatic
  installation, then run together, and of two overlapping updates the second saves the cleared
  `AutoStartAfterInstall` and restores it for good (`:1610-1616`): `overlapped`.
* `AutoStartAfterInstall` is restored before the components are initialised, so the server does start
  after an update, against the comment at `:1608` and the answer that it is ready for a manual start.
* `server_start` is not refused during an installation, and the exit of a client update does not wait for one.
* After an installation the log monitor is replaced, and the old one goes on (`client.go:1230`).
* Two client updates share the names of script, new file and backup (`updater.go:25`, `:282`): `clashed`.
* After a failure of the script nobody starts the program again (`updater.go:264`). The Unix script is
  written with Windows line ends (`:255`), so its first `exit` is not understood. The
  download does not fail on an HTTP error (`curl -L`): an error page of 1000 bytes passes the check of the size.
* In the window after a batch the buffer is empty, as a batch is as large as the rate allows, so the
  exception for a half-full buffer (`client.go:2737`) never applies: all lines of the half second after a
  batch are dropped, and batches of 100 every half second exceed the 100 lines per second that are named.
* A truncated log file is not read until it has outgrown its old size (`monitor.go:300`), and a file that is
  both scanned and announced when it appears is read twice (`:212`).
* A file that is emptied while it is sent ends the sending without "done" and without an error (`client.go:2407`).
* An archive that could not be written in full is reported as a success (`client.go:3635`): an error of `io.Copy` is
  returned as no error (`:3702-3706`), those of closing the zip writer and the file are dropped (`:3653-3656`).
* A second backup within a second empties the first, which was reported (`client.go:3553`). A failed archive is removed
  while it is still open, which Windows refuses (`:3726`); it, and one cut off by the end of the program, counts among
  the archives kept, so that a few of them push out the last whole one (`:3789`), and is listed as a success (`:3454`). Files that cannot be read are left out of an archive that is reported as complete.
* `backup_stop`, `backup_status` and `backup_delete` answer without doing anything (`client.go:3323-3339`, `:3500`).

## 8. Not modelled

* The Windows half of the process manager (job objects, process trees, console
  signals): another implementation of the same steps, made of system calls.
* Late effects of a request the host agent has given up. A hello without a launch profile, or with
  one that is not argv, leaves the profile alone (`agent.go:448-453`); it is left out since
  "newest" would then mean the newest given.
* The outcome of `ProcessReadiness` beyond "the server runs": a start that fails covers it.
* The temporary file of a state-file write: a write is one step in `ProcessManager`. That a mixed file cannot be
  read is covered, as every read may fail; that it is read as something else is not.
* Error paths that end a call with an error and change nothing: a failed `MkdirAll` or `Stat` of the lock file (`state.go:170`, `:185`;
  `StartupLock`'s open may fail instead), and an empty session token (`agent.go:434`), which ends as a lost
  answer does. A profile cannot be applied (`:438-440`) only where there is no process manager (`runtime.go:183`),
  and the agent's runtime always has one.
* The reader of `internal/client` takes the checks of its context and of the connection and the capture of the connection
  (`client.go:428-438`, WebSocket `client.go:180-187`) as one step; frames that are not text, after which `ReadMessage`
  captures again without looking at the context, are taken for another round of the reader.
* In `ProcessManager` the lock of a live Start does not go stale, which takes longer than a Start does unless it hangs; `StartupLock` has that case.
* The log watcher's error channel and its queue's overflow (`monitor.go:172`), which is logged: no event is lost in the model but
  a repetition of the last one in the queue.
* Encodings of logs and files, path resolution, zip extraction, what an archive contains: choices
  (readable or not, accepted or refused) in the models that use them.
* Database queries and commands, the pushed server data, system and performance samples, environment helpers,
  configuration. They keep no state that the modelled parts decide on.
* The second log monitor after an installation, and answers that are dropped because the
  connection is down: `sendResponse` tries once, and nothing is sent again.

## Running it

`tlc -config <run's cfg> <run's module>` for a run, `tlapm <X>Proofs.tla` for proofs; the
table of runs, the correspondence of definitions to source lines, the hazards and the
mutations each property detects are in `PROJECT.json`.
