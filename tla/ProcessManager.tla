---------------------------- MODULE ProcessManager ----------------------------
(***************************************************************************)
(* The game server's process manager (internal/process/manager.go) and its *)
(* persisted runtime state (internal/process/state.go).                    *)
(*                                                                         *)
(* Start, Stop, ForceStop, Restart and GetStatus run in concurrent         *)
(* goroutines (messages, jobs, heartbeats); a waiter goroutine per child   *)
(* records its exit.  Manager.mutex guards the fields in memory, a lock    *)
(* file keeps Start calls apart (see StartupLock), nothing guards the      *)
(* state file: every update of it is a read and, later, a write.  A server *)
(* outlives the program, and the next program run finds it in the file.    *)
(***************************************************************************)
EXTENDS Integers, FiniteSets

CONSTANTS
  Callers,     \* goroutines that call the manager
  Nobody,      \* not a caller
  Ops,         \* the operations each of them calls
  Generations, \* launch profile generations, each with its state and lock file
  Changes,     \* the pairs of generations between which the configuration may change
  Threshold,   \* startFailureThreshold; failures are counted up to it
  MaxPid,      \* bound on the processes started
  MaxRuns,     \* bound on the program runs
  MayFail,     \* reading and writing the state file may fail
  MayCrash     \* the program may end with calls in flight

ASSUME NobodyAssumption == Nobody \notin Callers /\ Callers \cap {"leftover"} = {}
ASSUME OpsAssumption ==
  Ops \in [Callers -> SUBSET {"start", "stop", "force", "restart", "status"}]
ASSUME GenerationsAssumption ==
  Generations # {} /\ Changes \subseteq Generations \X Generations
ASSUME BoundAssumption ==
  Threshold \in Nat \ {0} /\ MaxPid \in Nat /\ MaxRuns \in Nat \ {0}
ASSUME SwitchAssumption == MayFail \in BOOLEAN /\ MayCrash \in BOOLEAN

Pids == 1..MaxPid
NoPid == 0
RuntimeState == [state : {"none", "starting", "running", "stopping", "stopped",
                          "crashed", "blocked"},
                 pid : Pids \cup {NoPid}, failures : 0..Threshold]
NoState == [state |-> "none", pid |-> NoPid, failures |-> 0]

VARIABLES
  up,      \* the program is running
  runs,    \* program runs so far
  proc,    \* OS processes: "unborn", "running", "zombie" (exited, not reaped), "gone"
  failed,  \* the processes that exited with an error
  file,    \* the state file of each generation
  lock,    \* the lock file of each generation: a caller, Nobody or "leftover"
  config,  \* the generation in Manager.config
  mutex,   \* who holds Manager.mutex beyond one step
  cmd,     \* Manager.cmd, NoPid for nil
  waiter,  \* where the waiter goroutine of each process stands
  read,    \* the state each waiter goroutine has read
  channel, \* waitDone of each process: "empty", "full" or "closed"
  call,    \* the call each caller is in
  missed   \* history: the state file has missed a change of the process it names: its
           \* update failed in the reading or the writing, or was never made, or another
           \* was made that knew nothing of it

memory == <<mutex, cmd>>
waiters == <<waiter, read, channel>>
os == <<proc, failed>>
vars == <<up, runs, os, file, lock, config, memory, waiters, call, missed>>

Idle == [op |-> "none", at |-> "idle", seen |-> NoState, pid |-> NoPid,
         then |-> "return"]

Visible(p) == p # NoPid /\ proc[p] \in {"running", "zombie"}
Running == {p \in Pids : proc[p] = "running"}
At(c, place) == call[c].at = place

\* The call goes on at a place, with a state it has read and a process it is about.
Turn(c, place, s, p, then) ==
  call' = [call EXCEPT ![c] = [op |-> call[c].op, at |-> place, seen |-> s, pid |-> p,
                               then |-> then]]
Goto(c, place) == Turn(c, place, call[c].seen, call[c].pid, call[c].then)
Saw(c, place, s) == Turn(c, place, s, call[c].pid, call[c].then)
Then(c, place, then) == Turn(c, place, call[c].seen, call[c].pid, then)

\* A child of this program run, which has not been waited for.
Child(p) ==
  \/ waiter[p] = "waiting"
  \/ \E c \in Callers : call[c].at \in {"started", "publishing"} /\ call[c].pid = p

\* writeRuntimeState; callers log an error or ignore it, but for one in Start.
Write(new) ==
  \/ file' = [file EXCEPT ![config] = new] /\ UNCHANGED missed
  \/ MayFail /\ UNCHANGED file /\ missed' = TRUE

\* The same for an update computed from the state s read before.  It is of no consequence
\* to the process that is named when that is the one of s, or the one named anyway.
Update(s, new) ==
  \/ /\ file' = [file EXCEPT ![config] = new]
     /\ missed' = (missed \/ file[config].pid \notin {s.pid, new.pid})
  \/ MayFail /\ UNCHANGED file /\ missed' = (missed \/ file[config].pid # new.pid)

\* A state read before, with another status.
Marked(s, status) == [state |-> status, pid |-> s.pid, failures |-> s.failures]

\* recordStartFailure, applied to the state it has read.
StartFailed(s) ==
  LET n == IF s.failures < Threshold THEN s.failures + 1 ELSE Threshold
  IN  [state |-> IF n >= Threshold THEN "blocked" ELSE "crashed",
       pid |-> NoPid, failures |-> n]

\* recordProcessExit, applied to the state it has read.
Exited(s, error) ==
  LET n == IF error /\ s.state # "stopping" /\ s.failures < Threshold
           THEN s.failures + 1 ELSE s.failures
  IN  [state |-> CASE s.state = "stopping" -> "stopped"
                   [] s.state # "stopping" /\ n >= Threshold -> "blocked"
                   [] OTHER -> IF error THEN "crashed" ELSE "stopped",
       pid |-> NoPid, failures |-> n]

\* Mutant of Return: the lock file is not removed.
ReturnLocked(c) ==
  /\ call' = [call EXCEPT ![c] = Idle]
  /\ UNCHANGED lock

\* A call returns; the deferred release removes the lock file Start has taken.
Return(c) ==
  /\ call' = [call EXCEPT ![c] = Idle]
  /\ lock' = [g \in Generations |-> IF lock[g] = c THEN Nobody ELSE lock[g]]

\* A lock file may be left over from an earlier program run.
Init ==
  /\ up = FALSE /\ runs = 0
  /\ proc = [p \in Pids |-> "unborn"] /\ failed = {}
  /\ file = [g \in Generations |-> NoState]
  /\ lock \in [Generations -> {Nobody, "leftover"}]
  /\ config \in Generations
  /\ mutex = Nobody /\ cmd = NoPid
  /\ waiter = [p \in Pids |-> "none"]
  /\ read = [p \in Pids |-> NoState]
  /\ channel = [p \in Pids |-> "empty"]
  /\ call = [c \in Callers |-> Idle]
  /\ missed = FALSE

-------------------------------------------------------------------------------
(* Start *)

Call(c, op) ==
  /\ up /\ At(c, "idle")
  /\ call' = [call EXCEPT ![c] = [op |-> op, at |-> op, seen |-> NoState, pid |-> NoPid,
                               then |-> "return"]]
  /\ UNCHANGED <<up, runs, os, file, lock, config, memory, waiters, missed>>

\* acquireStartupLock.
Acquire(c) ==
  /\ At(c, "start")
  /\ IF lock[config] = Nobody
     THEN /\ lock' = [lock EXCEPT ![config] = c]
          /\ Goto(c, "looking")
     ELSE Return(c)
  /\ UNCHANGED <<up, runs, os, file, config, memory, waiters, missed>>

\* Mutant of Look: the process in memory is not looked at.
LookAway(c) ==
  /\ At(c, "looking") /\ mutex = Nobody
  /\ Goto(c, "reading")
  /\ UNCHANGED <<up, runs, os, file, lock, config, memory, waiters, missed>>

\* A live child in memory: nothing to start.
Look(c) ==
  /\ At(c, "looking") /\ mutex = Nobody
  /\ IF Visible(cmd) THEN Return(c) ELSE Goto(c, "reading") /\ UNCHANGED lock
  /\ UNCHANGED <<up, runs, os, file, config, memory, waiters, missed>>

\* A live process in the state file is attached to; a dead one is a failure; a
\* blocked service is not started, nor one whose state cannot be read.
Read(c) ==
  /\ At(c, "reading")
  /\ \/ LET s == file[config] IN
        CASE Visible(s.pid) ->
               Saw(c, "attaching", s) /\ UNCHANGED lock
          [] ~Visible(s.pid) /\ s.pid # NoPid /\ s.state \in {"starting", "running"} ->
               Turn(c, "failing", s, call[c].pid, "reread")
               /\ UNCHANGED lock
          [] s.state = "blocked" -> Return(c)
          [] OTHER -> Goto(c, "launching") /\ UNCHANGED lock
     \/ MayFail /\ Return(c)
  /\ UNCHANGED <<up, runs, os, file, config, memory, waiters, missed>>

\* The state read before is written back as running (Start and GetStatus).
Attach(c) ==
  /\ At(c, "attaching")
  /\ Update(call[c].seen, Marked(call[c].seen, "running"))
  /\ Return(c)
  /\ UNCHANGED <<up, runs, os, config, memory, waiters>>

\* recordStartFailure: read, whatever was judged before, then write.  A state that cannot
\* be read is replaced by that of the configuration.
ReadFailure(c) ==
  /\ At(c, "failing")
  /\ \/ /\ Saw(c, "failed", file[config])
        /\ missed' = (missed \/ (call[c].seen.pid # NoPid
                                /\ file[config].pid \notin {NoPid, call[c].seen.pid}))
     \/ MayFail /\ Saw(c, "failed", NoState) /\ UNCHANGED missed
  /\ UNCHANGED <<up, runs, os, file, lock, config, memory, waiters>>

WriteFailure(c) ==
  /\ At(c, "failed")
  /\ Update(call[c].seen, StartFailed(call[c].seen))
  /\ IF call[c].then = "reread"
     THEN Saw(c, "rereading", NoState) /\ UNCHANGED lock
     ELSE Return(c)
  /\ UNCHANGED <<up, runs, os, config, memory, waiters>>

\* A state that cannot be read any more is not a blocked one.
Reread(c) ==
  /\ At(c, "rereading")
  /\ \/ file[config].state = "blocked" /\ Return(c)
     \/ /\ file[config].state # "blocked" \/ MayFail
        /\ Then(c, "launching", "return") /\ UNCHANGED lock
  /\ UNCHANGED <<up, runs, os, file, config, memory, waiters, missed>>

\* ensurePortAvailable, buildCommand, openProcessLog and StdinPipe: each may fail.
Prepare(c) ==
  /\ At(c, "launching")
  /\ Goto(c, "failing") \/ Goto(c, "prepared")
  /\ UNCHANGED <<up, runs, os, file, lock, config, memory, waiters, missed>>

\* The one write whose error ends the call.
WriteStarting(c) ==
  /\ At(c, "prepared")
  /\ \/ /\ file' = [file EXCEPT ![config] = Marked(NoState, "starting")]
        /\ Goto(c, "spawning") /\ UNCHANGED lock
     \/ MayFail /\ Return(c) /\ UNCHANGED file
  /\ UNCHANGED <<up, runs, os, config, memory, waiters, missed>>

\* cmd.Start.
Spawn(c) ==
  /\ At(c, "spawning")
  /\ \E p \in Pids :
       /\ proc[p] = "unborn" /\ \A q \in Pids : q < p => proc[q] # "unborn"
       /\ proc' = [proc EXCEPT ![p] = "running"]
       /\ Turn(c, "started", call[c].seen, p, call[c].then)
  /\ UNCHANGED <<up, runs, failed, file, lock, config, memory, waiters, missed>>

SpawnFails(c) ==
  /\ At(c, "spawning")
  /\ Goto(c, "failing")
  /\ UNCHANGED <<up, runs, os, file, lock, config, memory, waiters, missed>>

RunningState(p) == [state |-> "running", pid |-> p, failures |-> 0]

WriteRunning(c) ==
  /\ At(c, "started")
  /\ Write(RunningState(call[c].pid))
  /\ Goto(c, "publishing")
  /\ UNCHANGED <<up, runs, os, lock, config, memory, waiters>>

\* The fields in memory are set and the waiter goroutine starts.
Publish(c) ==
  /\ At(c, "publishing") /\ mutex = Nobody
  /\ cmd' = call[c].pid
  /\ waiter' = [waiter EXCEPT ![call[c].pid] = "waiting"]
  /\ Goto(c, "settling")
  /\ UNCHANGED <<up, runs, os, file, lock, config, mutex, read, channel, missed>>

\* A receive from waitDone: the value sent, or the closed channel.
Receive(p) ==
  /\ channel[p] # "empty"
  /\ channel' = [channel EXCEPT ![p] = IF @ = "full" THEN "empty" ELSE @]

\* "server exited immediately after startup", or ShortWaitTime has passed.
Settle(c) ==
  /\ At(c, "settling")
  /\ Receive(call[c].pid) \/ UNCHANGED channel
  /\ Return(c)
  /\ UNCHANGED <<up, runs, os, file, config, memory, waiter, read, missed>>

-------------------------------------------------------------------------------
(* Stop, ForceStop *)

\* Stop ends; Restart goes on to Start.
Stopped(c) ==
  IF call[c].op = "restart"
  THEN Turn(c, "start", NoState, NoPid, "return") /\ UNCHANGED lock
  ELSE Return(c)

\* With a process in memory, Stop keeps the mutex and reads the state file, if it can.
Stop(c) ==
  /\ At(c, "stop") /\ mutex = Nobody
  /\ IF cmd = NoPid THEN Goto(c, "finding") /\ UNCHANGED mutex
     ELSE /\ mutex' = c
          /\ \/ Turn(c, "marking", file[config], cmd, call[c].then)
             \/ MayFail /\ Turn(c, "marking", NoState, cmd, call[c].then)
  /\ UNCHANGED <<up, runs, os, file, lock, config, cmd, waiters, missed>>

\* markStopping writes, the process is signalled, the mutex is released.  What a
\* signalled process does, and when, is Exit's choice.
MarkStopping(c) ==
  /\ At(c, "marking")
  /\ IF call[c].seen.pid = call[c].pid
     THEN Update(call[c].seen, Marked(call[c].seen, "stopping"))
     ELSE UNCHANGED <<file, missed>>
  /\ mutex' = Nobody
  /\ Saw(c, "awaiting", NoState)
  /\ UNCHANGED <<up, runs, os, lock, config, cmd, waiters>>

\* The process exits, with an error if it was killed; a child stays a zombie
\* until its parent has waited for it.
Die(p, error) ==
  /\ proc' = [proc EXCEPT ![p] = IF Child(p) THEN "zombie" ELSE "gone"]
  /\ failed' = IF error THEN failed \cup {p} ELSE failed

Kill(p) == IF proc[p] = "running" THEN Die(p, TRUE) ELSE UNCHANGED os

\* The child has exited, now or after the kill.
AwaitExit(c) ==
  /\ At(c, "awaiting") \/ At(c, "reaping")
  /\ Receive(call[c].pid)
  /\ Stopped(c)
  /\ UNCHANGED <<up, runs, os, file, config, memory, waiter, read, missed>>

\* Ten seconds have passed.
KillLate(c) ==
  /\ At(c, "awaiting")
  /\ Kill(call[c].pid)
  /\ Goto(c, "reaping")
  /\ UNCHANGED <<up, runs, file, lock, config, memory, waiters, missed>>

\* Without a process in memory, the state file says what to stop.
Find(c) ==
  /\ At(c, "finding")
  /\ \/ /\ Visible(file[config].pid)
        /\ Turn(c, "stopping", file[config], file[config].pid, call[c].then)
        /\ UNCHANGED lock
     \/ ~Visible(file[config].pid) /\ Return(c)
     \/ MayFail /\ Return(c)
  /\ UNCHANGED <<up, runs, os, file, config, memory, waiters, missed>>

\* stopPersistedProcess: forceful in ForceStop, and in Stop's second round.
Forceful(c) == call[c].op = "force" \/ call[c].then = "force"

WriteStopping(c) ==
  /\ At(c, "stopping")
  /\ LET s == Marked(call[c].seen, "stopping") IN
       /\ Update(call[c].seen, s)
       /\ Saw(c, "signalling", s)
  /\ UNCHANGED <<up, runs, os, lock, config, memory, waiters>>

Signal(c) ==
  /\ At(c, "signalling")
  /\ IF Visible(call[c].pid)
     THEN /\ IF Forceful(c) THEN Kill(call[c].pid) ELSE UNCHANGED os
          /\ Goto(c, "polling") /\ UNCHANGED lock
     ELSE Return(c) /\ UNCHANGED os
  /\ UNCHANGED <<up, runs, file, config, memory, waiters, missed>>

\* The process is gone: the state read at first is written back as stopped.
PollGone(c) ==
  /\ At(c, "polling") /\ ~Visible(call[c].pid)
  /\ Update(call[c].seen, [state |-> "stopped", pid |-> NoPid,
                            failures |-> call[c].seen.failures])
  /\ Stopped(c)
  /\ UNCHANGED <<up, runs, os, config, memory, waiters>>

\* Ten seconds have passed: once more by force, or an error.
PollTimeout(c) ==
  /\ At(c, "polling") /\ Visible(call[c].pid)
  /\ IF Forceful(c) THEN Return(c)
     ELSE Then(c, "stopping", "force") /\ UNCHANGED lock
  /\ UNCHANGED <<up, runs, os, file, config, memory, waiters, missed>>

ForceStop(c) ==
  /\ At(c, "force") /\ mutex = Nobody
  /\ IF cmd = NoPid THEN Goto(c, "finding")
     ELSE Turn(c, "killing", call[c].seen, cmd, call[c].then)
  /\ UNCHANGED <<up, runs, os, file, lock, config, memory, waiters, missed>>

ForceKill(c) ==
  /\ At(c, "killing")
  /\ Kill(call[c].pid)
  /\ Goto(c, "killed")
  /\ UNCHANGED <<up, runs, file, lock, config, memory, waiters, missed>>

\* The child has exited, or ten seconds have passed.
ForceDone(c) ==
  /\ At(c, "killed")
  /\ Receive(call[c].pid) \/ UNCHANGED channel
  /\ Return(c)
  /\ UNCHANGED <<up, runs, os, file, config, memory, waiter, read, missed>>

-------------------------------------------------------------------------------
(* Restart, GetStatus *)

\* Restart asks IsRunning first, for which a state that cannot be read is that of no
\* process.
Restart(c) ==
  /\ At(c, "restart") /\ mutex = Nobody
  /\ \/ Goto(c, IF Visible(cmd) \/ Visible(file[config].pid) THEN "stop" ELSE "start")
     \/ MayFail /\ ~Visible(cmd) /\ Goto(c, "start")
  /\ UNCHANGED <<up, runs, os, file, lock, config, memory, waiters, missed>>

Status(c) ==
  /\ At(c, "status") /\ mutex = Nobody
  /\ IF Visible(cmd) THEN Return(c) ELSE Goto(c, "asking") /\ UNCHANGED lock
  /\ UNCHANGED <<up, runs, os, file, config, memory, waiters, missed>>

\* GetStatus repairs the state file: a dead process is recorded as a failure, a
\* live one as running.
StatusRead(c) ==
  /\ At(c, "asking")
  /\ \/ LET s == file[config] IN
        CASE Visible(s.pid) /\ s.state # "running" ->
               Saw(c, "attaching", s) /\ UNCHANGED lock
          [] ~Visible(s.pid) /\ s.pid # NoPid /\ s.state \in {"starting", "running"} ->
               Saw(c, "failing", s) /\ UNCHANGED lock
          [] OTHER -> Return(c)
     \/ MayFail /\ Return(c)
  /\ UNCHANGED <<up, runs, os, file, config, memory, waiters, missed>>

-------------------------------------------------------------------------------
(* waitForCompletion *)

WaiterGoto(p, place) == waiter' = [waiter EXCEPT ![p] = place]

Reap(p) ==
  /\ waiter[p] = "waiting" /\ proc[p] = "zombie"
  /\ proc' = [proc EXCEPT ![p] = "gone"]
  /\ WaiterGoto(p, "reaped")
  /\ UNCHANGED <<up, runs, failed, file, lock, config, memory, read, channel, call, missed>>

\* Mutant of Clear: whatever process is in memory is cleared.
ClearAny(p) ==
  /\ waiter[p] = "reaped" /\ mutex = Nobody
  /\ cmd' = NoPid
  /\ WaiterGoto(p, "cleared")
  /\ UNCHANGED <<up, runs, os, file, lock, config, mutex, read, channel, call, missed>>

Clear(p) ==
  /\ waiter[p] = "reaped" /\ mutex = Nobody
  /\ cmd' = IF cmd = p THEN NoPid ELSE cmd
  /\ WaiterGoto(p, "cleared")
  /\ UNCHANGED <<up, runs, os, file, lock, config, mutex, read, channel, call, missed>>

\* Mutant of ReadExit: the exit is recorded over the state of another process.
ReadExitOfAny(p) ==
  /\ waiter[p] = "cleared"
  /\ read' = [read EXCEPT ![p] = file[config]]
  /\ WaiterGoto(p, "recording")
  /\ UNCHANGED <<up, runs, os, file, lock, config, memory, channel, call, missed>>

\* recordProcessExit: read, then write; a state of another process is left alone.  When
\* it cannot be read, the exit is not recorded.
ReadExit(p) ==
  /\ waiter[p] = "cleared"
  /\ \/ /\ file[config].pid = p
        /\ read' = [read EXCEPT ![p] = file[config]]
        /\ WaiterGoto(p, "recording") /\ UNCHANGED missed
     \/ /\ file[config].pid # p
        /\ WaiterGoto(p, "recorded") /\ UNCHANGED <<read, missed>>
     \/ /\ MayFail
        /\ WaiterGoto(p, "recorded") /\ UNCHANGED read
        /\ missed' = (missed \/ file[config].pid = p)
  /\ UNCHANGED <<up, runs, os, file, lock, config, memory, channel, call>>

WriteExit(p) ==
  /\ waiter[p] = "recording"
  /\ Update(read[p], Exited(read[p], p \in failed))
  /\ read' = [read EXCEPT ![p] = NoState]
  /\ WaiterGoto(p, "recorded")
  /\ UNCHANGED <<up, runs, os, lock, config, memory, channel, call>>

\* Mutant of Announce: the channel is never closed.
SendOnly(p) ==
  /\ waiter[p] \in {"recorded", "sent"}
  /\ channel' = [channel EXCEPT ![p] = IF waiter[p] = "recorded" THEN "full" ELSE @]
  /\ WaiterGoto(p, IF waiter[p] = "recorded" THEN "sent" ELSE "done")
  /\ UNCHANGED <<up, runs, os, file, lock, config, memory, read, call, missed>>

\* waitDone <- err, then close(waitDone).
Announce(p) ==
  /\ waiter[p] \in {"recorded", "sent"}
  /\ channel' = [channel EXCEPT ![p] = IF waiter[p] = "recorded" THEN "full" ELSE "closed"]
  /\ WaiterGoto(p, IF waiter[p] = "recorded" THEN "sent" ELSE "done")
  /\ UNCHANGED <<up, runs, os, file, lock, config, memory, read, call, missed>>

-------------------------------------------------------------------------------
(* The environment: the server, the operating system, the program's life *)

\* A server exits by itself or on a signal.
Exit(p) ==
  /\ proc[p] = "running"
  /\ \E error \in BOOLEAN : Die(p, error)
  /\ UNCHANGED <<up, runs, file, lock, config, memory, waiters, call, missed>>

Boot ==
  /\ ~up /\ runs < MaxRuns
  /\ up' = TRUE /\ runs' = runs + 1
  /\ config' \in Generations
  /\ UNCHANGED <<os, file, lock, memory, waiters, call, missed>>

\* The program ends; CleanupOnExit leaves the server running.  init reaps zombies.  A
\* server that was launched and is not in the file yet is in no record.
Shutdown ==
  /\ up /\ (MayCrash \/ \A c \in Callers : At(c, "idle"))
  /\ up' = FALSE
  /\ proc' = [p \in Pids |-> IF proc[p] = "zombie" THEN "gone" ELSE proc[p]]
  /\ lock' = [g \in Generations |-> IF lock[g] \in Callers THEN "leftover" ELSE lock[g]]
  /\ mutex' = Nobody /\ cmd' = NoPid
  /\ waiter' = [p \in Pids |-> "none"]
  /\ read' = [p \in Pids |-> NoState]
  /\ channel' = [p \in Pids |-> "empty"]
  /\ call' = [c \in Callers |-> Idle]
  /\ missed' = (missed \/ \E c \in Callers : At(c, "started"))
  /\ UNCHANGED <<runs, failed, file, config>>

\* A leftover lock file is stale after a while, and the next Start removes it.
LockExpires(g) ==
  /\ lock[g] = "leftover"
  /\ lock' = [lock EXCEPT ![g] = Nobody]
  /\ UNCHANGED <<up, runs, os, file, config, memory, waiters, call, missed>>

\* From their next access on, the calls in flight use the files of another generation.
UpdateConfig(g) ==
  /\ up /\ mutex = Nobody /\ <<config, g>> \in Changes
  /\ config' = g
  /\ UNCHANGED <<up, runs, os, file, lock, memory, waiters, call, missed>>

Step(c) ==
  \/ Acquire(c) \/ Look(c) \/ Read(c) \/ Attach(c)
  \/ ReadFailure(c) \/ WriteFailure(c) \/ Reread(c)
  \/ Prepare(c) \/ WriteStarting(c) \/ Spawn(c) \/ SpawnFails(c)
  \/ WriteRunning(c) \/ Publish(c) \/ Settle(c)
  \/ Stop(c) \/ MarkStopping(c) \/ AwaitExit(c) \/ KillLate(c)
  \/ Find(c) \/ WriteStopping(c) \/ Signal(c) \/ PollGone(c) \/ PollTimeout(c)
  \/ ForceStop(c) \/ ForceKill(c) \/ ForceDone(c)
  \/ Restart(c) \/ Status(c) \/ StatusRead(c)

WaiterStep(p) == Reap(p) \/ Clear(p) \/ ReadExit(p) \/ WriteExit(p) \/ Announce(p)

Next ==
  \/ \E c \in Callers : \E op \in Ops[c] : Call(c, op)
  \/ \E c \in Callers : Step(c)
  \/ \E p \in Pids : WaiterStep(p)
  \/ \E p \in Pids : Exit(p)
  \/ Boot
  \/ Shutdown
  \/ \E g \in Generations : LockExpires(g)
  \/ \E g \in Generations : UpdateConfig(g)

Spec == Init /\ [][Next]_vars

Fairness ==
  /\ \A c \in Callers : SF_vars(Step(c))
  /\ \A p \in Pids : WF_vars(WaiterStep(p))
FairSpec == Spec /\ Fairness

-------------------------------------------------------------------------------
(* Properties *)

\* A lock file names a caller inside Start; the mutex is held over steps by Stop
\* alone; the process in memory has a waiter that has not cleared it.
TypeOK ==
  /\ up \in BOOLEAN /\ runs \in 0..MaxRuns
  /\ proc \in [Pids -> {"unborn", "running", "zombie", "gone"}]
  /\ failed \subseteq Pids /\ missed \in BOOLEAN
  /\ file \in [Generations -> RuntimeState]
  /\ lock \in [Generations -> Callers \cup {Nobody, "leftover"}]
  /\ config \in Generations
  /\ mutex \in Callers \cup {Nobody} /\ cmd \in Pids \cup {NoPid}
  /\ waiter \in [Pids -> {"none", "waiting", "reaped", "cleared", "recording",
                          "recorded", "sent", "done"}]
  /\ read \in [Pids -> RuntimeState]
  /\ channel \in [Pids -> {"empty", "full", "closed"}]
  /\ \A c \in Callers : call[c].seen \in RuntimeState /\ call[c].pid \in Pids \cup {NoPid}
  /\ \A g \in Generations, c \in Callers :
       lock[g] = c => call[c].op \in {"start", "restart"} /\ ~At(c, "idle")
  /\ mutex # Nobody => At(mutex, "marking")
  /\ cmd # NoPid => waiter[cmd] \in {"waiting", "reaped"}

Quiet ==
  /\ \A c \in Callers : At(c, "idle")
  /\ \A p \in Pids : waiter[p] \in {"none", "waiting", "done"}

\* At most one server runs: Start attaches to a matching server that is alive.
OneServer == \A p, q \in Running : p = q

\* In the first program run that needs neither the state file nor the port: the
\* startup lock and the process in memory are enough.
OneServerInFirstRun == runs = 1 => OneServer

\* A child that runs is the process in memory, where Stop and SendCommand find it.
ChildInMemory == \A p \in Pids : waiter[p] = "waiting" => cmd = p

\* When nothing is in flight, a state file that says running names a live process
\* (in the first program run: a later one finds what happened while it was down).
RunningIsAlive ==
  up /\ runs = 1 /\ Quiet /\ file[config].state = "running" => Visible(file[config].pid)

\* When nothing is in flight, the state file names the server that runs: "persists
\* one process state atomically enough for local reconciliation".
Reconcilable == up /\ Quiet => \A p \in Running : file[config].pid = p

\* A server that runs is never forgotten or doubled, and the state file names no dead
\* one, over restarts of the program at any moment and whoever calls what, unless the
\* state file has missed a change of the process it names: reading or writing it failed
\* for the launch or the exit of that process, the program ended between cmd.Start and
\* the write that follows, or a caller wrote the process of a state it had read before
\* another one was named.  All else that goes wrong in between is made good: status
\* updates that are lost, overtaken or computed from an unreadable state, calls broken
\* off, exits noticed twice (Start, Stop, GetStatus and the waiter goroutines).
FileIsTrue ==
  ~missed => Reconcilable /\ OneServer /\ RunningIsAlive

\* Every call returns.
CallsReturn == \A c \in Callers : ~At(c, "idle") ~> At(c, "idle")

===============================================================================
