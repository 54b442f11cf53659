------------------------- MODULE ProcessManagerProofs -------------------------
(***************************************************************************)
(* The process manager for any number of callers, processes and program    *)
(* runs: how many servers run, where the one that runs is found, and when  *)
(* the state file tells the truth about it.                                *)
(***************************************************************************)
EXTENDS ProcessManager, TLAPS

USE NobodyAssumption, OpsAssumption, GenerationsAssumption, BoundAssumption, SwitchAssumption

-------------------------------------------------------------------------------
(* Types *)

Places == {"idle", "start", "stop", "force", "restart", "status", "looking", "reading",
           "attaching", "failing", "failed", "rereading", "launching", "prepared", "spawning",
           "started", "publishing", "settling", "finding", "marking", "awaiting", "reaping",
           "stopping", "signalling", "polling", "killing", "killed", "asking"}
Calls == [op : {"none", "start", "stop", "force", "restart", "status"}, at : Places,
          seen : RuntimeState, pid : Pids \cup {NoPid}, then : {"return", "reread", "force"}]

\* The places that only Start goes through after it has taken the lock file; a
\* failure is recorded by GetStatus, too.
StartPlaces == {"looking", "reading", "rereading", "launching", "prepared", "spawning",
                "started", "publishing", "settling"}
InStart(c) ==
  \/ call[c].at \in StartPlaces
  \/ call[c].at \in {"failing", "failed"} /\ call[c].op # "status"

\* What a call is where it stands, and the process it is about.
Fits(c) ==
  /\ InStart(c) \/ At(c, "start") => call[c].op \in {"start", "restart"}
  /\ At(c, "idle") => call[c] = Idle
  /\ call[c].then = "reread" => call[c].op \in {"start", "restart"}
  /\ call[c].at \in {"status", "asking"} => call[c].op = "status"
  /\ At(c, "restart") => call[c].op = "restart"
  /\ call[c].at \in {"started", "publishing", "settling", "marking", "awaiting", "reaping",
                     "killing", "killed"} => call[c].pid \in Pids
CallsFit ==
  /\ call \in [Callers -> Calls]
  /\ \A c \in Callers : Fits(c)

\* The parts of a state and of a call.
LEMMA Typed ==
  /\ NoState \in RuntimeState /\ Idle \in Calls
  /\ \A s \in RuntimeState : s.pid \in Pids \cup {NoPid}
  /\ \A k \in Calls : k.at \in Places /\ k.seen \in RuntimeState /\ k.pid \in Pids \cup {NoPid}
BY DEF RuntimeState, NoState, NoPid, Idle, Calls, Places

\* A state with another status is a state of the same process.
LEMMA MarkedTyped ==
  ASSUME NEW s \in RuntimeState, NEW x \in {"starting", "running", "stopping", "stopped"}
  PROVE  Marked(s, x) \in RuntimeState /\ Marked(s, x).pid = s.pid
BY DEF RuntimeState, Marked

\* The paths of a call: the steps that lead to each place.
Entered(c) ==
  \/ Return(c)
  \/ /\ call'[c].op = call[c].op /\ call'[c].at # "idle"
     /\ call'[c].at \notin {"status", "restart", "force"}
     /\ At(c, "looking")' => Acquire(c)
     /\ At(c, "reading")' => Look(c)
     /\ At(c, "attaching")' => Read(c) \/ StatusRead(c)
     /\ At(c, "failing")' => Read(c) \/ Prepare(c) \/ SpawnFails(c) \/ StatusRead(c)
     /\ At(c, "launching")' => Read(c) \/ Reread(c)
     /\ At(c, "failed")' => ReadFailure(c)
     /\ At(c, "rereading")' => WriteFailure(c)
     /\ At(c, "prepared")' => Prepare(c)
     /\ At(c, "spawning")' => WriteStarting(c)
     /\ At(c, "started")' => Spawn(c)
     /\ At(c, "publishing")' => WriteRunning(c)
     /\ At(c, "settling")' => Publish(c)
     /\ At(c, "finding")' => Stop(c) \/ ForceStop(c)
     /\ At(c, "marking")' => Stop(c)
     /\ At(c, "awaiting")' => MarkStopping(c)
     /\ At(c, "start")' => AwaitExit(c) \/ PollGone(c) \/ Restart(c)
     /\ At(c, "stop")' => Restart(c)
     /\ At(c, "reaping")' => KillLate(c)
     /\ At(c, "stopping")' => Find(c) \/ PollTimeout(c)
     /\ At(c, "signalling")' => WriteStopping(c)
     /\ At(c, "polling")' => Signal(c)
     /\ At(c, "killing")' => ForceStop(c)
     /\ At(c, "killed")' => ForceKill(c)
     /\ At(c, "asking")' => Status(c)
     /\ call'[c].then = "reread" => call[c].then = "reread" \/ Read(c)
     /\ At(c, "rereading")' => call[c].then = "reread"

\* A step moves one call, along the paths of Entered.
LEMMA Moves ==
  ASSUME call \in [Callers -> Calls], file[config] \in RuntimeState, cmd \in Pids \cup {NoPid},
         NEW c \in Callers, Step(c)
  PROVE  /\ call' \in [Callers -> Calls]
         /\ \A d \in Callers : d # c => call'[d] = call[d]
         /\ Entered(c)
PROOF
<1>1. CASE Acquire(c)
  BY <1>1, Typed DEF Acquire, At, Goto, Return, Turn, Calls, Places, Entered
<1>2. CASE Look(c)
  BY <1>2, Typed DEF Look, At, Return, Goto, Turn, Calls, Places, Entered
<1>3. CASE Read(c)
  BY <1>3, Typed DEF Read, At, Saw, Turn, Return, Goto, Calls, Places, Entered
<1>4. CASE Attach(c)
  BY <1>4, Typed DEF Attach, At, Marked, Return, Calls, Places, Entered
<1>5. CASE ReadFailure(c)
  BY <1>5, Typed DEF ReadFailure, At, Saw, Turn, Calls, Places, Entered
<1>6. CASE WriteFailure(c)
  BY <1>6, Typed DEF WriteFailure, At, Saw, Return, Turn, Calls, Places, Entered
<1>7. CASE Reread(c)
  BY <1>7, Typed DEF Reread, At, Return, Then, Turn, Calls, Places, Entered
<1>8. CASE Prepare(c)
  BY <1>8, Typed DEF Prepare, At, Goto, Turn, Calls, Places, Entered
<1>9. CASE WriteStarting(c)
  BY <1>9, Typed, SMTT(30) DEF WriteStarting, At, Goto, Return, Turn, Calls, Places, Entered
<1>10. CASE Spawn(c)
  <2>1. PICK p \in Pids : Turn(c, "started", call[c].seen, p, call[c].then)
    BY <1>10 DEF Spawn
  <2> QED BY <1>10, <2>1, Typed DEF Turn, At, Calls, Places, Entered
<1>11. CASE SpawnFails(c)
  BY <1>11, Typed DEF SpawnFails, At, Goto, Turn, Calls, Places, Entered
<1>12. CASE WriteRunning(c)
  BY <1>12, Typed DEF WriteRunning, At, Goto, Turn, Calls, Places, Entered
<1>13. CASE Publish(c)
  BY <1>13, Typed DEF Publish, At, Goto, Turn, Calls, Places, Entered
<1>14. CASE Settle(c)
  BY <1>14, Typed DEF Settle, At, Return, Calls, Places, Entered
<1>15. CASE Stop(c)
  BY <1>15, Typed DEF Stop, At, Goto, Turn, Calls, Places, Entered
<1>16. CASE MarkStopping(c)
  BY <1>16, Typed DEF MarkStopping, At, Marked, Saw, Turn, Calls, Places, Entered
<1>17. CASE AwaitExit(c)
  BY <1>17, Typed DEF AwaitExit, At, Stopped, Turn, Return, Calls, Places, Entered
<1>18. CASE KillLate(c)
  BY <1>18, Typed DEF KillLate, At, Goto, Turn, Calls, Places, Entered
<1>19. CASE Find(c)
  BY <1>19, Typed DEF Find, At, Turn, Return, Calls, Places, Entered
<1>20. CASE WriteStopping(c)
  BY <1>20, Typed, MarkedTyped DEF WriteStopping, At, Saw, Turn, Calls, Places, Entered
<1>21. CASE Signal(c)
  BY <1>21, Typed, SMTT(30) DEF Signal, At, Goto, Return, Turn, Calls, Places, Entered
<1>22. CASE PollGone(c)
  BY <1>22, Typed DEF PollGone, At, Stopped, Turn, Return, Calls, Places, Entered
<1>23. CASE PollTimeout(c)
  BY <1>23, Typed DEF PollTimeout, At, Return, Then, Turn, Calls, Places, Entered
<1>24. CASE ForceStop(c)
  BY <1>24, Typed DEF ForceStop, At, Goto, Turn, Calls, Places, Entered
<1>25. CASE ForceKill(c)
  BY <1>25, Typed DEF ForceKill, At, Goto, Turn, Calls, Places, Entered
<1>26. CASE ForceDone(c)
  BY <1>26, Typed DEF ForceDone, At, Return, Calls, Places, Entered
<1>27. CASE Restart(c)
  BY <1>27, Typed DEF Restart, At, Goto, Turn, Calls, Places, Entered
<1>28. CASE Status(c)
  BY <1>28, Typed DEF Status, At, Return, Goto, Turn, Calls, Places, Entered
<1>29. CASE StatusRead(c)
  <2>1. \/ Return(c)
        \/ Saw(c, "attaching", file[config]) \/ Saw(c, "failing", file[config])
    BY <1>29 DEF StatusRead
  <2>2. CASE Return(c)
    BY <2>2, Typed DEF Return, Entered
  <2>3. CASE Saw(c, "attaching", file[config]) \/ Saw(c, "failing", file[config])
    BY <1>29, <2>3, Typed DEF Saw, Turn, At, Calls, Places, Entered
  <2> QED BY <2>1, <2>2, <2>3
<1> QED BY <1>1, <1>2, <1>3, <1>4, <1>5, <1>6, <1>7, <1>8, <1>9, <1>10, <1>11, <1>12, <1>13,
       <1>14, <1>15, <1>16, <1>17, <1>18, <1>19, <1>20, <1>21, <1>22, <1>23, <1>24, <1>25, <1>26,
       <1>27, <1>28, <1>29 DEF Step

\* The steps that touch each variable.
Frame(c) ==
  /\ UNCHANGED <<up, runs, config, read>>
  /\ Publish(c) \/ UNCHANGED <<cmd, waiter>>
  /\ Stop(c) \/ MarkStopping(c) \/ UNCHANGED mutex
  /\ Acquire(c) \/ UNCHANGED lock \/ Return(c)
  /\ Spawn(c) \/ UNCHANGED os \/ \E p \in Pids : proc[p] = "running" /\ Die(p, TRUE)
  /\ \/ Attach(c) \/ WriteFailure(c) \/ WriteStarting(c) \/ WriteRunning(c)
     \/ MarkStopping(c) \/ WriteStopping(c) \/ PollGone(c)
     \/ UNCHANGED file /\ (ReadFailure(c) \/ UNCHANGED missed)
  /\ channel' \in [Pids -> {"empty", "full", "closed"}]

\* What a step of a call leaves alone.
LEMMA Frames ==
  ASSUME TypeOK, CallsFit, NEW c \in Callers, Step(c)
  PROVE  Frame(c)
PROOF
<1>0. /\ channel \in [Pids -> {"empty", "full", "closed"}]
      /\ call \in [Callers -> Calls] /\ call[c] \in Calls /\ call[c].pid \in Pids \cup {NoPid}
  BY Typed DEF TypeOK, CallsFit
<1>1. CASE Acquire(c)
  BY <1>1, <1>0 DEF Acquire, Return, os, memory, waiters, Frame
<1>2. CASE Look(c)
  BY <1>2, <1>0 DEF Look, Return, os, memory, waiters, Frame
<1>3. CASE Read(c)
  BY <1>3, <1>0 DEF Read, Return, os, memory, waiters, Frame
<1>4. CASE Attach(c)
  BY <1>4, <1>0 DEF Attach, Return, os, memory, waiters, Frame
<1>5. CASE ReadFailure(c)
  BY <1>5, <1>0 DEF ReadFailure, os, memory, waiters, Frame
<1>6. CASE WriteFailure(c)
  BY <1>6, <1>0 DEF WriteFailure, Return, os, memory, waiters, Frame
<1>7. CASE Reread(c)
  BY <1>7, <1>0 DEF Reread, Return, os, memory, waiters, Frame
<1>8. CASE Prepare(c)
  BY <1>8, <1>0 DEF Prepare, os, memory, waiters, Frame
<1>9. CASE WriteStarting(c)
  BY <1>9, <1>0 DEF WriteStarting, Return, os, memory, waiters, Frame
<1>10. CASE Spawn(c)
  BY <1>10, <1>0 DEF Spawn, memory, waiters, Frame, os
<1>11. CASE SpawnFails(c)
  BY <1>11, <1>0 DEF SpawnFails, os, memory, waiters, Frame
<1>12. CASE WriteRunning(c)
  BY <1>12, <1>0 DEF WriteRunning, os, memory, waiters, Frame
<1>13. CASE Publish(c)
  BY <1>13, <1>0 DEF Publish, os, Frame, memory, waiters
<1>14. CASE Settle(c)
  BY <1>14, <1>0 DEF Settle, Receive, Return, os, memory, Frame, waiters
<1>15. CASE Stop(c)
  BY <1>15, <1>0 DEF Stop, os, waiters, Frame, memory
<1>16. CASE MarkStopping(c)
  BY <1>16, <1>0 DEF MarkStopping, os, waiters, Frame, memory
<1>17. CASE AwaitExit(c)
  BY <1>17, <1>0 DEF AwaitExit, Receive, Stopped, os, memory, Return, Frame, waiters
<1>18. CASE KillLate(c)
  <2>1. call[c].pid \in Pids
    BY <1>18 DEF CallsFit, Fits, KillLate, At
  <2> QED BY <1>18, <2>1, <1>0 DEF KillLate, Kill, Frame, os, memory, waiters
<1>19. CASE Find(c)
  BY <1>19, <1>0 DEF Find, Return, os, memory, waiters, Frame
<1>20. CASE WriteStopping(c)
  BY <1>20, <1>0 DEF WriteStopping, os, memory, waiters, Frame
<1>21. CASE Signal(c)
  BY <1>21, <1>0 DEF Signal, At, Visible, Kill, os, Return, memory, waiters, Frame
<1>22. CASE PollGone(c)
  BY <1>22, <1>0 DEF PollGone, Stopped, os, memory, waiters, Return, Frame
<1>23. CASE PollTimeout(c)
  BY <1>23, <1>0 DEF PollTimeout, Return, os, memory, waiters, Frame
<1>24. CASE ForceStop(c)
  BY <1>24, <1>0 DEF ForceStop, os, memory, waiters, Frame
<1>25. CASE ForceKill(c)
  <2>1. call[c].pid \in Pids
    BY <1>25 DEF CallsFit, Fits, ForceKill, At
  <2> QED BY <1>25, <2>1, <1>0 DEF ForceKill, Kill, Frame, os, memory, waiters
<1>26. CASE ForceDone(c)
  BY <1>26, <1>0 DEF ForceDone, Receive, Return, os, memory, Frame, waiters
<1>27. CASE Restart(c)
  BY <1>27, <1>0 DEF Restart, os, memory, waiters, Frame
<1>28. CASE Status(c)
  BY <1>28, <1>0 DEF Status, Return, os, memory, waiters, Frame
<1>29. CASE StatusRead(c)
  BY <1>29, <1>0 DEF StatusRead, Return, os, memory, waiters, Frame
<1> QED BY <1>1, <1>2, <1>3, <1>4, <1>5, <1>6, <1>7, <1>8, <1>9, <1>10, <1>11, <1>12, <1>13,
       <1>14, <1>15, <1>16, <1>17, <1>18, <1>19, <1>20, <1>21, <1>22, <1>23, <1>24, <1>25, <1>26,
       <1>27, <1>28, <1>29 DEF Step

\* Where a call stands when it takes each step.
LEMMA Guards ==
  ASSUME NEW c \in Callers
  PROVE  /\ Acquire(c) => At(c, "start")
         /\ Look(c) => At(c, "looking")
         /\ Read(c) => At(c, "reading")
         /\ Attach(c) => At(c, "attaching")
         /\ ReadFailure(c) => At(c, "failing")
         /\ WriteFailure(c) => At(c, "failed")
         /\ Reread(c) => At(c, "rereading")
         /\ Prepare(c) => At(c, "launching")
         /\ WriteStarting(c) => At(c, "prepared")
         /\ Spawn(c) => At(c, "spawning")
         /\ SpawnFails(c) => At(c, "spawning")
         /\ WriteRunning(c) => At(c, "started")
         /\ Publish(c) => At(c, "publishing")
         /\ Settle(c) => At(c, "settling")
         /\ Stop(c) => At(c, "stop")
         /\ MarkStopping(c) => At(c, "marking")
         /\ KillLate(c) => At(c, "awaiting")
         /\ Find(c) => At(c, "finding")
         /\ WriteStopping(c) => At(c, "stopping")
         /\ Signal(c) => At(c, "signalling")
         /\ PollGone(c) => At(c, "polling")
         /\ PollTimeout(c) => At(c, "polling")
         /\ ForceStop(c) => At(c, "force")
         /\ ForceKill(c) => At(c, "killing")
         /\ Restart(c) => At(c, "restart")
         /\ Status(c) => At(c, "status")
         /\ StatusRead(c) => At(c, "asking")
         /\ AwaitExit(c) => At(c, "awaiting") \/ At(c, "reaping")
         /\ ForceDone(c) => At(c, "killed")
BY Zenon
   DEF ForceDone, Acquire, Look, Read, Attach, ReadFailure, WriteFailure, Reread, Prepare,
       WriteStarting, Spawn, SpawnFails, WriteRunning, Publish, Settle, Stop, MarkStopping,
       KillLate, Find, WriteStopping, Signal, PollGone, PollTimeout, ForceStop, ForceKill,
       Restart, Status, StatusRead, AwaitExit

\* A step of a call keeps every call in its place.
LEMMA CallerFits ==
  ASSUME TypeOK, CallsFit, NEW c \in Callers, Step(c)
  PROVE  CallsFit'
PROOF
<1>0. /\ call \in [Callers -> Calls] /\ file[config] \in RuntimeState
      /\ cmd \in Pids \cup {NoPid}
  BY DEF TypeOK, CallsFit
<1>1. /\ call' \in [Callers -> Calls]
      /\ \A d \in Callers : d # c => call'[d] = call[d]
      /\ Entered(c)
  BY <1>0, Moves
<1>2. CASE Return(c)
  BY <1>0, <1>1, <1>2 DEF Return, CallsFit, Fits, InStart, StartPlaces, At, Idle
<1>3. CASE ~Return(c)
  <2>1. /\ call'[c].op = call[c].op /\ call'[c].at # "idle"
        /\ call'[c].at \notin {"status", "restart"}
    BY <1>1, <1>3 DEF Entered
  <2>2. /\ InStart(c) \/ At(c, "start") \/ At(c, "restart") =>
             call[c].op \in {"start", "restart"}
        /\ call[c].then = "reread" => call[c].op \in {"start", "restart"}
        /\ call[c].at \in {"status", "asking"} => call[c].op = "status"
    BY DEF CallsFit, Fits
  <2>3. InStart(c)' => InStart(c) \/ At(c, "start")
    <3>1. CASE call'[c].at \in {"looking", "reading", "prepared", "spawning", "started",
                                "publishing", "settling"}
      BY <1>1, <1>3, <3>1, Guards DEF Entered, InStart, StartPlaces, At
    <3>2. CASE At(c, "failed")' /\ call'[c].op # "status"
      BY <1>1, <1>3, <2>1, <3>2, Guards DEF Entered, InStart, StartPlaces, At
    <3>3. CASE At(c, "rereading")'
      BY <1>1, <1>3, <2>1, <2>2, <3>3, Guards DEF Entered, InStart, StartPlaces, At
    <3>4. CASE At(c, "failing")' /\ call'[c].op # "status"
      BY <1>1, <1>3, <2>1, <2>2, <3>4, Guards DEF Entered, InStart, StartPlaces, At
    <3>5. CASE At(c, "launching")'
      BY <1>1, <1>3, <3>5, Guards DEF Entered, InStart, StartPlaces, At
    <3> QED BY <3>1, <3>2, <3>3, <3>4, <3>5 DEF InStart, StartPlaces, At
  <2>4. At(c, "start")' => call[c].op \in {"start", "restart"}
    BY <1>1, <1>3, <2>2, Guards DEF Entered, AwaitExit, PollGone, Stopped, Return
  <2>5. call'[c].then = "reread" => call[c].op \in {"start", "restart"}
    BY <1>1, <1>3, <2>2, Guards DEF Entered, InStart, StartPlaces, At
  <2>6. call'[c].at = "asking" => call[c].op = "status"
    BY <1>1, <1>3, <2>2, Guards DEF Entered, At
  <2>7. call'[c].at \in {"started", "publishing", "settling", "marking", "awaiting", "reaping",
                      "killing", "killed"} => call'[c].pid \in Pids
    <3>1. call[c] \in Calls
      BY <1>0
    <3>2. call[c].at \in {"started", "publishing", "marking", "awaiting", "killing"} =>
            call[c].pid \in Pids
      BY DEF CallsFit, Fits
    <3>3. CASE At(c, "started")'
      <4>1. PICK p \in Pids : Turn(c, "started", call[c].seen, p, call[c].then)
        BY <1>1, <1>3, <3>3 DEF Entered, Spawn
      <4> QED BY <1>0, <4>1 DEF Turn
    <3>4. CASE call'[c].at \in {"publishing", "settling"}
      BY <1>0, <1>1, <1>3, <3>1, <3>2, <3>4, Guards
         DEF Entered, At, WriteRunning, Publish, Goto, Turn
    <3>5. CASE call'[c].at \in {"awaiting", "reaping", "killed"}
      BY <1>0, <1>1, <1>3, <3>1, <3>2, <3>5, Guards
         DEF Entered, At, MarkStopping, KillLate, ForceKill, Saw, Goto, Turn
    <3>6. CASE call'[c].at \in {"marking", "killing"}
      BY <1>0, <1>1, <1>3, <3>1, <3>6 DEF Entered, At, Stop, ForceStop, Goto, Turn
    <3> QED BY <3>3, <3>4, <3>5, <3>6 DEF At
  <2>8. Fits(c)'
    BY <2>1, <2>2, <2>3, <2>4, <2>5, <2>6, <2>7 DEF Fits, At
  <2> QED BY <1>1, <2>8 DEF CallsFit, Fits, InStart, At
<1> QED BY <1>2, <1>3

\* A write keeps the type of the state file.
LEMMA Written ==
  ASSUME TypeOK, NEW s \in RuntimeState, NEW t, Write(s) \/ Update(t, s)
  PROVE  file' \in [Generations -> RuntimeState] /\ missed' \in BOOLEAN
PROOF
<1>0. /\ file \in [Generations -> RuntimeState] /\ config \in Generations
      /\ missed \in BOOLEAN
  BY DEF TypeOK
<1>1. file' \in [Generations -> RuntimeState]
  BY <1>0 DEF Write, Update
<1>2. missed' \in BOOLEAN
  BY <1>0, Zenon DEF Write, Update
<1> QED BY <1>1, <1>2

\* A failure to start leaves a state without a process; so does a stop.
LEMMA StatesTyped ==
  ASSUME NEW s \in RuntimeState
  PROVE  /\ StartFailed(s) \in RuntimeState /\ StartFailed(s).pid = NoPid
         /\ [state |-> "stopped", pid |-> NoPid, failures |-> s.failures] \in RuntimeState
BY DEF RuntimeState, NoPid, StartFailed

\* And so does an exit.
LEMMA ExitTyped ==
  ASSUME NEW s \in RuntimeState, NEW p
  PROVE  Exited(s, p \in failed) \in RuntimeState /\ Exited(s, p \in failed).pid = NoPid
BY DEF RuntimeState, NoPid, Exited

\* A step of a call keeps the types.
LEMMA CallerTypes ==
  ASSUME TypeOK, CallsFit, NEW c \in Callers, Step(c)
  PROVE  TypeOK'
PROOF
<1>0. /\ call \in [Callers -> Calls] /\ call[c].seen \in RuntimeState
      /\ file \in [Generations -> RuntimeState] /\ config \in Generations
      /\ cmd \in Pids \cup {NoPid} /\ missed \in BOOLEAN
  BY Typed DEF TypeOK, CallsFit
<1>1. /\ \A d \in Callers : d # c => call'[d] = call[d]
      /\ Entered(c) /\ Frame(c)
  BY <1>0, Moves, Frames
<1>2. /\ CallsFit'
      /\ \A d \in Callers : call'[d].seen \in RuntimeState /\ call'[d].pid \in Pids \cup {NoPid}
  BY CallerFits, Typed DEF CallsFit
<1>3. file' \in [Generations -> RuntimeState] /\ missed' \in BOOLEAN
  <2>1. CASE Attach(c) \/ WriteStopping(c)
    BY <2>1, <1>0, MarkedTyped, Written DEF Attach, WriteStopping
  <2>2. CASE MarkStopping(c)
    BY <2>2, <1>0, MarkedTyped, Written DEF MarkStopping
  <2>3. CASE WriteFailure(c) \/ PollGone(c)
    BY <2>3, <1>0, StatesTyped, Written DEF WriteFailure, PollGone
  <2>4. CASE WriteStarting(c)
    BY <2>4, <1>0, Typed, MarkedTyped DEF WriteStarting
  <2>5. CASE WriteRunning(c)
    <3>1. call[c].pid \in Pids
      BY <2>5 DEF CallsFit, Fits, WriteRunning, At
    <3>2. RunningState(call[c].pid) \in RuntimeState
      BY <3>1 DEF RunningState, RuntimeState
    <3> QED BY <2>5, <3>2, Written DEF WriteRunning
  <2>6. CASE UNCHANGED file /\ (ReadFailure(c) \/ UNCHANGED missed)
    BY <2>6, <1>0 DEF ReadFailure
  <2> QED BY <1>1, <2>1, <2>2, <2>3, <2>4, <2>5, <2>6 DEF Frame
<1>4. /\ proc' \in [Pids -> {"unborn", "running", "zombie", "gone"}]
      /\ failed' \subseteq Pids
  BY <1>1 DEF Frame, TypeOK, Spawn, Die, os
<1>5. /\ lock' \in [Generations -> Callers \cup {Nobody, "leftover"}]
      /\ \A g \in Generations, d \in Callers :
           lock'[g] = d => call'[d].op \in {"start", "restart"} /\ ~At(d, "idle")'
  <2>1. CASE Acquire(c)
    <3>1. CASE lock[config] = Nobody
      <4>1. call'[c].op \in {"start", "restart"} /\ ~At(c, "idle")'
        BY <1>0, <2>1, <3>1 DEF Acquire, Goto, Turn, At, CallsFit, Fits, Calls
      <4> QED BY <1>1, <2>1, <3>1, <4>1 DEF Acquire, TypeOK, At
    <3>2. CASE lock[config] # Nobody
      BY <1>1, <2>1, <3>2 DEF Acquire, Return, TypeOK, At
    <3> QED BY <3>1, <3>2
  <2>2. CASE UNCHANGED lock /\ ~Return(c)
    BY <1>1, <2>2 DEF Entered, TypeOK, At
  <2>3. CASE Return(c)
    BY <1>1, <2>3 DEF Return, TypeOK, At
  <2> QED BY <1>1, <2>1, <2>2, <2>3 DEF Frame
<1>6. /\ mutex' \in Callers \cup {Nobody}
      /\ mutex' # Nobody => call'[mutex'].at = "marking"
  <2>1. CASE Stop(c)
    BY <1>0, <1>1, <2>1 DEF Stop, Goto, Turn, TypeOK, At
  <2>2. CASE MarkStopping(c)
    BY <2>2 DEF MarkStopping
  <2>3. CASE UNCHANGED mutex /\ ~Stop(c) /\ ~MarkStopping(c)
    <3>1. ~At(c, "marking")
      BY <2>3, Guards DEF Step, At
    <3> QED BY <1>1, <2>3, <3>1 DEF TypeOK, At
  <2> QED BY <1>1, <2>1, <2>2, <2>3 DEF Frame
<1>7. /\ cmd' \in Pids \cup {NoPid}
      /\ waiter' \in [Pids -> {"none", "waiting", "reaped", "cleared", "recording",
                               "recorded", "sent", "done"}]
      /\ cmd' # NoPid => waiter'[cmd'] \in {"waiting", "reaped"}
  <2>1. CASE Publish(c)
    <3>1. call[c].pid \in Pids
      BY <2>1 DEF CallsFit, Fits, Publish, At
    <3> QED BY <2>1, <3>1 DEF Publish, TypeOK
  <2>2. CASE UNCHANGED <<cmd, waiter>>
    BY <2>2 DEF TypeOK
  <2> QED BY <1>1, <2>1, <2>2 DEF Frame
<1> QED BY <1>1, <1>2, <1>3, <1>4, <1>5, <1>6, <1>7 DEF TypeOK, Frame, At

\* Calls that stand still stay in their places.
LEMMA SameCalls ==
  ASSUME CallsFit, UNCHANGED call
  PROVE  CallsFit'
BY DEF CallsFit, Fits, InStart, At

\* A step of a waiter goroutine keeps the types.
LEMMA WaiterTypes ==
  ASSUME TypeOK, NEW p \in Pids, WaiterStep(p)
  PROVE  TypeOK'
PROOF
<1>1. CASE Reap(p)
  BY <1>1 DEF Reap, WaiterGoto, memory, TypeOK, At
<1>2. CASE Clear(p)
  BY <1>2 DEF Clear, WaiterGoto, os, TypeOK, At, NoPid, Pids
<1>3. CASE ReadExit(p)
  BY <1>3 DEF ReadExit, WaiterGoto, memory, os, TypeOK, At
<1>4. CASE WriteExit(p)
  <2>1. file' \in [Generations -> RuntimeState] /\ missed' \in BOOLEAN
    <3>1. Exited(read[p], p \in failed) \in RuntimeState
      BY ExitTyped DEF TypeOK
    <3> QED BY <1>4, <3>1, Written DEF WriteExit
  <2>2. read' \in [Pids -> RuntimeState]
    BY <1>4, Typed DEF WriteExit, TypeOK
  <2>3. /\ UNCHANGED <<up, runs, os, lock, config, memory, channel, call>>
        /\ waiter' = [waiter EXCEPT ![p] = "recorded"] /\ waiter[p] = "recording"
    BY <1>4 DEF WriteExit, WaiterGoto
  <2> QED BY <2>1, <2>2, <2>3 DEF memory, os, TypeOK, At
<1>5. CASE Announce(p)
  BY <1>5 DEF Announce, WaiterGoto, memory, os, TypeOK, At
<1> QED BY <1>1, <1>2, <1>3, <1>4, <1>5 DEF WaiterStep

\* A new call keeps the types and has a place.
LEMMA CallTypes ==
  ASSUME TypeOK, CallsFit, NEW c \in Callers, NEW op \in Ops[c], Call(c, op)
  PROVE  TypeOK' /\ CallsFit'
PROOF
<1>1. op \in {"start", "stop", "force", "restart", "status"}
  OBVIOUS
<1>2. /\ call' \in [Callers -> Calls]
      /\ \A d \in Callers : d # c => call'[d] = call[d]
      /\ call'[c].op = op /\ call'[c].at = op /\ call'[c].then = "return"
  BY <1>1, Typed DEF Call, CallsFit, Calls, Places, NoPid
<1>3. CallsFit'
  BY <1>1, <1>2 DEF CallsFit, Fits, InStart, StartPlaces, At
<1>4. \A d \in Callers : call'[d].seen \in RuntimeState /\ call'[d].pid \in Pids \cup {NoPid}
  BY <1>2, Typed
<1>5. mutex # c /\ \A g \in Generations : lock[g] # c
  BY DEF TypeOK, Call, At
<1>6. TypeOK'
  BY <1>2, <1>4, <1>5 DEF Call, os, memory, waiters, TypeOK, At
<1> QED BY <1>3, <1>6

\* Servers, the operating system and restarts keep the types.
LEMMA EnvironmentTypes ==
  ASSUME TypeOK, CallsFit,
         \/ \E p \in Pids : Exit(p)
         \/ Boot
         \/ Shutdown
         \/ \E g \in Generations : LockExpires(g) \/ UpdateConfig(g)
         \/ UNCHANGED vars
  PROVE  TypeOK' /\ CallsFit'
PROOF
<1>1. ASSUME NEW p \in Pids, Exit(p)
      PROVE  TypeOK' /\ CallsFit'
  BY <1>1, SameCalls DEF Exit, Die, memory, waiters, TypeOK, At
<1>2. CASE Boot
  BY <1>2, SameCalls DEF Boot, os, memory, waiters, TypeOK, At
<1>3. CASE Shutdown
  <2>1. CallsFit'
    BY <1>3, Typed DEF Shutdown, CallsFit, Fits, InStart, StartPlaces, At, Idle
  <2>2. \A d \in Callers : call'[d].seen \in RuntimeState /\ call'[d].pid \in Pids \cup {NoPid}
    BY <2>1, Typed DEF CallsFit
  <2>3. lock' \in [Generations -> {Nobody, "leftover"}]
    BY <1>3 DEF Shutdown, TypeOK
  <2>4. \A g \in Generations, d \in Callers : lock'[g] # d
    BY <2>3
  <2> QED BY <1>3, <2>1, <2>2, <2>3, <2>4, Typed DEF Shutdown, TypeOK, At
<1>4. ASSUME NEW g \in Generations, LockExpires(g)
      PROVE  TypeOK' /\ CallsFit'
  BY <1>4, SameCalls DEF LockExpires, os, memory, waiters, TypeOK, At
<1>5. ASSUME NEW g \in Generations, UpdateConfig(g)
      PROVE  TypeOK' /\ CallsFit'
  BY <1>5, SameCalls DEF UpdateConfig, os, memory, waiters, TypeOK, At
<1>6. CASE UNCHANGED vars
  BY <1>6, SameCalls DEF vars, os, memory, waiters, TypeOK, At
<1> QED BY <1>1, <1>2, <1>3, <1>4, <1>5, <1>6

\* Every step keeps the types.
LEMMA TypeStep ==
  ASSUME TypeOK, CallsFit, [Next]_vars
  PROVE  TypeOK' /\ CallsFit'
PROOF
<1>1. ASSUME NEW p \in Pids, WaiterStep(p)
      PROVE  CallsFit'
  BY <1>1, SameCalls DEF WaiterStep, Reap, Clear, ReadExit, WriteExit, Announce
<1> QED BY <1>1, CallTypes, CallerTypes, CallerFits, WaiterTypes, EnvironmentTypes DEF Next

\* They hold at first.
LEMMA TypeInit == Init => TypeOK /\ CallsFit
PROOF
<1> SUFFICES ASSUME Init PROVE TypeOK /\ CallsFit
  OBVIOUS
<1>1. CallsFit
  BY Typed DEF Init, CallsFit, Fits, InStart, StartPlaces, At, Idle
<1>2. \A c \in Callers : call[c] = Idle /\ call[c].seen \in RuntimeState
                          /\ call[c].pid \in Pids \cup {NoPid}
  BY Typed DEF Init
<1>3. /\ file \in [Generations -> RuntimeState] /\ read \in [Pids -> RuntimeState]
      /\ runs \in 0..MaxRuns
  BY Typed DEF Init
<1>4. \A g \in Generations, c \in Callers : lock[g] # c
  BY DEF Init
<1> QED BY <1>1, <1>2, <1>3, <1>4 DEF Init, TypeOK

\* Type correctness: a lock file names a caller inside Start, the mutex is held over
\* steps by Stop alone, the process in memory has a waiter that has not cleared it; and
\* every call is where an operation it was made for leads.
THEOREM TypeCorrect == Spec => [](TypeOK /\ CallsFit)
BY TypeInit, TypeStep, PTL DEF Spec

-------------------------------------------------------------------------------
(* Starting *)

\* Start is past its look at the process in memory and has put no process there.
PastLook(c) == InStart(c) /\ call[c].at \notin {"looking", "settling"}
Spawned(c) == call[c].at \in {"started", "publishing"}

\* A call in Start owns a lock file; a child that is waited for is in memory, and none
\* is while Start goes on to put another there.
StartInv ==
  /\ \A c \in Callers : InStart(c) => \E g \in Generations : lock[g] = c
  /\ \A p \in Pids : waiter[p] = "waiting" => cmd = p /\ Visible(p)
  /\ \A c \in Callers : PastLook(c) => \A p \in Pids : waiter[p] # "waiting"
  /\ \A c \in Callers : Spawned(c) => Visible(call[c].pid) /\ waiter[call[c].pid] = "none"
  /\ \A p \in Pids : proc[p] = "unborn" => waiter[p] = "none"

\* One launch profile, and so one lock file; or one caller at a time.
OneGeneration == \A g, h \in Generations : g = h
OneCaller == \A c, d \in Callers : c = d

\* No process has the number that stands for none.
LEMMA PidNumbers == NoPid \notin Pids
BY DEF NoPid, Pids

\* Two calls are never in Start at once: each owns a lock file, and there is one.
LEMMA Exclusive ==
  ASSUME OneGeneration \/ OneCaller, StartInv,
         NEW c \in Callers, NEW d \in Callers, InStart(c), InStart(d)
  PROVE  c = d
BY DEF OneGeneration, OneCaller, StartInv

\* How a call advances in Start.
Advanced(c) ==
  /\ InStart(c)' => ~Return(c) /\ (InStart(c) \/ Acquire(c))
  /\ PastLook(c)' => PastLook(c) \/ (Look(c) /\ ~Visible(cmd))
  /\ Spawned(c)' => Spawn(c) \/ (Spawned(c) /\ call'[c].pid = call[c].pid)

\* A call gets into Start with the lock file, past its look at the process in memory
\* when it saw none alive, and to a child by starting it.
LEMMA Entering ==
  ASSUME TypeOK, CallsFit, NEW c \in Callers, Step(c)
  PROVE  Advanced(c)
PROOF
<1>0. /\ call \in [Callers -> Calls] /\ file[config] \in RuntimeState
      /\ cmd \in Pids \cup {NoPid} /\ call[c] \in Calls
      /\ call[c].then = "reread" => call[c].op # "status"
      /\ call[c].at \in {"asking", "start"} => ~InStart(c)
      /\ At(c, "asking") => call[c].op = "status"
  BY DEF TypeOK, CallsFit, Fits, InStart, StartPlaces, At
<1>1. Entered(c)
  BY <1>0, Moves
<1>2. CASE Return(c)
  BY <1>0, <1>2 DEF Return, Idle, InStart, StartPlaces, PastLook, Spawned, Advanced
<1>3. CASE ~Return(c)
  <2>1. InStart(c)' => InStart(c) \/ Acquire(c)
    <3>1. CASE call'[c].at \in {"looking", "reading", "prepared", "spawning", "started",
                                "publishing", "settling"}
      BY <1>1, <1>3, <3>1, Guards DEF Entered, InStart, StartPlaces, At
    <3>2. CASE At(c, "failed")' /\ call'[c].op # "status"
      BY <1>1, <1>3, <3>2, Guards DEF Entered, InStart, StartPlaces, At
    <3>3. CASE call'[c].at \in {"rereading", "launching"}
      BY <1>0, <1>1, <1>3, <3>3, Guards DEF Entered, InStart, StartPlaces, At
    <3>4. CASE At(c, "failing")' /\ call'[c].op # "status"
      BY <1>0, <1>1, <1>3, <3>4, Guards DEF Entered, InStart, StartPlaces, At
    <3> QED BY <3>1, <3>2, <3>3, <3>4 DEF InStart, StartPlaces, At
  <2>2. At(c, "looking") /\ PastLook(c)' => Look(c) /\ ~Visible(cmd)
    <3>1. At(c, "looking") => Look(c)
      BY Guards DEF Step, At
    <3> QED BY <1>3, <3>1 DEF Look
  <2>3. PastLook(c)' => InStart(c) /\ ~At(c, "settling")
    <3>1. Acquire(c) => ~PastLook(c)'
      BY <1>0, <1>3 DEF Acquire, Goto, Turn, PastLook
    <3>2. ~At(c, "settling")
      BY <1>3, Guards DEF Step, At, Settle
    <3> QED BY <2>1, <3>1, <3>2 DEF PastLook
  <2>4. PastLook(c)' => PastLook(c) \/ (Look(c) /\ ~Visible(cmd))
    BY <2>2, <2>3 DEF PastLook, At
  <2>5. Spawned(c)' => Spawn(c) \/ (Spawned(c) /\ call'[c].pid = call[c].pid)
    <3>1. CASE At(c, "started")'
      BY <1>1, <1>3, <3>1, Guards DEF Entered
    <3>2. CASE At(c, "publishing")'
      <4>1. WriteRunning(c) /\ At(c, "started")
        BY <1>1, <1>3, <3>2, Guards DEF Entered
      <4> QED BY <1>0, <4>1 DEF Spawned, At, WriteRunning, Goto, Turn
    <3> QED BY <3>1, <3>2 DEF Spawned, At
  <2> QED BY <1>3, <2>1, <2>4, <2>5 DEF Advanced
<1> QED BY <1>2, <1>3

\* A step of a call keeps Start exclusive and its child in memory.
LEMMA StartCaller ==
  ASSUME OneGeneration \/ OneCaller, TypeOK, CallsFit, StartInv, NEW c \in Callers, Step(c)
  PROVE  StartInv'
PROOF
<1>0. /\ call \in [Callers -> Calls] /\ file[config] \in RuntimeState
      /\ cmd \in Pids \cup {NoPid} /\ config \in Generations
      /\ lock \in [Generations -> Callers \cup {Nobody, "leftover"}]
      /\ proc \in [Pids -> {"unborn", "running", "zombie", "gone"}]
      /\ \A d \in Callers : Spawned(d) => call[d].pid \in Pids
  BY DEF TypeOK, CallsFit, Fits, Spawned
<1>1. /\ \A d \in Callers : d # c => call'[d] = call[d]
      /\ Frame(c)
  BY <1>0, Moves, Frames
<1>2. /\ InStart(c)' => ~Return(c) /\ (InStart(c) \/ Acquire(c))
      /\ PastLook(c)' => PastLook(c) \/ (Look(c) /\ ~Visible(cmd))
      /\ Spawned(c)' => Spawn(c) \/ (Spawned(c) /\ call'[c].pid = call[c].pid)
  <2>1. Advanced(c)
    BY Entering
  <2> QED BY <2>1 DEF Advanced
<1>3. \A d \in Callers : d # c => /\ InStart(d)' <=> InStart(d)
                                  /\ PastLook(d)' <=> PastLook(d)
                                  /\ Spawned(d)' <=> Spawned(d)
  BY <1>1 DEF InStart, PastLook, Spawned
<1>4. \A d \in Callers : Spawned(d) => PastLook(d)
  BY DEF Spawned, PastLook, InStart, StartPlaces
<1>5. Publish(c) => Spawned(c)
  BY Guards DEF Spawned, At
<1>6. \A p \in Pids : Visible(p) /\ Child(p) => Visible(p)'
  BY <1>0, <1>1, PidNumbers DEF Frame, os, Visible, Spawn, Die
<1>7. \A p \in Pids : proc'[p] = "unborn" => proc[p] = "unborn"
  BY <1>0, <1>1 DEF Frame, os, Spawn, Die
<1>8. \A d \in Callers : InStart(d)' => \E g \in Generations : lock'[g] = d
  <2>1. CASE Acquire(c)
    <3>1. CASE lock[config] = Nobody
      BY <1>0, <1>3, <2>1, <3>1 DEF Acquire, StartInv
    <3>2. CASE lock[config] # Nobody
      BY <1>0, <1>2, <1>3, <2>1, <3>2 DEF Acquire, Return, StartInv
    <3> QED BY <3>1, <3>2
  <2>2. CASE Return(c)
    BY <1>0, <1>2, <1>3, <2>2 DEF Return, StartInv
  <2>3. CASE UNCHANGED lock /\ ~Acquire(c)
    BY <1>2, <1>3, <2>3 DEF StartInv
  <2> QED BY <1>1, <2>1, <2>2, <2>3 DEF Frame
<1>9. \A p \in Pids : waiter'[p] = "waiting" => cmd' = p /\ Visible(p)'
  <2>1. CASE Publish(c)
    <3>1. \A p \in Pids : waiter'[p] = "waiting" => p = call[c].pid
      BY <1>0, <1>4, <1>5, <2>1 DEF Publish, StartInv, TypeOK
    <3>2. Visible(call[c].pid) /\ UNCHANGED proc
      BY <1>5, <2>1 DEF Publish, StartInv, os
    <3> QED BY <2>1, <3>1, <3>2 DEF Publish, Visible
  <2>2. CASE UNCHANGED <<cmd, waiter>>
    BY <1>6, <2>2 DEF StartInv, Child
  <2> QED BY <1>1, <2>1, <2>2 DEF Frame
<1>10. \A d \in Callers : PastLook(d)' => \A p \in Pids : waiter'[p] # "waiting"
  <2>1. CASE Publish(c)
    <3>1. ~PastLook(c)'
      BY <1>0, <2>1 DEF Publish, Goto, Turn, PastLook
    <3>2. \A d \in Callers : PastLook(d) => d = c
      BY <1>4, <1>5, <2>1, Exclusive DEF PastLook
    <3> QED BY <1>3, <3>1, <3>2
  <2>2. CASE UNCHANGED <<cmd, waiter>>
    BY <1>2, <1>3, <2>2 DEF StartInv
  <2> QED BY <1>1, <2>1, <2>2 DEF Frame
<1>11. \A d \in Callers : Spawned(d)' => Visible(call[d].pid)' /\ waiter'[call'[d].pid] = "none"
  <2>1. CASE Spawn(c)
    <3>0. PICK q \in Pids : /\ proc[q] = "unborn" /\ proc' = [proc EXCEPT ![q] = "running"]
                            /\ Turn(c, "started", call[c].seen, q, call[c].then)
      BY <2>1 DEF Spawn
    <3>1. call'[c].pid = q
      BY <1>0, <3>0 DEF Turn
    <3>2. UNCHANGED waiter
      BY <2>1 DEF Spawn, waiters
    <3>3. Visible(call[c].pid)' /\ waiter'[call'[c].pid] = "none"
      BY <1>0, <3>0, <3>1, <3>2, PidNumbers DEF Visible, StartInv
    <3>4. \A d \in Callers : Spawned(d) => d = c
      BY <2>1, <1>4, Exclusive, Guards DEF PastLook, InStart, StartPlaces, At
    <3> QED BY <1>3, <3>3, <3>4
  <2>2. CASE Publish(c)
    <3>1. ~Spawned(c)'
      BY <1>0, <2>2 DEF Publish, Goto, Turn, Spawned
    <3>2. \A d \in Callers : Spawned(d) => d = c
      BY <1>4, <1>5, <2>2, Exclusive DEF PastLook
    <3> QED BY <1>3, <3>1, <3>2
  <2>3. CASE UNCHANGED waiter /\ ~Spawn(c)
    <3>1. \A d \in Callers : Spawned(d)' => Spawned(d) /\ call'[d].pid = call[d].pid
      BY <1>1, <1>2, <1>3, <2>3
    <3>2. \A d \in Callers : Spawned(d) => Child(call[d].pid)
      BY DEF Spawned, Child
    <3>3. \A d \in Callers : Spawned(d) => /\ Visible(call[d].pid) /\ call[d].pid \in Pids
                                           /\ waiter[call[d].pid] = "none"
      BY <1>0 DEF StartInv
    <3>4. \A d \in Callers : Spawned(d) => proc'[call[d].pid] \in {"running", "zombie"}
      BY <1>6, <3>2, <3>3 DEF Visible
    <3> QED BY <2>3, <3>1, <3>3, <3>4, PidNumbers DEF Visible
  <2> QED BY <1>1, <2>1, <2>2, <2>3 DEF Frame
<1>12. \A p \in Pids : proc'[p] = "unborn" => waiter'[p] = "none"
  <2>1. CASE Publish(c)
    <3>1. proc[call[c].pid] # "unborn" /\ UNCHANGED proc
      BY <1>5, <2>1 DEF Publish, StartInv, os, Visible
    <3> QED BY <2>1, <3>1 DEF Publish, StartInv, TypeOK
  <2>2. CASE UNCHANGED <<cmd, waiter>>
    BY <1>7, <2>2 DEF StartInv
  <2> QED BY <1>1, <2>1, <2>2 DEF Frame
<1> QED BY <1>8, <1>9, <1>10, <1>11, <1>12 DEF StartInv

\* So does a step of a waiter.
LEMMA StartWaiter ==
  ASSUME TypeOK, StartInv, NEW p \in Pids, WaiterStep(p)
  PROVE  StartInv'
PROOF
<1>0. /\ proc \in [Pids -> {"unborn", "running", "zombie", "gone"}]
      /\ waiter \in [Pids -> {"none", "waiting", "reaped", "cleared", "recording",
                              "recorded", "sent", "done"}]
  BY DEF TypeOK
<1>1. /\ UNCHANGED <<call, lock>>
      /\ waiter[p] # "none" /\ waiter'[p] \notin {"none", "waiting"}
      /\ \A q \in Pids : q # p => waiter'[q] = waiter[q] /\ proc'[q] = proc[q]
  BY <1>0 DEF WaiterStep, Reap, Clear, ReadExit, WriteExit, Announce, WaiterGoto, os
<1>2. /\ proc'[p] # "unborn"
      /\ \A q \in Pids : q # p /\ cmd = q => cmd' = q
  BY <1>0, <1>1 DEF WaiterStep, Reap, Clear, ReadExit, WriteExit, Announce, memory, os, StartInv
<1>3. \A c \in Callers : /\ InStart(c)' <=> InStart(c)
                         /\ PastLook(c)' <=> PastLook(c)
                         /\ Spawned(c)' <=> Spawned(c)
  BY <1>1 DEF InStart, PastLook, Spawned
<1>4. \A q \in Pids : waiter'[q] = "waiting" => q # p /\ cmd' = q /\ Visible(q)'
  BY <1>1, <1>2 DEF StartInv, Visible
<1>5. \A c \in Callers : PastLook(c)' => \A q \in Pids : waiter'[q] # "waiting"
  BY <1>1, <1>3 DEF StartInv
<1>6. \A c \in Callers : Spawned(c)' => Visible(call[c].pid)' /\ waiter'[call'[c].pid] = "none"
  <2>1. \A c \in Callers : Spawned(c) => call[c].pid # p /\ call[c].pid \in Pids
    BY <1>1 DEF StartInv, TypeOK, Visible
  <2> QED BY <1>1, <1>3, <2>1 DEF StartInv, Visible
<1>7. \A q \in Pids : proc'[q] = "unborn" => waiter'[q] = "none"
  BY <1>1, <1>2 DEF StartInv
<1> QED BY <1>1, <1>3, <1>4, <1>5, <1>6, <1>7 DEF StartInv

\* So does the exit of a server.
LEMMA StartExit ==
  ASSUME TypeOK, StartInv, NEW p \in Pids, Exit(p)
  PROVE  StartInv'
PROOF
<1>0. /\ proc \in [Pids -> {"unborn", "running", "zombie", "gone"}]
      /\ \A c \in Callers : call[c].pid \in Pids \cup {NoPid}
  BY DEF TypeOK
<1>1. /\ UNCHANGED <<call, lock, cmd, waiter>>
      /\ proc[p] = "running"
      /\ proc' = [proc EXCEPT ![p] = IF Child(p) THEN "zombie" ELSE "gone"]
  BY DEF Exit, Die, memory, waiters
<1>2. \A c \in Callers : /\ InStart(c)' <=> InStart(c)
                         /\ PastLook(c)' <=> PastLook(c)
                         /\ Spawned(c)' <=> Spawned(c)
  BY <1>1 DEF InStart, PastLook, Spawned
<1>3. \A q \in Pids : Visible(q) /\ Child(q) => Visible(q)'
  BY <1>0, <1>1 DEF Visible
<1>4. \A q \in Pids : proc'[q] = "unborn" => proc[q] = "unborn"
  BY <1>0, <1>1
<1>5. \A q \in Pids : waiter[q] = "waiting" => Child(q)
  BY DEF Child
<1>6. \A c \in Callers : Spawned(c) => call[c].pid \in Pids /\ Child(call[c].pid)
  BY <1>0 DEF Spawned, Child, StartInv, Visible
<1>7. \A c \in Callers : Spawned(c)' => Visible(call[c].pid)' /\ waiter'[call'[c].pid] = "none"
  <2>1. \A c \in Callers : Spawned(c) => proc'[call[c].pid] \in {"running", "zombie"}
    BY <1>3, <1>6 DEF StartInv, Visible
  <2> QED BY <1>1, <1>2, <1>6, <2>1, PidNumbers DEF StartInv, Visible
<1> QED BY <1>1, <1>2, <1>3, <1>4, <1>5, <1>7 DEF StartInv

\* So does every step.
LEMMA StartStep ==
  ASSUME OneGeneration \/ OneCaller, TypeOK, CallsFit, StartInv, [Next]_vars
  PROVE  StartInv'
PROOF
<1>1. ASSUME NEW c \in Callers, NEW op \in Ops[c], Call(c, op)
      PROVE  StartInv'
  <2>1. op \in {"start", "stop", "force", "restart", "status"}
    OBVIOUS
  <2>2. /\ UNCHANGED <<proc, lock, cmd, waiter>>
        /\ \A d \in Callers : d # c => call'[d] = call[d]
        /\ call'[c].at = op
    BY <1>1 DEF Call, os, memory, waiters, CallsFit
  <2>3. ~InStart(c)' /\ ~PastLook(c)' /\ ~Spawned(c)'
    BY <2>1, <2>2 DEF InStart, StartPlaces, PastLook, Spawned
  <2>4. \A d \in Callers : d # c => /\ InStart(d)' <=> InStart(d)
                                    /\ PastLook(d)' <=> PastLook(d)
                                    /\ Spawned(d)' <=> Spawned(d)
    BY <2>2 DEF InStart, PastLook, Spawned
  <2> QED BY <2>2, <2>3, <2>4 DEF StartInv, Visible
<1>2. CASE Shutdown
  <2>1. \A c \in Callers : ~InStart(c)' /\ ~PastLook(c)' /\ ~Spawned(c)'
    BY <1>2 DEF Shutdown, Idle, InStart, StartPlaces, PastLook, Spawned
  <2> QED BY <1>2, <2>1 DEF Shutdown, StartInv
<1>3. CASE Boot \/ (\E g \in Generations : LockExpires(g) \/ UpdateConfig(g)) \/ UNCHANGED vars
  <2>1. /\ UNCHANGED <<proc, cmd, waiter, call>>
        /\ UNCHANGED lock \/ \E g \in Generations :
                               lock[g] = "leftover" /\ lock' = [lock EXCEPT ![g] = Nobody]
    BY <1>3 DEF Boot, LockExpires, UpdateConfig, vars, os, memory, waiters
  <2>2. \A g \in Generations, c \in Callers : lock[g] = c => lock'[g] = c
    BY <2>1 DEF TypeOK
  <2> QED BY <2>1, <2>2 DEF StartInv, InStart, PastLook, Spawned, Visible
<1> QED BY <1>1, <1>2, <1>3, StartCaller, StartWaiter, StartExit DEF Next

\* In the first program run every server that runs is a child.
FirstRunInv ==
  /\ runs = 0 => ~up /\ \A p \in Pids : proc[p] = "unborn"
  /\ ~up => \A p \in Pids : waiter[p] = "none"
  /\ ~up => \A c \in Callers : At(c, "idle")
  /\ runs = 1 => OneServer
  /\ runs = 1 /\ up => \A p \in Running : Child(p)
  /\ runs = 1 /\ up => \A p \in Pids : proc[p] = "gone" => waiter[p] \notin {"none", "waiting"}

\* Calls take steps while the program runs.
LEMMA UpWhenCalled ==
  ASSUME FirstRunInv, NEW c \in Callers, Step(c)
  PROVE  up
BY Guards DEF FirstRunInv, Step, At

\* A step of a call starts a server only when no other runs.
LEMMA FirstRunCaller ==
  ASSUME OneGeneration \/ OneCaller, TypeOK, CallsFit, StartInv, FirstRunInv,
         NEW c \in Callers, Step(c)
  PROVE  FirstRunInv'
PROOF
<1>0. /\ call \in [Callers -> Calls] /\ file[config] \in RuntimeState
      /\ cmd \in Pids \cup {NoPid}
      /\ proc \in [Pids -> {"unborn", "running", "zombie", "gone"}]
      /\ waiter \in [Pids -> {"none", "waiting", "reaped", "cleared", "recording",
                              "recorded", "sent", "done"}]
  BY DEF TypeOK, CallsFit
<1>1. /\ \A d \in Callers : d # c => call'[d] = call[d]
      /\ Frame(c)
  BY <1>0, Moves, Frames
<1>2. up /\ up' /\ runs' = runs /\ runs # 0
  BY <1>1, UpWhenCalled DEF Frame, FirstRunInv
<1>3. CASE runs # 1
  BY <1>2, <1>3 DEF FirstRunInv
<1>4. CASE runs = 1
  <2>0. OneServer /\ \A p \in Running : Child(p)
    BY <1>2, <1>4 DEF FirstRunInv
  <2>1. CASE Spawn(c)
    <3>1. PICK q \in Pids : /\ proc[q] = "unborn" /\ proc' = [proc EXCEPT ![q] = "running"]
                            /\ Turn(c, "started", call[c].seen, q, call[c].then)
      BY <2>1 DEF Spawn
    <3>2. PastLook(c) /\ InStart(c) /\ ~Spawned(c)
      BY <2>1, Guards DEF PastLook, InStart, StartPlaces, Spawned, At
    <3>3. \A p \in Pids : ~Child(p)
      BY <3>2, Exclusive DEF Child, StartInv, Spawned, InStart, StartPlaces
    <3>4. Running' = {q}
      BY <1>0, <2>0, <3>1, <3>3 DEF Running
    <3>5. Child(q)'
      BY <1>0, <3>1 DEF Turn, Child
    <3>6. \A p \in Pids : proc'[p] = "gone" => proc[p] = "gone"
      BY <1>0, <3>1
    <3> QED BY <1>2, <1>4, <2>1, <3>4, <3>5, <3>6 DEF FirstRunInv, OneServer, Spawn, waiters
  <2>2. CASE ~Spawn(c)
    <3>1. Running' \subseteq Running
      BY <1>0, <1>1, <2>2 DEF Frame, os, Die, Running
    <3>2. \A p \in Running : Child(p)'
      <4>1. SUFFICES ASSUME NEW p \in Running PROVE Child(p)'
        OBVIOUS
      <4>2. CASE waiter[p] = "waiting"
        <5>1. waiter'[p] = "waiting"
          BY <1>0, <1>1, <4>2 DEF Frame, Publish, Running
        <5> QED BY <5>1 DEF Child
      <4>3. ASSUME NEW d \in Callers, call[d].at \in {"started", "publishing"}, call[d].pid = p
            PROVE  Child(p)'
        <5>1. CASE d # c
          BY <1>1, <4>3, <5>1 DEF Child
        <5>2. CASE d = c
          <6>1. WriteRunning(c) \/ Publish(c)
            BY <4>3, <5>2, Guards DEF Step, At
          <6>2. CASE WriteRunning(c)
            BY <1>0, <4>3, <5>2, <6>2 DEF WriteRunning, Goto, Turn, Child
          <6>3. CASE Publish(c)
            <7>1. waiter'[p] = "waiting"
              BY <1>0, <4>3, <5>2, <6>3 DEF Publish, Running
            <7> QED BY <7>1 DEF Child
          <6> QED BY <6>1, <6>2, <6>3
        <5> QED BY <5>1, <5>2
      <4> QED BY <2>0, <4>2, <4>3 DEF Child
    <3>3. \A p \in Pids : proc'[p] = "gone" => proc[p] = "gone"
      BY <1>0, <1>1, <2>0, <2>2 DEF Frame, os, Die, Running
    <3>4. \A p \in Pids : proc[p] = "gone" => waiter'[p] \notin {"none", "waiting"}
      <4>1. \A p \in Pids : proc[p] = "gone" => waiter[p] \notin {"none", "waiting"}
        BY <1>2, <1>4 DEF FirstRunInv
      <4>2. Publish(c) => Visible(call[c].pid)
        BY Guards DEF StartInv, Spawned, At
      <4> QED BY <1>0, <1>1, <4>1, <4>2 DEF Frame, Publish, Visible
    <3> QED BY <1>2, <1>4, <2>0, <3>1, <3>2, <3>3, <3>4 DEF FirstRunInv, OneServer
  <2> QED BY <2>1, <2>2
<1> QED BY <1>3, <1>4

\* A step of a waiter starts none.
LEMMA FirstRunWaiter ==
  ASSUME TypeOK, StartInv, FirstRunInv, NEW p \in Pids, WaiterStep(p)
  PROVE  FirstRunInv'
PROOF
<1>0. /\ proc \in [Pids -> {"unborn", "running", "zombie", "gone"}]
      /\ waiter \in [Pids -> {"none", "waiting", "reaped", "cleared", "recording",
                              "recorded", "sent", "done"}]
  BY DEF TypeOK
<1>1. /\ UNCHANGED <<call, up, runs>>
      /\ waiter[p] # "none" /\ waiter'[p] \notin {"none", "waiting"}
      /\ \A q \in Pids : q # p => waiter'[q] = waiter[q] /\ proc'[q] = proc[q]
      /\ proc'[p] = proc[p] \/ (proc[p] = "zombie" /\ proc'[p] = "gone")
      /\ waiter[p] = "waiting" => proc[p] = "zombie"
  BY <1>0 DEF WaiterStep, Reap, Clear, ReadExit, WriteExit, Announce, WaiterGoto, os
<1>2. up /\ up'
  BY <1>1 DEF FirstRunInv
<1>3. Running' = Running
  BY <1>0, <1>1 DEF Running
<1>4. \A q \in Running : Child(q) => Child(q)'
  BY <1>1 DEF Child, Running
<1> QED BY <1>1, <1>2, <1>3, <1>4 DEF FirstRunInv, OneServer

\* Every step keeps one server in the first program run.
LEMMA FirstRunStep ==
  ASSUME OneGeneration \/ OneCaller, TypeOK, CallsFit, StartInv, FirstRunInv, [Next]_vars
  PROVE  FirstRunInv'
PROOF
<1>0. proc \in [Pids -> {"unborn", "running", "zombie", "gone"}] /\ runs \in Nat
  BY DEF TypeOK
<1>1. ASSUME NEW c \in Callers, NEW op \in Ops[c], Call(c, op)
      PROVE  FirstRunInv'
  <2>1. /\ UNCHANGED <<proc, waiter, runs, up>> /\ up
        /\ \A d \in Callers : d # c => call'[d] = call[d]
        /\ At(c, "idle")
    BY <1>1 DEF Call, os, memory, waiters, CallsFit
  <2>2. Running' = Running
    BY <2>1 DEF Running
  <2>3. \A q \in Running : Child(q) => Child(q)'
    BY <2>1 DEF Child, At
  <2> QED BY <2>1, <2>2, <2>3 DEF FirstRunInv, OneServer
<1>2. CASE Shutdown
  <2>1. Running' = Running
    BY <1>0, <1>2 DEF Shutdown, Running
  <2> QED BY <1>2, <2>1 DEF Shutdown, FirstRunInv, OneServer, At, Idle
<1>3. CASE Boot
  <2>1. runs' # 0 /\ (runs' = 1 => \A p \in Pids : proc'[p] = "unborn")
    BY <1>0, <1>3 DEF Boot, FirstRunInv, os
  <2>2. runs' = 1 => Running' = {}
    BY <2>1 DEF Running
  <2> QED BY <1>3, <2>1, <2>2 DEF Boot, FirstRunInv, OneServer
<1>4. CASE (\E g \in Generations : LockExpires(g) \/ UpdateConfig(g)) \/ UNCHANGED vars
  <2>1. UNCHANGED <<up, runs, proc, waiter, call>>
    BY <1>4 DEF LockExpires, UpdateConfig, vars, os, memory, waiters
  <2> QED BY <2>1 DEF FirstRunInv, OneServer, Running, Child, At
<1>5. ASSUME NEW p \in Pids, Exit(p)
      PROVE  FirstRunInv'
  <2>1. /\ UNCHANGED <<up, runs, waiter, call>> /\ proc[p] = "running"
        /\ proc' = [proc EXCEPT ![p] = IF Child(p) THEN "zombie" ELSE "gone"]
    BY <1>5 DEF Exit, Die, memory, waiters
  <2>2. Running' \subseteq Running /\ \A q \in Running : Child(q)' <=> Child(q)
    BY <1>0, <2>1 DEF Running, Child
  <2>3. runs = 1 /\ up => \A q \in Pids : proc'[q] = "gone" => proc[q] = "gone"
    BY <1>0, <2>1 DEF FirstRunInv, Running
  <2> QED BY <1>0, <2>1, <2>2, <2>3 DEF FirstRunInv, OneServer, At
<1> QED BY <1>1, <1>2, <1>3, <1>4, <1>5, FirstRunCaller, FirstRunWaiter DEF Next

\* Both invariants hold at first.
LEMMA StartInit == Init => StartInv /\ FirstRunInv
BY DEF Init, StartInv, FirstRunInv, InStart, StartPlaces, PastLook, Spawned, At, Idle, OneServer

\* The inductive invariant of starting.  With two callers and two generations, each
\* generation with its own lock file, it is false.
THEOREM StartCorrect ==
  ASSUME OneGeneration \/ OneCaller
  PROVE  Spec => [](StartInv /\ FirstRunInv)
PROOF
<1>1. TypeOK /\ CallsFit /\ StartInv /\ FirstRunInv /\ [Next]_vars => (StartInv /\ FirstRunInv)'
  BY StartStep, FirstRunStep
<1> QED BY <1>1, TypeCorrect, StartInit, PTL DEF Spec

\* A child that has not been waited for is the process in memory: Start publishes no
\* process over one that Stop and SendCommand still have to find.
THEOREM InMemory ==
  ASSUME OneGeneration \/ OneCaller
  PROVE  Spec => []ChildInMemory
PROOF
<1>1. StartInv => ChildInMemory
  BY DEF StartInv, ChildInMemory
<1> QED BY <1>1, StartCorrect, PTL

\* One server runs in the first program run, with the startup lock and the process in
\* memory alone: whatever is written to the state file, and if writes fail.
THEOREM FirstRun ==
  ASSUME OneGeneration \/ OneCaller
  PROVE  Spec => []OneServerInFirstRun
PROOF
<1>1. FirstRunInv => OneServerInFirstRun
  BY DEF FirstRunInv, OneServerInFirstRun
<1> QED BY <1>1, StartCorrect, PTL

-------------------------------------------------------------------------------
(* The state file *)

\* A process that was started, or none.
Born(p) == p = NoPid \/ (p \in Pids /\ proc[p] # "unborn")

\* What a call knows of the state it would write back.
Knows(c) ==
  /\ Born(call[c].seen.pid)
  /\ call[c].at \in {"restart", "start", "looking", "reading", "rereading", "launching",
                     "prepared", "spawning"} => call[c].seen = NoState
  /\ At(c, "attaching") => call[c].seen.pid # NoPid
  /\ At(c, "failing") => \/ call[c].seen = NoState /\ InStart(c)
                         \/ call[c].seen.pid # NoPid /\ ~Visible(call[c].seen.pid)
  /\ call[c].at \in {"stopping", "signalling", "polling"} =>
       call[c].seen.pid = call[c].pid /\ call[c].pid # NoPid

\* A state that may be written: its process was started, a running one has a process.
Sound(s) == Born(s.pid) /\ (s.state = "running" => s.pid # NoPid)

\* What the state files, the calls and the waiters name has been started; a waiter past
\* its wait knows a process that is gone.
KnowledgeInv ==
  /\ \A g \in Generations : Sound(file[g])
  /\ \A c \in Callers : Knows(c)
  /\ \A p \in Pids : waiter[p] = "recording" => read[p].pid = p
  /\ \A p \in Pids : waiter[p] \notin {"none", "waiting"} => proc[p] = "gone"

\* Start has read the state file and has not written the process it starts.
PastRead(c) == InStart(c) /\ call[c].at \notin {"looking", "reading", "publishing", "settling"}

\* A server that runs is named by the state file, or by the Start call that is about
\* to write it there; a Start call past its read, a failure about to be recorded and
\* an exit already recorded leave no live or no such process in the file.
FileFacts ==
  /\ \A p \in Running : \/ file[config].pid = p
                        \/ \E c \in Callers : At(c, "started") /\ call[c].pid = p
  /\ \A c \in Callers : PastRead(c) => ~Visible(file[config].pid)
  /\ \A c \in Callers : At(c, "failed") => ~Visible(call[c].seen.pid)
  /\ \A p \in Pids : waiter[p] \in {"recorded", "sent", "done"} => file[config].pid # p

FileInv == ~missed => FileFacts

\* A process that was started stays started, one that is gone stays gone.
LEMMA Fates ==
  ASSUME TypeOK, CallsFit, [Next]_vars
  PROVE  /\ \A p \in Pids : Born(p) => Born(p)'
         /\ \A p \in Pids \cup {NoPid} : Born(p) /\ ~Visible(p) => ~Visible(p)'
         /\ \A p \in Pids : proc[p] = "gone" => proc'[p] = "gone"
PROOF
<1>0. proc \in [Pids -> {"unborn", "running", "zombie", "gone"}]
  BY DEF TypeOK
<1>1. ASSUME NEW p \in Pids
      PROVE  \/ proc'[p] = proc[p]
             \/ proc[p] = "unborn"
             \/ proc[p] = "running" /\ proc'[p] \in {"zombie", "gone"}
             \/ proc[p] = "zombie" /\ proc'[p] = "gone"
  <2>1. ASSUME NEW c \in Callers, Step(c)
        PROVE  \/ proc'[p] = proc[p]
               \/ proc[p] = "unborn"
               \/ proc[p] = "running" /\ proc'[p] \in {"zombie", "gone"}
    <3>1. Frame(c)
      BY <2>1, Frames
    <3> QED BY <1>0, <3>1 DEF Frame, Spawn, Die, os
  <2>2. ASSUME NEW q \in Pids, WaiterStep(q) \/ Exit(q)
        PROVE  \/ proc'[p] = proc[p]
               \/ proc[p] = "running" /\ proc'[p] \in {"zombie", "gone"}
               \/ proc[p] = "zombie" /\ proc'[p] = "gone"
    BY <1>0, <2>2 DEF WaiterStep, Reap, Clear, ReadExit, WriteExit, Announce, Exit, Die, os
  <2>3. CASE Shutdown
    BY <1>0, <2>3 DEF Shutdown
  <2>4. CASE \/ \E c \in Callers : \E op \in Ops[c] : Call(c, op)
             \/ Boot \/ \E g \in Generations : LockExpires(g) \/ UpdateConfig(g)
             \/ UNCHANGED vars
    BY <2>4 DEF Call, Boot, LockExpires, UpdateConfig, vars, os
  <2> QED BY <2>1, <2>2, <2>3, <2>4 DEF Next
<1> QED BY <1>0, <1>1, PidNumbers DEF Born, Visible

\* What was judged of a state stays true of it.
LEMMA Knowing ==
  ASSUME TypeOK, CallsFit, [Next]_vars, NEW c \in Callers, Knows(c), call'[c] = call[c]
  PROVE  Knows(c)'
PROOF
<1>1. call[c].seen.pid \in Pids \cup {NoPid}
  BY Typed DEF TypeOK
<1>2. Born(call[c].seen.pid)'
  BY <1>1, Fates DEF Knows, Born
<1>3. ~Visible(call[c].seen.pid) => ~Visible(call[c].seen.pid)'
  BY <1>1, Fates DEF Knows
<1> QED BY <1>2, <1>3 DEF Knows, At, InStart, Visible, Born

\* What a call knows holds of what it has read at this step.
LEMMA KnowledgeCall ==
  ASSUME TypeOK, CallsFit, KnowledgeInv, NEW c \in Callers, Step(c)
  PROVE  Knows(c)'
PROOF
<1>0. /\ call \in [Callers -> Calls] /\ file[config] \in RuntimeState
      /\ cmd \in Pids \cup {NoPid} /\ call[c] \in Calls /\ config \in Generations
      /\ Knows(c) /\ Born(file[config].pid)
      /\ call[c].seen \in RuntimeState
      /\ InStart(c) => call[c].op # "status"
      /\ NoState.pid = NoPid
  BY Typed DEF TypeOK, CallsFit, Fits, KnowledgeInv, Sound, NoState
<1>1. Entered(c)
  BY <1>0, Moves
<1>2. CASE Return(c)
  BY <1>0, <1>2 DEF Return, Idle, Knows, Born, At, InStart, StartPlaces
<1>3. CASE ~Return(c)
  <2>0. \A p \in Pids \cup {NoPid} : Born(p) => Born(p)' /\ (~Visible(p) => ~Visible(p)')
    BY Fates DEF Next, Born
  <2>1. CASE call'[c].at \in {"looking", "reading", "rereading", "launching", "prepared",
                              "spawning", "start"}
    <3>1. call'[c].seen = NoState
      <4>1. CASE call'[c].at \in {"looking", "reading", "prepared"}
        BY <1>0, <1>1, <1>3, <4>1, Guards
           DEF Entered, Knows, At, Acquire, Look, Prepare, Goto, Turn
      <4>2. CASE call'[c].at \in {"spawning", "rereading"}
        BY <1>0, <1>1, <1>3, <4>2, Guards
           DEF Entered, Knows, At, WriteStarting, WriteFailure, Goto, Saw, Turn
      <4>3. CASE At(c, "launching")'
        <5>1. CASE Read(c)
          <6>1. Goto(c, "launching")
            BY <1>0, <1>3, <4>3, <5>1 DEF Read, At, Saw, Turn
          <6> QED BY <1>0, <5>1, <6>1, Guards DEF Knows, At, Goto, Turn
        <5>2. CASE Reread(c)
          BY <1>0, <1>3, <5>2, Guards DEF Reread, Knows, At, Then, Turn
        <5> QED BY <1>1, <1>3, <4>3, <5>1, <5>2 DEF Entered
      <4>4. CASE At(c, "start")'
        <5>1. CASE AwaitExit(c) \/ PollGone(c)
          BY <1>0, <1>3, <5>1 DEF AwaitExit, PollGone, Stopped, Turn
        <5>2. CASE Restart(c)
          BY <1>0, <5>2, Guards DEF Restart, Knows, At, Goto, Turn
        <5> QED BY <1>1, <1>3, <4>4, <5>1, <5>2 DEF Entered
      <4> QED BY <2>1, <4>1, <4>2, <4>3, <4>4 DEF At
    <3> QED BY <1>0, <2>1, <3>1 DEF Knows, Born, At
  <2>2. CASE At(c, "attaching")'
    <3>1. Saw(c, "attaching", file[config]) /\ Visible(file[config].pid)
      <4>1. CASE Read(c)
        BY <1>0, <1>3, <2>2, <4>1 DEF Read, At, Goto, Turn
      <4>2. CASE StatusRead(c)
        BY <1>0, <1>3, <2>2, <4>2 DEF StatusRead, At, Saw, Turn
      <4> QED BY <1>1, <1>3, <2>2, <4>1, <4>2 DEF Entered
    <3>2. call'[c].seen = file[config] /\ file[config].pid # NoPid
      BY <1>0, <3>1 DEF Saw, Turn, Visible
    <3>3. Born(file[config].pid)
      BY <1>0
    <3>4. Born(call[c].seen.pid)'
      BY <1>0, <2>0, <3>2, Typed DEF Born
    <3> QED BY <2>2, <3>2, <3>4 DEF Knows, At
  <2>3. CASE At(c, "failing")'
    <3>1. CASE Read(c) \/ StatusRead(c)
      <4>1. /\ call'[c].seen = file[config]
            /\ file[config].pid # NoPid /\ ~Visible(file[config].pid)
        <5>1. CASE Read(c)
          BY <1>0, <1>3, <2>3, <5>1 DEF Read, At, Goto, Saw, Turn
        <5>2. CASE StatusRead(c)
          BY <1>0, <1>3, <2>3, <5>2 DEF StatusRead, At, Saw, Turn
        <5> QED BY <3>1, <5>1, <5>2
      <4>2. Born(call[c].seen.pid)'
        BY <1>0, <2>0, <4>1, Typed DEF Born
      <4>3. ~Visible(call[c].seen.pid)'
        BY <1>0, <2>0, <4>1, Typed DEF Visible
      <4> QED BY <2>3, <4>1, <4>2, <4>3 DEF Knows, At
    <3>2. CASE Prepare(c) \/ SpawnFails(c)
      <4>1. call'[c].seen = NoState /\ call'[c].op = call[c].op /\ InStart(c)
        BY <1>0, <3>2, Guards
           DEF Prepare, SpawnFails, Knows, InStart, StartPlaces, At, Goto, Turn
      <4> QED BY <1>0, <2>3, <4>1 DEF Knows, Born, InStart, At
    <3> QED BY <1>1, <1>3, <2>3, <3>1, <3>2 DEF Entered
  <2>4. CASE call'[c].at \in {"stopping", "signalling", "polling"}
    <3>1. CASE Find(c)
      <4>1. /\ Turn(c, "stopping", file[config], file[config].pid, call[c].then)
            /\ Visible(file[config].pid)
        BY <1>3, <3>1 DEF Find
      <4>2. /\ call'[c].seen = file[config] /\ call'[c].pid = file[config].pid
            /\ file[config].pid # NoPid
        BY <1>0, <4>1 DEF Turn, Visible
      <4>3. Born(call[c].seen.pid)'
        BY <1>0, <2>0, <4>2, Typed DEF Born
      <4> QED BY <2>4, <4>2, <4>3 DEF Knows, At
    <3>2. CASE PollTimeout(c) \/ WriteStopping(c) \/ Signal(c)
      <4>1. call[c].at \in {"stopping", "signalling", "polling"}
        BY <3>2, Guards DEF At
      <4>2. call'[c].seen.pid = call[c].seen.pid /\ call'[c].pid = call[c].pid
        BY <1>0, <1>3, <3>2 DEF PollTimeout, WriteStopping, Signal, Marked, Then, Goto, Saw, Turn
      <4>3. Born(call[c].seen.pid)'
        BY <1>0, <2>0, <4>2, Typed DEF Knows, Born
      <4> QED BY <1>0, <2>4, <4>1, <4>2, <4>3 DEF Knows, At
    <3> QED BY <1>1, <1>3, <2>4, <3>1, <3>2 DEF Entered, At
  <2>5. CASE call'[c].at \in {"failed", "marking", "awaiting"}
    <3>1. call'[c].seen \in {file[config], NoState}
      BY <1>0, <1>1, <1>3, <2>5 DEF Entered, At, ReadFailure, Stop, MarkStopping, Goto, Saw, Turn
    <3>2. Born(call[c].seen.pid)'
      BY <1>0, <2>0, <3>1, Typed DEF Born
    <3> QED BY <2>5, <3>2 DEF Knows, At
  <2>6. CASE call'[c].at \in {"started", "publishing", "settling", "finding", "stop", "reaping",
                              "killing", "killed", "asking"}
    <3>1. call'[c].seen = call[c].seen
      <4>1. CASE At(c, "started")'
        <5>1. PICK p \in Pids : Turn(c, "started", call[c].seen, p, call[c].then)
          BY <1>1, <1>3, <4>1 DEF Entered, Spawn
        <5> QED BY <1>0, <5>1 DEF Turn
      <4>2. CASE call'[c].at \in {"publishing", "settling", "reaping", "killed"}
        BY <1>0, <1>1, <1>3, <4>2
           DEF Entered, At, WriteRunning, Publish, KillLate, ForceKill, Goto, Turn
      <4>3. CASE call'[c].at \in {"finding", "stop", "killing", "asking"}
        BY <1>0, <1>1, <1>3, <4>3
           DEF Entered, At, Stop, ForceStop, Restart, Status, Goto, Turn
      <4> QED BY <2>6, <4>1, <4>2, <4>3 DEF At
    <3>2. Born(call[c].seen.pid)'
      BY <1>0, <2>0, <3>1, Typed DEF Knows, Born
    <3> QED BY <2>6, <3>2 DEF Knows, At
  <2>7. call'[c].at \notin {"idle", "restart", "status", "force"}
    BY <1>1, <1>3 DEF Entered
  <2>8. call'[c].at \in Places
    BY <1>0, Moves, Typed
  <2> QED BY <2>1, <2>2, <2>3, <2>4, <2>5, <2>6, <2>7, <2>8 DEF Places, At
<1> QED BY <1>2, <1>3

\* A write of a sound state keeps the files sound.
LEMMA SoundFile ==
  ASSUME TypeOK, CallsFit, [Next]_vars, KnowledgeInv,
         NEW s \in RuntimeState, Sound(s), NEW t, Write(s) \/ Update(t, s)
  PROVE  \A g \in Generations : Sound(file[g])'
PROOF
<1>1. \A u \in RuntimeState : Sound(u) => Sound(u)'
  BY Fates, Typed, PidNumbers DEF Sound, Born
<1>2. file \in [Generations -> RuntimeState] /\ config \in Generations
  BY DEF TypeOK
<1>3. \A g \in Generations : file[g] \in RuntimeState /\ (file'[g] = file[g] \/ file'[g] = s)
  BY <1>2 DEF Write, Update
<1>4. \A g \in Generations : \E u \in RuntimeState : file'[g] = u /\ Sound(u)
  BY <1>3 DEF KnowledgeInv
<1> QED BY <1>1, <1>4 DEF Sound, Born

\* Without a write they stay sound.
LEMMA SameFile ==
  ASSUME TypeOK, CallsFit, [Next]_vars, KnowledgeInv, UNCHANGED file
  PROVE  \A g \in Generations : Sound(file[g])'
PROOF
<1>1. \A u \in RuntimeState : Sound(u) => Sound(u)'
  BY Fates, Typed, PidNumbers DEF Sound, Born
<1>2. \A g \in Generations : \E u \in RuntimeState : file'[g] = u /\ Sound(u)
  BY DEF TypeOK, KnowledgeInv
<1> QED BY <1>1, <1>2 DEF Sound, Born

\* A step of a call writes sound states.
LEMMA KnowledgeFile ==
  ASSUME TypeOK, CallsFit, StartInv, KnowledgeInv, NEW c \in Callers, Step(c)
  PROVE  \A g \in Generations : Sound(file[g])'
PROOF
<1>0. /\ call \in [Callers -> Calls] /\ call[c].seen \in RuntimeState
      /\ file \in [Generations -> RuntimeState] /\ config \in Generations
      /\ Knows(c) /\ [Next]_vars
  BY Typed DEF TypeOK, CallsFit, KnowledgeInv, Next
<1>1. Frame(c)
  BY Frames
<1>2. CASE Attach(c)
  <2>1. Sound(Marked(call[c].seen, "running"))
    BY <1>0, <1>2, Guards DEF Sound, Marked, Knows
  <2> QED BY <1>0, <1>2, <2>1, MarkedTyped, SoundFile DEF Attach
<1>3. CASE WriteFailure(c)
  <2>1. Sound(StartFailed(call[c].seen))
    BY <1>0, StatesTyped DEF Sound, Born, StartFailed
  <2> QED BY <1>0, <1>3, <2>1, StatesTyped, SoundFile DEF WriteFailure
<1>4. CASE WriteStarting(c)
  <2>1. Sound(Marked(NoState, "starting")) /\ Marked(NoState, "starting") \in RuntimeState
    BY Typed, MarkedTyped DEF Sound, Born, Marked, NoState
  <2>2. Write(Marked(NoState, "starting")) \/ UNCHANGED file
    BY <1>4 DEF WriteStarting, Write
  <2> QED BY <1>0, <2>1, <2>2, SoundFile, SameFile
<1>5. CASE WriteRunning(c)
  <2>1. call[c].pid \in Pids /\ Born(call[c].pid)
    BY <1>5, Guards DEF CallsFit, Fits, At, StartInv, Spawned, Visible, Born
  <2>2. Sound(RunningState(call[c].pid)) /\ RunningState(call[c].pid) \in RuntimeState
    BY <2>1, PidNumbers DEF Sound, RunningState, RuntimeState
  <2> QED BY <1>0, <1>5, <2>2, SoundFile DEF WriteRunning
<1>6. CASE MarkStopping(c) \/ WriteStopping(c)
  <2>1. /\ Sound(Marked(call[c].seen, "stopping"))
        /\ Marked(call[c].seen, "stopping") \in RuntimeState
    BY <1>0, MarkedTyped DEF Sound, Marked, Knows
  <2>2. Update(call[c].seen, Marked(call[c].seen, "stopping")) \/ UNCHANGED file
    BY <1>6 DEF MarkStopping, WriteStopping
  <2> QED BY <1>0, <2>1, <2>2, SoundFile, SameFile
<1>7. CASE PollGone(c)
  <2> DEFINE s == [state |-> "stopped", pid |-> NoPid, failures |-> call[c].seen.failures]
  <2>1. Sound(s) /\ s \in RuntimeState
    BY <1>0, StatesTyped DEF Sound, Born
  <2>2. Update(call[c].seen, s)
    BY <1>7 DEF PollGone
  <2> QED BY <1>0, <2>1, <2>2, SoundFile
<1>8. CASE UNCHANGED file
  BY <1>0, <1>8, SameFile
<1> QED BY <1>1, <1>2, <1>3, <1>4, <1>5, <1>6, <1>7, <1>8 DEF Frame

\* A step of a call keeps what is known.
LEMMA KnowledgeCaller ==
  ASSUME TypeOK, CallsFit, StartInv, KnowledgeInv, NEW c \in Callers, Step(c)
  PROVE  KnowledgeInv'
PROOF
<1>0. /\ call \in [Callers -> Calls] /\ file[config] \in RuntimeState
      /\ cmd \in Pids \cup {NoPid} /\ [Next]_vars
      /\ waiter \in [Pids -> {"none", "waiting", "reaped", "cleared", "recording",
                              "recorded", "sent", "done"}]
  BY DEF TypeOK, CallsFit, Next
<1>1. /\ \A d \in Callers : d # c => call'[d] = call[d]
      /\ Frame(c)
  BY <1>0, Moves, Frames
<1>2. \A d \in Callers : Knows(d)'
  <2>1. \A d \in Callers : d # c => Knows(d)'
    BY <1>0, <1>1, Knowing DEF KnowledgeInv
  <2> QED BY <2>1, KnowledgeCall
<1>3. \A p \in Pids : waiter'[p] \notin {"none", "waiting"} => waiter'[p] = waiter[p]
  BY <1>0, <1>1 DEF Frame, Publish
<1>4. /\ \A p \in Pids : waiter'[p] = "recording" => read'[p].pid = p
      /\ \A p \in Pids : waiter'[p] \notin {"none", "waiting"} => proc'[p] = "gone"
  BY <1>0, <1>1, <1>3, Fates DEF Frame, KnowledgeInv
<1> QED BY <1>2, <1>4, KnowledgeFile DEF KnowledgeInv

\* Every step keeps it.
LEMMA KnowledgeStep ==
  ASSUME TypeOK, CallsFit, StartInv, KnowledgeInv, [Next]_vars
  PROVE  KnowledgeInv'
PROOF
<1>1. ASSUME UNCHANGED call
      PROVE  \A c \in Callers : Knows(c)'
  BY <1>1, Knowing DEF KnowledgeInv
<1>2. ASSUME NEW p \in Pids, WaiterStep(p)
      PROVE  KnowledgeInv'
  <2>0. /\ proc \in [Pids -> {"unborn", "running", "zombie", "gone"}]
        /\ waiter \in [Pids -> {"none", "waiting", "reaped", "cleared", "recording",
                                "recorded", "sent", "done"}]
        /\ read \in [Pids -> RuntimeState]
    BY DEF TypeOK
  <2>1. UNCHANGED call
    BY <1>2 DEF WaiterStep, Reap, Clear, ReadExit, WriteExit, Announce
  <2>2. \A g \in Generations : Sound(file[g])'
    <3>1. CASE WriteExit(p)
      <4>1. /\ Exited(read[p], p \in failed) \in RuntimeState
            /\ Exited(read[p], p \in failed).pid = NoPid
        BY <2>0, ExitTyped
      <4>2. Exited(read[p], p \in failed).state # "running"
        BY DEF Exited
      <4>3. Sound(Exited(read[p], p \in failed))
        BY <4>1, <4>2 DEF Sound, Born
      <4> QED BY <3>1, <4>1, <4>3, SoundFile DEF WriteExit
    <3>2. CASE UNCHANGED file
      BY <3>2, SameFile
    <3> QED BY <1>2, <3>1, <3>2 DEF WaiterStep, Reap, Clear, ReadExit, Announce
  <2>3. \A q \in Pids : waiter'[q] = "recording" => read'[q].pid = q
    BY <1>2, <2>0
       DEF WaiterStep, Reap, Clear, ReadExit, WriteExit, Announce, WaiterGoto, KnowledgeInv
  <2>4. \A q \in Pids : waiter'[q] \notin {"none", "waiting"} => proc'[q] = "gone"
    BY <1>2, <2>0
       DEF WaiterStep, Reap, Clear, ReadExit, WriteExit, Announce, WaiterGoto, os, KnowledgeInv
  <2> QED BY <1>1, <2>1, <2>2, <2>3, <2>4 DEF KnowledgeInv
<1>3. ASSUME NEW c \in Callers, NEW op \in Ops[c], Call(c, op)
      PROVE  KnowledgeInv'
  <2>1. /\ UNCHANGED <<proc, file, waiter, read>>
        /\ \A d \in Callers : d # c => call'[d] = call[d]
        /\ call'[c].seen = NoState
        /\ call'[c].at \in {"start", "stop", "force", "restart", "status"}
    BY <1>3 DEF Call, os, waiters, CallsFit
  <2>2. Knows(c)'
    BY <2>1 DEF Knows, Born, NoState, At
  <2>3. \A d \in Callers : Knows(d)'
    BY <2>1, <2>2, Knowing DEF KnowledgeInv
  <2> QED BY <2>1, <2>3, SameFile DEF KnowledgeInv
<1>4. CASE Shutdown
  <2>1. \A c \in Callers : Knows(c)'
    BY <1>4 DEF Shutdown, Idle, NoState, Knows, Born, At
  <2> QED BY <1>4, <2>1, SameFile DEF Shutdown, KnowledgeInv
<1>5. CASE \/ \E p \in Pids : Exit(p)
           \/ Boot
           \/ \E g \in Generations : LockExpires(g) \/ UpdateConfig(g)
           \/ UNCHANGED vars
  <2>1. UNCHANGED <<file, waiter, read, call>>
    BY <1>5 DEF Exit, Boot, LockExpires, UpdateConfig, vars, waiters
  <2> QED BY <1>1, <2>1, Fates, SameFile DEF KnowledgeInv
<1> QED BY <1>2, <1>3, <1>4, <1>5, KnowledgeCaller DEF Next

\* After an update the file names the process of the new state, before it named that or
\* the one of the state the update was computed from, unless a change was missed.
LEMMA Updated ==
  ASSUME NEW s, NEW t, TypeOK, ~missed', Update(t, s)
  PROVE  ~missed /\ file'[config].pid = s.pid /\ file[config].pid \in {t.pid, s.pid}
PROOF
<1>1. CASE /\ file' = [file EXCEPT ![config] = s]
           /\ missed' = (missed \/ file[config].pid \notin {t.pid, s.pid})
  <2>1. file'[config] = s
    BY <1>1 DEF TypeOK
  <2>2. ~missed /\ file[config].pid \in {t.pid, s.pid}
    BY <1>1, Zenon
  <2> QED BY <2>1, <2>2
<1>2. CASE UNCHANGED file /\ missed' = (missed \/ file[config].pid # s.pid)
  <2>1. ~missed /\ file[config].pid = s.pid
    BY <1>2, Zenon
  <2> QED BY <1>2, <2>1
<1> QED BY <1>1, <1>2, Zenon DEF Update

\* A write that succeeded replaced the state.
LEMMA Replaced ==
  ASSUME NEW s, TypeOK, ~missed', Write(s)
  PROVE  ~missed /\ file'[config] = s
PROOF
<1>1. CASE file' = [file EXCEPT ![config] = s] /\ missed' = missed
  BY <1>1 DEF TypeOK
<1>2. CASE missed' = TRUE
  BY <1>2
<1> QED BY <1>1, <1>2 DEF Write

\* Start goes past its read of the state file when that names no live process.
LEMMA ReadEntered ==
  ASSUME TypeOK, CallsFit, NEW c \in Callers, Step(c), PastRead(c)'
  PROVE  PastRead(c) \/ ~Visible(file[config].pid)
PROOF
<1>0. call \in [Callers -> Calls] /\ call[c] \in Calls
  BY DEF TypeOK, CallsFit
<1>1. Advanced(c)
  BY Entering
<1>2. ~Return(c) /\ (InStart(c) \/ Acquire(c))
  BY <1>1 DEF Advanced, PastRead
<1>3. CASE Acquire(c)
  BY <1>0, <1>2, <1>3 DEF Acquire, Goto, Turn, PastRead
<1>4. CASE InStart(c) /\ ~PastRead(c)
  <2>1. call[c].at \in {"looking", "reading", "publishing", "settling"}
    BY <1>4 DEF PastRead
  <2>2. Look(c) \/ Read(c) \/ Publish(c) \/ Settle(c)
    BY <2>1, Guards DEF Step, At
  <2>3. CASE Look(c)
    BY <1>0, <1>2, <2>3 DEF Look, Goto, Turn, PastRead
  <2>4. CASE Publish(c) \/ Settle(c)
    BY <1>0, <1>2, <2>4 DEF Publish, Settle, Goto, Turn, PastRead
  <2>5. CASE Read(c)
    <3>1. Saw(c, "attaching", file[config]) => ~PastRead(c)'
      BY <1>0 DEF Saw, Turn, PastRead, InStart, StartPlaces
    <3> QED BY <1>2, <2>5, <3>1 DEF Read
  <2> QED BY <2>2, <2>3, <2>4, <2>5
<1> QED BY <1>2, <1>3, <1>4

\* A caller writes no process, or leaves the one in the file.
FilePid(c) ==
  \/ file'[config].pid = file[config].pid
  \/ file'[config].pid = NoPid /\ ~Visible(file[config].pid)

\* Every write of a call but the one of a new child keeps the process, or removes one
\* that is not alive.
LEMMA FileWritten ==
  ASSUME TypeOK, CallsFit, StartInv, KnowledgeInv, FileFacts, ~missed',
         NEW c \in Callers, Step(c), ~WriteRunning(c)
  PROVE  FilePid(c)
PROOF
<1>0. Knows(c) /\ file \in [Generations -> RuntimeState] /\ config \in Generations
  BY DEF KnowledgeInv, TypeOK
<1>1. Frame(c)
  BY Frames
<1>2. CASE Attach(c)
  BY <1>2, Updated DEF Attach, Marked, FilePid
<1>3. CASE WriteFailure(c)
  <2>1. ~Visible(call[c].seen.pid)
    BY <1>3, Guards DEF FileFacts
  <2>2. StartFailed(call[c].seen).pid = NoPid
    BY DEF StartFailed
  <2>3. file'[config].pid = NoPid /\ file[config].pid \in {call[c].seen.pid, NoPid}
    BY <1>3, <2>2, Updated DEF WriteFailure
  <2> QED BY <2>1, <2>3 DEF FilePid
<1>4. CASE WriteStarting(c)
  <2>1. PastRead(c)
    BY <1>4, Guards DEF PastRead, InStart, StartPlaces, At
  <2>2. file' = [file EXCEPT ![config] = Marked(NoState, "starting")] \/ UNCHANGED file
    BY <1>4 DEF WriteStarting
  <2> QED BY <1>0, <2>1, <2>2 DEF FileFacts, FilePid, Marked, NoState
<1>5. CASE MarkStopping(c) \/ WriteStopping(c)
  <2>1. CASE Update(call[c].seen, Marked(call[c].seen, "stopping"))
    <3>1. Marked(call[c].seen, "stopping").pid = call[c].seen.pid
      BY DEF Marked
    <3> QED BY <2>1, <3>1, Updated DEF FilePid
  <2>2. CASE UNCHANGED file
    BY <2>2 DEF FilePid
  <2> QED BY <1>5, <2>1, <2>2 DEF MarkStopping, WriteStopping
<1>6. CASE PollGone(c)
  <2> DEFINE s == [state |-> "stopped", pid |-> NoPid, failures |-> call[c].seen.failures]
  <2>1. Update(call[c].seen, s) /\ ~Visible(call[c].pid)
    BY <1>6 DEF PollGone
  <2>2. s.pid = NoPid
    OBVIOUS
  <2> HIDE DEF s
  <2>3. file'[config].pid = NoPid /\ file[config].pid \in {call[c].seen.pid, NoPid}
    BY <2>1, <2>2, Updated
  <2>4. call[c].seen.pid = call[c].pid
    BY <1>0, <1>6, Guards DEF Knows, At
  <2> QED BY <2>1, <2>3, <2>4 DEF FilePid
<1>7. CASE UNCHANGED file
  BY <1>7 DEF FilePid
<1> QED BY <1>1, <1>2, <1>3, <1>4, <1>5, <1>6, <1>7 DEF Frame

\* What has been missed stays so.
LEMMA NotOvertaken ==
  ASSUME TypeOK, CallsFit, NEW c \in Callers, Step(c), ~missed'
  PROVE  ~missed
PROOF
<1>1. Frame(c)
  BY Frames
<1>2. CASE Attach(c)
  BY <1>2, Updated DEF Attach
<1>3. CASE WriteFailure(c)
  BY <1>3, Updated DEF WriteFailure
<1>4. CASE WriteStarting(c)
  BY <1>4 DEF WriteStarting
<1>5. CASE WriteRunning(c)
  BY <1>5, Replaced DEF WriteRunning
<1>6. CASE MarkStopping(c) \/ WriteStopping(c)
  <2>1. CASE Update(call[c].seen, Marked(call[c].seen, "stopping"))
    BY <2>1, Updated
  <2>2. CASE UNCHANGED missed
    BY <2>2
  <2> QED BY <1>6, <2>1, <2>2 DEF MarkStopping, WriteStopping
<1>7. CASE PollGone(c)
  BY <1>7, Updated DEF PollGone
<1>8. CASE ReadFailure(c)
  BY <1>8, Zenon DEF ReadFailure
<1>9. CASE UNCHANGED missed
  BY <1>9
<1> QED BY <1>1, <1>2, <1>3, <1>4, <1>5, <1>6, <1>7, <1>8, <1>9 DEF Frame

\* A step of a call keeps the file true.
LEMMA FileCaller ==
  ASSUME OneGeneration, TypeOK, CallsFit, StartInv, KnowledgeInv, FileFacts,
         NEW c \in Callers, Step(c), ~missed'
  PROVE  FileFacts'
PROOF
<1>0. /\ call \in [Callers -> Calls] /\ file[config] \in RuntimeState
      /\ cmd \in Pids \cup {NoPid}
      /\ file[config].pid \in Pids \cup {NoPid} /\ Born(file[config].pid)
      /\ Knows(c) /\ config \in Generations /\ file \in [Generations -> RuntimeState]
      /\ proc \in [Pids -> {"unborn", "running", "zombie", "gone"}]
  BY Typed DEF TypeOK, CallsFit, KnowledgeInv, Sound
<1>1. /\ \A d \in Callers : d # c => call'[d] = call[d]
      /\ Frame(c) /\ Entered(c) /\ config' = config
  BY <1>0, Moves, Frames DEF Frame
<1>2. \A p \in Pids \cup {NoPid} : Born(p) /\ ~Visible(p) => ~Visible(p)'
  BY Fates DEF Next
<1>3. \A p \in Pids : waiter'[p] \in {"recorded", "sent", "done"} => waiter'[p] = waiter[p]
  <2>1. waiter' = waiter \/ waiter' = [waiter EXCEPT ![call[c].pid] = "waiting"]
    BY <1>1 DEF Frame, Publish
  <2> QED BY <2>1 DEF TypeOK
<1>4. \A d \in Callers : d # c => /\ PastRead(d)' <=> PastRead(d)
                                  /\ At(d, "failed")' <=> At(d, "failed")
                                  /\ At(d, "started")' <=> At(d, "started")
  BY <1>1 DEF PastRead, InStart, At
<1>5. \A p \in Running' : \/ p \in Running
                          \/ At(c, "started")' /\ call'[c].pid = p
  <2>1. CASE Spawn(c)
    <3>1. PICK q \in Pids : /\ proc' = [proc EXCEPT ![q] = "running"]
                            /\ Turn(c, "started", call[c].seen, q, call[c].then)
      BY <2>1 DEF Spawn
    <3> QED BY <1>0, <3>1 DEF Turn, Running, At
  <2>2. CASE ~Spawn(c)
    BY <1>0, <1>1, <2>2 DEF Frame, os, Die, Running
  <2> QED BY <2>1, <2>2
<1>6. \A d \in Callers : At(d, "failed")' => ~Visible(call[d].seen.pid)'
  <2>1. ASSUME NEW d \in Callers, d # c, At(d, "failed")'
        PROVE  ~Visible(call[d].seen.pid)'
    <3>1. /\ call'[d] = call[d] /\ ~Visible(call[d].seen.pid)
          /\ Born(call[d].seen.pid) /\ call[d].seen.pid \in Pids \cup {NoPid}
      BY <1>1, <1>4, <2>1, Typed DEF FileFacts, KnowledgeInv, Knows, TypeOK
    <3>2. \A p \in Pids \cup {NoPid} : p = call[d].seen.pid => ~Visible(p)'
      BY <1>2, <3>1
    <3> QED BY <3>1, <3>2 DEF Visible
  <2>2. ASSUME At(c, "failed")'
        PROVE  ~Visible(call[c].seen.pid)'
    <3>1. ReadFailure(c)
      BY <1>0, <1>1, <2>2 DEF Entered, Return, Idle, At
    <3>2. At(c, "failing")
      BY <3>1, Guards
    <3>3. CASE Saw(c, "failed", NoState)
      <4>1. call'[c].seen.pid = NoPid
        BY <1>0, <3>3 DEF Saw, Turn, NoState
      <4> QED BY <4>1 DEF Visible
    <3>4. CASE /\ Saw(c, "failed", file[config])
               /\ missed' = (missed \/ (call[c].seen.pid # NoPid
                                /\ file[config].pid \notin {NoPid, call[c].seen.pid}))
      <4>1. call'[c].seen = file[config]
        BY <1>0, <3>4 DEF Saw, Turn
      <4>2. call[c].seen.pid = NoPid \/ file[config].pid \in {NoPid, call[c].seen.pid}
        BY <3>4, Zenon
      <4>3. ~Visible(file[config].pid)
        <5>1. CASE call[c].seen = NoState /\ InStart(c)
          BY <3>2, <5>1 DEF FileFacts, PastRead, At
        <5>2. CASE call[c].seen.pid # NoPid /\ ~Visible(call[c].seen.pid)
          BY <4>2, <5>2 DEF Visible
        <5> QED BY <1>0, <3>2, <5>1, <5>2 DEF Knows
      <4>4. \A p \in Pids \cup {NoPid} : p = file[config].pid => ~Visible(p)'
        BY <1>0, <1>2, <4>3
      <4> QED BY <1>0, <4>1, <4>4 DEF Visible
    <3> QED BY <3>1, <3>3, <3>4, Zenon DEF ReadFailure
  <2> QED BY <2>1, <2>2
<1>7. CASE WriteRunning(c)
  <2>1. file'[config].pid = call[c].pid
    BY <1>7, Replaced DEF WriteRunning, RunningState
  <2>2. At(c, "started") /\ PastRead(c) /\ InStart(c)
    BY <1>7, Guards DEF PastRead, InStart, StartPlaces, At
  <2>3. ~PastRead(c)' /\ ~At(c, "started")'
    BY <1>0, <1>7 DEF WriteRunning, Goto, Turn, PastRead, At
  <2>4. \A d \in Callers : PastRead(d) => d = c
    BY <2>2, Exclusive DEF PastRead
  <2>5. \A p \in Running : p = call[c].pid
    <3>1. \A p \in Running : Visible(p)
      BY PidNumbers DEF Running, Visible
    <3>2. \A d \in Callers : At(d, "started") => PastRead(d)
      BY DEF PastRead, InStart, StartPlaces, At
    <3> QED BY <2>2, <2>4, <3>1, <3>2 DEF FileFacts
  <2>6. waiter[call[c].pid] = "none"
    BY <2>2 DEF StartInv, Spawned, At
  <2>7. \A p \in Running' : file'[config].pid = p
    BY <1>5, <2>1, <2>3, <2>5
  <2>8. \A d \in Callers : ~PastRead(d)'
    BY <1>4, <2>3, <2>4
  <2>9. \A p \in Pids : waiter'[p] \in {"recorded", "sent", "done"} => file'[config].pid # p
    BY <1>3, <2>1, <2>6
  <2> QED BY <1>1, <1>6, <2>7, <2>8, <2>9 DEF FileFacts
<1>8. CASE ~WriteRunning(c)
  <2>1. FilePid(c)
    BY <1>8, FileWritten
  <2>2. ~At(c, "started")
    BY <1>8, Guards DEF Step, At
  <2>3. \A p \in Running' : \/ file'[config].pid = p
                            \/ \E d \in Callers : At(d, "started")' /\ call'[d].pid = p
    <3>1. \A p \in Running : \/ file'[config].pid = p
                             \/ \E d \in Callers : At(d, "started")' /\ call'[d].pid = p
      <4>1. \A p \in Running : Visible(p)
        BY PidNumbers DEF Running, Visible
      <4> QED BY <1>1, <1>4, <2>1, <2>2, <4>1 DEF FileFacts, FilePid
    <3> QED BY <1>5, <3>1
  <2>4. \A d \in Callers : PastRead(d)' => ~Visible(file[config].pid)'
    <3>1. \A d \in Callers : PastRead(d)' => ~Visible(file[config].pid)
      BY <1>4, ReadEntered DEF FileFacts
    <3>2. ~Visible(file[config].pid) =>
            \A p \in Pids \cup {NoPid} : p = file[config].pid => ~Visible(p)'
      BY <1>0, <1>2
    <3>3. ~Visible(NoPid)'
      BY DEF Visible
    <3> QED BY <1>0, <1>1, <2>1, <3>1, <3>2, <3>3 DEF FilePid, Visible
  <2>5. \A p \in Pids : waiter'[p] \in {"recorded", "sent", "done"} => file'[config].pid # p
    BY <1>3, <2>1, PidNumbers DEF FileFacts, FilePid
  <2> QED BY <1>1, <1>6, <2>3, <2>4, <2>5 DEF FileFacts
<1> QED BY <1>7, <1>8

\* A step that starts nothing and moves no call into Start keeps it true.
LEMMA FileKept ==
  ASSUME TypeOK, CallsFit, KnowledgeInv, FileFacts, [Next]_vars, config' = config,
         Running' \subseteq Running,
         \/ file'[config].pid = file[config].pid
         \/ file'[config].pid = NoPid /\ ~Visible(file[config].pid),
         \A c \in Callers : At(c, "started") => call'[c] = call[c],
         \A c \in Callers : PastRead(c)' => PastRead(c),
         \A c \in Callers : At(c, "failed")' => call'[c] = call[c],
         \A p \in Pids : waiter'[p] \in {"recorded", "sent", "done"} =>
                            \/ waiter[p] \in {"recorded", "sent", "done"}
                            \/ file'[config].pid # p
  PROVE  FileFacts'
PROOF
<1>0. /\ file[config].pid \in Pids \cup {NoPid} /\ Born(file[config].pid)
      /\ \A c \in Callers : call[c].seen.pid \in Pids \cup {NoPid} /\ Born(call[c].seen.pid)
  BY Typed DEF TypeOK, KnowledgeInv, Sound, Knows
<1>1. \A p \in Pids \cup {NoPid} : Born(p) /\ ~Visible(p) => ~Visible(p)'
  BY Fates
<1>2. \A p \in Running' : \/ file'[config].pid = p
                          \/ \E c \in Callers : At(c, "started")' /\ call'[c].pid = p
  <2>1. \A p \in Running : Visible(p)
    BY PidNumbers DEF Running, Visible
  <2>2. \A c \in Callers : At(c, "started") => At(c, "started")' /\ call'[c].pid = call[c].pid
    BY DEF At
  <2> QED BY <2>1, <2>2 DEF FileFacts
<1>3. \A c \in Callers : PastRead(c)' => ~Visible(file[config].pid)'
  <2>1. ~Visible(file[config].pid) =>
            \A p \in Pids \cup {NoPid} : p = file[config].pid => ~Visible(p)'
    BY <1>0, <1>1
  <2>2. ~Visible(NoPid)'
    BY DEF Visible
  <2> QED BY <1>0, <2>1, <2>2 DEF FileFacts, Visible
<1>4. \A c \in Callers : At(c, "failed")' => ~Visible(call[c].seen.pid)'
  <2>1. ASSUME NEW c \in Callers, At(c, "failed")'
        PROVE  ~Visible(call[c].seen.pid)'
    <3>1. call'[c] = call[c] /\ At(c, "failed")
      BY <2>1 DEF At
    <3>2. \A p \in Pids \cup {NoPid} : p = call[c].seen.pid => ~Visible(p)'
      BY <1>0, <1>1, <3>1 DEF FileFacts
    <3> QED BY <1>0, <3>1, <3>2 DEF Visible
  <2> QED BY <2>1
<1>5. \A p \in Pids : waiter'[p] \in {"recorded", "sent", "done"} => file'[config].pid # p
  BY PidNumbers DEF FileFacts
<1> QED BY <1>2, <1>3, <1>4, <1>5 DEF FileFacts

\* A step of a waiter goroutine keeps it true.
LEMMA FileWaiter ==
  ASSUME TypeOK, CallsFit, KnowledgeInv, FileFacts, NEW p \in Pids, WaiterStep(p), ~missed'
  PROVE  FileFacts'
PROOF
<1>0. /\ proc \in [Pids -> {"unborn", "running", "zombie", "gone"}]
      /\ waiter \in [Pids -> {"none", "waiting", "reaped", "cleared", "recording",
                              "recorded", "sent", "done"}]
      /\ file \in [Generations -> RuntimeState] /\ read \in [Pids -> RuntimeState]
      /\ [Next]_vars
  BY DEF TypeOK, Next
<1>1. UNCHANGED <<config, call>>
  BY DEF WaiterStep, Reap, Clear, ReadExit, WriteExit, Announce
<1>2. Running' = Running
  BY <1>0 DEF WaiterStep, Reap, Clear, ReadExit, WriteExit, Announce, os, Running
<1>3. \/ file'[config].pid = file[config].pid
      \/ file'[config].pid = NoPid /\ ~Visible(file[config].pid)
  <2>1. CASE WriteExit(p)
    <3>1. read[p].pid = p /\ proc[p] = "gone"
      BY <2>1 DEF WriteExit, KnowledgeInv
    <3>2. Exited(read[p], p \in failed).pid = NoPid
      BY DEF Exited
    <3>3. file'[config].pid = NoPid /\ file[config].pid \in {p, NoPid}
      BY <2>1, <3>1, <3>2, Updated DEF WriteExit
    <3> QED BY <1>0, <3>1, <3>3 DEF Visible
  <2>2. CASE UNCHANGED file
    BY <2>2
  <2> QED BY <2>1, <2>2 DEF WaiterStep, Reap, Clear, ReadExit, Announce
<1>4. \A q \in Pids : waiter'[q] \in {"recorded", "sent", "done"} =>
                       \/ waiter[q] \in {"recorded", "sent", "done"}
                       \/ file'[config].pid # q
  <2>1. CASE WriteExit(p)
    <3>1. Exited(read[p], p \in failed).pid = NoPid
      BY DEF Exited
    <3>2. file'[config].pid = NoPid
      BY <2>1, <3>1, Updated DEF WriteExit
    <3> QED BY <1>0, <2>1, <3>2, PidNumbers DEF WriteExit, WaiterGoto
  <2>2. CASE ReadExit(p)
    <3>1. waiter'[p] = "recorded" => file[config].pid # p
      BY <1>0, <2>2, Zenon DEF ReadExit, WaiterGoto
    <3>2. waiter' = [waiter EXCEPT ![p] = "recorded"] \/ waiter' = [waiter EXCEPT ![p] = "recording"]
      BY <2>2, Zenon DEF ReadExit, WaiterGoto
    <3> QED BY <1>0, <2>2, <3>1, <3>2 DEF ReadExit
  <2>3. CASE Reap(p) \/ Clear(p) \/ Announce(p)
    BY <1>0, <2>3 DEF Reap, Clear, Announce, WaiterGoto
  <2> QED BY <2>1, <2>2, <2>3 DEF WaiterStep
<1>5. \A c \in Callers : PastRead(c)' => PastRead(c)
  BY <1>1 DEF PastRead, InStart
<1>6. \A c \in Callers : call'[c] = call[c]
  BY <1>1
<1> QED BY <1>0, <1>1, <1>2, <1>3, <1>4, <1>5, <1>6, FileKept

\* Every step keeps it true.
LEMMA FileStep ==
  ASSUME OneGeneration, TypeOK, CallsFit, StartInv, KnowledgeInv, FileInv, [Next]_vars
  PROVE  FileInv'
PROOF
<1>0. /\ proc \in [Pids -> {"unborn", "running", "zombie", "gone"}]
      /\ call \in [Callers -> Calls] /\ config \in Generations
  BY DEF TypeOK, CallsFit
<1>1. ASSUME NEW c \in Callers, Step(c)
      PROVE  FileInv'
  BY <1>1, FileCaller, NotOvertaken DEF FileInv
<1>2. ASSUME NEW p \in Pids, WaiterStep(p), ~missed'
      PROVE  FileFacts'
  <2>1. ~missed
    <3>1. CASE WriteExit(p)
      BY <1>2, <3>1, Updated DEF WriteExit
    <3>2. CASE UNCHANGED missed
      BY <1>2, <3>2
    <3>3. CASE ReadExit(p)
      BY <1>2, <3>3, Zenon DEF ReadExit
    <3> QED BY <1>2, <3>1, <3>2, <3>3 DEF WaiterStep, Reap, Clear, Announce
  <2> QED BY <1>2, <2>1, FileWaiter DEF FileInv
<1>3. ASSUME NEW c \in Callers, NEW op \in Ops[c], Call(c, op)
      PROVE  FileInv'
  <2>1. /\ UNCHANGED <<proc, file, waiter, config, missed>>
        /\ \A d \in Callers : d # c => call'[d] = call[d]
        /\ call'[c].at \in {"start", "stop", "force", "restart", "status"}
        /\ At(c, "idle")
    BY <1>0, <1>3 DEF Call, os, waiters
  <2>2. /\ Running' = Running
        /\ \A d \in Callers : At(d, "started") => call'[d] = call[d]
        /\ \A d \in Callers : PastRead(d)' => PastRead(d)
        /\ \A d \in Callers : At(d, "failed")' => call'[d] = call[d]
    BY <2>1 DEF Running, At, PastRead, InStart, StartPlaces
  <2> QED BY <2>1, <2>2, FileKept DEF FileInv
<1>4. CASE \/ \E p \in Pids : Exit(p)
           \/ Boot
           \/ \E g \in Generations : LockExpires(g) \/ UpdateConfig(g)
           \/ UNCHANGED vars
  <2>1. UNCHANGED <<file, waiter, call, missed, config>>
    BY <1>0, <1>4 DEF Exit, Boot, LockExpires, UpdateConfig, vars, waiters, OneGeneration
  <2>2. Running' \subseteq Running
    BY <1>0, <1>4 DEF Exit, Die, Boot, LockExpires, UpdateConfig, vars, os, Running
  <2>3. \A c \in Callers : call'[c] = call[c] /\ (PastRead(c)' => PastRead(c))
    BY <2>1 DEF PastRead, InStart
  <2> QED BY <2>1, <2>2, <2>3, FileKept DEF FileInv
<1>5. ASSUME Shutdown, ~missed'
      PROVE  FileFacts'
  <2>1. /\ UNCHANGED <<file, config>> /\ Running' = Running
        /\ \A p \in Pids : waiter'[p] = "none"
        /\ \A c \in Callers : call'[c] = Idle
    BY <1>0, <1>5 DEF Shutdown, Running
  <2>0. ~missed /\ \A c \in Callers : ~At(c, "started")
    BY <1>5, Zenon DEF Shutdown
  <2>2. /\ \A c \in Callers : At(c, "started") => call'[c] = call[c]
        /\ \A c \in Callers : ~PastRead(c)'
        /\ \A c \in Callers : ~At(c, "failed")'
    BY <2>0, <2>1 DEF At, Idle, PastRead, InStart, StartPlaces
  <2> QED BY <2>0, <2>1, <2>2, FileKept DEF FileInv
<1> QED BY <1>1, <1>2, <1>3, <1>4, <1>5 DEF Next, FileInv

\* It is true at first.
LEMMA FileInit == Init => KnowledgeInv /\ FileInv
PROOF
<1> SUFFICES ASSUME Init PROVE KnowledgeInv /\ FileFacts
  BY DEF FileInv
<1>1. KnowledgeInv
  BY DEF Init, KnowledgeInv, Sound, Born, Knows, At, Idle, NoState
<1>2. FileFacts
  BY DEF Init, FileFacts, Running, PastRead, InStart, StartPlaces, At, Idle, NoState, Visible
<1> QED BY <1>1, <1>2

\* The inductive invariant of the state file.
THEOREM FileCorrect ==
  ASSUME OneGeneration
  PROVE  Spec => [](KnowledgeInv /\ FileInv)
PROOF
<1>1. /\ TypeOK /\ CallsFit /\ StartInv /\ KnowledgeInv /\ FileInv /\ [Next]_vars
      => (KnowledgeInv /\ FileInv)'
  BY KnowledgeStep, FileStep
<1> QED BY <1>1, TypeCorrect, StartCorrect, FileInit, PTL DEF Spec

\* A server that runs is never forgotten or doubled, and the state file names no dead one,
\* whoever calls what, over restarts and crashes of the program and reads and writes of
\* the file that fail, until the file has missed a change of the process it names.
THEOREM FileTrue ==
  ASSUME OneGeneration
  PROVE  Spec => []FileIsTrue
PROOF
<1>1. TypeOK /\ StartInv /\ FirstRunInv /\ KnowledgeInv /\ FileInv => FileIsTrue
  <2> SUFFICES ASSUME TypeOK, StartInv, FirstRunInv, KnowledgeInv, FileFacts
               PROVE  Reconcilable /\ OneServer /\ RunningIsAlive
    BY DEF FileInv, FileIsTrue
  <2>1. Reconcilable
    BY DEF Reconcilable, Quiet, FileFacts, At
  <2>2. OneServer
    <3>1. \A c, d \in Callers : At(c, "started") /\ At(d, "started") => c = d
      BY Exclusive DEF InStart, StartPlaces, At
    <3>2. \A c \in Callers : At(c, "started") => PastRead(c)
      BY DEF PastRead, InStart, StartPlaces, At
    <3>3. \A p \in Running : Visible(p)
      BY PidNumbers DEF Running, Visible
    <3> QED BY <3>1, <3>2, <3>3 DEF FileFacts, OneServer
  <2>3. RunningIsAlive
    <3> SUFFICES ASSUME up, runs = 1, Quiet, file[config].state = "running"
                 PROVE  Visible(file[config].pid)
      BY DEF RunningIsAlive
    <3>1. file[config].pid # NoPid /\ Born(file[config].pid)
      BY DEF KnowledgeInv, Sound, TypeOK
    <3>2. file[config].pid \in Pids /\ proc[file[config].pid] # "unborn"
      BY <3>1 DEF Born
    <3>3. proc[file[config].pid] # "gone"
      BY <3>2 DEF FirstRunInv, Quiet, FileFacts
    <3> QED BY <3>1, <3>2, <3>3 DEF TypeOK, Visible
  <2> QED BY <2>1, <2>2, <2>3
<1> QED BY <1>1, TypeCorrect, StartCorrect, FileCorrect, PTL

===============================================================================
