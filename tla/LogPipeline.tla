------------------------------ MODULE LogPipeline ------------------------------
(***************************************************************************)
(* The client's log pipeline (internal/client/client.go,                   *)
(* internal/logmonitor/monitor.go): the monitor of the game's log files    *)
(* hands its lines to one batch buffer, the output of the game process     *)
(* goes through another, and both are flushed when the client stops.       *)
(***************************************************************************)
EXTENDS LogMonitor, BatchBuffer

CONSTANT MaxOutput   \* bound on the lines the game process prints

ASSUME OutputAssumption == MaxOutput \in Nat
ASSUME LinesAssumption == Lines = Pieces

VARIABLES
  outBuffer, outSinceSend, outSent, \* the buffer of the process output
  printed,  \* the lines the game process has printed
  client    \* "running", or how far its Stop has come

Output == 1..MaxOutput
OutBuffer == INSTANCE BatchBuffer
  WITH Lines <- Output, buffer <- outBuffer, sinceSend <- outSinceSend, sent <- outSent

outVars == <<outBuffer, outSinceSend, outSent>>
vars == <<monitorVars, bufferVars, outVars, printed, client>>

Init ==
  /\ MonitorInit /\ BufferInit /\ OutBuffer!BufferInit
  /\ printed = 0 /\ client = "running"

\* The monitor is started by the client's Start and closed by its Stop.
StartMonitor == client = "running" /\ Watch /\ UNCHANGED <<bufferVars, outVars, printed, client>>

MonitorEvent == HandleFileEvent /\ UNCHANGED <<bufferVars, outVars, printed, client>>

MonitorStep ==
  /\ \/ ScanExistingFiles \/ CheckFileChanges
     \/ Stat \/ Read \/ ReadFails
     \/ \E f \in Files : CheckNext(f)
  /\ UNCHANGED <<bufferVars, outVars, printed, client>>

GameStep == Game /\ UNCHANGED <<bufferVars, outVars, printed, client>>

\* onLogUpdate: one line of the callback goes to the buffer.
OnLogUpdate ==
  /\ \E line \in Lines : TakeLine(line) /\ Add(line)
  /\ UNCHANGED <<outVars, printed, client>>

\* handleProcessOutput, called with each line of the game process.
HandleProcessOutput ==
  /\ \E line \in Output :
       /\ line = printed + 1 /\ printed' = line
       /\ OutBuffer!Add(line)
  /\ UNCHANGED <<monitorVars, bufferVars, client>>

FlushProcessOutput == OutBuffer!Flush

\* The batch processors: a tick left in the channel may still be taken after Stop.
LogFileDataBatchProcessor ==
  Flush /\ UNCHANGED <<monitorVars, outVars, printed, client>>
ProcessOutputBatchProcessor ==
  FlushProcessOutput /\ UNCHANGED <<monitorVars, bufferVars, printed, client>>

Clock ==
  \/ BufferClock /\ UNCHANGED <<monitorVars, outVars, printed, client>>
  \/ OutBuffer!BufferClock /\ UNCHANGED <<monitorVars, bufferVars, printed, client>>

\* Stop and ForceStop: flush one buffer, then the other, then stop the monitor.
StopFlushesLogs ==
  /\ client = "running"
  /\ client' = "logs flushed"
  /\ Flush
  /\ UNCHANGED <<monitorVars, outVars, printed>>
StopFlushesOutput ==
  /\ client = "logs flushed"
  /\ client' = "output flushed"
  /\ FlushProcessOutput
  /\ UNCHANGED <<monitorVars, bufferVars, printed>>
StopMonitor ==
  /\ client = "output flushed"
  /\ client' = "stopped"
  /\ IF phase = "ended" THEN UNCHANGED monitorVars ELSE End
  /\ UNCHANGED <<bufferVars, outVars, printed>>

Next ==
  \/ StartMonitor
  \/ MonitorEvent
  \/ MonitorStep
  \/ GameStep
  \/ OnLogUpdate
  \/ HandleProcessOutput
  \/ LogFileDataBatchProcessor
  \/ ProcessOutputBatchProcessor
  \/ Clock
  \/ StopFlushesLogs
  \/ StopFlushesOutput
  \/ StopMonitor

Spec == Init /\ [][Next]_vars

\* The monitor's goroutine goes on, and so does a stop that has begun; a select that
\* comes round again and again does not always pass over an event.
Fairness ==
  /\ SF_vars(MonitorEvent)
  /\ WF_vars(StartMonitor) /\ WF_vars(MonitorStep) /\ WF_vars(OnLogUpdate)
  /\ WF_vars(StopFlushesOutput) /\ WF_vars(StopMonitor)
FairSpec == Spec /\ Fairness

-------------------------------------------------------------------------------
(* Properties *)

TypeOK ==
  /\ MonitorTypeOK /\ BufferTypeOK /\ OutBuffer!BufferTypeOK
  /\ printed \in 0..MaxOutput
  /\ client \in {"running", "logs flushed", "output flushed", "stopped"}

\* Both buffers are bounded, and empty within the window after a batch
\* (addLogFileDataToBuffer, addProcessOutputToBuffer).
WindowIsEmpty == WindowEmpty /\ OutBuffer!WindowEmpty

\* What each buffer accepts leaves in order, each line once, in bounded batches.
InOrder == StreamInOrder /\ OutBuffer!StreamInOrder

===============================================================================
