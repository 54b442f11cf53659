------------------------------ MODULE BatchBuffer ------------------------------
(***************************************************************************)
(* A batch buffer of the client (internal/client/client.go): lines are     *)
(* collected and sent together, at most one batch in each rate window.     *)
(* The client has two, one for the lines of the game's log files and one   *)
(* for the output of the game process, with the same code.  All operations *)
(* hold the buffer's mutex.                                                *)
(***************************************************************************)
EXTENDS Naturals, Sequences

CONSTANTS
  Lines,
  LogBatchSize,   \* a buffer that has grown to this size is sent
  maxLogRate,     \* the lines of a batch at most
  logRateWindow   \* the time between two batches, in ticks of the clock

\* Both limits are 100 in the code; the argument needs no more than this.
ASSUME SizeAssumption ==
  /\ LogBatchSize \in Nat /\ LogBatchSize >= 2
  /\ maxLogRate \in Nat /\ maxLogRate >= LogBatchSize
ASSUME WindowAssumption == logRateWindow \in Nat \ {0}

VARIABLES
  buffer,     \* logFileDataBuffer, processOutputBuffer
  sinceSend,  \* the time since the last batch, counted up to logRateWindow
  sent        \* history: the lines handed to the WebSocket client

bufferVars == <<buffer, sinceSend, sent>>

InWindow == sinceSend < logRateWindow

BufferInit == buffer = <<>> /\ sinceSend = logRateWindow /\ sent = <<>>

\* Mutant of FlushOf: the batch stays in the buffer.
FlushAndKeep(lines) ==
  /\ buffer' = lines
  /\ sent' = sent \o lines
  /\ sinceSend' = 0

\* sendBatchLogFileData; an error of the WebSocket client is logged, the batch is gone.
SendBatch(batch) == sent' = sent \o batch

\* flushLogFileDataBufferUnsafe, of a buffer that holds the lines.
FlushOf(lines) ==
  IF lines = <<>> \/ InWindow
  THEN buffer' = lines /\ UNCHANGED <<sinceSend, sent>>
  ELSE LET n == IF Len(lines) > maxLogRate THEN maxLogRate ELSE Len(lines)
       IN  /\ buffer' = SubSeq(lines, n + 1, Len(lines))
           /\ SendBatch(SubSeq(lines, 1, n))
           /\ sinceSend' = 0

\* Mutant of RateLimited: a line is dropped when the buffer is filling up.
LimitedWhenFull == InWindow /\ Len(buffer) >= LogBatchSize \div 2

\* "frequency limit": a line that comes within the window is dropped, unless
\* the buffer is half full.
RateLimited == InWindow /\ Len(buffer) < LogBatchSize \div 2

Add(line) ==
  \/ RateLimited /\ UNCHANGED bufferVars
  \/ /\ ~RateLimited
     /\ LET lines == Append(buffer, line)
        IN  IF Len(lines) >= LogBatchSize
            THEN FlushOf(lines)
            ELSE buffer' = lines /\ UNCHANGED <<sinceSend, sent>>

\* The batch ticker.
Flush == FlushOf(buffer)

BufferClock ==
  /\ InWindow
  /\ sinceSend' = sinceSend + 1
  /\ UNCHANGED <<buffer, sent>>

-------------------------------------------------------------------------------
(* Properties *)

BufferTypeOK ==
  /\ buffer \in Seq(Lines)
  /\ sinceSend \in 0..logRateWindow
  /\ sent \in Seq(Lines)

\* The buffer is bounded, and empty within the window after a batch: nothing waits
\* there that the next batch could not take.  So the exception for a buffer that is
\* half full never applies, and every line of the window is dropped
\* (addLogFileDataToBuffer, flushLogFileDataBufferUnsafe).
WindowEmpty ==
  /\ Len(buffer) < LogBatchSize
  /\ InWindow => buffer = <<>>

\* The accepted lines leave in order, each once, in bounded batches.
Stream == INSTANCE LineStream
  WITH accepted <- sent \o buffer, sent <- Len(sent), Batch <- maxLogRate
StreamInOrder == Stream!Spec

===============================================================================
