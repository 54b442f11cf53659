--------------------------- MODULE LogPipelineProofs ---------------------------
(***************************************************************************)
(* The log pipeline for any number of files, lines and changes, and any    *)
(* limits the code could have.  Its buffers are bounded and empty in each  *)
(* window after a batch, and what they accept leaves in order.  The offset *)
(* of a file says what has been read of it, and only a creation makes the  *)
(* monitor hand a piece over again.                                        *)
(***************************************************************************)
EXTENDS LogPipeline, TLAPS

-------------------------------------------------------------------------------
(* A step of a batch buffer of lines L, from the buffer b, the time t since  *)
(* the last batch and the lines s sent, to b2, t2 and s2: the log lines and  *)
(* the process output are two of them.                                       *)

Orderly(L, b, t, s) ==
  /\ b \in Seq(L) /\ t \in 0..logRateWindow /\ s \in Seq(L)
  /\ Len(b) < LogBatchSize
  /\ t < logRateWindow => b = <<>>

\* FlushOf.
Flushed(lines, t, s, b2, t2, s2) ==
  IF lines = <<>> \/ t < logRateWindow
  THEN b2 = lines /\ t2 = t /\ s2 = s
  ELSE LET n == IF Len(lines) > maxLogRate THEN maxLogRate ELSE Len(lines)
       IN  /\ b2 = SubSeq(lines, n + 1, Len(lines))
           /\ s2 = s \o SubSeq(lines, 1, n)
           /\ t2 = 0

\* Add.
Added(line, b, t, s, b2, t2, s2) ==
  \/ b2 = b /\ t2 = t /\ s2 = s
  \/ /\ ~(t < logRateWindow /\ Len(b) < LogBatchSize \div 2)
     /\ IF Len(Append(b, line)) >= LogBatchSize
        THEN Flushed(Append(b, line), t, s, b2, t2, s2)
        ELSE b2 = Append(b, line) /\ t2 = t /\ s2 = s

\* A step of the stream of the accepted lines: one more, some sent, or both.
Streamed(L, b, s, b2, s2) ==
  /\ \/ s2 \o b2 = s \o b
     \/ \E line \in L : s2 \o b2 = Append(s \o b, line)
  /\ \/ Len(s2) = Len(s)
     \/ Len(s2) \in (Len(s) + 1)..(Len(s) + maxLogRate) /\ Len(s2) <= Len(s2 \o b2)

\* Flushing up to LogBatchSize lines that may wait in no window sends all of them.
LEMMA FlushSendsAll ==
  ASSUME NEW L, NEW lines \in Seq(L), NEW t \in 0..logRateWindow, NEW s \in Seq(L),
         NEW b2, NEW t2, NEW s2, Flushed(lines, t, s, b2, t2, s2),
         Len(lines) <= LogBatchSize, t < logRateWindow => lines = <<>>
  PROVE  /\ Orderly(L, b2, t2, s2) /\ b2 = <<>> /\ s2 = s \o lines
         /\ \/ Len(s2) = Len(s)
            \/ Len(s2) \in (Len(s) + 1)..(Len(s) + maxLogRate) /\ Len(s2) <= Len(s2 \o b2)
PROOF
<1>1. CASE lines = <<>> \/ t < logRateWindow
  <2>1. lines = <<>> /\ b2 = <<>> /\ s2 = s /\ t2 = t
    BY <1>1 DEF Flushed
  <2> QED BY <2>1, SizeAssumption DEF Orderly
<1>2. CASE ~(lines = <<>> \/ t < logRateWindow)
  <2>1. Len(lines) \in Nat \ {0} /\ Len(lines) <= maxLogRate
    BY <1>2, SizeAssumption
  <2>2. ~(Len(lines) > maxLogRate)
    BY <2>1, SizeAssumption
  <2>3. /\ b2 = SubSeq(lines, Len(lines) + 1, Len(lines))
        /\ s2 = s \o SubSeq(lines, 1, Len(lines))
        /\ t2 = 0
    BY <1>2, <2>2 DEF Flushed
  <2>4. SubSeq(lines, 1, Len(lines)) = lines /\ SubSeq(lines, Len(lines) + 1, Len(lines)) = <<>>
    OBVIOUS
  <2>5. b2 = <<>> /\ s2 = s \o lines
    BY <2>3, <2>4
  <2>6. s2 \in Seq(L) /\ Len(s2) = Len(s) + Len(lines) /\ Len(s2 \o b2) = Len(s2)
    BY <2>5
  <2> QED BY <2>1, <2>3, <2>5, <2>6, SizeAssumption, WindowAssumption DEF Orderly
<1> QED BY <1>1, <1>2

\* A line keeps the buffer in order, and the stream: it is dropped, accepted, or
\* accepted and sent with the others.
LEMMA AddIsOrderly ==
  ASSUME NEW L, NEW b, NEW t, NEW s, Orderly(L, b, t, s), NEW line \in L,
         NEW b2, NEW t2, NEW s2, Added(line, b, t, s, b2, t2, s2)
  PROVE  Orderly(L, b2, t2, s2) /\ Streamed(L, b, s, b2, s2)
PROOF
<1>1. CASE b2 = b /\ t2 = t /\ s2 = s
  BY <1>1 DEF Streamed
<1>2. CASE ~(b2 = b /\ t2 = t /\ s2 = s)
  <2>0. b \in Seq(L) /\ s \in Seq(L) /\ t \in 0..logRateWindow /\ Len(b) < LogBatchSize
    BY DEF Orderly
  <2>1. ~(t < logRateWindow)
    BY <1>2, SizeAssumption DEF Added, Orderly
  <2> DEFINE longer == Append(b, line)
  <2>2. /\ longer \in Seq(L) /\ Len(longer) = Len(b) + 1
        /\ s \o longer = Append(s \o b, line)
    BY <2>0
  <2>3. PICK lines \in Seq(L) : lines = longer
    BY <2>2
  <2>4. CASE Len(lines) >= LogBatchSize
    <3>1. Flushed(lines, t, s, b2, t2, s2)
      BY <1>2, <2>3, <2>4 DEF Added
    <3>2. Len(lines) <= LogBatchSize
      BY <2>0, <2>2, <2>3, SizeAssumption
    <3>3. /\ Orderly(L, b2, t2, s2) /\ b2 = <<>> /\ s2 = s \o lines
          /\ \/ Len(s2) = Len(s)
             \/ Len(s2) \in (Len(s) + 1)..(Len(s) + maxLogRate) /\ Len(s2) <= Len(s2 \o b2)
      BY <2>0, <2>1, <3>1, <3>2, FlushSendsAll
    <3>4. s2 \o b2 = Append(s \o b, line)
      BY <2>0, <2>2, <2>3, <3>3
    <3> QED BY <3>3, <3>4 DEF Streamed
  <2>5. CASE ~(Len(lines) >= LogBatchSize)
    <3>1. b2 = lines /\ t2 = t /\ s2 = s
      BY <1>2, <2>3, <2>5 DEF Added
    <3>2. Len(lines) < LogBatchSize
      BY <2>0, <2>2, <2>3, <2>5, SizeAssumption
    <3>3. Orderly(L, b2, t2, s2)
      BY <2>0, <2>1, <3>1, <3>2 DEF Orderly
    <3>4. s2 \o b2 = Append(s \o b, line)
      BY <2>2, <2>3, <3>1
    <3> QED BY <3>1, <3>3, <3>4 DEF Streamed
  <2> QED BY <2>4, <2>5
<1> QED BY <1>1, <1>2

\* A flush keeps both, too, and leaves nothing in the buffer: also at a stop.
LEMMA FlushIsOrderly ==
  ASSUME NEW L, NEW b, NEW t, NEW s, Orderly(L, b, t, s),
         NEW b2, NEW t2, NEW s2, Flushed(b, t, s, b2, t2, s2)
  PROVE  Orderly(L, b2, t2, s2) /\ Streamed(L, b, s, b2, s2) /\ b2 = <<>>
PROOF
<1>0. /\ b \in Seq(L) /\ s \in Seq(L) /\ t \in 0..logRateWindow
      /\ Len(b) <= LogBatchSize /\ (t < logRateWindow => b = <<>>)
  BY SizeAssumption DEF Orderly
<1>1. /\ Orderly(L, b2, t2, s2) /\ b2 = <<>> /\ s2 = s \o b
      /\ \/ Len(s2) = Len(s)
         \/ Len(s2) \in (Len(s) + 1)..(Len(s) + maxLogRate) /\ Len(s2) <= Len(s2 \o b2)
  BY <1>0, FlushSendsAll
<1>2. s2 \o b2 = s \o b
  BY <1>0, <1>1
<1> QED BY <1>1, <1>2 DEF Streamed

-------------------------------------------------------------------------------
(* The two buffers *)

LogsOrderly == Orderly(Lines, buffer, sinceSend, sent)
OutputOrderly == Orderly(Output, outBuffer, outSinceSend, outSent)
BothOrderly == LogsOrderly /\ OutputOrderly

LogsStreamed == Streamed(Lines, buffer, sent, buffer', sent')
OutputStreamed == Streamed(Output, outBuffer, outSent, outBuffer', outSent')

\* The operations of the log buffer are those of Flushed and Added.
LEMMA LogOperations ==
  /\ Flush => Flushed(buffer, sinceSend, sent, buffer', sinceSend', sent')
  /\ \A line \in Lines : Add(line) =>
       Added(line, buffer, sinceSend, sent, buffer', sinceSend', sent')
BY DEF Flush, Add, FlushOf, SendBatch, InWindow, RateLimited, bufferVars, Flushed, Added

\* So are those of the output buffer.
LEMMA OutputOperations ==
  /\ OutBuffer!Flush =>
       Flushed(outBuffer, outSinceSend, outSent, outBuffer', outSinceSend', outSent')
  /\ \A line \in Output : OutBuffer!Add(line) =>
       Added(line, outBuffer, outSinceSend, outSent, outBuffer', outSinceSend', outSent')
BY DEF OutBuffer!Flush, OutBuffer!Add, OutBuffer!FlushOf, OutBuffer!SendBatch,
       OutBuffer!InWindow, OutBuffer!RateLimited, OutBuffer!bufferVars, Flushed, Added

\* What a step of the pipeline does to both.
LEMMA BothStep ==
  ASSUME BothOrderly, [Next]_vars
  PROVE  BothOrderly' /\ LogsStreamed /\ OutputStreamed
PROOF
<1> USE DEF BothOrderly
<1>1. ASSUME UNCHANGED bufferVars
      PROVE  LogsOrderly' /\ LogsStreamed
  BY <1>1 DEF bufferVars, LogsOrderly, LogsStreamed, Streamed
<1>2. ASSUME UNCHANGED outVars
      PROVE  OutputOrderly' /\ OutputStreamed
  BY <1>2 DEF outVars, OutputOrderly, OutputStreamed, Streamed
<1>3. ASSUME Flush
      PROVE  LogsOrderly' /\ LogsStreamed
  BY <1>3, LogOperations, FlushIsOrderly DEF LogsOrderly, LogsStreamed
<1>4. ASSUME NEW line \in Lines, Add(line)
      PROVE  LogsOrderly' /\ LogsStreamed
  BY <1>4, LogOperations, AddIsOrderly DEF LogsOrderly, LogsStreamed
<1>5. ASSUME OutBuffer!Flush
      PROVE  OutputOrderly' /\ OutputStreamed
  BY <1>5, OutputOperations, FlushIsOrderly DEF OutputOrderly, OutputStreamed
<1>6. ASSUME NEW line \in Output, OutBuffer!Add(line)
      PROVE  OutputOrderly' /\ OutputStreamed
  BY <1>6, OutputOperations, AddIsOrderly DEF OutputOrderly, OutputStreamed
<1>7. ASSUME BufferClock
      PROVE  LogsOrderly' /\ LogsStreamed
  BY <1>7, WindowAssumption
     DEF BufferClock, InWindow, LogsOrderly, LogsStreamed, Orderly, Streamed
<1>8. ASSUME OutBuffer!BufferClock
      PROVE  OutputOrderly' /\ OutputStreamed
  BY <1>8, WindowAssumption
     DEF OutBuffer!BufferClock, OutBuffer!InWindow, OutputOrderly, OutputStreamed, Orderly, Streamed
<1>9. CASE StartMonitor \/ MonitorEvent \/ MonitorStep \/ GameStep \/ StopMonitor
  BY <1>1, <1>2, <1>9 DEF StartMonitor, MonitorEvent, MonitorStep, GameStep, StopMonitor
<1>10. CASE OnLogUpdate
  BY <1>2, <1>4, <1>10 DEF OnLogUpdate
<1>11. CASE HandleProcessOutput
  BY <1>1, <1>6, <1>11 DEF HandleProcessOutput
<1>12. CASE LogFileDataBatchProcessor \/ StopFlushesLogs
  BY <1>2, <1>3, <1>12 DEF LogFileDataBatchProcessor, StopFlushesLogs
<1>13. CASE ProcessOutputBatchProcessor \/ StopFlushesOutput
  BY <1>1, <1>5, <1>13 DEF ProcessOutputBatchProcessor, StopFlushesOutput, FlushProcessOutput
<1>14. CASE Clock
  BY <1>1, <1>2, <1>7, <1>8, <1>14 DEF Clock
<1>15. CASE UNCHANGED vars
  BY <1>1, <1>2, <1>15 DEF vars
<1> QED BY <1>9, <1>10, <1>11, <1>12, <1>13, <1>14, <1>15 DEF Next

\* Both buffers are in order at first.
LEMMA BothInit == Init => BothOrderly
BY SizeAssumption, WindowAssumption
   DEF Init, BufferInit, OutBuffer!BufferInit, BothOrderly, LogsOrderly, OutputOrderly, Orderly

\* The inductive invariant of the buffers.
LEMMA BothInvariant == Spec => []BothOrderly
<1>1. BothOrderly /\ [Next]_vars => BothOrderly'
  BY BothStep
<1> QED BY <1>1, BothInit, PTL DEF Spec

\* Both buffers are bounded and empty within the window after a batch, for any limits:
\* a line that comes then is dropped, the exception for a half-full buffer never applies.
THEOREM BuffersAreBounded == Spec => []WindowIsEmpty
<1>1. BothOrderly => WindowIsEmpty
  BY DEF BothOrderly, LogsOrderly, OutputOrderly, Orderly, WindowIsEmpty, WindowEmpty, InWindow,
         OutBuffer!WindowEmpty, OutBuffer!InWindow
<1> QED BY <1>1, BothInvariant, PTL

\* The lines each buffer has accepted leave in order, each once, in bounded batches,
\* whatever the monitor, the game process and a stop do.
THEOREM BuffersKeepOrder == Spec => InOrder
<1>1. Init => Stream!Init /\ OutBuffer!Stream!Init
  BY DEF Init, BufferInit, OutBuffer!BufferInit, Stream!Init, OutBuffer!Stream!Init
<1>2. BothOrderly /\ [Next]_vars => [Stream!Next]_<<sent \o buffer, Len(sent)>>
  BY BothStep DEF LogsStreamed, Streamed, Stream!Next, Stream!Accept, Stream!Send
<1>3. BothOrderly /\ [Next]_vars => [OutBuffer!Stream!Next]_<<outSent \o outBuffer, Len(outSent)>>
  BY BothStep
     DEF OutputStreamed, Streamed, OutBuffer!Stream!Next, OutBuffer!Stream!Accept, OutBuffer!Stream!Send
<1> QED
  BY <1>1, <1>2, <1>3, BothInvariant, PTL
     DEF Spec, InOrder, StreamInOrder, Stream!Spec, OutBuffer!StreamInOrder, OutBuffer!Stream!Spec

\* What a stop does to the buffers (Stop and ForceStop of the client).
StopSends ==
  /\ StopFlushesLogs => buffer' = <<>>
  /\ StopFlushesOutput => outBuffer' = <<>>

\* A stop sends everything the buffers hold: nothing that was accepted before it is
\* left behind (Stop and ForceStop of the client).
THEOREM StopSendsAll == Spec => [][StopSends]_vars
<1>1. BothOrderly => StopSends
  <2>1. ASSUME LogsOrderly, StopFlushesLogs
        PROVE  buffer' = <<>>
    <3>1. Flushed(buffer, sinceSend, sent, buffer', sinceSend', sent')
      BY <2>1, LogOperations DEF StopFlushesLogs
    <3> QED BY <2>1, <3>1, FlushIsOrderly DEF LogsOrderly
  <2>2. ASSUME OutputOrderly, StopFlushesOutput
        PROVE  outBuffer' = <<>>
    <3>1. Flushed(outBuffer, outSinceSend, outSent, outBuffer', outSinceSend', outSent')
      BY <2>2, OutputOperations DEF StopFlushesOutput, FlushProcessOutput
    <3> QED BY <2>2, <3>1, FlushIsOrderly DEF OutputOrderly
  <2> QED BY <2>1, <2>2 DEF BothOrderly, StopSends
<1> QED BY <1>1, BothInvariant, PTL DEF Spec

-------------------------------------------------------------------------------
(* The monitor of the log files *)

\* The pieces: those of a file are its own, each is written once, and what has been
\* delivered has been written.
Contents ==
  /\ \A f \in Files : Exists(f) =>
       Len(content[f]) \in 0..written /\ \A i \in 1..Len(content[f]) : content[f][i] \in 1..written
  /\ \A f, g \in Files : Exists(f) /\ Exists(g) =>
       \A i \in 1..Len(content[f]), j \in 1..Len(content[g]) :
         content[f][i] = content[g][j] => f = g /\ i = j
  /\ delivered \subseteq (1..written) \ Blank
  /\ phase \in {"new", "watching"} => delivered = {}

\* The check under way.
JobOK ==
  /\ sweep # {} => phase = "running"
  /\ job # NoJob => job.file \in Files /\ phase = "running" /\ handed = {}
  /\ job.size # Unknown => job.file \in Files /\ offset[job.file] < job.size
  /\ job.why = "create" => job.file \in Files /\ offset[job.file] = 0

\* A queued removal is the last that is queued of its file, which is gone, or the next
\* event of the file is its creation.
FirstAfter(i, f) ==
  \E j \in 1..Len(events) :
    /\ i < j /\ events[j].kind = "create" /\ events[j].file = f
    /\ \A k \in 1..Len(events) : i < k /\ k < j => events[k].file # f
Queue ==
  /\ phase \in {"new", "ended"} => events = <<>>
  /\ \A f \in Files : \A i \in 1..Len(events) :
       events[i].kind = "remove" /\ events[i].file = f =>
         \/ FirstAfter(i, f)
         \/ ~Exists(f) /\ \A k \in 1..Len(events) : i < k => events[k].file # f

\* The pieces delivered from a file that could be looked at ever since.
Counted == delivered \ forgotten
Fresh(f) ==
  \/ \A i \in 1..Len(content[f]) : content[f][i] \in Counted => i <= Known(f)
  \/ /\ job.file = f /\ job.why = "create"
     /\ job.size # Unknown =>
          \A i \in 1..Len(content[f]) : content[f][i] \in Counted => i <= job.size
  \/ offset[f] = Unknown /\ f \notin sweep /\ job.file # f /\ FirstAfter(0, f)

Calm(f) ==
  /\ phase = "running" /\ Exists(f) /\ f \notin stale
  /\ \A i \in 1..Len(events) : events[i].file = f => events[i].kind = "write"
Covered(f) ==
  /\ offset[f] # Unknown /\ ~(job.file = f /\ job.why = "create") =>
       /\ offset[f] <= Len(content[f])
       /\ \A i \in 1..Len(content[f]) :
            i <= offset[f] /\ content[f][i] \notin Blank => content[f][i] \in delivered \cup skipped
  /\ job.file = f /\ job.size # Unknown => job.size <= Len(content[f])

FreshInv == phase = "running" => \A f \in Files : Exists(f) => Fresh(f)
CoveredInv == \A f \in Files : Calm(f) => Covered(f)

MonitorNext ==
  \/ Watch \/ HandleFileEvent \/ ScanExistingFiles \/ CheckFileChanges \/ Stat \/ Read
  \/ ReadFails
  \/ \E f \in Files : CheckNext(f)
  \/ Game
  \/ \E line \in Lines : TakeLine(line)
  \/ End

\* Every step of the pipeline is one of the monitor, or none of its business.
LEMMA MonitorSteps == [Next]_vars => MonitorNext \/ UNCHANGED monitorVars
BY DEF Next, vars, StartMonitor, MonitorEvent, MonitorStep, GameStep, OnLogUpdate,
       HandleProcessOutput, LogFileDataBatchProcessor, ProcessOutputBatchProcessor, Clock,
       StopFlushesLogs, StopFlushesOutput, StopMonitor, MonitorNext

\* A file that exists is not taken for one that does not.
LEMMA Present ==
  /\ <<>> # Absent
  /\ \A n \in Nat : Absent \notin Seq(1..n)
PROOF
<1>1. <<>> # Absent
  BY DEF Absent
<1>2. ASSUME NEW n \in Nat, Absent \in Seq(1..n)
      PROVE  FALSE
  <2>1. Absent[1] \in 1..n
    BY <1>2 DEF Absent
  <2> QED BY <2>1 DEF Absent
<1> QED BY <1>1, <1>2

Event == [kind : EventKinds, file : Files]

\* What a notification does to the queue.
LEMMA Notified ==
  ASSUME events \in Seq(Event), NEW kind \in EventKinds, NEW f \in Files, Notify(kind, f)
  PROVE  /\ events' \in Seq(Event)
         /\ Len(events') \in {Len(events), Len(events) + 1}
         /\ \A i \in 1..Len(events) : events'[i] = events[i]
         /\ Len(events') # Len(events) =>
              events'[Len(events')].kind = kind /\ events'[Len(events')].file = f
         /\ phase \in {"new", "ended"} => events' = events
         /\ phase \notin {"new", "ended"} =>
              /\ Len(events') > 0
              /\ events'[Len(events')].kind = kind /\ events'[Len(events')].file = f
PROOF
<1> DEFINE e == [kind |-> kind, file |-> f]
<1>1. e \in Event /\ e.kind = kind /\ e.file = f
  BY DEF Event
<1>2. events' = events \/ events' = Append(events, e)
  BY DEF Notify
<1>3. CASE events' = Append(events, e)
  BY <1>1, <1>3 DEF Notify
<1>4. CASE events' = events
  <2>1. phase \notin {"new", "ended"} => events # <<>> /\ Last(events) = e
    <3>1. events' = events /\ phase \notin {"new", "ended"} /\ events' = Append(events, e) => FALSE
      BY <1>1
    <3> QED BY <1>4, <3>1 DEF Notify
  <2>2. events # <<>> => Last(events) = events[Len(events)] /\ Len(events) > 0
    BY DEF Last
  <2> QED BY <1>1, <1>4, <2>1, <2>2
<1> QED BY <1>2, <1>3, <1>4

\* The new range of a check holds pieces that are not blank.
LEMMA NewPiecesType ==
  ASSUME NEW f \in Files
  PROVE  NewPieces(f) \subseteq Pieces \ Blank
BY DEF NewPieces

\* What the game does to a file f: what the file holds, and what is queued about it.
Played(f, pieces) ==
  /\ UNCHANGED <<phase, offset, job, sweep, handed, delivered, skipped, errors>>
  /\ content' = [content EXCEPT ![f] = pieces]
  /\ written' \in 0..MaxPieces /\ changes' \in 0..MaxChanges
  /\ \A g \in Files : g # f => (g \in stale' <=> g \in stale)
  /\ stale' \subseteq Files
  /\ forgotten' = forgotten \/ forgotten' = forgotten \ Held(f)
Began(f) == Played(f, <<>>) /\ ~Exists(f) /\ written' = written /\ Notify("create", f)
Extended(f) ==
  /\ Played(f, Append(content[f], written'))
  /\ Exists(f) /\ written' = written + 1 /\ stale' = stale /\ forgotten' = forgotten
  /\ Notify("write", f)
Gone(f) ==
  /\ Played(f, Absent)
  /\ Exists(f) /\ written' = written
  /\ Notify("remove", f) \/ events' = events
Shrunk(f) ==
  /\ Played(f, <<>>)
  /\ Exists(f) /\ written' = written /\ f \in stale' /\ Notify("write", f)

LEMMA GameSteps ==
  ASSUME MonitorTypeOK, Game
  PROVE  \E f \in Files : Began(f) \/ Extended(f) \/ Gone(f) \/ Shrunk(f)
PROOF
<1>0. /\ content \in [Files -> Seq(Pieces) \cup {Absent}] /\ written \in 0..MaxPieces
      /\ changes \in 0..MaxChanges /\ MaxChanges \in Nat /\ MaxPieces \in Nat
      /\ stale \subseteq Files
  BY PiecesAssumption DEF MonitorTypeOK
<1>1. PICK f \in Files : \/ CreateFile(f) \/ AppendPiece(f) \/ RemoveFile(f)
                         \/ RenameFile(f) \/ TruncateFile(f)
  BY DEF Game
<1>2. CASE CreateFile(f)
  <2>1. Began(f)
    BY <1>0, <1>2 DEF CreateFile, Change, history, Began, Played
  <2> QED BY <2>1
<1>3. CASE AppendPiece(f)
  <2>1. Extended(f)
    BY <1>0, <1>3 DEF AppendPiece, history, trouble, Extended, Played
  <2> QED BY <2>1
<1>4. CASE RemoveFile(f) \/ RenameFile(f)
  <2>1. Gone(f)
    BY <1>0, <1>4 DEF RemoveFile, RenameFile, Change, history, Gone, Played
  <2> QED BY <2>1
<1>6. CASE TruncateFile(f)
  <2>1. Shrunk(f)
    BY <1>0, <1>6, Present DEF TruncateFile, Change, history, Shrunk, Played
  <2> QED BY <2>1
<1> QED BY <1>1, <1>2, <1>3, <1>4, <1>6

\* The game keeps the types, and the pieces apart.
LEMMA GameTypes ==
  ASSUME MonitorTypeOK, Contents, Game
  PROVE  MonitorTypeOK' /\ Contents'
PROOF
<1>0. /\ content \in [Files -> Seq(Pieces) \cup {Absent}] /\ written \in 0..MaxPieces
      /\ MaxPieces \in Nat /\ events \in Seq(Event)
  BY PiecesAssumption DEF MonitorTypeOK, Event
<1>1. PICK f \in Files : Began(f) \/ Extended(f) \/ Gone(f) \/ Shrunk(f)
  BY GameSteps
<1>2. events' \in Seq(Event)
  BY <1>0, <1>1, Notified DEF EventKinds, Began, Extended, Gone, Shrunk
<1>3. \E pieces \in Seq(Pieces) \cup {Absent} : Played(f, pieces)
  <2>1. CASE Extended(f)
    <3>1. content[f] \in Seq(Pieces) /\ written' \in Pieces
      BY <1>0, <2>1 DEF Extended, Played, Exists, Pieces
    <3>2. Append(content[f], written') \in Seq(Pieces)
      BY <3>1
    <3> QED BY <2>1, <3>2 DEF Extended
  <2>2. CASE Began(f) \/ Shrunk(f)
    <3>1. <<>> \in Seq(Pieces) /\ Played(f, <<>>)
      BY <2>2 DEF Began, Shrunk
    <3> QED BY <3>1
  <2>3. CASE Gone(f)
    BY <2>3 DEF Gone
  <2> QED BY <1>1, <2>1, <2>2, <2>3
<1>4. MonitorTypeOK'
  <2>1. PICK pieces \in Seq(Pieces) \cup {Absent} : Played(f, pieces)
    BY <1>3
  <2> QED BY <1>0, <1>2, <2>1 DEF MonitorTypeOK, Event, Played
<1>5. \A g \in Files : Exists(g)' =>
        /\ Len(content'[g]) \in 0..written'
        /\ \A i \in 1..Len(content'[g]) :
             \/ Exists(g) /\ i <= Len(content[g]) /\ content'[g][i] = content[g][i]
             \/ g = f /\ i = Len(content[g]) + 1 /\ content'[g][i] = written + 1 /\ Exists(g)
  <2> TAKE g \in Files
  <2>1. CASE g # f
    <3>1. content'[g] = content[g]
      BY <1>0, <1>3, <2>1 DEF Played
    <3>2. written' \in Nat /\ written' >= written
      BY <1>0, <1>1, <1>3 DEF Played, Began, Extended, Gone, Shrunk
    <3> QED BY <1>0, <3>1, <3>2 DEF Exists, Contents
  <2>2. CASE g = f
    <3>1. CASE Began(f) \/ Shrunk(f)
      <4>1. content'[f] = <<>> /\ written' = written
        BY <1>0, <3>1 DEF Began, Shrunk, Played
      <4> QED BY <1>0, <2>2, <4>1
    <3>2. CASE Gone(f)
      BY <1>0, <2>2, <3>2 DEF Exists, Gone, Played
    <3>3. CASE Extended(f)
      <4>1. content[f] \in Seq(Pieces) /\ Len(content[f]) \in 0..written
        BY <1>0, <3>3 DEF Contents, Extended, Exists
      <4>2. content'[f] = Append(content[f], written') /\ written' = written + 1 /\ Exists(f)
        BY <1>0, <3>3 DEF Extended, Played
      <4>3. Len(content'[f]) = Len(content[f]) + 1
        BY <4>1, <4>2
      <4>4. \A i \in 1..Len(content'[f]) :
              \/ i <= Len(content[f]) /\ content'[f][i] = content[f][i]
              \/ i = Len(content[f]) + 1 /\ content'[f][i] = written + 1
        BY <4>1, <4>2, <4>3
      <4> QED BY <1>0, <2>2, <4>1, <4>2, <4>3, <4>4
    <3> QED BY <1>1, <3>1, <3>2, <3>3
  <2> QED BY <2>1, <2>2
<1>6. \A g, h \in Files : Exists(g)' /\ Exists(h)' =>
        \A i \in 1..Len(content'[g]), j \in 1..Len(content'[h]) :
          content'[g][i] = content'[h][j] => g = h /\ i = j
  <2> SUFFICES ASSUME NEW g \in Files, NEW h \in Files, Exists(g)', Exists(h)',
                      NEW i \in 1..Len(content'[g]), NEW j \in 1..Len(content'[h]),
                      content'[g][i] = content'[h][j]
               PROVE  g = h /\ i = j
    OBVIOUS
  <2>1. \/ Exists(g) /\ i <= Len(content[g]) /\ content'[g][i] = content[g][i]
        \/ g = f /\ i = Len(content[g]) + 1 /\ content'[g][i] = written + 1 /\ Exists(g)
    BY <1>5
  <2>2. \/ Exists(h) /\ j <= Len(content[h]) /\ content'[h][j] = content[h][j]
        \/ h = f /\ j = Len(content[h]) + 1 /\ content'[h][j] = written + 1 /\ Exists(h)
    BY <1>5
  <2>3. ASSUME NEW k \in Files, Exists(k)
        PROVE  Len(content[k]) \in Nat /\ \A n \in 1..Len(content[k]) : content[k][n] \in 1..written
    BY <2>3 DEF Contents
  <2>4. ASSUME NEW k \in Files, Exists(k)', NEW n \in 1..Len(content'[k])
        PROVE  n \in Nat /\ n > 0
    <3>1. Len(content'[k]) \in Nat
      BY <1>5, <2>4
    <3> QED BY <2>4, <3>1
  <2>5. i \in Nat /\ i > 0 /\ j \in Nat /\ j > 0 /\ written \in Nat
    BY <1>0, <2>4
  <2>6. CASE /\ Exists(g) /\ i <= Len(content[g]) /\ content'[g][i] = content[g][i]
             /\ Exists(h) /\ j <= Len(content[h]) /\ content'[h][j] = content[h][j]
    <3>1. i \in 1..Len(content[g]) /\ j \in 1..Len(content[h])
      BY <2>3, <2>5, <2>6
    <3>2. content[g][i] = content[h][j]
      BY <2>6
    <3> QED BY <2>6, <3>1, <3>2 DEF Contents
  <2>7. CASE /\ Exists(g) /\ i <= Len(content[g]) /\ content'[g][i] = content[g][i]
             /\ content'[h][j] = written + 1
    <3>1. i \in 1..Len(content[g])
      BY <2>3, <2>5, <2>7
    <3>2. content[g][i] \in 1..written
      BY <2>3, <2>7, <3>1
    <3>3. content[g][i] = written + 1
      BY <2>7
    <3> QED BY <2>5, <3>2, <3>3
  <2>8. CASE /\ Exists(h) /\ j <= Len(content[h]) /\ content'[h][j] = content[h][j]
             /\ content'[g][i] = written + 1
    <3>1. j \in 1..Len(content[h])
      BY <2>3, <2>5, <2>8
    <3>2. content[h][j] \in 1..written
      BY <2>3, <2>8, <3>1
    <3>3. content[h][j] = written + 1
      BY <2>8
    <3> QED BY <2>5, <3>2, <3>3
  <2> QED BY <2>1, <2>2, <2>6, <2>7, <2>8
<1>7. \A n \in 1..written : n \in 1..written'
  BY <1>0, <1>1, <1>3 DEF Played, Began, Extended, Gone, Shrunk
<1>8. \A g \in Files : Exists(g)' => \A i \in 1..Len(content'[g]) : content'[g][i] \in 1..written'
  <2> SUFFICES ASSUME NEW g \in Files, Exists(g)', NEW i \in 1..Len(content'[g])
               PROVE  content'[g][i] \in 1..written'
    OBVIOUS
  <2>1. CASE Exists(g) /\ i <= Len(content[g]) /\ content'[g][i] = content[g][i]
    <3>1. Len(content'[g]) \in Nat /\ Len(content[g]) \in Nat
      BY <1>0, <1>5, <2>1 DEF Contents
    <3>2. i \in 1..Len(content[g])
      BY <2>1, <3>1
    <3>3. content[g][i] \in 1..written
      BY <2>1, <3>2 DEF Contents
    <3> QED BY <1>7, <2>1, <3>3
  <2>2. CASE g = f /\ i = Len(content[g]) + 1 /\ content'[g][i] = written + 1 /\ Exists(g)
    <3>1. Began(f) \/ Shrunk(f) \/ Gone(f) => FALSE
      BY <1>0, <2>2 DEF Began, Shrunk, Gone, Played, Exists
    <3> QED BY <1>0, <1>1, <2>2, <3>1 DEF Extended
  <2> QED BY <1>5, <2>1, <2>2
<1>9. delivered' \subseteq (1..written') \ Blank /\ (phase' \in {"new", "watching"} => delivered' = {})
  BY <1>3, <1>7 DEF Contents, Played
<1> QED BY <1>4, <1>5, <1>6, <1>8, <1>9 DEF Contents

\* The monitor leaves the files alone, and counts what it fails to look at.
LEMMA MonitorLeaves ==
  ASSUME MonitorTypeOK, MonitorNext, ~Game
  PROVE  /\ content' = content /\ written' = written /\ changes' = changes
         /\ stale \subseteq stale' /\ stale' \subseteq Files
         /\ errors' \in 0..MaxErrors /\ forgotten' \subseteq Pieces
PROOF
<1>0. /\ errors \in 0..MaxErrors /\ stale \subseteq Files /\ forgotten \subseteq Pieces
      /\ events \in Seq(Event) /\ MaxErrors \in Nat
  BY PiecesAssumption DEF MonitorTypeOK, Event
<1>1. content' = content /\ written' = written /\ changes' = changes
  BY DEF MonitorNext, Watch, HandleFileEvent, ScanExistingFiles, CheckFileChanges, Stat, Read,
         ReadFails, CheckNext, TakeLine, End, disk
<1>2. ASSUME NEW f, LookFails(f)
      PROVE  errors' \in 0..MaxErrors /\ forgotten' \subseteq Pieces
  <2>1. errors' \in 0..MaxErrors
    BY <1>0, <1>2 DEF LookFails
  <2>2. Held(f) \subseteq Pieces
    BY DEF Held
  <2> QED BY <1>0, <1>2, <2>1, <2>2 DEF LookFails
<1>3. CASE HandleFileEvent
  <2>1. PICK e \in Event : e = Head(events)
    BY <1>0, <1>3 DEF HandleFileEvent
  <2>2. e.file \in Files /\ e.kind \in EventKinds
    BY DEF Event
  <2>3. CASE UNCHANGED trouble
    BY <1>0, <1>1, <2>3 DEF trouble
  <2>4. CASE Created(e.file)
    BY <1>0, <1>1, <1>2, <2>2, <2>3, <2>4 DEF Created
  <2>5. Created(e.file) \/ UNCHANGED trouble
    BY <1>3, <2>1, <2>2 DEF HandleFileEvent, Removed, EventKinds
  <2> QED BY <2>3, <2>4, <2>5
<1>4. CASE ScanExistingFiles
  <2>1. errors' \in 0..MaxErrors
    BY <1>0, <1>4 DEF ScanExistingFiles
  <2> QED BY <1>0, <1>1, <1>4, <2>1 DEF ScanExistingFiles
<1>5. CASE Stat
  BY <1>0, <1>1, <1>2, <1>5 DEF Stat
<1>6. CASE Read
  BY <1>0, <1>1, <1>6 DEF Read
<1>7. CASE ReadFails
  <2>1. errors' \in 0..MaxErrors
    BY <1>0, <1>7 DEF ReadFails
  <2>2. Held(job.file) \subseteq Pieces
    BY DEF Held
  <2> QED BY <1>0, <1>1, <1>7, <2>1, <2>2 DEF ReadFails
<1>8. ASSUME UNCHANGED trouble
      PROVE  /\ stale' = stale /\ errors' = errors /\ forgotten' = forgotten
  BY <1>8 DEF trouble
<1> QED BY <1>0, <1>1, <1>3, <1>4, <1>5, <1>6, <1>7, <1>8
     DEF MonitorNext, Watch, CheckFileChanges, CheckNext, TakeLine, End

\* It keeps the types and the pieces apart, too.
LEMMA MonitorTypes ==
  ASSUME MonitorTypeOK, Contents, JobOK, MonitorNext, ~Game
  PROVE  MonitorTypeOK' /\ Contents'
PROOF
<1>0. /\ content \in [Files -> Seq(Pieces) \cup {Absent}] /\ written \in 0..MaxPieces
      /\ MaxPieces \in Nat /\ events \in Seq(Event) /\ offset \in [Files -> 0..Unknown]
      /\ job \in [file : Files \cup {NoFile}, why : {"none", "create", "write", "tick"},
                  size : 0..Unknown]
  BY PiecesAssumption DEF MonitorTypeOK, Event
<1>1. \A f \in Files : Exists(f) => Len(content[f]) \in 0..MaxPieces /\ Len(content[f]) \in 0..Unknown
                                    /\ \A i \in 1..Len(content[f]) : content[f][i] \in 1..written
  BY <1>0 DEF Contents, Unknown
<1>2. /\ content' = content /\ written' = written /\ changes' = changes /\ stale' \subseteq Files
      /\ errors' \in 0..MaxErrors /\ forgotten' \subseteq Pieces
  BY MonitorLeaves
<1>3. phase' \in {"new", "watching", "running", "ended"} /\ sweep' \subseteq Files
  BY DEF MonitorNext, Watch, HandleFileEvent, ScanExistingFiles, CheckFileChanges, Stat, Read,
         ReadFails, CheckNext, TakeLine, End, MonitorTypeOK
<1>4. events' \in Seq(Event)
  <2>1. events' = events \/ events' = <<>> \/ (events # <<>> /\ events' = Tail(events))
    BY DEF MonitorNext, Watch, HandleFileEvent, ScanExistingFiles, CheckFileChanges, Stat, Read,
           ReadFails, CheckNext, TakeLine, End
  <2>2. CASE events # <<>> /\ events' = Tail(events)
    BY <1>0, <2>2
  <2>3. CASE events' = <<>>
    BY <2>3
  <2> QED BY <1>0, <2>1, <2>2, <2>3
<1>5. handed' \subseteq Pieces /\ delivered' \subseteq Pieces /\ delivered' \cap Blank = {}
      /\ delivered' \subseteq 1..written /\ skipped' \subseteq Pieces
  <2>1. CASE Read
    <3>1. job.file \in Files
      BY <2>1 DEF Read, JobOK
    <3>2. NewPieces(job.file) \subseteq (1..written) \ Blank
      BY <1>1, <3>1 DEF NewPieces
    <3> QED BY <2>1, <3>1, <3>2, NewPiecesType DEF Read, MonitorTypeOK, Contents
  <2>2. CASE ScanExistingFiles
    <3>1. \A f \in Files : Held(f) \subseteq Pieces
      BY DEF Held
    <3>2. skipped' \subseteq Pieces
      BY <2>2, <3>1 DEF ScanExistingFiles
    <3>3. delivered' = delivered /\ handed' = handed
      BY <2>2 DEF ScanExistingFiles
    <3> QED BY <3>2, <3>3 DEF MonitorTypeOK, Contents
  <2>3. CASE UNCHANGED history /\ handed' \subseteq handed
    BY <2>3 DEF history, MonitorTypeOK, Contents
  <2> QED BY <2>1, <2>2, <2>3 DEF MonitorNext, Watch, HandleFileEvent, CheckFileChanges, Stat,
                ReadFails, CheckNext, TakeLine, End, history
<1>6. offset' \in [Files -> 0..Unknown]
  <2>1. CASE ScanExistingFiles
    BY <1>0, <1>1, <2>1 DEF ScanExistingFiles, Unknown
  <2>2. CASE Stat
    <3>1. offset[job.file] = Unknown \/ offset[job.file] \in 0..Unknown
      BY <1>0, <2>2 DEF Stat, JobOK
    <3> QED BY <1>0, <2>2, <3>1 DEF Stat, Known, Unknown
  <2>3. CASE Read
    BY <1>0, <2>3 DEF Read, Unknown
  <2>4. CASE HandleFileEvent
    <3>1. offset' = offset \/ \E f \in Files, n \in {0, Unknown} : offset' = [offset EXCEPT ![f] = n]
      <4>1. PICK e \in Event : e = Head(events)
        BY <1>0, <2>4 DEF HandleFileEvent
      <4> QED BY <2>4, <4>1 DEF HandleFileEvent, Created, Removed, Event, EventKinds
    <3> QED BY <1>0, <3>1 DEF Unknown
  <2> QED BY <1>0, <2>1, <2>2, <2>3, <2>4
       DEF MonitorNext, Watch, CheckFileChanges, CheckNext, TakeLine, End, ReadFails
<1>7. job' \in [file : Files \cup {NoFile}, why : {"none", "create", "write", "tick"},
                size : 0..Unknown]
  <2>0. NoJob \in [file : Files \cup {NoFile}, why : {"none", "create", "write", "tick"},
                   size : 0..Unknown]
    BY <1>0 DEF NoJob, Unknown
  <2>1. CASE Stat
    <3>1. job.file \in Files
      BY <2>1 DEF Stat, JobOK
    <3> QED BY <1>0, <1>1, <2>0, <2>1, <3>1 DEF Stat, Known
  <2>2. CASE Read \/ ReadFails
    BY <2>0, <2>2 DEF Read, ReadFails
  <2>3. CASE HandleFileEvent
    <3>1. job' = job \/ \E f \in Files, why \in {"create", "write"} : Check(f, why)
      <4>1. PICK e \in Event : e = Head(events)
        BY <1>0, <2>3 DEF HandleFileEvent
      <4> QED BY <2>3, <4>1 DEF HandleFileEvent, Created, Removed, Event, EventKinds
    <3> QED BY <1>0, <3>1 DEF Check, Unknown
  <2>4. ASSUME NEW f \in Files, CheckNext(f)
        PROVE  job' \in [file : Files \cup {NoFile}, why : {"none", "create", "write", "tick"},
                         size : 0..Unknown]
    BY <1>0, <2>4 DEF CheckNext, Check, Unknown
  <2> QED BY <1>0, <2>1, <2>2, <2>3, <2>4
       DEF MonitorNext, Watch, ScanExistingFiles, CheckFileChanges, TakeLine, End
<1>8. phase' \in {"new", "watching"} => delivered' = {}
  <2>1. Read => phase = "running" /\ phase' = phase
    BY DEF Read, JobOK, NoJob
  <2> QED BY <2>1 DEF MonitorNext, Watch, HandleFileEvent, ScanExistingFiles, CheckFileChanges, Stat,
           ReadFails, CheckNext, TakeLine, End, history, Contents
<1>9. MonitorTypeOK'
  BY <1>0, <1>2, <1>3, <1>4, <1>5, <1>6, <1>7 DEF MonitorTypeOK, Event
<1>10. Contents'
  <2>1. \A f \in Files : Exists(f)' <=> Exists(f)
    BY <1>2 DEF Exists
  <2> QED BY <1>2, <1>5, <1>8, <2>1 DEF Contents
<1> QED BY <1>9, <1>10

\* The check under way goes on in order.
LEMMA JobSteps ==
  ASSUME MonitorTypeOK, Contents, JobOK, MonitorNext
  PROVE  JobOK'
PROOF
<1>0. /\ MaxPieces \in Nat /\ offset \in [Files -> 0..Unknown]
      /\ job \in [file : Files \cup {NoFile}, why : {"none", "create", "write", "tick"},
                  size : 0..Unknown]
      /\ events \in Seq(Event)
  BY PiecesAssumption DEF MonitorTypeOK, Event
<1>S. sweep' # {} => phase' = "running"
  <2>1. CASE Game
    BY <2>1, GameSteps DEF Began, Extended, Gone, Shrunk, Played, JobOK
  <2> QED BY <2>1 DEF MonitorNext, Watch, HandleFileEvent, ScanExistingFiles, CheckFileChanges, Stat,
           Read, ReadFails, CheckNext, TakeLine, End, Selecting, JobOK
<1>1. ASSUME job' = NoJob
      PROVE  JobOK'
  BY <1>S, <1>1 DEF JobOK, NoJob
<1>2. CASE Game
  <2>1. UNCHANGED <<phase, offset, job, sweep, handed>>
    BY <1>2, GameSteps DEF Began, Extended, Gone, Shrunk, Played
  <2> QED BY <2>1 DEF JobOK
<1>3. CASE Watch \/ ScanExistingFiles \/ CheckFileChanges \/ End
  <2>1. job = NoJob /\ job' = job
    BY <1>3 DEF Watch, ScanExistingFiles, CheckFileChanges, End, Selecting, JobOK
  <2> QED BY <1>1, <2>1
<1>4. ASSUME NEW line \in Lines, TakeLine(line)
      PROVE  JobOK'
  <2>1. job = NoJob /\ job' = job
    BY <1>4 DEF TakeLine, JobOK
  <2> QED BY <1>1, <2>1
<1>5. CASE HandleFileEvent
  <2>1. PICK e \in Event : e = Head(events)
    BY <1>0, <1>5 DEF HandleFileEvent
  <2>2. phase' = "running" /\ handed' = {} /\ job = NoJob
    BY <1>5 DEF HandleFileEvent, Selecting
  <2>3. CASE job' = job
    BY <1>1, <2>2, <2>3
  <2>4. CASE Check(e.file, "write")
    BY <2>2, <2>4, <1>S DEF Check, JobOK, Event
  <2>5. CASE Check(e.file, "create") /\ offset' = [offset EXCEPT ![e.file] = 0]
    BY <1>0, <2>2, <2>5, <1>S DEF Check, JobOK, Event
  <2> QED BY <1>5, <2>1, <2>3, <2>4, <2>5 DEF HandleFileEvent, Created, Removed, Event, EventKinds
<1>6. ASSUME NEW f \in Files, CheckNext(f)
      PROVE  JobOK'
  <2>1. phase = "running"
    BY <1>6 DEF CheckNext, JobOK
  <2> QED BY <1>6, <1>S, <2>1 DEF CheckNext, Check, JobOK
<1>7. CASE Stat
  <2>1. job.file \in Files /\ phase' = "running" /\ handed' = {}
    BY <1>7 DEF Stat, JobOK
  <2> DEFINE f == job.file
             known == IF offset[f] = Unknown THEN 0 ELSE offset[f]
  <2>2. CASE job' = NoJob
    BY <1>1, <2>2
  <2>3. CASE job' # NoJob
    <3>1. /\ Exists(f) /\ offset' = [offset EXCEPT ![f] = known]
          /\ ~(Len(content[f]) <= known) /\ job' = [job EXCEPT !.size = Len(content[f])]
      BY <1>7, <2>3 DEF Stat, Known
    <3>2. Len(content[f]) \in Nat /\ known \in Nat
      BY <1>0, <2>1, <3>1 DEF Contents
    <3>3. job'.file = f /\ job'.why = job.why /\ offset'[f] = known /\ known < job'.size
      BY <1>0, <2>1, <3>1, <3>2
    <3>4. job'.why = "create" => known = 0
      BY <1>7, <3>3 DEF JobOK
    <3> QED BY <1>S, <2>1, <3>3, <3>4 DEF JobOK
  <2> QED BY <2>2, <2>3
<1>8. CASE Read \/ ReadFails
  BY <1>1, <1>8 DEF Read, ReadFails
<1> QED BY <1>2, <1>3, <1>4, <1>5, <1>6, <1>7, <1>8 DEF MonitorNext

\* An event that is queued behind the others leaves a creation the first of its file.
LEMMA FirstAfterKept ==
  ASSUME events \in Seq(Event), Len(events') \in {Len(events), Len(events) + 1},
         \A i \in 1..Len(events) : events'[i] = events[i],
         NEW i \in Nat, NEW f \in Files, FirstAfter(i, f)
  PROVE  FirstAfter(i, f)'
PROOF
<1>0. Len(events) \in Nat
  OBVIOUS
<1>1. PICK j \in 1..Len(events) :
        /\ i < j /\ events[j].kind = "create" /\ events[j].file = f
        /\ \A k \in 1..Len(events) : i < k /\ k < j => events[k].file # f
  BY DEF FirstAfter
<1>2. j \in 1..Len(events') /\ events'[j] = events[j]
  BY <1>0
<1>3. ASSUME NEW k \in 1..Len(events'), i < k, k < j
      PROVE  events'[k].file # f
  <2>1. k \in 1..Len(events)
    BY <1>0, <1>3
  <2> QED BY <1>1, <1>3, <2>1
<1>4. /\ i < j /\ events'[j].kind = "create" /\ events'[j].file = f
      /\ \A k \in 1..Len(events') : i < k /\ k < j => events'[k].file # f
  BY <1>1, <1>2, <1>3
<1> QED BY <1>2, <1>4 DEF FirstAfter

\* When the head of the queue has been taken, the rest is one place further ahead.
LEMMA TailShifts ==
  ASSUME events \in Seq(Event), events # <<>>, events' = Tail(events)
  PROVE  /\ Len(events') \in Nat /\ Len(events) = Len(events') + 1
         /\ \A i \in 1..Len(events') : i + 1 \in 1..Len(events) /\ events'[i] = events[i + 1]
         /\ Head(events) = events[1] /\ events[1] \in Event
         /\ \A i \in Nat, f \in Files : FirstAfter(i + 1, f) => FirstAfter(i, f)'
         /\ \A f \in Files : FirstAfter(0, f) =>
              \/ events[1].kind = "create" /\ events[1].file = f
              \/ events[1].file # f /\ FirstAfter(0, f)'
PROOF
<1>1. /\ Len(events') \in Nat /\ Len(events) = Len(events') + 1
      /\ Head(events) = events[1] /\ events[1] \in Event
  OBVIOUS
<1>2. \A i \in 1..Len(events') : i + 1 \in 1..Len(events) /\ events'[i] = events[i + 1]
  OBVIOUS
<1>3. ASSUME NEW i \in Nat, NEW f \in Files, FirstAfter(i + 1, f)
      PROVE  FirstAfter(i, f)'
  <2>1. PICK j \in 1..Len(events) :
          /\ i + 1 < j /\ events[j].kind = "create" /\ events[j].file = f
          /\ \A k \in 1..Len(events) : i + 1 < k /\ k < j => events[k].file # f
    BY <1>3 DEF FirstAfter
  <2> DEFINE h == j - 1
  <2>2. h \in 1..Len(events') /\ h + 1 = j /\ i < h
    BY <1>1, <2>1
  <2>3. events'[h].kind = "create" /\ events'[h].file = f
    BY <1>2, <2>1, <2>2
  <2>4. ASSUME NEW k \in 1..Len(events'), i < k, k < h
        PROVE  events'[k].file # f
    <3>1. k + 1 \in 1..Len(events) /\ events'[k] = events[k + 1] /\ i + 1 < k + 1 /\ k + 1 < j
      BY <1>1, <1>2, <2>2, <2>4
    <3> QED BY <2>1, <3>1
  <2> HIDE DEF h
  <2> QED BY <2>2, <2>3, <2>4 DEF FirstAfter
<1>4. ASSUME NEW f \in Files, FirstAfter(0, f)
      PROVE  \/ events[1].kind = "create" /\ events[1].file = f
             \/ events[1].file # f /\ FirstAfter(0, f)'
  <2>1. PICK j \in 1..Len(events) :
          /\ 0 < j /\ events[j].kind = "create" /\ events[j].file = f
          /\ \A k \in 1..Len(events) : 0 < k /\ k < j => events[k].file # f
    BY <1>4 DEF FirstAfter
  <2>2. CASE j = 1
    BY <2>1, <2>2
  <2>3. CASE j # 1
    <3>1. 1 \in 1..Len(events) /\ 1 < j
      BY <1>1, <2>3
    <3>2. events[1].file # f
      BY <2>1, <3>1
    <3>3. FirstAfter(1, f)
      <4>1. \A k \in 1..Len(events) : 1 < k /\ k < j => events[k].file # f
        BY <2>1
      <4> QED BY <2>1, <3>1, <4>1 DEF FirstAfter
    <3>4. FirstAfter(0, f)'
      BY <1>3, <3>3
    <3> QED BY <3>2, <3>4
  <2> QED BY <2>2, <2>3
<1> QED BY <1>1, <1>2, <1>3, <1>4

\* The queue, as the game goes on.
LEMMA GameQueue ==
  ASSUME MonitorTypeOK, Queue, Game
  PROVE  Queue'
PROOF
<1>0. content \in [Files -> Seq(Pieces) \cup {Absent}] /\ events \in Seq(Event) /\ Len(events) \in Nat
  BY DEF MonitorTypeOK, Event
<1>1. PICK f \in Files : Began(f) \/ Extended(f) \/ Gone(f) \/ Shrunk(f)
  BY GameSteps
<1>2. /\ phase' = phase
      /\ \A g \in Files : g # f => content'[g] = content[g]
  BY <1>0, <1>1 DEF Began, Extended, Gone, Shrunk, Played
<1> DEFINE said(kind) ==
      /\ events' \in Seq(Event)
      /\ Len(events') \in {Len(events), Len(events) + 1}
      /\ \A i \in 1..Len(events) : events'[i] = events[i]
      /\ Len(events') # Len(events) =>
           events'[Len(events')].kind = kind /\ events'[Len(events')].file = f
      /\ phase \in {"new", "ended"} => events' = events
<1>3. /\ Began(f) => said("create")
      /\ Extended(f) \/ Shrunk(f) => said("write")
      /\ Gone(f) => said("remove")
  <2>1. \A kind \in EventKinds : Notify(kind, f) => said(kind)
    BY <1>0, Notified
  <2>2. events' = events => said("remove")
    BY <1>0
  <2> QED BY <2>1, <2>2 DEF Began, Extended, Gone, Shrunk, EventKinds
<1>4. \E kind \in EventKinds : said(kind)
  BY <1>1, <1>3 DEF EventKinds
<1>5. ASSUME NEW g \in Files, NEW i \in 1..Len(events'), events'[i].kind = "remove",
             events'[i].file = g
      PROVE  \/ FirstAfter(i, g)'
             \/ ~Exists(g)' /\ \A k \in 1..Len(events') : i < k => events'[k].file # g
  <2>0. i \in Nat /\ events'[i] \in Event /\ Len(events') \in Nat /\ i > 0
    BY <1>4
  <2>1. CASE i <= Len(events)
    <3>1. /\ i \in 1..Len(events) /\ events'[i] = events[i]
          /\ events[i].file = g /\ events[i].kind = "remove"
      BY <1>0, <1>4, <1>5, <2>0, <2>1 DEF Event
    <3>2. CASE FirstAfter(i, g)
      <4>1. FirstAfter(i, g)'
        BY <1>0, <1>4, <2>0, <3>1, <3>2, FirstAfterKept
      <4> QED BY <4>1
    <3>3. CASE ~FirstAfter(i, g)
      <4>1. ~Exists(g) /\ \A k \in 1..Len(events) : i < k => events[k].file # g
        BY <3>1, <3>3 DEF Queue
      <4>2. CASE g # f
        <5>1. ~Exists(g)'
          BY <1>2, <3>1, <4>1, <4>2 DEF Exists
        <5>2. ASSUME NEW k \in 1..Len(events'), i < k
              PROVE  events'[k].file # g
          <6>1. CASE k <= Len(events)
            <7>1. k \in 1..Len(events)
              BY <1>0, <2>0, <6>1
            <7> QED BY <1>4, <4>1, <5>2, <7>1
          <6>2. CASE ~(k <= Len(events))
            <7>1. k = Len(events') /\ Len(events') # Len(events)
              BY <1>0, <1>4, <2>0, <6>2
            <7> QED BY <1>4, <4>2, <7>1
          <6> QED BY <6>1, <6>2
        <5> QED BY <5>1, <5>2
      <4>3. CASE g = f
        <5>1. Began(f)
          BY <1>1, <4>1, <4>3 DEF Extended, Gone, Shrunk
        <5>2. phase \notin {"new", "ended"}
          BY <3>1 DEF Queue
        <5>3. /\ Len(events') > 0
              /\ events'[Len(events')].kind = "create" /\ events'[Len(events')].file = f
          BY <1>0, <5>1, <5>2, Notified DEF Began, EventKinds
        <5>4. Len(events') = Len(events) + 1
          <6>1. CASE Len(events') = Len(events)
            <7>1. Len(events') \in 1..Len(events) /\ i # Len(events')
              BY <1>0, <1>5, <2>0, <5>3, <6>1
            <7>2. i < Len(events') /\ events'[Len(events')] = events[Len(events')]
              BY <1>4, <2>0, <2>1, <6>1, <7>1
            <7> QED BY <4>1, <4>3, <5>3, <7>1, <7>2
          <6> QED BY <1>4, <6>1
        <5>5. FirstAfter(i, f)'
          <6>1. \A k \in 1..Len(events') : i < k /\ k < Len(events') => events'[k].file # f
            <7> SUFFICES ASSUME NEW k \in 1..Len(events'), i < k, k < Len(events')
                         PROVE  events'[k].file # f
              OBVIOUS
            <7>1. k \in 1..Len(events) /\ events'[k] = events[k]
              BY <1>0, <1>4, <5>4
            <7> QED BY <4>1, <4>3, <7>1
          <6>2. Len(events') \in 1..Len(events') /\ i < Len(events')
            BY <2>0, <2>1, <1>0, <5>4
          <6> QED BY <5>3, <6>1, <6>2 DEF FirstAfter
        <5> QED BY <4>3, <5>5 DEF FirstAfter
      <4> QED BY <4>2, <4>3
    <3> QED BY <3>2, <3>3
  <2>2. CASE ~(i <= Len(events))
    <3>1. i = Len(events') /\ Len(events') # Len(events)
      BY <1>0, <1>4, <2>0, <2>2
    <3>2. events'[i].file = f
      BY <1>4, <3>1
    <3>3. Gone(f)
      BY <1>1, <1>3, <1>5, <3>1
    <3>4. ~Exists(f)'
      BY <1>0, <3>3 DEF Gone, Played, Exists
    <3>5. ~Exists(g)'
      BY <1>5, <3>2, <3>4
    <3>6. \A k \in 1..Len(events') : ~(i < k)
      BY <2>0, <3>1
    <3> QED BY <3>5, <3>6
  <2> QED BY <2>1, <2>2
<1>6. phase' \in {"new", "ended"} => events' = <<>>
  BY <1>2, <1>4 DEF Queue
<1> QED BY <1>5, <1>6 DEF Queue, Exists

\* The queue, as the monitor goes on.
LEMMA MonitorQueue ==
  ASSUME MonitorTypeOK, Queue, MonitorNext, ~Game
  PROVE  Queue'
PROOF
<1>0. events \in Seq(Event) /\ Len(events) \in Nat
  BY DEF MonitorTypeOK, Event
<1>1. content' = content
  BY MonitorLeaves
<1>2. CASE events' = <<>>
  BY <1>2 DEF Queue
<1>3. CASE events' = events /\ phase' \notin {"new", "ended"}
  BY <1>1, <1>3 DEF Queue, Exists, FirstAfter
<1>4. CASE events' = events /\ phase' = phase
  BY <1>1, <1>4 DEF Queue, Exists, FirstAfter
<1>5. CASE HandleFileEvent
  <2>1. phase' = "running" /\ events' = Tail(events) /\ events # <<>>
    BY <1>5 DEF HandleFileEvent, Selecting
  <2>2. /\ Len(events') \in Nat /\ Len(events) = Len(events') + 1
        /\ \A i \in 1..Len(events') : i + 1 \in 1..Len(events) /\ events'[i] = events[i + 1]
        /\ \A i \in Nat, f \in Files : FirstAfter(i + 1, f) => FirstAfter(i, f)'
    BY <1>0, <2>1, TailShifts
  <2>3. ASSUME NEW g \in Files, NEW i \in 1..Len(events'), events'[i].kind = "remove",
               events'[i].file = g
        PROVE  \/ FirstAfter(i, g)'
               \/ ~Exists(g)' /\ \A k \in 1..Len(events') : i < k => events'[k].file # g
    <3>1. /\ i + 1 \in 1..Len(events) /\ events'[i] = events[i + 1] /\ i \in Nat
          /\ events[i + 1].file = g
          /\ events[i + 1].kind = "remove"
      BY <1>0, <2>2, <2>3 DEF Event
    <3>2. CASE FirstAfter(i + 1, g)
      <4> QED BY <2>2, <3>1, <3>2
    <3>3. CASE ~FirstAfter(i + 1, g)
      <4>1. ~Exists(g) /\ \A k \in 1..Len(events) : i + 1 < k => events[k].file # g
        BY <3>1, <3>3 DEF Queue
      <4>2. ~Exists(g)'
        BY <1>1, <4>1 DEF Exists
      <4>3. ASSUME NEW k \in 1..Len(events'), i < k
            PROVE  events'[k].file # g
        <5>1. k + 1 \in 1..Len(events) /\ events'[k] = events[k + 1] /\ i + 1 < k + 1
          BY <2>2, <3>1, <4>3
        <5> QED BY <4>1, <5>1
      <4> QED BY <3>1, <4>2, <4>3
    <3> QED BY <3>2, <3>3
  <2> QED BY <2>1, <2>3 DEF Queue, Exists
<1>6. CASE Watch
  BY <1>2, <1>6 DEF Watch, Queue
<1> QED BY <1>2, <1>3, <1>4, <1>5, <1>6
     DEF MonitorNext, ScanExistingFiles, CheckFileChanges, Stat, Read, ReadFails, CheckNext, TakeLine,
         End

\* What the game does leaves what has been delivered of a file before its offset.
LEMMA GameFresh ==
  ASSUME MonitorTypeOK, Contents, FreshInv, Game
  PROVE  FreshInv'
PROOF
<1>0. /\ content \in [Files -> Seq(Pieces) \cup {Absent}] /\ events \in Seq(Event)
      /\ written \in Nat
  BY PiecesAssumption DEF MonitorTypeOK, Event
<1>1. PICK f \in Files : Began(f) \/ Extended(f) \/ Gone(f) \/ Shrunk(f)
  BY GameSteps
<1>2. /\ UNCHANGED <<phase, offset, job, sweep, delivered>>
      /\ \A g \in Files : g # f => content'[g] = content[g]
  BY <1>0, <1>1 DEF Began, Extended, Gone, Shrunk, Played
<1>3. \A g \in Files : FirstAfter(0, g) => FirstAfter(0, g)'
  <2>1. /\ Len(events') \in {Len(events), Len(events) + 1}
        /\ \A i \in 1..Len(events) : events'[i] = events[i]
    BY <1>0, <1>1, Notified DEF Began, Extended, Gone, Shrunk, EventKinds
  <2> QED BY <1>0, <2>1, FirstAfterKept
<1>4. SUFFICES ASSUME phase' = "running", NEW g \in Files, Exists(g)'
               PROVE  Fresh(g)'
  BY DEF FreshInv
<1>5. Known(g)' = Known(g)
  BY <1>2 DEF Known
<1>6. CASE g # f
  <2>1. content'[g] = content[g] /\ Exists(g) /\ Fresh(g)
    BY <1>2, <1>4, <1>6 DEF FreshInv, Exists
  <2>2. \A i \in 1..Len(content[g]) : content[g][i] \notin Held(f)
    <3> SUFFICES ASSUME NEW i \in 1..Len(content[g]), content[g][i] \in Held(f)
                 PROVE  FALSE
      OBVIOUS
    <3>1. PICK j \in 1..Len(content[f]) : Exists(f) /\ content[f][j] = content[g][i]
      BY DEF Held, Contains
    <3> QED BY <1>6, <2>1, <3>1 DEF Contents
  <2>3. forgotten' = forgotten \/ forgotten' = forgotten \ Held(f)
    BY <1>1 DEF Began, Extended, Gone, Shrunk, Played
  <2>4. \A i \in 1..Len(content'[g]) : content'[g][i] \in Counted' => content[g][i] \in Counted
    BY <1>2, <2>1, <2>2, <2>3 DEF Counted
  <2> QED BY <1>2, <1>3, <1>5, <2>1, <2>4 DEF Fresh
<1>7. CASE g = f /\ (Began(f) \/ Shrunk(f))
  <2>1. content'[g] = <<>>
    BY <1>0, <1>7 DEF Began, Shrunk, Played
  <2>2. \A i \in 1..Len(content'[g]) : FALSE
    BY <2>1
  <2> QED BY <2>2 DEF Fresh
<1>8. CASE g = f /\ Extended(f)
  <2>1. /\ content'[g] = Append(content[g], written + 1)
        /\ Exists(g) /\ content[g] \in Seq(Pieces)
    BY <1>0, <1>8 DEF Extended, Played, Exists
  <2>2. Fresh(g)
    BY <1>2, <1>4, <2>1 DEF FreshInv
  <2>3. written + 1 \notin Counted /\ Counted' = Counted
    BY <1>0, <1>2, <1>8 DEF Contents, Counted, Extended
  <2>4. \A i \in 1..Len(content'[g]) : content'[g][i] \in Counted' =>
          i \in 1..Len(content[g]) /\ content[g][i] \in Counted
    BY <2>1, <2>3
  <2> QED BY <1>2, <1>3, <1>5, <2>2, <2>4 DEF Fresh
<1>9. CASE g = f /\ Gone(f)
  BY <1>0, <1>4, <1>9 DEF Gone, Played, Exists
<1> QED BY <1>1, <1>6, <1>7, <1>8, <1>9

\* Nor does the monitor hand over what lies before the offset of a file, but for its
\* creation.
LEMMA MonitorFresh ==
  ASSUME MonitorTypeOK, Contents, JobOK, Queue, FreshInv, MonitorNext, ~Game
  PROVE  FreshInv'
PROOF
<1>0. /\ offset \in [Files -> 0..Unknown] /\ events \in Seq(Event) /\ MaxPieces \in Nat
      /\ job \in [file : Files \cup {NoFile}, why : {"none", "create", "write", "tick"},
                  size : 0..Unknown]
      /\ NoJob.file \notin Files
  BY PiecesAssumption, NamesAssumption DEF MonitorTypeOK, Event, NoJob
<1>1. content' = content
  BY MonitorLeaves
<1>2. SUFFICES ASSUME phase' = "running", NEW f \in Files, Exists(f), ~ScanExistingFiles => Fresh(f)
               PROVE  Fresh(f)'
  <2>1. ~ScanExistingFiles /\ phase' = "running" => phase = "running"
    BY DEF MonitorNext, Watch, HandleFileEvent, CheckFileChanges, Stat, Read, ReadFails, CheckNext,
           TakeLine, End
  <2> QED BY <1>1, <1>2, <2>1 DEF FreshInv, Exists
<1>h. \A i \in 1..Len(content[f]) : content[f][i] \in Held(f)
  <2>1. content[f] \in Seq(Pieces)
    BY <1>2 DEF MonitorTypeOK, Exists
  <2> QED BY <1>2, <2>1 DEF Held, Contains
<1>3. CASE Watch \/ End
  BY <1>2, <1>3 DEF Watch, End
<1>4. CASE ScanExistingFiles
  <2>1. Counted' = {}
    BY <1>4 DEF ScanExistingFiles, Contents, Counted
  <2> QED BY <2>1 DEF Fresh
<1>5. ASSUME NEW line \in Lines, TakeLine(line)
      PROVE  Fresh(f)'
  <2>1. Fresh(f)
    BY <1>2, <1>5 DEF TakeLine, ScanExistingFiles
  <2> QED BY <1>1, <1>5, <2>1 DEF TakeLine, history, trouble, Counted, Fresh, Known, FirstAfter
<1>6. CASE CheckFileChanges
  <2>1. Fresh(f) /\ job = NoJob
    BY <1>2, <1>6 DEF CheckFileChanges, ScanExistingFiles, Selecting
  <2>2. offset[f] = Unknown => f \notin sweep'
    BY <1>6 DEF CheckFileChanges
  <2>3. UNCHANGED <<offset, job, events, Counted>>
    BY <1>6 DEF CheckFileChanges, history, trouble, Counted
  <2> QED BY <1>1, <2>1, <2>2, <2>3 DEF Fresh, Known, FirstAfter
<1>7. ASSUME NEW g \in Files, CheckNext(g)
      PROVE  Fresh(f)'
  <2>1. Fresh(f) /\ job.file \notin Files /\ job'.file = g /\ g \in sweep /\ sweep' = sweep \ {g}
    BY <1>0, <1>2, <1>7 DEF CheckNext, Check, ScanExistingFiles, JobOK
  <2>2. UNCHANGED <<offset, events, Counted>>
    BY <1>7 DEF CheckNext, history, trouble, Counted
  <2> QED BY <1>1, <2>1, <2>2 DEF Fresh, Known, FirstAfter
<1>8. CASE HandleFileEvent
  <2>1. /\ Fresh(f) /\ job.file \notin Files /\ sweep = {} /\ sweep' = sweep
        /\ events # <<>> /\ events' = Tail(events) /\ delivered' = delivered
    BY <1>0, <1>2, <1>8 DEF HandleFileEvent, Selecting, ScanExistingFiles, history
  <2>a. ASSUME NEW g, LookFails(g)
        PROVE  Counted' \subseteq Counted \ Held(g)
    BY <2>1, <2>a DEF LookFails, Counted
  <2>b. ASSUME UNCHANGED trouble
        PROVE  Counted' = Counted
    BY <2>1, <2>b DEF trouble, Counted
  <2> DEFINE e == events[1]
  <2>2. /\ Head(events) = e /\ e \in Event /\ e.file \in Files /\ e.kind \in EventKinds
        /\ FirstAfter(1, f) => FirstAfter(0, f)'
        /\ FirstAfter(0, f) =>
              \/ e.kind = "create" /\ e.file = f
              \/ e.file # f /\ FirstAfter(0, f)'
    <3>1. /\ Head(events) = e /\ e \in Event
          /\ \A i \in Nat, g \in Files : FirstAfter(i + 1, g) => FirstAfter(i, g)'
          /\ \A g \in Files : FirstAfter(0, g) =>
               \/ e.kind = "create" /\ e.file = g
               \/ e.file # g /\ FirstAfter(0, g)'
      BY <1>0, <2>1, TailShifts
    <3>2. FirstAfter(0 + 1, f) => FirstAfter(0, f)'
      BY <3>1
    <3> QED BY <3>1, <3>2 DEF Event
  <2>3. ASSUME e.file # f, offset'[f] = offset[f], job'.file # f, Counted' \subseteq Counted
        PROVE  Fresh(f)'
    BY <1>1, <2>1, <2>2, <2>3 DEF Fresh, Known
  <2>4. CASE e.kind = "create"
    <3>1. Created(e.file)
      BY <1>8, <2>2, <2>4 DEF HandleFileEvent
    <3>2. CASE e.file = f
      <4>1. CASE Check(f, "create")
        BY <4>1 DEF Check, Fresh
      <4>2. CASE LookFails(f)
        <5>1. \A i \in 1..Len(content[f]) : content[f][i] \in Held(f)
          BY <1>h
        <5> QED BY <1>1, <2>a, <4>2, <5>1 DEF Fresh
      <4> QED BY <1>2, <3>1, <3>2, <4>1, <4>2 DEF Created
    <3>3. CASE e.file # f
      <4>1. offset'[f] = offset[f] /\ job'.file # f
        BY <1>0, <2>1, <3>1, <3>3 DEF Created, Check
      <4>2. Counted' \subseteq Counted
        BY <2>a, <2>b, <3>1 DEF Created
      <4> QED BY <2>3, <3>3, <4>1, <4>2
    <3> QED BY <3>2, <3>3
  <2>5. CASE e.kind = "write"
    <3>1. Check(e.file, "write") /\ offset' = offset /\ Counted' = Counted
      BY <1>8, <2>2, <2>5, <2>b DEF HandleFileEvent
    <3>2. CASE e.file = f
      <4>1. ~FirstAfter(0, f)
        BY <2>2, <2>5, <3>2
      <4> QED BY <1>1, <2>1, <3>1, <4>1 DEF Fresh, Known
    <3>3. CASE e.file # f
      BY <2>3, <3>1, <3>3 DEF Check
    <3> QED BY <3>2, <3>3
  <2>6. CASE e.kind = "remove"
    <3>1. Removed(e.file)
      BY <1>8, <2>2, <2>6 DEF HandleFileEvent
    <3>2. CASE e.file = f
      <4>1. FirstAfter(1, f)
        <5>1. 1 \in 1..Len(events)
          BY <1>0, <2>1
        <5> QED BY <1>2, <2>6, <3>2, <5>1 DEF Queue
      <4>2. offset'[f] = Unknown /\ job'.file # f
        BY <1>0, <2>1, <3>1, <3>2 DEF Removed
      <4> QED BY <2>1, <2>2, <4>1, <4>2 DEF Fresh
    <3>3. CASE e.file # f
      BY <1>0, <2>1, <2>3, <2>b, <3>1, <3>3 DEF Removed
    <3> QED BY <3>2, <3>3
  <2> QED BY <2>2, <2>4, <2>5, <2>6 DEF EventKinds
<1>9. CASE Stat
  <2>0. /\ Fresh(f) /\ job.file \in Files /\ job.size = Unknown
        /\ UNCHANGED <<events, sweep, delivered>>
    BY <1>2, <1>9 DEF Stat, JobOK, ScanExistingFiles, history, NoJob
  <2> DEFINE g == job.file
             known == Known(g)
  <2>a. LookFails(g) => Counted' \subseteq Counted \ Held(g)
    BY <2>0 DEF LookFails, Counted
  <2>b. UNCHANGED forgotten => Counted' = Counted
    BY <2>0 DEF Counted
  <2>1. CASE g # f
    <3>1. offset'[f] = offset[f] /\ job'.file # f
      BY <1>0, <1>9, <2>0, <2>1 DEF Stat
    <3>2. Counted' \subseteq Counted
      BY <1>9, <2>a, <2>b DEF Stat
    <3> QED BY <1>1, <2>0, <2>1, <3>1, <3>2 DEF Fresh, Known, FirstAfter
  <2>3. CASE LookFails(f) /\ g = f
    <3>1. \A i \in 1..Len(content[f]) : content[f][i] \in Held(f)
      BY <1>h
    <3> QED BY <1>1, <2>3, <2>a, <3>1 DEF Fresh
  <2>2. CASE ~LookFails(f) /\ g = f
    <3>1. /\ offset' = [offset EXCEPT ![f] = known]
          /\ job' = IF Len(content[f]) <= known THEN NoJob
                    ELSE [job EXCEPT !.size = Len(content[f])]
          /\ Counted' = Counted
      BY <1>2, <1>9, <2>2, <2>b DEF Stat
    <3>2. Known(f)' = Known(f) /\ known = Known(f)
      BY <1>0, <2>2, <3>1 DEF Known, Unknown
    <3>3. Len(content[f]) \in Nat
      BY <1>2 DEF Contents
    <3>4. CASE \A i \in 1..Len(content[f]) : content[f][i] \in Counted => i <= Known(f)
      BY <1>1, <2>0, <3>1, <3>2, <3>4 DEF Fresh
    <3>5. CASE job.why = "create"
      <4>1. known = 0
        BY <2>2, <3>5 DEF JobOK, Known
      <4>2. CASE Len(content[f]) <= known
        <5>1. \A i \in 1..Len(content'[f]) : FALSE
          BY <1>1, <3>3, <4>1, <4>2
        <5> QED BY <5>1 DEF Fresh
      <4>3. CASE ~(Len(content[f]) <= known)
        <5>1. job'.file = f /\ job'.why = "create" /\ job'.size = Len(content[f])
          BY <1>0, <2>2, <3>1, <3>5, <4>3
        <5>2. \A i \in 1..Len(content'[f]) : i <= job'.size
          BY <1>1, <3>3, <5>1
        <5> QED BY <5>1, <5>2 DEF Fresh
      <4> QED BY <4>2, <4>3
    <3> QED BY <2>0, <2>2, <3>4, <3>5 DEF Fresh
  <2> QED BY <2>1, <2>2, <2>3
<1>10. CASE Read
  <2>0. /\ Fresh(f) /\ job.file \in Files /\ job.size # Unknown /\ offset[job.file] < job.size
        /\ UNCHANGED <<events, sweep>> /\ job'.file \notin Files
    BY <1>0, <1>2, <1>10 DEF Read, JobOK, ScanExistingFiles
  <2> DEFINE g == job.file
             new == NewPieces(g)
  <2>1. /\ Counted' = Counted \cup new
        /\ offset' = IF new = {} THEN offset ELSE [offset EXCEPT ![g] = job.size]
    BY <1>10 DEF Read, Counted
  <2>2. \A i \in 1..Len(content[f]) : content[f][i] \in new => f = g /\ i <= job.size
    <3> SUFFICES ASSUME NEW i \in 1..Len(content[f]), content[f][i] \in new
                 PROVE  f = g /\ i <= job.size
      OBVIOUS
    <3>1. PICK j \in 1..Len(content[g]) : /\ Exists(g) /\ j <= job.size
                                          /\ content[g][j] = content[f][i]
      BY DEF NewPieces
    <3>2. f = g /\ i = j
      BY <1>2, <2>0, <3>1 DEF Contents
    <3> QED BY <3>1, <3>2
  <2>3. CASE g # f
    <3>1. offset'[f] = offset[f]
      BY <1>0, <2>0, <2>1, <2>3
    <3> QED BY <1>1, <2>0, <2>1, <2>2, <2>3, <3>1 DEF Fresh, Known, FirstAfter
  <2>4. CASE g = f
    <3>1. Known(f) <= job.size /\ job.size \in Nat /\ Len(content[f]) \in 0..MaxPieces
      <4>1. Len(content[f]) \in 0..MaxPieces
        BY <1>0, <1>2 DEF Contents, MonitorTypeOK
      <4> QED BY <1>0, <2>0, <2>4, <4>1 DEF Known
    <3>2. \A i \in 1..Len(content[f]) : content[f][i] \in Counted => i <= job.size
      <4>1. CASE \A i \in 1..Len(content[f]) : content[f][i] \in Counted => i <= Known(f)
        BY <1>0, <3>1, <4>1 DEF Known, Unknown
      <4> QED BY <2>0, <2>4, <4>1 DEF Fresh
    <3>3. CASE new # {}
      <4>1. Known(f)' = job.size
        BY <1>0, <2>0, <2>1, <2>4, <3>3 DEF Known
      <4> QED BY <1>1, <2>1, <2>2, <3>2, <4>1 DEF Fresh
    <3>4. CASE new = {} /\ ~(job.why = "create")
      <4>1. \A i \in 1..Len(content[f]) : content[f][i] \in Counted => i <= Known(f)
        BY <2>0, <2>4, <3>4 DEF Fresh
      <4> QED BY <1>1, <2>1, <3>4, <4>1 DEF Fresh, Known
    <3>5. CASE new = {} /\ job.why = "create"
      <4>1. offset[f] = 0
        BY <2>4, <3>5 DEF JobOK
      <4>2. ASSUME NEW i \in 1..Len(content[f]), content[f][i] \in Counted
            PROVE  FALSE
        <5>1. i \in Nat /\ 0 < i /\ i <= job.size
          BY <3>1, <3>2, <4>2
        <5>2. content[f][i] \in Pieces \ Blank
          BY <4>2 DEF Contents, MonitorTypeOK, Counted
        <5>3. content[f][i] \in new
          BY <1>2, <2>4, <4>1, <5>1, <5>2 DEF NewPieces
        <5> QED BY <3>5, <5>3
      <4> QED BY <1>1, <2>1, <3>5, <4>2 DEF Fresh
    <3> QED BY <3>3, <3>4, <3>5
  <2> QED BY <2>3, <2>4
<1>11. CASE ReadFails
  <2>0. /\ Fresh(f) /\ job.file \in Files /\ job.size # Unknown /\ job'.file \notin Files
        /\ UNCHANGED <<offset, events, sweep, delivered>>
    BY <1>0, <1>2, <1>11 DEF ReadFails, JobOK, ScanExistingFiles, history
  <2>1. Counted' \subseteq Counted
    BY <1>11, <2>0 DEF ReadFails, Counted
  <2>2. CASE job.file = f /\ job.why = "create"
    <3>1. \A i \in 1..Len(content[f]) : content[f][i] \notin Counted'
      BY <1>h, <1>11, <2>2 DEF ReadFails, Counted
    <3> QED BY <1>1, <3>1 DEF Fresh
  <2>3. CASE ~(job.file = f /\ job.why = "create")
    BY <1>1, <2>0, <2>1, <2>3 DEF Fresh, Known, FirstAfter
  <2> QED BY <2>2, <2>3
<1> QED BY <1>3, <1>4, <1>5, <1>6, <1>7, <1>8, <1>9, <1>10, <1>11 DEF MonitorNext

\* What lies before the offset of a file stays read, whatever the game does.
LEMMA GameCovered ==
  ASSUME MonitorTypeOK, Contents, CoveredInv, Game
  PROVE  CoveredInv'
PROOF
<1>0. /\ content \in [Files -> Seq(Pieces) \cup {Absent}] /\ events \in Seq(Event)
      /\ offset \in [Files -> 0..Unknown] /\ MaxPieces \in Nat /\ Len(events) \in Nat
  BY PiecesAssumption DEF MonitorTypeOK, Event
<1>1. PICK f \in Files : Began(f) \/ Extended(f) \/ Gone(f) \/ Shrunk(f)
  BY GameSteps
<1>2. /\ UNCHANGED <<phase, offset, job, delivered, skipped>>
      /\ \A g \in Files : g # f => content'[g] = content[g] /\ (g \in stale' <=> g \in stale)
  BY <1>0, <1>1 DEF Began, Extended, Gone, Shrunk, Played
<1>3. SUFFICES ASSUME NEW g \in Files, Calm(g)'
               PROVE  Covered(g)'
  BY DEF CoveredInv
<1>4. /\ Len(events') \in {Len(events), Len(events) + 1}
      /\ \A i \in 1..Len(events) : events'[i] = events[i]
  BY <1>0, <1>1, Notified DEF Began, Extended, Gone, Shrunk, EventKinds
<1>5. \A i \in 1..Len(events) : events[i].file = g => events[i].kind = "write"
  <2>1. \A i \in 1..Len(events) : i \in 1..Len(events')
    BY <1>0, <1>4
  <2> QED BY <1>3, <1>4, <2>1 DEF Calm
<1>6. CASE g # f
  <2>1. content'[g] = content[g] /\ Calm(g)
    BY <1>2, <1>3, <1>5, <1>6 DEF Calm, Exists
  <2>2. Covered(g)
    BY <2>1 DEF CoveredInv
  <2> QED BY <1>2, <2>1, <2>2 DEF Covered
<1>7. CASE g = f /\ Began(f)
  <2>1. phase \notin {"new", "ended"}
    BY <1>2, <1>3 DEF Calm
  <2>2. /\ Len(events') > 0 /\ Len(events') \in Nat
        /\ events'[Len(events')].kind = "create" /\ events'[Len(events')].file = f
    BY <1>0, <1>4, <1>7, <2>1, Notified DEF Began, EventKinds
  <2>3. Len(events') \in 1..Len(events')
    BY <2>2
  <2> QED BY <1>3, <1>7, <2>2, <2>3 DEF Calm
<1>8. CASE g = f /\ Extended(f)
  <2>1. /\ content'[g] = Append(content[g], written')
        /\ Exists(g) /\ content[g] \in Seq(Pieces) /\ stale' = stale
    BY <1>0, <1>8 DEF Extended, Played, Exists
  <2>2. Covered(g)
    BY <1>2, <1>3, <1>5, <2>1 DEF Calm, CoveredInv
  <2>3. /\ Len(content[g]) \in Nat /\ Len(content'[g]) = Len(content[g]) + 1
        /\ \A i \in 1..Len(content[g]) : content'[g][i] = content[g][i]
    BY <2>1
  <2>4. offset[g] \in Nat /\ job'.size = job.size
    BY <1>0, <1>2
  <2>5. ASSUME offset[g] # Unknown, ~(job.file = g /\ job.why = "create")
        PROVE  /\ offset[g] <= Len(content'[g])
               /\ \A i \in 1..Len(content'[g]) :
                    i <= offset[g] /\ content'[g][i] \notin Blank =>
                      content'[g][i] \in delivered \cup skipped
    <3>1. offset[g] <= Len(content[g])
      BY <2>2, <2>5 DEF Covered
    <3>2. \A i \in 1..Len(content'[g]) : i <= offset[g] => i \in 1..Len(content[g])
      BY <2>3, <2>4, <3>1
    <3> QED BY <2>2, <2>3, <2>4, <2>5, <3>1, <3>2 DEF Covered
  <2>6. job.file = g /\ job.size # Unknown => job.size <= Len(content'[g])
    <3>1. job.size \in Nat
      BY <1>0 DEF MonitorTypeOK, Unknown
    <3> QED BY <2>2, <2>3, <3>1 DEF Covered
  <2> QED BY <1>2, <2>5, <2>6 DEF Covered
<1>9. CASE g = f /\ Gone(f)
  BY <1>0, <1>3, <1>9 DEF Gone, Played, Exists, Calm
<1>10. CASE g = f /\ Shrunk(f)
  BY <1>3, <1>10 DEF Shrunk, Calm
<1> QED BY <1>1, <1>6, <1>7, <1>8, <1>9, <1>10

\* And the monitor moves an offset only past what it has handed over.
LEMMA MonitorCovered ==
  ASSUME MonitorTypeOK, Contents, JobOK, CoveredInv, MonitorNext, ~Game
  PROVE  CoveredInv'
PROOF
<1>0. /\ offset \in [Files -> 0..Unknown] /\ events \in Seq(Event) /\ MaxPieces \in Nat
      /\ job \in [file : Files \cup {NoFile}, why : {"none", "create", "write", "tick"},
                  size : 0..Unknown]
      /\ NoJob.file \notin Files /\ written \in 0..MaxPieces
  BY PiecesAssumption, NamesAssumption DEF MonitorTypeOK, Event, NoJob
<1>1. content' = content /\ stale \subseteq stale'
  BY MonitorLeaves
<1>2. SUFFICES ASSUME NEW f \in Files, Calm(f)'
               PROVE  Covered(f)'
  BY DEF CoveredInv
<1>3. Exists(f) /\ phase' = "running" /\ f \notin stale
  BY <1>1, <1>2 DEF Calm, Exists
<1>4. /\ Len(content[f]) \in Nat /\ content[f] = content'[f]
      /\ \A i \in 1..Len(content[f]) : content[f][i] \in Pieces
  BY <1>0, <1>1, <1>3 DEF Contents, Pieces
<1>5. ASSUME events' = events, phase' = phase
      PROVE  Covered(f)
  BY <1>1, <1>2, <1>3, <1>5 DEF Calm, CoveredInv
<1>6. CASE Watch \/ End
  BY <1>3, <1>6 DEF Watch, End
<1>7. CASE ScanExistingFiles
  <2>1. job'.file # f /\ offset'[f] \in {Len(content[f]), Unknown}
    BY <1>0, <1>3, <1>7 DEF ScanExistingFiles, JobOK
  <2>2. \A i \in 1..Len(content[f]) : content[f][i] \in skipped'
    BY <1>3, <1>4, <1>7 DEF ScanExistingFiles, Held, Contains
  <2> QED BY <1>4, <2>1, <2>2 DEF Covered
<1>8. ASSUME NEW line \in Lines, TakeLine(line)
      PROVE  Covered(f)'
  BY <1>1, <1>5, <1>8 DEF TakeLine, Covered, history
<1>9. CASE CheckFileChanges
  BY <1>1, <1>5, <1>9 DEF CheckFileChanges, Covered, history
<1>10. ASSUME NEW g \in Files, CheckNext(g)
       PROVE  Covered(f)'
  <2>1. Covered(f) /\ job.file # f /\ job'.size = Unknown
    BY <1>0, <1>5, <1>10 DEF CheckNext, Check
  <2> QED BY <1>1, <1>10, <2>1 DEF CheckNext, Covered, history
<1>11. CASE HandleFileEvent
  <2>1. /\ job.file # f /\ events # <<>> /\ events' = Tail(events)
        /\ UNCHANGED <<delivered, skipped, phase>>
    BY <1>0, <1>11 DEF HandleFileEvent, Selecting, history
  <2> DEFINE e == events[1]
  <2>2. /\ Head(events) = e /\ e \in Event /\ e.file \in Files /\ e.kind \in EventKinds
        /\ Len(events) = Len(events') + 1 /\ Len(events') \in Nat
        /\ \A i \in 1..Len(events') : events'[i] = events[i + 1]
    BY <1>0, <2>1, TailShifts DEF Event
  <2>3. ASSUME e.file = f => e.kind = "write"
        PROVE  Covered(f)
    <3>1. ASSUME NEW i \in 1..Len(events), events[i].file = f
          PROVE  events[i].kind = "write"
      <4>1. CASE i = 1
        BY <2>3, <3>1, <4>1
      <4>2. CASE i # 1
        <5>1. PICK j \in 1..Len(events') : j + 1 = i
          <6>1. i - 1 \in 1..Len(events') /\ (i - 1) + 1 = i
            BY <2>2, <4>2
          <6> QED BY <6>1
        <5> QED BY <1>2, <2>2, <3>1, <5>1 DEF Calm
      <4> QED BY <4>1, <4>2
    <3> QED BY <1>3, <2>1, <3>1 DEF Calm, CoveredInv
  <2>4. ASSUME e.file = f => e.kind = "write", offset'[f] = offset[f], job'.file = f => job'.size = Unknown
        PROVE  Covered(f)'
    BY <1>1, <2>1, <2>3, <2>4 DEF Covered
  <2>5. CASE e.kind = "create"
    <3>1. Created(e.file)
      BY <1>11, <2>2, <2>5 DEF HandleFileEvent
    <3>2. CASE e.file = f
      <4>1. CASE offset' = offset /\ job' = job
        <5>1. offset[f] # Unknown => f \in stale'
          BY <1>0, <1>3, <3>1, <3>2, <4>1, <2>1 DEF Created, Check
        <5> QED BY <1>2, <2>1, <4>1, <5>1 DEF Calm, Covered
      <4> QED BY <1>3, <3>1, <3>2, <4>1 DEF Created, Check, Covered
    <3>3. CASE e.file # f
      <4>1. offset'[f] = offset[f] /\ job'.file # f
        BY <1>0, <2>1, <3>1, <3>3 DEF Created, Check
      <4> QED BY <2>4, <3>3, <4>1
    <3> QED BY <3>2, <3>3
  <2>6. CASE e.kind = "write"
    <3>1. Check(e.file, "write") /\ offset' = offset
      BY <1>11, <2>2, <2>6 DEF HandleFileEvent
    <3> QED BY <2>4, <2>6, <3>1 DEF Check
  <2>7. CASE e.kind = "remove"
    <3>1. Removed(e.file)
      BY <1>11, <2>2, <2>7 DEF HandleFileEvent
    <3>2. CASE e.file = f
      BY <1>0, <2>1, <3>1, <3>2 DEF Removed, Covered
    <3>3. CASE e.file # f
      BY <1>0, <2>1, <2>4, <3>1, <3>3 DEF Removed
    <3> QED BY <3>2, <3>3
  <2> QED BY <2>2, <2>5, <2>6, <2>7 DEF EventKinds
<1>12. ASSUME job.file = f, offset[f] # Unknown, Covered(f)
       PROVE  \A i \in 1..Len(content[f]) :
                i <= offset[f] /\ content[f][i] \notin Blank => content[f][i] \in delivered \cup skipped
  <2>1. CASE job.why = "create"
    <3>1. offset[f] = 0
      BY <1>12, <2>1 DEF JobOK
    <3> QED BY <1>4, <3>1
  <2> QED BY <1>12, <2>1 DEF Covered
<1>13. CASE Stat
  <2>0. /\ Covered(f) /\ job.file \in Files
        /\ UNCHANGED <<delivered, skipped>>
    BY <1>5, <1>13 DEF Stat, JobOK, history
  <2> DEFINE g == job.file
             known == Known(g)
  <2>1. CASE g # f
    <3>1. offset'[f] = offset[f] /\ job'.file # f
      BY <1>0, <1>13, <2>0, <2>1 DEF Stat
    <3> QED BY <1>4, <2>0, <2>1, <3>1 DEF Covered
  <2>3. CASE offset'[f] = Unknown /\ job' = NoJob
    BY <1>0, <2>3 DEF Covered
  <2>2. CASE g = f /\ ~(offset'[f] = Unknown /\ job' = NoJob)
    <3>1. /\ offset'[f] = known
          /\ job' = IF Len(content[f]) <= known THEN NoJob
                    ELSE [job EXCEPT !.size = Len(content[f])]
      BY <1>0, <1>3, <1>13, <2>2 DEF Stat
    <3>2. job'.file = f => job'.size = Len(content[f]) /\ job'.why = job.why
      BY <1>0, <3>1
    <3>3. \A i \in 1..Len(content[f]) :
            i <= known /\ content[f][i] \notin Blank => content[f][i] \in delivered \cup skipped
      BY <1>4, <1>12, <2>0, <2>2 DEF Known
    <3>4. ASSUME ~(job'.file = f /\ job'.why = "create")
          PROVE  known <= Len(content[f])
      <4>1. CASE job.why = "create"
        <5>1. known = 0
          BY <2>2, <4>1 DEF JobOK, Known
        <5> QED BY <1>4, <5>1
      <4>2. CASE job.why # "create"
        BY <1>4, <2>0, <2>2, <4>2 DEF Covered, Known
      <4> QED BY <4>1, <4>2
    <3> QED BY <1>4, <2>0, <3>1, <3>2, <3>3, <3>4 DEF Covered
  <2> QED BY <2>1, <2>2, <2>3
<1>14. CASE Read
  <2>0. /\ Covered(f) /\ job.file \in Files /\ job.size # Unknown /\ offset[job.file] < job.size
        /\ job'.file # f
    BY <1>0, <1>5, <1>14 DEF Read, JobOK
  <2> DEFINE g == job.file
             new == NewPieces(g)
  <2>1. /\ delivered' = delivered \cup new /\ skipped' = skipped
        /\ offset' = IF new = {} THEN offset ELSE [offset EXCEPT ![g] = job.size]
    BY <1>14 DEF Read
  <2>2. CASE g # f
    <3>1. offset'[f] = offset[f]
      BY <1>0, <2>0, <2>1, <2>2
    <3> QED BY <1>4, <2>0, <2>1, <2>2, <3>1 DEF Covered
  <2>3. CASE g = f
    <3>1. job.size <= Len(content[f]) /\ job.size \in Nat /\ offset[f] \in Nat /\ offset[f] < job.size
          /\ offset[f] # Unknown
      BY <1>0, <2>0, <2>3 DEF Covered, Unknown
    <3>2. \A i \in 1..Len(content[f]) :
            i <= offset[f] /\ content[f][i] \notin Blank => content[f][i] \in delivered \cup skipped
      BY <1>12, <2>0, <2>3, <3>1
    <3>3. \A i \in 1..Len(content[f]) :
            offset[f] < i /\ i <= job.size /\ content[f][i] \notin Blank => content[f][i] \in new
      BY <1>3, <1>4, <2>3 DEF NewPieces
    <3>4. CASE new = {}
      BY <1>4, <2>0, <2>1, <3>1, <3>2, <3>4 DEF Covered
    <3>5. CASE new # {}
      <4>1. offset'[f] = job.size
        BY <1>0, <2>1, <2>3, <3>5
      <4>2. ASSUME NEW i \in 1..Len(content[f]), i <= job.size, content[f][i] \notin Blank
            PROVE  content[f][i] \in delivered' \cup skipped'
        <5>1. i <= offset[f] \/ offset[f] < i
          BY <1>4, <3>1
        <5> QED BY <2>1, <3>2, <3>3, <4>2, <5>1
      <4> QED BY <1>4, <2>0, <3>1, <4>1, <4>2 DEF Covered
    <3> QED BY <3>4, <3>5
  <2> QED BY <2>2, <2>3
<1>15. CASE ReadFails
  <2>1. Covered(f) /\ job'.file # f /\ UNCHANGED <<offset, delivered, skipped>>
    BY <1>0, <1>5, <1>15 DEF ReadFails, history
  <2>2. job.why = "create" => job.file \in Files /\ offset[job.file] = 0
    BY DEF JobOK
  <2>3. CASE job.file = f /\ job.why = "create"
    BY <1>4, <2>1, <2>2, <2>3 DEF Covered
  <2>4. CASE ~(job.file = f /\ job.why = "create")
    BY <1>4, <2>1, <2>4 DEF Covered
  <2> QED BY <2>3, <2>4
<1> QED BY <1>6, <1>7, <1>8, <1>9, <1>10, <1>11, <1>13, <1>14, <1>15 DEF MonitorNext

\* The inductive invariant of the monitor.
MonitorInv == MonitorTypeOK /\ Contents /\ JobOK /\ Queue /\ FreshInv /\ CoveredInv

LEMMA MonitorStart == MonitorInit => MonitorInv
PROOF
<1> SUFFICES ASSUME MonitorInit
             PROVE  MonitorInv
  OBVIOUS
<1> USE DEF MonitorInit
<1>1. NoJob.file \notin Files /\ NoJob.size = Unknown /\ NoJob.why = "none"
  BY NamesAssumption DEF NoJob
<1>2. /\ Len(<<>>) = 0 /\ <<>> \in Seq(Pieces) /\ <<>> \in Seq(Event)
      /\ MaxPieces \in Nat /\ MaxChanges \in Nat /\ written \in 0..MaxPieces
  BY PiecesAssumption
<1>3. MonitorTypeOK
  <2>1. content \in [Files -> Seq(Pieces) \cup {Absent}]
    BY <1>2
  <2>2. events \in Seq([kind : EventKinds, file : Files])
    BY <1>2 DEF Event
  <2>3. job \in [file : Files \cup {NoFile}, why : {"none", "create", "write", "tick"},
                 size : 0..Unknown]
    BY <1>2 DEF NoJob, Unknown
  <2>4. offset \in [Files -> 0..Unknown]
    BY <1>2 DEF Unknown
  <2>5. errors \in 0..MaxErrors /\ stale \subseteq Files /\ forgotten \subseteq Pieces
    BY PiecesAssumption
  <2> QED BY <1>2, <2>1, <2>2, <2>3, <2>4, <2>5 DEF MonitorTypeOK
<1>4. Contents
  <2>1. \A f \in Files : Exists(f) => content[f] = <<>>
    BY DEF Exists
  <2>2. \A f \in Files : Exists(f) =>
          Len(content[f]) \in 0..written /\ \A i \in 1..Len(content[f]) : FALSE
    BY <1>2, <2>1
  <2> QED BY <2>2 DEF Contents
<1>5. JobOK
  BY <1>1 DEF JobOK
<1>6. Queue
  BY <1>2 DEF Queue
<1>7. FreshInv /\ CoveredInv
  BY DEF FreshInv, CoveredInv, Calm
<1> QED BY <1>3, <1>4, <1>5, <1>6, <1>7 DEF MonitorInv

\* Every step keeps it.
LEMMA MonitorInvStep == MonitorInv /\ [Next]_vars => MonitorInv'
PROOF
<1> SUFFICES ASSUME MonitorInv, [Next]_vars
             PROVE  MonitorInv'
  OBVIOUS
<1> USE DEF MonitorInv
<1>1. CASE MonitorNext /\ Game
  BY <1>1, GameTypes, JobSteps, GameQueue, GameFresh, GameCovered
<1>2. CASE MonitorNext /\ ~Game
  BY <1>2, MonitorTypes, JobSteps, MonitorQueue, MonitorFresh, MonitorCovered
<1>3. CASE UNCHANGED monitorVars
  <2> USE <1>3 DEF monitorVars, disk, history, trouble
  <2>1. MonitorTypeOK' /\ Contents' /\ JobOK'
    BY DEF MonitorTypeOK, Contents, JobOK, Exists
  <2>2. Queue'
    BY DEF Queue, Exists, FirstAfter
  <2>3. FreshInv'
    BY DEF FreshInv, Exists, Fresh, Known, FirstAfter, Counted
  <2>4. CoveredInv'
    BY DEF CoveredInv, Calm, Covered, Exists
  <2> QED BY <2>1, <2>2, <2>3, <2>4
<1> QED BY <1>1, <1>2, <1>3, MonitorSteps

LEMMA MonitorInvariant == Spec => []MonitorInv
<1>1. Init => MonitorInv
  BY MonitorStart DEF Init
<1> QED BY <1>1, MonitorInvStep, PTL DEF Spec

\* The client and the game process.
ClientOK ==
  /\ printed \in 0..MaxOutput
  /\ client \in {"running", "logs flushed", "output flushed", "stopped"}

\* The types of the whole pipeline: the files, the watcher's queue, the check under way
\* and both buffers hold only what they may, whatever the game does.
THEOREM TypeCorrect == Spec => []TypeOK
<1>1. Init => ClientOK
  BY OutputAssumption DEF Init, ClientOK
<1>2. ClientOK /\ [Next]_vars => ClientOK'
  <2> SUFFICES ASSUME ClientOK, [Next]_vars
               PROVE  ClientOK'
    OBVIOUS
  <2>1. printed' = printed \/ printed' \in Output
    BY DEF Next, vars, StartMonitor, MonitorEvent, MonitorStep, GameStep, OnLogUpdate,
           HandleProcessOutput, LogFileDataBatchProcessor, ProcessOutputBatchProcessor, Clock,
           StopFlushesLogs, StopFlushesOutput, StopMonitor
  <2>2. client' \in {client, "logs flushed", "output flushed", "stopped"}
    BY DEF Next, vars, StartMonitor, MonitorEvent, MonitorStep, GameStep, OnLogUpdate,
           HandleProcessOutput, LogFileDataBatchProcessor, ProcessOutputBatchProcessor, Clock,
           StopFlushesLogs, StopFlushesOutput, StopMonitor
  <2>3. printed' \in 0..MaxOutput
    <3>1. MaxOutput \in Nat /\ printed \in 0..MaxOutput
      BY OutputAssumption DEF ClientOK
    <3>2. \A n \in Output : n \in 0..MaxOutput
      BY <3>1 DEF Output
    <3> QED BY <2>1, <3>1, <3>2
  <2>4. client' \in {"running", "logs flushed", "output flushed", "stopped"}
    BY <2>2 DEF ClientOK
  <2> QED BY <2>3, <2>4 DEF ClientOK
<1>3. MonitorInv /\ BothOrderly /\ ClientOK => TypeOK
  BY DEF MonitorInv, BothOrderly, LogsOrderly, OutputOrderly, Orderly, ClientOK, TypeOK,
         BufferTypeOK, OutBuffer!BufferTypeOK
<1> QED BY <1>1, <1>2, <1>3, MonitorInvariant, BothInvariant, PTL DEF Spec

\* The offset of a file says what has been read of it, for any number of files, pieces
\* and changes: everything before it, and nothing behind it but what a failed look has
\* made the monitor forget (fileState.lastSize).
THEOREM OffsetsAreTrue == Spec => []OffsetIsTrue
<1>1. MonitorInv => OffsetIsTrue
  <2> SUFFICES ASSUME MonitorInv, NEW f \in Files, Settled(f)
               PROVE  \A i \in 1..Len(content[f]) :
                        LET p == content[f][i]
                        IN  /\ (i <= offset[f] /\ p \notin Blank) => p \in delivered \cup skipped
                            /\ p \in delivered \ forgotten => i <= offset[f]
    BY DEF OffsetIsTrue
  <2>1. Calm(f) /\ ~(job.file = f /\ job.why = "create") /\ offset[f] # Unknown
    BY DEF Settled, Calm
  <2>2. Covered(f)
    BY <2>1 DEF MonitorInv, CoveredInv
  <2>3. Fresh(f)
    BY DEF Settled, MonitorInv, FreshInv
  <2>4. \A i \in 1..Len(content[f]) : content[f][i] \in delivered \ forgotten => i <= offset[f]
    BY <2>1, <2>3 DEF Fresh, Known, Counted
  <2> QED BY <2>1, <2>2, <2>4 DEF Covered
<1> QED BY <1>1, MonitorInvariant, PTL

\* A piece is handed over a second time only for a creation event, or when a look at its
\* file has failed since, however the game rotates, truncates and extends its files
\* (handleFileCreated, checkFileForNewLines).
THEOREM RepeatsAreForCreation == Spec => RepeatedForCreation
<1>1. ASSUME MonitorInv, [Next]_vars
      PROVE  [job # NoJob /\ job' = NoJob /\ job.why # "create"
                => handed' \cap delivered \subseteq forgotten]_monitorVars
  <2> SUFFICES ASSUME MonitorNext, job # NoJob, job' = NoJob, job.why # "create"
               PROVE  handed' \cap delivered \subseteq forgotten
    BY <1>1, MonitorSteps
  <2>0. handed = {} /\ phase = "running" /\ job.file \in Files
    BY <1>1 DEF MonitorInv, JobOK
  <2>1. CASE Read
    <3> DEFINE f == job.file
    <3>1. ASSUME NEW p \in handed', p \in delivered, p \notin forgotten
          PROVE  FALSE
      <4>1. PICK i \in 1..Len(content[f]) :
              Exists(f) /\ offset[f] < i /\ i <= job.size /\ content[f][i] = p
        BY <2>1, <3>1 DEF Read, NewPieces
      <4>2. Fresh(f)
        BY <1>1, <2>0, <4>1 DEF MonitorInv, FreshInv
      <4>3. i <= Known(f)
        BY <2>0, <3>1, <4>1, <4>2 DEF Fresh, Counted
      <4>4. /\ Len(content[f]) \in 0..MaxPieces /\ MaxPieces \in Nat
            /\ offset[f] \in Nat
        BY <1>1, <2>0, <4>1, PiecesAssumption DEF MonitorInv, Contents, MonitorTypeOK, Unknown
      <4> QED BY <4>1, <4>3, <4>4 DEF Known, Unknown
    <3> QED BY <3>1
  <2>2. CASE ~Read
    <3>1. ~Game
      BY <2>0, <1>1, GameSteps DEF MonitorInv, Began, Extended, Gone, Shrunk, Played
    <3>2. handed' \subseteq handed
      BY <2>2, <3>1 DEF MonitorNext, Watch, HandleFileEvent, ScanExistingFiles, CheckFileChanges,
           Stat, ReadFails, CheckNext, TakeLine, End
    <3> QED BY <2>0, <3>2
  <2> QED BY <2>1, <2>2
<1> QED BY <1>1, MonitorInvariant, PTL DEF Spec, RepeatedForCreation

===============================================================================
