------------------------------- MODULE LogMonitor -------------------------------
(***************************************************************************)
(* The monitor of the game's log files (internal/logmonitor/monitor.go).   *)
(* One goroutine handles file events and a ticker; for a file it compares  *)
(* the size with the one up to which it has read, reads what is new and    *)
(* hands the lines to a callback.  Meanwhile the game creates, extends,    *)
(* rotates and truncates its files; the events about it are queued.        *)
(*                                                                         *)
(* A file is a sequence of pieces, numbered in the order in which they are *)
(* written; a piece is what one write adds, a line or a part of one.       *)
(***************************************************************************)
EXTENDS Naturals, SequencesExt

CONSTANTS
  Files,      \* the names isLogFile accepts
  NoFile,     \* not a name
  MaxPieces,  \* bound on the pieces written
  Blank,      \* the pieces that hold only white space
  MaxChanges, \* bound on creations, removals, renamings and truncations
  MaxErrors   \* bound on the failures to look at or to read a file that exists

ASSUME NamesAssumption == NoFile \notin Files
ASSUME PiecesAssumption ==
  /\ MaxPieces \in Nat /\ MaxChanges \in Nat /\ MaxErrors \in Nat
  /\ Blank \subseteq 1..MaxPieces

Pieces == 1..MaxPieces
Absent == <<0>>      \* the content of a file that does not exist
Unknown == MaxPieces + 1
EventKinds == {"create", "write", "remove"}

VARIABLES
  phase,     \* "new", "watching", "running" or "ended"
  content,   \* the pieces of each file
  written,   \* how many pieces have been written
  changes,   \* how many other changes there have been
  events,    \* the watcher's queue
  offset,    \* fileStates[f].lastSize, Unknown when there is no such state
  job,       \* the check under way
  sweep,     \* the files checkFileChanges has still to check
  handed,    \* the lines the callback has still to take, in the order of their numbers
  delivered, \* history: the pieces handed to the callback
  skipped,   \* history: the pieces that were there when the monitor started
  errors,    \* how many failures there have been
  stale,     \* history: the files truncated since they were created, or created when
             \* the monitor had the offset of another one and could not look
  forgotten  \* history: the pieces in a file that were there when the monitor could not
             \* look at it, and have not been read since

disk == <<content, written, changes>>
history == <<delivered, skipped>>
trouble == <<errors, stale, forgotten>>
monitorVars == <<phase, disk, events, offset, job, sweep, handed, history, trouble>>

NoJob == [file |-> NoFile, why |-> "none", size |-> Unknown]

Exists(f) == content[f] # Absent
Held(f) == {p \in Pieces : Exists(f) /\ Contains(content[f], p)}

MonitorInit ==
  /\ phase = "new"
  /\ content \in [Files -> {<<>>, Absent}]
  /\ written = 0 /\ changes = 0
  /\ events = <<>> /\ offset = [f \in Files |-> Unknown]
  /\ job = NoJob /\ sweep = {} /\ handed = {}
  /\ delivered = {} /\ skipped = {}
  /\ errors = 0 /\ stale = {} /\ forgotten = {}

-------------------------------------------------------------------------------
(* The game, and the watcher's queue; equal events in a row become one *)

Notify(kind, f) ==
  LET e == [kind |-> kind, file |-> f]
  IN  events' = IF phase \in {"new", "ended"} \/ (events # <<>> /\ Last(events) = e)
                THEN events ELSE Append(events, e)

Change(f, pieces) ==
  /\ changes < MaxChanges
  /\ changes' = changes + 1
  /\ content' = [content EXCEPT ![f] = pieces]
  /\ stale' = IF Exists(f) /\ pieces # Absent THEN stale \cup {f} ELSE stale \ {f}
  /\ forgotten' = forgotten \ Held(f)
  /\ UNCHANGED <<phase, written, offset, job, sweep, handed, history, errors>>

CreateFile(f) ==
  /\ ~Exists(f)
  /\ Change(f, <<>>)
  /\ Notify("create", f)

AppendPiece(f) ==
  /\ Exists(f) /\ written < MaxPieces
  /\ written' = written + 1
  /\ content' = [content EXCEPT ![f] = Append(@, written')]
  /\ Notify("write", f)
  /\ UNCHANGED <<phase, changes, offset, job, sweep, handed, history, trouble>>

RemoveFile(f) ==
  /\ Exists(f)
  /\ Change(f, Absent)
  /\ Notify("remove", f)

\* A rename is an event the monitor ignores.
RenameFile(f) ==
  /\ Exists(f)
  /\ Change(f, Absent)
  /\ UNCHANGED events

TruncateFile(f) ==
  /\ Exists(f) /\ content[f] # <<>>
  /\ Change(f, <<>>)
  /\ Notify("write", f)

-------------------------------------------------------------------------------
(* The monitor *)

\* Looking at a file fails: it is not there, or the call itself fails.
LookFails(f) ==
  /\ Exists(f) => errors < MaxErrors
  /\ errors' = IF Exists(f) THEN errors + 1 ELSE errors
  /\ forgotten' = forgotten \cup Held(f)

\* Start adds the directory to the watcher, or returns at once when it cannot or
\* when there is no directory.
Watch ==
  /\ phase = "new"
  /\ phase' \in {"watching", "ended"}
  /\ UNCHANGED <<disk, events, offset, job, sweep, handed, history, trouble>>

\* scanExistingFiles: what the files hold already is not news, but in those that could
\* not be looked at; the failures of a scan count as one.  Then the loop starts.
ScanExistingFiles ==
  /\ phase = "watching"
  /\ phase' = "running"
  /\ \E unseen \in SUBSET Files :
       /\ unseen # {} => errors < MaxErrors
       /\ errors' = IF unseen = {} THEN errors ELSE errors + 1
       /\ offset' = [f \in Files |-> IF Exists(f) /\ f \notin unseen THEN Len(content[f])
                                     ELSE Unknown]
  /\ skipped' = UNION {Held(f) : f \in Files}
  /\ UNCHANGED <<disk, events, job, sweep, handed, delivered, stale, forgotten>>

\* monitorLoop stands in its select.
Selecting == phase = "running" /\ job = NoJob /\ sweep = {} /\ handed = {}

Check(f, why) == job' = [file |-> f, why |-> why, size |-> Unknown]

\* Mutant of Created: a state that is there already is kept.
CreatedKeepsOffset(f) ==
  \/ /\ Exists(f)
     /\ offset' = [offset EXCEPT ![f] = IF @ = Unknown THEN 0 ELSE @]
     /\ Check(f, "create")
     /\ UNCHANGED trouble
  \/ ~Exists(f) /\ UNCHANGED <<offset, job, trouble>>

\* handleFileCreated: a state that starts at 0, whatever was read before; or nothing,
\* when the file cannot be looked at.
Created(f) ==
  \/ /\ Exists(f)
     /\ offset' = [offset EXCEPT ![f] = 0]
     /\ Check(f, "create")
     /\ UNCHANGED trouble
  \/ /\ LookFails(f)
     /\ stale' = IF Exists(f) /\ offset[f] # Unknown THEN stale \cup {f} ELSE stale
     /\ UNCHANGED <<offset, job>>

\* handleFileRemoved.
Removed(f) ==
  /\ offset' = [offset EXCEPT ![f] = Unknown]
  /\ UNCHANGED <<job, trouble>>

HandleFileEvent ==
  /\ Selecting /\ events # <<>>
  /\ LET e == Head(events)
     IN  CASE e.kind = "create" -> Created(e.file)
           [] e.kind = "write" -> Check(e.file, "write") /\ UNCHANGED <<offset, trouble>>
           [] e.kind = "remove" -> Removed(e.file)
  /\ events' = Tail(events)
  /\ UNCHANGED <<phase, disk, sweep, handed, history>>

\* checkFileChanges, each second.
CheckFileChanges ==
  /\ Selecting
  /\ sweep' = {f \in Files : offset[f] # Unknown}
  /\ UNCHANGED <<phase, disk, events, offset, job, handed, history, trouble>>

CheckNext(f) ==
  /\ f \in sweep /\ job = NoJob /\ handed = {}
  /\ sweep' = sweep \ {f}
  /\ Check(f, "tick")
  /\ UNCHANGED <<phase, disk, events, offset, handed, history, trouble>>

\* The size up to which a file has been read; without a state, one that starts at 0.
Known(f) == IF offset[f] = Unknown THEN 0 ELSE offset[f]

\* Mutant of Stat: a file that has grown by one piece is taken for unchanged.
StatTooLazy ==
  /\ job # NoJob /\ job.size = Unknown
  /\ LET f == job.file
     IN  \/ /\ LookFails(f)
            /\ offset' = [offset EXCEPT ![f] = Unknown] /\ job' = NoJob
         \/ /\ Exists(f)
            /\ offset' = [offset EXCEPT ![f] = Known(f)]
            /\ job' = IF Len(content[f]) <= Known(f) + 1 THEN NoJob
                      ELSE [job EXCEPT !.size = Len(content[f])]
            /\ UNCHANGED <<errors, forgotten>>
  /\ UNCHANGED <<phase, disk, events, sweep, handed, history, stale>>

\* checkFileForNewLines up to the comparison of the sizes.  Whatever the reason why the
\* file cannot be looked at, it is no longer monitored.
Stat ==
  /\ job # NoJob /\ job.size = Unknown
  /\ LET f == job.file
     IN  \/ /\ LookFails(f)
            /\ offset' = [offset EXCEPT ![f] = Unknown] /\ job' = NoJob
         \/ /\ Exists(f)
            /\ offset' = [offset EXCEPT ![f] = Known(f)]
            /\ job' = IF Len(content[f]) <= Known(f) THEN NoJob
                      ELSE [job EXCEPT !.size = Len(content[f])]
            /\ UNCHANGED <<errors, forgotten>>
  /\ UNCHANGED <<phase, disk, events, sweep, handed, history, stale>>

\* What readNewLinesWithEncoding finds of the range that was new at the Stat: the
\* pieces that are not blank.
NewPieces(f) ==
  {p \in Pieces \ Blank :
     Exists(f) /\ \E i \in 1..Len(content[f]) :
                   offset[f] < i /\ i <= job.size /\ content[f][i] = p}

\* Mutant of Read: the new size is not remembered.
ReadAndForget ==
  /\ job.size # Unknown
  /\ handed' = NewPieces(job.file)
  /\ delivered' = delivered \cup handed'
  /\ job' = NoJob
  /\ UNCHANGED <<phase, disk, events, offset, sweep, skipped, trouble>>

\* Mutant of Read: the size is added to the offset.
ReadAndAdd ==
  /\ job.size # Unknown
  /\ handed' = NewPieces(job.file)
  /\ delivered' = delivered \cup handed'
  /\ offset' = [offset EXCEPT ![job.file] = @ + job.size]
  /\ job' = NoJob
  /\ UNCHANGED <<phase, disk, events, sweep, skipped, trouble>>

\* The rest of checkFileForNewLines: only lines that are not blank move the offset.
Read ==
  /\ job.size # Unknown
  /\ handed' = NewPieces(job.file)
  /\ delivered' = delivered \cup handed'
  /\ forgotten' = forgotten \ handed'
  /\ offset' = IF handed' = {} THEN offset ELSE [offset EXCEPT ![job.file] = job.size]
  /\ job' = NoJob
  /\ UNCHANGED <<phase, disk, events, sweep, skipped, errors, stale>>

\* The file cannot be opened or read; after a creation, what a later check reads may have
\* been read before.
ReadFails ==
  /\ job.size # Unknown /\ errors < MaxErrors
  /\ errors' = errors + 1
  /\ forgotten' = IF job.why = "create" THEN forgotten \cup Held(job.file) ELSE forgotten
  /\ job' = NoJob
  /\ UNCHANGED <<phase, disk, events, offset, sweep, handed, history, stale>>

\* The callback takes the lines one by one (onLogUpdate).
TakeLine(line) ==
  /\ line \in handed /\ \A other \in handed : line <= other
  /\ handed' = handed \ {line}
  /\ UNCHANGED <<phase, disk, events, offset, job, sweep, history, trouble>>

\* Stop, which waits for the loop to come back to its select; or there was no monitor.
End ==
  /\ Selecting \/ phase = "new"
  /\ phase' = "ended"
  /\ events' = <<>>
  /\ UNCHANGED <<disk, offset, job, sweep, handed, history, trouble>>

-------------------------------------------------------------------------------

Game ==
  \E f \in Files :
    \/ CreateFile(f)
    \/ AppendPiece(f)
    \/ RemoveFile(f)
    \/ RenameFile(f)
    \/ TruncateFile(f)

-------------------------------------------------------------------------------
(* Properties *)

MonitorTypeOK ==
  /\ phase \in {"new", "watching", "running", "ended"}
  /\ content \in [Files -> Seq(Pieces) \cup {Absent}]
  /\ written \in 0..MaxPieces /\ changes \in 0..MaxChanges
  /\ events \in Seq([kind : EventKinds, file : Files])
  /\ offset \in [Files -> 0..Unknown]
  /\ job \in [file : Files \cup {NoFile}, why : {"none", "create", "write", "tick"},
              size : 0..Unknown]
  /\ sweep \subseteq Files
  /\ handed \subseteq Pieces
  /\ delivered \subseteq Pieces /\ skipped \subseteq Pieces
  /\ errors \in 0..MaxErrors /\ stale \subseteq Files /\ forgotten \subseteq Pieces

\* The offset of a file says what has been read of it: what lies before it has been
\* handed over or was there at the start, and what has been handed over lies before
\* it, unless a look at the file has failed in between.  While the creation of another
\* file of the same name has not been dealt with, or after a truncation, it says nothing
\* (fileState.lastSize).
Settled(f) ==
  /\ phase = "running" /\ Exists(f) /\ offset[f] # Unknown /\ f \notin stale
  /\ \A i \in 1..Len(events) : events[i].file = f => events[i].kind = "write"
  /\ job.file = f => job.why # "create"
OffsetIsTrue ==
  \A f \in Files : Settled(f) =>
    \A i \in 1..Len(content[f]) :
      LET p == content[f][i]
      IN  /\ (i <= offset[f] /\ p \notin Blank) => p \in delivered \cup skipped
          /\ p \in delivered \ forgotten => i <= offset[f]

\* A piece is handed over a second time only for a creation event: the rotated or
\* newly found file is read from its beginning (handleFileCreated).  When a look at a
\* file has failed, its pieces may be handed over once more (checkFileForNewLines).
RepeatedForCreation ==
  [][job # NoJob /\ job' = NoJob /\ job.why # "create"
       => handed' \cap delivered \subseteq forgotten]_monitorVars

\* What the game writes is handed over in the end, unless the file goes away or has
\* shrunk, or the monitor ends or has found the piece at its start, or a look at the
\* file has failed once the piece was in it.
EventuallyRead ==
  \A f \in Files, p \in Pieces \ Blank :
    p \in Held(f)
      ~> (p \in delivered \cup skipped \cup forgotten
          \/ ~Exists(f) \/ f \in stale \/ phase = "ended")

===============================================================================
