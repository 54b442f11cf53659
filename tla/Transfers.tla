-------------------------------- MODULE Transfers --------------------------------
(***************************************************************************)
(* File requests of the legacy client (internal/client/client.go): a file  *)
(* is read and sent in chunks, streamed to a cloud store, written,         *)
(* fetched from a cloud store, deleted or listed.  Every request has a     *)
(* goroutine of its own; a semaphore admits a few and refuses the rest.    *)
(* All requests here are about one file.  Nothing locks it: a write        *)
(* truncates it in place and fills it piece by piece, and the game server  *)
(* may do to it what it likes.                                             *)
(***************************************************************************)
EXTENDS Integers, Sequences, FiniteSets

CONSTANTS
  Requests,
  MaxTransfers,  \* maxConcurrentFileOps
  ChunkSize,     \* wsFileChunkSize, in units of the file
  MaxLength,     \* bound on the file's length
  MaxChanges     \* bound on the game server's changes of the file

ASSUME TransfersAssumption ==
  /\ IsFiniteSet(Requests)
  /\ MaxTransfers \in Nat \ {0} /\ ChunkSize \in Nat \ {0}
  /\ MaxLength \in Nat /\ MaxChanges \in Nat

VARIABLES
  exists,   \* the file
  units,    \* its content: who has written each unit
  changes,  \* how often the game server has changed it
  kind,     \* what each request asks for
  place,    \* where it stands
  answer,   \* what the client has answered last
  position, \* how much it has read and handed on, or written
  size,     \* the length that was seen (reads) or that is to be written
  attempts, \* uploads begun
  touched   \* history: what somebody else has done to the file since it began with it,
            \* "no", "written" or "emptied"

file == <<exists, units, changes>>
progress == <<position, size, attempts>>
transferVars == <<file, kind, place, answer, progress, touched>>

Kinds == {"read", "upload", "write", "delete", "browse"}
Opened == {"reading", "streaming", "writing"}
Running == {r \in Requests : place[r] \in Opened \cup {"begun", "opening", "judging"}}

TransferInit ==
  /\ exists \in BOOLEAN
  /\ units \in {[i \in 1..n |-> "game"] : n \in IF exists THEN 0..MaxLength ELSE {0}}
  /\ changes = 0
  /\ kind = [r \in Requests |-> "none"] /\ place = [r \in Requests |-> "none"]
  /\ answer = [r \in Requests |-> "none"]
  /\ position = [r \in Requests |-> 0] /\ size = [r \in Requests |-> 0]
  /\ attempts = [r \in Requests |-> 0]
  /\ touched = [r \in Requests |-> "no"]

\* The file changes under the others who have to do with it.
Touch(others, how) ==
  touched' = [q \in Requests |->
                IF q \notin others \/ place[q] = "none" \/ touched[q] = "emptied"
                THEN touched[q] ELSE how]

\* The game server, or whatever else runs on the machine, extends or empties the file.
GameWrites ==
  /\ exists /\ changes < MaxChanges
  /\ changes' = changes + 1
  /\ \/ /\ Len(units) < MaxLength
        /\ units' = Append(units, "game")
        /\ Touch(Requests, "written")
     \/ /\ units # <<>> /\ units' = <<>>
        /\ Touch(Requests, "emptied")
  /\ UNCHANGED <<exists, kind, place, answer, progress>>

Goes(r, to) == place' = [place EXCEPT ![r] = to] /\ UNCHANGED kind
Answers(r, what) ==
  /\ Goes(r, "ended")
  /\ answer' = [answer EXCEPT ![r] = what]

-------------------------------------------------------------------------------
(* Admission *)

\* Mutant of RunLimited: the semaphore is not looked at.
RunUnlimited(r, k) ==
  /\ place[r] = "none"
  /\ kind' = [kind EXCEPT ![r] = k]
  /\ place' = [place EXCEPT ![r] = "begun"]
  /\ UNCHANGED <<file, answer, progress, touched>>

\* runLimited: a request that finds no room is refused at once.
RunLimited(r, k) ==
  /\ place[r] = "none"
  /\ kind' = [kind EXCEPT ![r] = k]
  /\ IF Cardinality(Running) < MaxTransfers
     THEN place' = [place EXCEPT ![r] = "begun"] /\ UNCHANGED answer
     ELSE /\ place' = [place EXCEPT ![r] = "ended"]
          /\ answer' = [answer EXCEPT ![r] = "busy"]
  /\ UNCHANGED <<file, progress, touched>>

Begins(r, k) == place[r] = "begun" /\ kind[r] = k

\* The path leads outside, the file is not there, a directory cannot be made, the
\* arguments are not usable.
Refuse(r) ==
  /\ place[r] = "begun"
  /\ Answers(r, "error")
  /\ UNCHANGED <<file, progress, touched>>

\* handleFileBrowse and scanDirectory.
Browse(r) ==
  /\ Begins(r, "browse")
  /\ Answers(r, "ok")
  /\ UNCHANGED <<file, progress, touched>>

-------------------------------------------------------------------------------
(* Reading: handleFileRead and handleFileDownload *)

\* sendFileChunks asks for the size, and what it will send is settled.
StatFile(r) ==
  /\ Begins(r, "read") /\ exists
  /\ Goes(r, "opening")
  /\ size' = [size EXCEPT ![r] = Len(units)]
  /\ touched' = [touched EXCEPT ![r] = "no"]
  /\ UNCHANGED <<file, answer, position, attempts>>

OpenFile(r) ==
  /\ place[r] = "opening"
  /\ IF exists THEN Goes(r, "reading") /\ UNCHANGED answer ELSE Answers(r, "error")
  /\ UNCHANGED <<file, progress, touched>>

\* Mutant of ChunkCount: the last, shorter chunk is not counted.
FullChunks(length) == IF length < ChunkSize THEN 1 ELSE length \div ChunkSize

\* The number of chunks for a length; one for an empty file.
ChunkCount(length) == IF length = 0 THEN 1 ELSE (length + ChunkSize - 1) \div ChunkSize

\* How much r reads next: a chunk, or what there is from its position.
NextPiece(r) ==
  IF Len(units) >= position[r] + ChunkSize THEN ChunkSize
  ELSE IF Len(units) > position[r] THEN Len(units) - position[r] ELSE 0

\* One chunk is read and handed to the connection; the last one by number says done, and
\* a short one ends the sending whatever its number.
SendChunk(r) ==
  LET last == position[r] \div ChunkSize = ChunkCount(size[r]) - 1
      short == NextPiece(r) < ChunkSize
  IN /\ place[r] = "reading"
     /\ position' = [position EXCEPT ![r] = @ + NextPiece(r)]
     /\ IF last THEN Answers(r, "done")
        ELSE IF short THEN Answers(r, "nothing")
        ELSE UNCHANGED <<kind, place, answer>>
     /\ UNCHANGED <<file, size, attempts, touched>>

\* An error other than the end of the file.
ReadFails(r) ==
  /\ place[r] \in {"reading", "streaming"}
  /\ Answers(r, "error")
  /\ UNCHANGED <<file, progress, touched>>

-------------------------------------------------------------------------------
(* Cloud upload *)

\* newStreamingMultipartBody opens the file anew for every attempt.
BeginUpload(r) ==
  /\ Begins(r, "upload") /\ exists /\ attempts[r] < 2
  /\ Goes(r, "streaming")
  /\ attempts' = [attempts EXCEPT ![r] = @ + 1]
  /\ position' = [position EXCEPT ![r] = 0]
  /\ touched' = [touched EXCEPT ![r] = "no"]
  /\ UNCHANGED <<file, answer, size>>

\* io.Copy, until nothing is left to read.
StreamPiece(r) ==
  /\ place[r] = "streaming"
  /\ position' = [position EXCEPT ![r] = @ + NextPiece(r)]
  /\ IF NextPiece(r) = 0 THEN Goes(r, "judging") ELSE UNCHANGED <<kind, place>>
  /\ UNCHANGED <<file, answer, size, attempts, touched>>

\* The store accepts what it has got, or not.
JudgeUpload(r) ==
  /\ place[r] = "judging"
  /\ Answers(r, "ok") \/ Answers(r, "error")
  /\ UNCHANGED <<file, progress, touched>>

\* The store names another region, perhaps before it has got everything:
\* uploadToQiniuWithRetry tries once more.
RetryUpload(r) ==
  /\ place[r] \in {"streaming", "judging"} /\ attempts[r] = 1
  /\ Goes(r, "begun")
  /\ UNCHANGED <<file, answer, progress, touched>>

-------------------------------------------------------------------------------
(* Writing: handleFileWrite, handleFileUpload and handleCloudDownload *)

\* The file is created or emptied.
BeginWrite(r) ==
  /\ Begins(r, "write")
  /\ exists' = TRUE /\ units' = <<>>
  /\ Goes(r, "writing")
  /\ size' \in {[size EXCEPT ![r] = n] : n \in 0..MaxLength}
  /\ touched' = [q \in Requests |->
                    IF q = r THEN "no" ELSE IF place[q] = "none" THEN touched[q] ELSE "emptied"]
  /\ UNCHANGED <<changes, answer, position, attempts>>

\* One more unit, at the writer's own offset; what others have emptied meanwhile is a gap.
WritePiece(r) ==
  /\ place[r] = "writing" /\ position[r] < size[r]
  /\ LET end == position[r] + 1
     IN /\ units' = [i \in 1..(IF Len(units) < end THEN end ELSE Len(units)) |->
                       IF i = end THEN r ELSE IF i <= Len(units) THEN units[i] ELSE "gap"]
        /\ position' = [position EXCEPT ![r] = end]
  /\ Touch(Requests \ {r}, "written")
  /\ UNCHANGED <<exists, changes, kind, place, answer, size, attempts>>

\* Mutant of EndWrite: it is answered before everything is written.
EndWriteEarly(r) ==
  /\ place[r] = "writing"
  /\ Answers(r, "ok")
  /\ UNCHANGED <<file, progress, touched>>

EndWrite(r) ==
  /\ place[r] = "writing" /\ position[r] = size[r]
  /\ Answers(r, "ok")
  /\ UNCHANGED <<file, progress, touched>>

\* What was written stays.
WriteFails(r) ==
  /\ place[r] = "writing"
  /\ Answers(r, "error")
  /\ UNCHANGED <<file, progress, touched>>

\* os.Remove; Windows does not remove a file that is open.
Delete(r) ==
  /\ Begins(r, "delete") /\ exists
  /\ \A q \in Requests : place[q] \notin Opened
  /\ exists' = FALSE /\ units' = <<>>
  /\ Answers(r, "ok")
  /\ Touch(Requests \ {r}, "emptied")
  /\ UNCHANGED <<changes, progress>>

-------------------------------------------------------------------------------

TransferStep(r) ==
  \/ Refuse(r)
  \/ Browse(r)
  \/ StatFile(r)
  \/ OpenFile(r)
  \/ SendChunk(r)
  \/ ReadFails(r)
  \/ BeginUpload(r)
  \/ StreamPiece(r)
  \/ JudgeUpload(r)
  \/ RetryUpload(r)
  \/ BeginWrite(r)
  \/ WritePiece(r)
  \/ EndWrite(r)
  \/ WriteFails(r)
  \/ Delete(r)

\* The program ends: nobody answers any more.
TransfersEnd ==
  /\ place' = [r \in Requests |-> IF r \in Running THEN "ended" ELSE place[r]]
  /\ UNCHANGED <<file, kind, answer, progress, touched>>

-------------------------------------------------------------------------------
(* Properties *)

TransferTypeOK ==
  /\ exists \in BOOLEAN
  /\ units \in Seq(Requests \cup {"game", "gap"}) /\ Len(units) <= MaxLength
  /\ changes \in 0..MaxChanges
  /\ kind \in [Requests -> Kinds \cup {"none"}]
  /\ place \in [Requests -> Opened \cup {"none", "begun", "opening", "judging", "ended"}]
  /\ answer \in [Requests -> {"none", "busy", "error", "nothing", "ok", "done"}]
  /\ {position, size} \subseteq [Requests -> 0..MaxLength] /\ attempts \in [Requests -> 0..2]
  /\ touched \in [Requests -> {"no", "written", "emptied"}]
  /\ Cardinality(Running) <= MaxTransfers

\* A read falls silent only when the file was emptied under it, and says that it is done
\* only when it has sent the length it announced; where nobody has touched the file, all
\* of it was sent, or uploaded (sendFileChunks, uploadToQiniuWithRetry).
StreamsAreWhole ==
  \A r \in Requests :
    /\ answer[r] = "nothing" => touched[r] = "emptied"
    /\ kind[r] = "read" /\ answer[r] = "done" =>
         /\ touched[r] # "emptied" => position[r] >= size[r]
         /\ touched[r] = "no" => position[r] = Len(units)
    /\ kind[r] = "upload" /\ answer[r] = "ok" /\ touched[r] = "no" => position[r] = Len(units)

\* What was answered as written is in the file until somebody else changes it; when
\* requests write it at the same time, each leaves no gap and nothing of an earlier content
\* in its length, until it is emptied (handleFileWrite, handleFileUpload,
\* downloadFileFromURL).
WritesAreWhole ==
  \A r \in Requests :
    kind[r] = "write" /\ answer[r] = "ok" =>
      /\ touched[r] = "no" => exists /\ units = [i \in 1..size[r] |-> r]
      /\ touched[r] = "written" =>
           exists /\ Len(units) >= size[r] /\ \A i \in 1..size[r] : units[i] \in Requests

===============================================================================
