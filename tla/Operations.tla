-------------------------------- MODULE Operations --------------------------------
(***************************************************************************)
(* The file requests and the backups of one client program, under its two  *)
(* semaphores, with the program ending and starting again at any moment.   *)
(***************************************************************************)
EXTENDS Transfers, Backups

CONSTANT MaxOperations  \* bound on the requests, the backups and the changes by others together

vars == <<transferVars, backupVars>>

Init == TransferInit /\ BackupInit

HasRoom ==
  Len(asked) + Cardinality({r \in Requests : place[r] # "none"}) + changes < MaxOperations

HandleFileMessage ==
  /\ HasRoom
  /\ \E r \in Requests, k \in Kinds : RunLimited(r, k)
  /\ UNCHANGED backupVars

Transfer ==
  /\ \E r \in Requests : TransferStep(r)
  /\ UNCHANGED backupVars

\* handleBackupStart; a second backup is refused by the semaphore, and one whose path is
\* not usable by the checks before it.
Backup ==
  /\ step # "none" \/ HasRoom
  /\ BackupStep
  /\ UNCHANGED transferVars

Game ==
  /\ HasRoom
  /\ GameWrites
  /\ UNCHANGED backupVars

EndProgram == TransfersEnd /\ BackupsEnd

Next ==
  \/ HandleFileMessage
  \/ Transfer
  \/ Backup
  \/ Game
  \/ EndProgram

Spec == Init /\ [][Next]_vars

-------------------------------------------------------------------------------

TypeOK == TransferTypeOK /\ BackupTypeOK

\* What the client reports of a file request is so.
ReportsAreTrue == StreamsAreWhole /\ WritesAreWhole

===============================================================================
