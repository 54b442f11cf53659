--------------------------------- MODULE Backups ---------------------------------
(***************************************************************************)
(* Backups of the legacy client (internal/client/client.go): an archive is *)
(* written under a name made of the server and the second, and then the    *)
(* archives of that server beyond the newest few are deleted.  A semaphore *)
(* admits one backup at a time.  Archives are numbered as they are begun,  *)
(* which is also the order of their modification times.                    *)
(***************************************************************************)
EXTENDS Integers, Sequences, FiniteSets

CONSTANTS
  Servers,
  Keep,       \* how many archives of a server are kept
  MaxSecond,  \* bound on the clock
  MaxBackups  \* bound on the backups that are begun

ASSUME BackupsAssumption ==
  Keep \in Nat \ {0} /\ MaxSecond \in Nat /\ MaxBackups \in Nat

VARIABLES
  asked,    \* server and second of each backup begun
  archives, \* the numbers of those whose file is there
  whole,    \* those of them that hold all they should
  step,     \* the backup under way, which is the last: "none", "archiving", "cleaning"
  doomed,   \* archives that cleanOldBackups is about to delete
  reported  \* history: backups whose completion was reported

backupVars == <<asked, archives, whole, step, doomed, reported>>

Numbers == 1..Len(asked)
Current == Len(asked)

\* The archives of the same name that were begun after i.
Namesakes(i) == {j \in Numbers : j > i /\ asked[j] = asked[i]}

BackupInit ==
  /\ asked = <<>>
  /\ archives = {} /\ whole = {} /\ step = "none" /\ doomed = {} /\ reported = {}

-------------------------------------------------------------------------------

\* executeBackup: the archive is created, or an older one of that name is emptied.
BeginBackup(s, second) ==
  /\ step = "none" /\ Len(asked) < MaxBackups
  /\ \A i \in Numbers : asked[i].second <= second
  /\ LET name == [server |-> s, second |-> second]
         others == {i \in archives : asked[i] # name}
     IN /\ asked' = Append(asked, name)
        /\ archives' = others \cup {Len(asked) + 1}
        /\ whole' = whole \cap others
  /\ step' = "archiving"
  /\ UNCHANGED <<doomed, reported>>

\* createBackupArchive fails: the file is removed, which Windows refuses as it is still
\* open; or it cannot be looked at afterwards.
ArchiveFails ==
  /\ step = "archiving"
  /\ archives' \in {archives, archives \ {Current}}
  /\ step' = "none"
  /\ UNCHANGED <<asked, whole, doomed, reported>>

\* Mutant of TooOld: the newest archives are deleted, not the oldest.
TooNew(i) == Cardinality({j \in archives : asked[j].server = asked[i].server /\ j < i}) >= Keep

\* Keep newer archives of its server are there, whatever they hold.
Newer(i) == {j \in archives : asked[j].server = asked[i].server /\ j > i}
TooOld(i) == Cardinality(Newer(i)) >= Keep

\* The walk has come to its end; what could not be read, copied or closed is passed over.
\* cleanOldBackups lists what it will delete.
ArchiveDone ==
  /\ step = "archiving"
  /\ whole' \in {whole, whole \cup {Current}}
  /\ doomed' = {i \in archives : asked[i].server = asked[Current].server /\ TooOld(i)}
  /\ step' = "cleaning"
  /\ UNCHANGED <<asked, archives, reported>>

\* One after the other, the newest first; one that cannot be deleted stays.
DeleteOld ==
  /\ step = "cleaning"
  /\ \E i \in doomed :
       /\ \A j \in doomed : j <= i
       /\ doomed' = doomed \ {i}
       /\ \/ archives' = archives \ {i} /\ whole' = whole \ {i}
          \/ UNCHANGED <<archives, whole>>
  /\ UNCHANGED <<asked, step, reported>>

ReportBackup ==
  /\ step = "cleaning" /\ doomed = {}
  /\ reported' = reported \cup {Current}
  /\ step' = "none"
  /\ UNCHANGED <<asked, archives, whole, doomed>>

BackupStep ==
  \/ \E s \in Servers, second \in 0..MaxSecond : BeginBackup(s, second)
  \/ ArchiveFails
  \/ ArchiveDone
  \/ DeleteOld
  \/ ReportBackup

\* The program ends: what it was writing stays as it is.
BackupsEnd ==
  /\ step' = "none" /\ doomed' = {}
  /\ UNCHANGED <<asked, archives, whole, reported>>

-------------------------------------------------------------------------------
(* Properties *)

BackupTypeOK ==
  /\ asked \in Seq([server : Servers, second : 0..MaxSecond]) /\ Len(asked) <= MaxBackups
  /\ archives \subseteq Numbers /\ whole \subseteq archives
  /\ step \in {"none", "archiving", "cleaning"}
  /\ doomed \subseteq archives /\ reported \subseteq Numbers

\* The archive of a backup whose success is reported is there, and stays, as whole as it
\* is, until Keep newer archives of its server lie beside it or a backup within the same
\* second takes its name: neither a failed backup nor the end of the program during the
\* deletion of old ones costs it (executeBackup, cleanOldBackups).
Replaced(i) == Cardinality(Newer(i)) >= Keep \/ Namesakes(i)' # Namesakes(i)
BackupsAreKept ==
  [][/\ reported' \ reported \subseteq archives'
     /\ \A i \in reported \cap archives : i \in archives' \/ Replaced(i)
     /\ \A i \in reported \cap whole : i \in whole' \/ Replaced(i)]_backupVars

===============================================================================
