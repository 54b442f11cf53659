--------------------------- MODULE LegacyClientProofs ---------------------------
(***************************************************************************)
(* The flags of the installation and the files of the client's update of   *)
(* itself, for any number of updates of either kind.                       *)
(***************************************************************************)
EXTENDS LegacyClient, TLAPS

USE DEF Places, Contents, Whole, Programs, AtWork

-------------------------------------------------------------------------------
(* The flags *)

\* What an update has saved is the configured value, for as long as it borrows it alone.
SavedIsConfigured ==
  ~overlapped => \A w \in Installers : Borrows(w) => saved[w] = AutoStartAfterInstall

\* The automatic installation belongs to the client that runs.
AutoAfterStart == ~started => auto = "idle"

InstallInv == InstallTypeOK /\ InstallFlags /\ SavedIsConfigured /\ AutoAfterStart

\* The installation keeps its types and flags in every step of its own
\* (handleServerUpdateInstall, performAutoInstall).
LEMMA InstallSteps ==
  ASSUME InstallInv, Messages \/ Background \/ ServerEnds
  PROVE  InstallInv'
<1> USE DEF InstallInv, InstallTypeOK, InstallFlags, FlagHasOwner, AutoStartReturns,
            SavedIsConfigured, AutoAfterStart, AutoInstalls, Borrows, flags, goroutines, game, GoStart,
            Reading
<1> USE ConfigAssumption, StartsAssumption
<1>1. CASE Messages
  <2>1. CASE StartClient  BY <2>1 DEF StartClient
  <2>2. CASE HandleServerStart  BY <2>2 DEF HandleServerStart
  <2>3. CASE UpdateServerConfig  BY <2>3 DEF UpdateServerConfig
  <2>4. CASE HandleDownloadSteamCmd  BY <2>4 DEF HandleDownloadSteamCmd
  <2>5. CASE HandleServerStop  BY <2>5 DEF HandleServerStop
  <2>6. CASE RestartServer  BY <2>6 DEF RestartServer
  <2>7. CASE BeginUpdate  BY <2>7 DEF BeginUpdate
  <2>8. CASE SpawnUpdate  BY <2>8 DEF SpawnUpdate
  <2>9. QED  BY <1>1, <2>1, <2>2, <2>3, <2>4, <2>5, <2>6, <2>7, <2>8 DEF Messages
<1>2. CASE Background
  <2>1. CASE AutoInstallBegins  BY <2>1 DEF AutoInstallBegins
  <2>2. CASE AutoInstallPrepares  BY <2>2 DEF AutoInstallPrepares, PrepareSteamCmd
  <2>3. CASE AutoInstallUpdates  BY <2>3 DEF AutoInstallUpdates, RunSteamCmd
  <2>4. CASE AutoInstallInitialises
    BY <2>4 DEF AutoInstallInitialises, InitializeComponents
  <2>5. CASE AutoInstallEnds  BY <2>5 DEF AutoInstallEnds
  <2>6. ASSUME NEW w \in Installers,
               \/ SaveAutoStart(w) \/ ClearAutoStart(w) \/ UpdatePrepares(w)
               \/ UpdateInstalls(w) \/ RestoreAutoStart(w) \/ UpdateEnds(w)
        PROVE  InstallInv'
    <3> USE DEF Moves
    <3>1. CASE SaveAutoStart(w)
      <4>1. InstallTypeOK' /\ FlagHasOwner' /\ AutoAfterStart'  BY <3>1 DEF SaveAutoStart
      <4>2. ASSUME ~overlapped'
            PROVE  /\ ~overlapped
                   /\ \A v \in Installers : ~Borrows(v)
                   /\ saved' = [saved EXCEPT ![w] = AutoStartAfterInstall]
                   /\ \A v \in Installers : Borrows(v)' <=> v = w
        BY <3>1, <4>2 DEF SaveAutoStart
      <4>3. AutoStartReturns' /\ SavedIsConfigured'  BY <4>2
      <4>4. QED  BY <4>1, <4>3
    <3>2. CASE ClearAutoStart(w)  BY <3>2 DEF ClearAutoStart
    <3>3. CASE UpdatePrepares(w)
      <4>1. PICK next \in {"updating", "restoring"} :
              /\ Moves(w, "preparing", next) /\ PrepareSteamCmd(next)
              /\ UNCHANGED <<installed, server, flags, starting>>
        BY <3>3 DEF UpdatePrepares
      <4>2. steamcmd' \in BOOLEAN  BY <4>1 DEF PrepareSteamCmd
      <4>3. \A v \in Installers : Borrows(v)' <=> Borrows(v)  BY <4>1
      <4>4. QED  BY <4>1, <4>2, <4>3
    <3>4. CASE UpdateInstalls(w)  BY <3>4 DEF UpdateInstalls, RunSteamCmd
    <3>5. CASE RestoreAutoStart(w)
      <4>1. InstallTypeOK' /\ FlagHasOwner' /\ AutoAfterStart'  BY <3>5 DEF RestoreAutoStart
      <4>2. ASSUME ~overlapped
            PROVE  /\ saved[w] = AutoStartAfterInstall
                   /\ \A v \in Installers : ~Borrows(v)'
        BY <3>5, <4>2 DEF RestoreAutoStart
      <4>3. AutoStartReturns' /\ SavedIsConfigured'  BY <3>5, <4>2 DEF RestoreAutoStart
      <4>4. QED  BY <4>1, <4>3
    <3>6. CASE UpdateEnds(w)  BY <3>6 DEF UpdateEnds, InitializeComponents
    <3>7. QED  BY <2>6, <3>1, <3>2, <3>3, <3>4, <3>5, <3>6
  <2>7. CASE LaunchServer  BY <2>7 DEF LaunchServer
  <2>8. QED  BY <1>2, <2>1, <2>2, <2>3, <2>4, <2>5, <2>6, <2>7 DEF Background
<1>3. CASE ServerEnds  BY <1>3 DEF ServerEnds
<1>4. QED  BY <1>1, <1>2, <1>3

-------------------------------------------------------------------------------
(* The files *)

\* Scripts work one after the other.
Alone == \A u, v \in Updates : script[u] \in AtWork /\ script[v] \in AtWork => u = v

\* A script that is to copy has a whole file to copy, and one to restore.
HasFiles ==
  \A u \in Updates :
    /\ script[u] \in {"saving", "installing", "copying"} => fresh \in Whole
    /\ script[u] \in {"installing", "copying", "restoring"} => backup \in Whole

\* A program in part is one that is being copied or restored, or that was left so.
TornIsLeft ==
  /\ exe \in Whole \cup {"torn"}
  /\ exe = "torn" =>
       /\ ~program /\ backup \in Whole
       /\ \A u \in Updates :
            script[u] \in AtWork => script[u] \in {"copying", "restoring"}

\* Nothing of an update runs in a program that has ended.
OverWithProgram == ~program => \A u \in Updates : update[u] \in {"none", "over"}

UpdateInv ==
  /\ UpdateTypeOK /\ OverWithProgram
  /\ ~clashed => Alone /\ HasFiles /\ TornIsLeft

\* Every step of an update keeps its files (CreateUpdaterScript).
LEMMA ScriptSteps ==
  ASSUME UpdateInv, NEW u \in Updates, ScriptStep(u) \/ RestartProgram(u)
  PROVE  UpdateInv'
<1> USE DEF UpdateInv, UpdateTypeOK, OverWithProgram, Alone, HasFiles, TornIsLeft,
            Continues, files
<1>1. CASE BeginDownload(u)  BY <1>1 DEF BeginDownload
<1>2. CASE Download(u)  BY <1>2 DEF Download
<1>3. CASE SaveProgram(u)  BY <1>3 DEF SaveProgram
<1>4. CASE SaveFails(u)  BY <1>4 DEF SaveFails
<1>5. CASE BeginCopy(u)  BY <1>5 DEF BeginCopy
<1>6. CASE CopyRefused(u)  BY <1>6 DEF CopyRefused
<1>7. CASE CopyOver(u)  BY <1>7 DEF CopyOver
<1>8. CASE CopyFails(u)  BY <1>8 DEF CopyFails
<1>9. CASE Restore(u)  BY <1>9 DEF Restore
<1>10. CASE CleanUp(u)  BY <1>10 DEF CleanUp
<1>11. CASE ScriptFails(u)  BY <1>11 DEF ScriptFails
<1>12. CASE RestartProgram(u)  BY <1>12 DEF RestartProgram
<1>13. QED
  BY <1>1, <1>2, <1>3, <1>4, <1>5, <1>6, <1>7, <1>8, <1>9, <1>10, <1>11, <1>12 DEF ScriptStep

\* So does every step in the program (performSelfUpdateWithURL).
LEMMA ProgramSteps ==
  ASSUME UpdateInv,
         \/ UpdateProgramEnds
         \/ \E u \in Updates : \/ HandleClientUpdate(u) \/ Prepared(u)
                              \/ UpdateFails(u) \/ ExecuteUpdate(u)
  PROVE  UpdateInv'
<1> USE DEF UpdateInv, UpdateTypeOK, OverWithProgram, Alone, HasFiles, TornIsLeft,
            Proceeds, files
<1>1. CASE UpdateProgramEnds  BY <1>1 DEF UpdateProgramEnds
<1>2. ASSUME NEW u \in Updates, \/ HandleClientUpdate(u) \/ Prepared(u)
                                \/ UpdateFails(u) \/ ExecuteUpdate(u)
      PROVE  UpdateInv'
  <2>1. CASE HandleClientUpdate(u)  BY <2>1 DEF HandleClientUpdate
  <2>2. CASE Prepared(u)  BY <2>2 DEF Prepared
  <2>3. CASE UpdateFails(u)  BY <2>3 DEF UpdateFails
  <2>4. CASE ExecuteUpdate(u)  BY <2>4 DEF ExecuteUpdate
  <2>5. QED  BY <1>2, <2>1, <2>2, <2>3, <2>4
<1>3. QED  BY <1>1, <1>2

-------------------------------------------------------------------------------
(* The client *)

Inv == InstallInv /\ UpdateInv

\* Nothing moves, nothing breaks.
LEMMA InstallStutters ==
  ASSUME InstallInv, UNCHANGED <<started, flags, reader, auto, worker, starting>>,
         UNCHANGED <<installed, steamcmd>>, server' \in BOOLEAN
  PROVE  InstallInv'
BY DEF InstallInv, InstallTypeOK, InstallFlags, FlagHasOwner, AutoStartReturns,
       SavedIsConfigured, AutoAfterStart, AutoInstalls, Borrows, flags

\* A step of another part leaves the update as it was.
LEMMA UpdateStutters == UpdateInv /\ UNCHANGED updateVars => UpdateInv'
BY DEF updateVars, files, UpdateInv, UpdateTypeOK, OverWithProgram, Alone, HasFiles, TornIsLeft

\* The program may end anywhere: the flags and what was borrowed end with it.
LEMMA InstallEnds == InstallInv /\ ProgramEnds => InstallInv'
<1> SUFFICES ASSUME InstallInv, ProgramEnds  PROVE InstallInv'
  OBVIOUS
<1>1. InstallTypeOK'
  <2>1. AutoStartAfterInstall \in BOOLEAN /\ 0 \in 0..MaxStarts
    BY ConfigAssumption, StartsAssumption
  <2>2. QED  BY <2>1 DEF ProgramEnds, InstallInv, InstallTypeOK, game
<1>2. \A w \in Installers : ~Borrows(w)'  BY DEF ProgramEnds, Borrows
<1>3. QED
  BY <1>1, <1>2
     DEF ProgramEnds, InstallInv, InstallFlags, FlagHasOwner, AutoStartReturns,
         SavedIsConfigured, AutoAfterStart, AutoInstalls

\* The installation starts in order.
LEMMA InstallBegins == InstallInit => InstallInv
<1> SUFFICES ASSUME InstallInit  PROVE InstallInv
  OBVIOUS
<1>1. InstallTypeOK
  <2>1. AutoStartAfterInstall \in BOOLEAN /\ 0 \in 0..MaxStarts
    BY ConfigAssumption, StartsAssumption
  <2>2. QED  BY <2>1 DEF InstallInit, InstallTypeOK
<1>2. \A w \in Installers : ~Borrows(w)  BY DEF InstallInit, Borrows
<1>3. QED
  BY <1>1, <1>2
     DEF InstallInit, InstallInv, InstallFlags, FlagHasOwner, AutoStartReturns,
         SavedIsConfigured, AutoAfterStart, AutoInstalls

\* Installation and update stay in order, side by side.
LEMMA Invariant == Spec => [](Inv /\ stopping \in BOOLEAN)
<1> DEFINE I == Inv /\ stopping \in BOOLEAN
<1>1. Init => I
  BY InstallBegins
     DEF Init, UpdateInit, Inv, UpdateInv, UpdateTypeOK, OverWithProgram, Alone, HasFiles,
         TornIsLeft
<1>2. I /\ [Next]_vars => I'
  <2> SUFFICES ASSUME I, [Next]_vars  PROVE I'
    OBVIOUS
  <2> USE DEF Inv
  <2>1. CASE StartProgram
    <3>1. UpdateInv'
      BY <2>1 DEF StartProgram, UpdateProgramStarts, UpdateInv, UpdateTypeOK,
                  OverWithProgram, Alone, HasFiles, TornIsLeft, files
    <3>2. InstallInv'
      BY <2>1, InstallStutters DEF StartProgram, installVars, game, goroutines, InstallInv, InstallTypeOK
    <3>3. QED  BY <2>1, <3>1, <3>2 DEF StartProgram
  <2>2. CASE Handle  BY <2>2, InstallSteps, UpdateStutters DEF Handle
  <2>3. CASE RunGoroutines  BY <2>3, InstallSteps, UpdateStutters DEF RunGoroutines
  <2>4. CASE GameEnds  BY <2>4, InstallSteps, UpdateStutters DEF GameEnds
  <2>5. ASSUME NEW u \in Updates,
               \/ HandleUpdateOfClient(u) \/ PrepareUpdate(u) \/ LaunchUpdate(u)
               \/ ExitForUpdate(u) \/ RunScript(u)
        PROVE  I'
    <3>1. CASE HandleUpdateOfClient(u)
      BY <3>1, ProgramSteps, InstallStutters
         DEF HandleUpdateOfClient, installVars, game, goroutines, InstallInv, InstallTypeOK
    <3>2. CASE PrepareUpdate(u)
      BY <3>2, ProgramSteps, InstallStutters
         DEF PrepareUpdate, goroutines, InstallInv, InstallTypeOK
    <3>3. CASE LaunchUpdate(u)
      BY <3>3, ProgramSteps, InstallStutters
         DEF LaunchUpdate, installVars, game, goroutines, InstallInv, InstallTypeOK
    <3>4. CASE ExitForUpdate(u)  BY <3>4, ProgramSteps, InstallEnds DEF ExitForUpdate
    <3>5. CASE RunScript(u)
      BY <3>5, ScriptSteps, InstallStutters
         DEF RunScript, installVars, game, goroutines, InstallInv, InstallTypeOK
    <3>6. QED  BY <2>5, <3>1, <3>2, <3>3, <3>4, <3>5
  <2>6. CASE ForceStop
    BY <2>6, InstallStutters, UpdateStutters
       DEF ForceStop, installVars, game, goroutines, InstallInv, InstallTypeOK
  <2>7. CASE EndProgram  BY <2>7, ProgramSteps, InstallEnds DEF EndProgram
  <2>8. CASE UNCHANGED vars
    BY <2>8, InstallStutters, UpdateStutters
       DEF vars, installVars, game, goroutines, InstallInv, InstallTypeOK
  <2>9. QED  BY <2>1, <2>2, <2>3, <2>4, <2>5, <2>6, <2>7, <2>8 DEF Next
<1>3. QED  BY <1>1, <1>2, PTL DEF Spec

\* The flag installing has one owner at a time, and an update gives AutoStartAfterInstall
\* back as it was configured (handleServerUpdateInstall, performAutoInstall).
THEOREM FlagsAreKept == Spec => []InstallFlags
<1>1. Inv => InstallFlags  BY DEF Inv, InstallInv
<1>2. QED  BY Invariant, <1>1, PTL

\* Wherever the update of the program is interrupted, a program that has been overwritten
\* in part has a whole backup (CreateUpdaterScript).
THEOREM ProgramIsSafe == Spec => []ReplaceIsSafe
<1>1. Inv => ReplaceIsSafe  BY DEF Inv, UpdateInv, TornIsLeft, ReplaceIsSafe
<1>2. QED  BY Invariant, <1>1, PTL

\* Every variable keeps its type.
THEOREM TypeCorrect == Spec => []TypeOK
<1>1. Inv /\ stopping \in BOOLEAN => TypeOK  BY DEF Inv, InstallInv, UpdateInv, TypeOK
<1>2. QED  BY Invariant, <1>1, PTL

===============================================================================
