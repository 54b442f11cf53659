----------------------------- MODULE ServerInstall -----------------------------
(***************************************************************************)
(* Installation and update of the game server by the legacy client         *)
(* (internal/client/client.go).  The reader goroutine handles messages one *)
(* after the other; the automatic installation, the installation an update *)
(* has begun, delayed starts and the launch of the server run in           *)
(* goroutines of their own.  They share the flag installing, the           *)
(* configuration's AutoStartAfterInstall, and the game's files.            *)
(***************************************************************************)
EXTENDS Naturals

CONSTANTS
  Installers,            \* the goroutines of handleServerUpdateInstall
  AutoInstallEnabled,    \* AutoInstall.Enabled
  AutoStartAfterConfig,
  AutoStartAfterInstall, \* as the configuration file has it
  MaxStarts              \* bound on the starts of the server under way

ASSUME ConfigAssumption ==
  {AutoInstallEnabled, AutoStartAfterConfig, AutoStartAfterInstall} \subseteq BOOLEAN
ASSUME StartsAssumption == MaxStarts \in Nat

VARIABLES
  started,    \* Start has run
  installed,  \* the game's executable is there
  steamcmd,   \* SteamCmd is there
  server,     \* the game server runs
  installing, \* the flag, under installMux
  autoStart,  \* AutoInstall.AutoStartAfterInstall in memory
  reader,     \* the reader goroutine: "free", or "updating" in handleServerUpdateInstall
  auto,       \* performAutoInstall
  worker,     \* each goroutine of handleServerUpdateInstall
  saved,      \* its originalAutoStart; FALSE before and after it holds one
  starting,   \* goroutines that start the server: delayed starts and handleServerStart's
  overlapped  \* history: two updates have been between saving and restoring autoStart

flags == <<installing, autoStart, saved, overlapped>>
goroutines == <<reader, auto, worker, starting>>
game == <<installed, steamcmd, server>>
installVars == <<started, game, flags, goroutines>>

\* Where an installation stands: performServerInstallation up to SteamCmd, its run,
\* and what follows.
Places == {"idle", "begin", "saved", "preparing", "updating", "restoring", "initialising",
           "resetting"}

\* The installation of w is between saving autoStart and restoring it.
Borrows(w) == worker[w] \in {"saved", "preparing", "updating", "restoring"}

InstallInit ==
  /\ started = FALSE
  /\ installed \in BOOLEAN /\ steamcmd \in BOOLEAN /\ server = FALSE
  /\ installing = FALSE /\ autoStart = AutoStartAfterInstall
  /\ saved = [w \in Installers |-> FALSE] /\ overlapped = FALSE
  /\ reader = "free" /\ auto = "idle" /\ starting = 0
  /\ worker = [w \in Installers |-> "idle"]

\* The program ends: its goroutines with it, the game server and SteamCmd's files stay.
ProgramEnds ==
  /\ started' = FALSE
  /\ installing' = FALSE /\ autoStart' = AutoStartAfterInstall
  /\ saved' = [w \in Installers |-> FALSE] /\ overlapped' = FALSE
  /\ reader' = "free" /\ auto' = "idle" /\ starting' = 0
  /\ worker' = [w \in Installers |-> "idle"]
  /\ UNCHANGED game

\* A goroutine that is to start the server.
GoStart ==
  /\ starting < MaxStarts
  /\ starting' = starting + 1

-------------------------------------------------------------------------------
(* Life cycle and messages *)

\* Start, once the connection stands.
StartClient ==
  /\ ~started
  /\ started' = TRUE
  /\ auto' = IF ~installed /\ AutoInstallEnabled THEN "begin" ELSE auto
  /\ UNCHANGED <<game, flags, reader, worker, starting>>

\* The reader takes a message.
Reading == started /\ reader = "free"

\* handleServerStart up to the goroutine it starts, unless the game is not installed or
\* a dependency is missing.
HandleServerStart ==
  /\ Reading /\ installed
  /\ GoStart
  /\ UNCHANGED <<started, game, flags, reader, auto, worker>>

\* updateServerConfig: a start is scheduled when the server does not run.
UpdateServerConfig ==
  /\ Reading /\ AutoStartAfterConfig /\ installed /\ ~server
  /\ GoStart
  /\ UNCHANGED <<started, game, flags, reader, auto, worker>>

\* performSteamCmdDownload in a goroutine of its own; a download that fails leaves
\* nothing usable.
HandleDownloadSteamCmd ==
  /\ started /\ ~steamcmd
  /\ steamcmd' = TRUE
  /\ UNCHANGED <<started, installed, server, flags, goroutines>>

\* handleServerStop, and the first half of a restart.
HandleServerStop ==
  /\ started /\ server
  /\ server' = FALSE
  /\ UNCHANGED <<started, installed, steamcmd, flags, goroutines>>

\* The second half of handleServerRestart and of handleScheduledRestart: no dependency
\* is checked, nothing is scheduled.
RestartServer ==
  /\ started /\ installed /\ ~server
  /\ server' = TRUE
  /\ UNCHANGED <<started, installed, steamcmd, flags, goroutines>>

\* handleServerUpdateInstall up to the stop of the server, unless it is refused.
BeginUpdate ==
  /\ Reading /\ ~installing
  /\ installing' = TRUE
  /\ reader' = "updating"
  /\ UNCHANGED <<started, game, autoStart, saved, overlapped, auto, worker, starting>>

\* The rest of it: the server is stopped, or an error logged, the goroutine started, and
\* the deferred reset of the flag runs while that goroutine still installs.
SpawnUpdate ==
  /\ reader = "updating"
  /\ server' \in {FALSE, server}
  /\ \E w \in Installers :
       /\ worker[w] = "idle"
       /\ worker' = [worker EXCEPT ![w] = "begin"]
  /\ reader' = "free"
  /\ installing' = FALSE
  /\ UNCHANGED <<started, installed, steamcmd, autoStart, saved, overlapped, auto, starting>>

-------------------------------------------------------------------------------
(* The goroutines *)

\* performServerInstallation before SteamCmd runs: it is downloaded when missing; that,
\* the paths and the check of the file may fail, and then nothing is installed.
PrepareSteamCmd(next) ==
  \/ next = "updating" /\ steamcmd' = TRUE
  \/ next # "updating" /\ steamcmd' \in {steamcmd, TRUE}

\* The run of SteamCmd; its errors are ignored and the result is looked at.
RunSteamCmd == installed' \in {installed, TRUE}

\* initializeComponentsAfterInstall.
InitializeComponents ==
  IF installed /\ autoStart THEN GoStart ELSE UNCHANGED starting

\* Mutant of AutoInstallBegins: the flag is not looked at.
AutoInstallForces ==
  /\ auto = "begin"
  /\ installing' = TRUE
  /\ auto' = "preparing"
  /\ UNCHANGED <<started, game, autoStart, saved, overlapped, reader, worker, starting>>

\* performAutoInstall, which gives up when the flag is set.
AutoInstallBegins ==
  /\ auto = "begin"
  /\ IF installing
     THEN auto' = "idle" /\ UNCHANGED installing
     ELSE auto' = "preparing" /\ installing' = TRUE
  /\ UNCHANGED <<started, game, autoStart, saved, overlapped, reader, worker, starting>>

AutoInstallPrepares ==
  /\ auto = "preparing"
  /\ auto' \in {"updating", "initialising"}
  /\ PrepareSteamCmd(auto')
  /\ UNCHANGED <<started, installed, server, flags, reader, worker, starting>>

AutoInstallUpdates ==
  /\ auto = "updating"
  /\ RunSteamCmd
  /\ auto' = "initialising"
  /\ UNCHANGED <<started, steamcmd, server, flags, reader, worker, starting>>

AutoInstallInitialises ==
  /\ auto = "initialising"
  /\ InitializeComponents
  /\ auto' = "resetting"
  /\ UNCHANGED <<started, game, flags, reader, worker>>

AutoInstallEnds ==
  /\ auto = "resetting"
  /\ installing' = FALSE
  /\ auto' = "idle"
  /\ UNCHANGED <<started, game, autoStart, saved, overlapped, reader, worker, starting>>

Moves(w, from, to) ==
  /\ worker[w] = from
  /\ worker' = [worker EXCEPT ![w] = to]
  /\ UNCHANGED <<started, reader, auto>>

\* originalAutoStart := AutoStartAfterInstall.
SaveAutoStart(w) ==
  /\ Moves(w, "begin", "saved")
  /\ saved' = [saved EXCEPT ![w] = autoStart]
  /\ overlapped' = (overlapped \/ \E v \in Installers \ {w} : Borrows(v))
  /\ UNCHANGED <<game, installing, autoStart, starting>>

\* AutoStartAfterInstall = false.
ClearAutoStart(w) ==
  /\ Moves(w, "saved", "preparing")
  /\ autoStart' = FALSE
  /\ UNCHANGED <<game, installing, saved, overlapped, starting>>

UpdatePrepares(w) ==
  \E next \in {"updating", "restoring"} :
    /\ Moves(w, "preparing", next)
    /\ PrepareSteamCmd(next)
    /\ UNCHANGED <<installed, server, flags, starting>>

UpdateInstalls(w) ==
  /\ Moves(w, "updating", "restoring")
  /\ RunSteamCmd
  /\ UNCHANGED <<steamcmd, server, flags, starting>>

\* Mutant of RestoreAutoStart: the value is not restored.
ForgetAutoStart(w) ==
  /\ Moves(w, "restoring", "initialising")
  /\ UNCHANGED <<game, flags, starting>>

\* AutoStartAfterInstall = originalAutoStart, before the components are initialised.
RestoreAutoStart(w) ==
  /\ Moves(w, "restoring", "initialising")
  /\ autoStart' = saved[w] /\ saved' = [saved EXCEPT ![w] = FALSE]
  /\ UNCHANGED <<game, installing, overlapped, starting>>

\* The components are initialised and "completed" is sent, whatever came of it.
UpdateEnds(w) ==
  /\ Moves(w, "initialising", "idle")
  /\ InitializeComponents
  /\ UNCHANGED <<game, flags>>

\* Mutant of LaunchServer: nobody has to ask for it.
LaunchUnasked ==
  /\ starting' = starting - 1
  /\ server' \in {server, server \/ installed}
  /\ UNCHANGED <<started, installed, steamcmd, flags, reader, auto, worker>>

\* process.Start, at once or after the delay and the checks of handleServerStart; it
\* fails when the server runs.
LaunchServer ==
  /\ starting > 0
  /\ starting' = starting - 1
  /\ server' \in {server, server \/ installed}
  /\ UNCHANGED <<started, installed, steamcmd, flags, reader, auto, worker>>

\* The game server ends by itself.
ServerEnds ==
  /\ server
  /\ server' = FALSE
  /\ UNCHANGED <<started, installed, steamcmd, flags, goroutines>>

-------------------------------------------------------------------------------

Messages ==
  \/ StartClient
  \/ HandleServerStart
  \/ UpdateServerConfig
  \/ HandleDownloadSteamCmd
  \/ HandleServerStop
  \/ RestartServer
  \/ BeginUpdate
  \/ SpawnUpdate

Background ==
  \/ AutoInstallBegins
  \/ AutoInstallPrepares
  \/ AutoInstallUpdates
  \/ AutoInstallInitialises
  \/ AutoInstallEnds
  \/ \E w \in Installers :
       \/ SaveAutoStart(w)
       \/ ClearAutoStart(w)
       \/ UpdatePrepares(w)
       \/ UpdateInstalls(w)
       \/ RestoreAutoStart(w)
       \/ UpdateEnds(w)
  \/ LaunchServer

-------------------------------------------------------------------------------
(* Properties *)

InstallTypeOK ==
  /\ {started, installed, steamcmd, server, installing, autoStart, overlapped} \subseteq BOOLEAN
  /\ reader \in {"free", "updating"}
  /\ auto \in Places
  /\ worker \in [Installers -> Places]
  /\ saved \in [Installers -> BOOLEAN]
  /\ starting \in 0..MaxStarts

\* The flag installing has one owner, who resets it: the automatic installation or the
\* handler of an update (performAutoInstall, handleServerUpdateInstall).
AutoInstalls == auto \in {"preparing", "updating", "initialising", "resetting"}
FlagHasOwner ==
  /\ installing <=> (AutoInstalls \/ reader = "updating")
  /\ ~(AutoInstalls /\ reader = "updating")

\* What an update takes from the configuration it gives back: unless two updates overlap,
\* AutoStartAfterInstall has its configured value when none of them borrows it
\* (handleServerUpdateInstall).
AutoStartReturns ==
  ~overlapped =>
    /\ \A v, w \in Installers : Borrows(v) /\ Borrows(w) => v = w
    /\ (\A w \in Installers : ~Borrows(w)) => autoStart = AutoStartAfterInstall

InstallFlags == FlagHasOwner /\ AutoStartReturns

===============================================================================
