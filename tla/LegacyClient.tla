------------------------------ MODULE LegacyClient ------------------------------
(***************************************************************************)
(* The legacy client (internal/client/client.go): the installation and the *)
(* updates of the game server, and the client's update of itself, whose    *)
(* exit ends every goroutine of the program wherever it stands.            *)
(***************************************************************************)
EXTENDS ServerInstall, SelfUpdate

VARIABLE stopping  \* ForceStop has cancelled the context

vars == <<installVars, updateVars, stopping>>

Init == InstallInit /\ UpdateInit /\ stopping = FALSE

-------------------------------------------------------------------------------

\* The program runs, and starts the client (main).
StartProgram ==
  /\ UpdateProgramStarts
  /\ UNCHANGED <<installVars, update, script, files, clashed, stopping>>

\* The reader takes messages until the context is cancelled.
Handle ==
  /\ program /\ ~stopping
  /\ Messages
  /\ UNCHANGED <<updateVars, stopping>>

\* The goroutines of an installation do not look at the context.
RunGoroutines ==
  /\ program
  /\ Background
  /\ UNCHANGED <<updateVars, stopping>>

GameEnds == ServerEnds /\ UNCHANGED <<updateVars, stopping>>

HandleUpdateOfClient(u) ==
  /\ Reading /\ ~stopping
  /\ HandleClientUpdate(u)
  /\ UNCHANGED <<installVars, stopping>>

\* prepareRunningServerForSelfUpdate: the server is stopped when that was asked for.
PrepareUpdate(u) ==
  /\ Prepared(u)
  /\ server' \in {server, FALSE}
  /\ UNCHANGED <<started, installed, steamcmd, flags, goroutines, stopping>>

LaunchUpdate(u) ==
  /\ UpdateFails(u) \/ ExecuteUpdate(u)
  /\ UNCHANGED <<installVars, stopping>>

\* os.Exit, a second after the script has been started.
ExitForUpdate(u) ==
  /\ update[u] = "exiting"
  /\ UpdateProgramEnds /\ ProgramEnds
  /\ stopping' = FALSE

\* ForceStop cancels the context and releases the rest; the server is left running.
ForceStop ==
  /\ started /\ ~stopping
  /\ stopping' = TRUE
  /\ UNCHANGED <<installVars, updateVars>>

\* The program exits after that, because Start has failed, or it dies.
EndProgram ==
  /\ UpdateProgramEnds /\ ProgramEnds
  /\ stopping' = FALSE

RunScript(u) ==
  /\ ScriptStep(u) \/ RestartProgram(u)
  /\ UNCHANGED <<installVars, stopping>>

Next ==
  \/ StartProgram
  \/ Handle
  \/ RunGoroutines
  \/ GameEnds
  \/ \E u \in Updates :
       \/ HandleUpdateOfClient(u)
       \/ PrepareUpdate(u)
       \/ LaunchUpdate(u)
       \/ ExitForUpdate(u)
       \/ RunScript(u)
  \/ ForceStop
  \/ EndProgram

Spec == Init /\ [][Next]_vars

-------------------------------------------------------------------------------

TypeOK == InstallTypeOK /\ UpdateTypeOK /\ stopping \in BOOLEAN

===============================================================================
