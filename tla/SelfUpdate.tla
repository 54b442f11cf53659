------------------------------- MODULE SelfUpdate -------------------------------
(***************************************************************************)
(* The client replaces its own program (client_update, internal/client and *)
(* internal/updater): it writes a script, starts it and exits; the script  *)
(* waits, downloads the new program, saves the old one, copies the new one *)
(* over it and starts it.  Scripts share their files: the program, the     *)
(* downloaded one and the backup have fixed names.  The files behave as on *)
(* Windows; the Unix script has the same steps.                            *)
(***************************************************************************)
CONSTANT Updates  \* the client_update requests

VARIABLES
  program,  \* whether the client's process runs
  update,   \* performSelfUpdateWithURL for each request
  script,   \* its script
  exe,      \* the program's file
  fresh,    \* scum_run_new
  backup,   \* the program's file + ".backup"
  clashed   \* history: two scripts were at work together

files == <<exe, fresh, backup>>
updateVars == <<program, update, script, files, clashed>>

\* What a file holds: a program; something else of a program's size; less than that, as
\* while it is written or when that was broken off.
Programs == {"old", "new"}
Whole == Programs \cup {"junk"}
Contents == Whole \cup {"none", "torn"}

AtWork == {"waiting", "downloading", "saving", "installing", "copying",
           "restoring", "cleaning", "restarting"}

UpdateInit ==
  /\ program = FALSE
  /\ update = [u \in Updates |-> "none"] /\ script = [u \in Updates |-> "none"]
  /\ exe = "old" /\ fresh = "none" /\ backup = "none"
  /\ clashed = FALSE

-------------------------------------------------------------------------------
(* In the program *)

Proceeds(u, from, to) ==
  /\ update[u] = from
  /\ update' = [update EXCEPT ![u] = to]

\* handleClientUpdate starts a goroutine for each request.
HandleClientUpdate(u) ==
  /\ program
  /\ Proceeds(u, "none", "preparing")
  /\ UNCHANGED <<program, script, files, clashed>>

\* prepareRunningServerForSelfUpdate has left the server or stopped it.
Prepared(u) ==
  /\ Proceeds(u, "preparing", "launching")
  /\ UNCHANGED <<program, script, files, clashed>>

\* No URL, neither Stop nor ForceStop has stopped the server, or the script could not be
\* written or started.
UpdateFails(u) ==
  /\ \E from \in {"preparing", "launching"} : Proceeds(u, from, "over")
  /\ UNCHANGED <<program, script, files, clashed>>

\* ExecuteUpdate: the script runs; the program is to exit a second later.
ExecuteUpdate(u) ==
  /\ Proceeds(u, "launching", "exiting")
  /\ script' = [script EXCEPT ![u] = "waiting"]
  /\ clashed' = (clashed \/ \E v \in Updates \ {u} : script[v] \in AtWork)
  /\ UNCHANGED <<program, files>>

\* The program ends, by the exit of an update or otherwise, with all its goroutines.
UpdateProgramEnds ==
  /\ program
  /\ program' = FALSE
  /\ update' = [u \in Updates |-> IF update[u] = "none" THEN "none" ELSE "over"]
  /\ UNCHANGED <<script, files, clashed>>

\* The program is started: by its user, or by a script.
UpdateProgramStarts ==
  /\ ~program /\ exe \in Programs
  /\ program' = TRUE

-------------------------------------------------------------------------------
(* The script *)

Continues(u, from, to) ==
  /\ script[u] = from
  /\ script' = [script EXCEPT ![u] = to]
  /\ UNCHANGED <<program, update, clashed>>

\* It changes to the program's directory and waits three seconds, longer than the
\* program takes to exit; the download begins.
BeginDownload(u) ==
  /\ update[u] = "over"
  /\ Continues(u, "waiting", "downloading")
  /\ fresh' = "torn"
  /\ UNCHANGED <<exe, backup>>

\* The first downloader, or the second after it; curl takes an error page for a file,
\* and a file of at least 1000 bytes is taken for the program.
Download(u) ==
  /\ Continues(u, "downloading", "saving")
  /\ fresh' \in {"new", "junk"}
  /\ UNCHANGED <<exe, backup>>

\* Mutant of SaveProgram: the program is not saved.
SaveNothing(u) ==
  /\ Continues(u, "saving", "installing")
  /\ UNCHANGED files

\* copy of the program to the backup.
SaveProgram(u) ==
  /\ Continues(u, "saving", "installing")
  /\ backup' = exe
  /\ UNCHANGED <<exe, fresh>>

\* The copy has failed: what was downloaded is deleted.
SaveFails(u) ==
  /\ Continues(u, "saving", "failed")
  /\ backup' \in {backup, "torn"} /\ fresh' = "none"
  /\ UNCHANGED exe

\* The copy over the program begins; a program that runs is not written to.
BeginCopy(u) ==
  /\ ~program /\ fresh # "none"
  /\ Continues(u, "installing", "copying")
  /\ exe' = "torn"
  /\ UNCHANGED <<fresh, backup>>

CopyRefused(u) ==
  /\ Continues(u, "installing", "restoring")
  /\ UNCHANGED files

CopyOver(u) ==
  /\ fresh # "none"
  /\ Continues(u, "copying", "cleaning")
  /\ exe' = fresh
  /\ UNCHANGED <<fresh, backup>>

CopyFails(u) ==
  /\ Continues(u, "copying", "restoring")
  /\ UNCHANGED files

\* The backup is copied back, which may fail or be refused too; what was downloaded is
\* deleted, the backup stays, and the program is not started.
Restore(u) ==
  /\ Continues(u, "restoring", "failed")
  /\ exe' \in {exe} \cup (IF backup = "none" \/ program THEN {} ELSE {"torn", backup})
  /\ fresh' = "none"
  /\ UNCHANGED backup

CleanUp(u) ==
  /\ Continues(u, "cleaning", "restarting")
  /\ fresh' = "none" /\ backup' = "none"
  /\ UNCHANGED exe

\* The script is interrupted, cannot change its directory, gets nothing or too little:
\* it ends where it stands and nobody is told.
ScriptFails(u) ==
  /\ \E from \in AtWork : Continues(u, from, "failed")
  /\ UNCHANGED files

\* The program is started again; what is no program does not run.
RestartProgram(u) ==
  /\ script[u] = "restarting"
  /\ script' = [script EXCEPT ![u] = "done"]
  /\ program' = (program \/ exe \in Programs)
  /\ UNCHANGED <<update, files, clashed>>

ScriptStep(u) ==
  \/ BeginDownload(u)
  \/ Download(u)
  \/ SaveProgram(u)
  \/ SaveFails(u)
  \/ BeginCopy(u)
  \/ CopyRefused(u)
  \/ CopyOver(u)
  \/ CopyFails(u)
  \/ Restore(u)
  \/ CleanUp(u)
  \/ ScriptFails(u)

-------------------------------------------------------------------------------
(* Properties *)

UpdateTypeOK ==
  /\ program \in BOOLEAN /\ clashed \in BOOLEAN
  /\ update \in [Updates -> {"none", "preparing", "launching", "exiting", "over"}]
  /\ script \in [Updates -> AtWork \cup {"none", "failed", "done"}]
  /\ exe \in Contents /\ fresh \in Contents /\ backup \in Contents

\* Whatever step of the script fails or is interrupted, a program that has been
\* overwritten in part has a whole backup beside it, unless two updates ran together
\* (CreateUpdaterScript).
ReplaceIsSafe == ~clashed /\ exe = "torn" => backup \in Whole

===============================================================================
