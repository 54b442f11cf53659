------------------------------ MODULE StartupLock ------------------------------
(***************************************************************************)
(* acquireStartupLock (internal/process/state.go): a lock FILE that keeps  *)
(* two Start calls for one game service apart, within a scum_run process   *)
(* and between processes.  Creating, inspecting and removing the file are  *)
(* separate system calls.  A file older than lockStaleAfter is taken for   *)
(* the leftover of a crash and removed.                                    *)
(***************************************************************************)
EXTENDS Integers, FiniteSets

CONSTANTS
  Starters,     \* calls of Manager.Start for one service
  NoStarter,    \* nobody
  Processes,    \* scum_run processes: the Starters each of them runs
  StaleAfter,   \* lockStaleAfter, in clock ticks
  MaxErrors,    \* bound on the failures to create or remove a file
  MaxCrashes    \* bound on the crashes

ASSUME NoStarterAssumption == NoStarter \notin Starters
ASSUME ProcessesAssumption == Processes \subseteq SUBSET Starters
ASSUME StaleAfterAssumption == StaleAfter \in Nat
ASSUME BoundAssumption == MaxErrors \in Nat /\ MaxCrashes \in Nat

VARIABLES
  owner,    \* who created the lock file, NoStarter when there is none
  age,      \* clock ticks since the file was created, StaleAfter + 1 at most
  at,       \* where each Start call stands
  errors,   \* failures to create or remove a file so far
  crashes,  \* crashes so far
  wentStale \* history: a lock file has become older than StaleAfter

vars == <<owner, age, at, errors, crashes, wentStale>>

Exists == owner # NoStarter
Holders == {s \in Starters : at[s] = "holding"}
Goto(s, place) == at' = [at EXCEPT ![s] = place]

Init ==
  /\ owner = NoStarter
  /\ age = 0
  /\ at = [s \in Starters |-> "outside"]
  /\ errors = 0 /\ crashes = 0
  /\ wentStale = FALSE

\* Manager.Start calls acquireStartupLock.
Call(s) ==
  /\ at[s] = "outside"
  /\ Goto(s, "opening")
  /\ UNCHANGED <<owner, age, errors, crashes, wentStale>>

\* OpenFile with O_CREATE and O_EXCL succeeds: the lock is taken.
Create(s) ==
  /\ at[s] = "opening" /\ ~Exists
  /\ owner' = s
  /\ age' = 0
  /\ Goto(s, "holding")
  /\ UNCHANGED <<errors, crashes, wentStale>>

\* Mutant of OpenFails: without O_EXCL an existing file is opened.
OpenExisting(s) ==
  /\ at[s] = "opening" /\ Exists
  /\ Goto(s, "holding")
  /\ UNCHANGED <<owner, age, errors, crashes, wentStale>>

\* The operating system refuses to create or to remove a file.
Error ==
  /\ errors < MaxErrors
  /\ errors' = errors + 1

\* OpenFile fails: the file exists, or it cannot be created.
OpenFails(s) ==
  /\ at[s] = "opening"
  /\ (Exists /\ UNCHANGED errors) \/ Error
  /\ Goto(s, "inspecting")
  /\ UNCHANGED <<owner, age, crashes, wentStale>>

\* Mutants of Inspect: a stale file is refused like a fresh one; a fresh file
\* is removed like a stale one; the refused call never returns.
RefuseStale(s) ==
  /\ at[s] = "inspecting"
  /\ Goto(s, IF ~Exists THEN "opening" ELSE "outside")
  /\ UNCHANGED <<owner, age, errors, crashes, wentStale>>

RemoveFresh(s) ==
  /\ at[s] = "inspecting"
  /\ Goto(s, IF ~Exists THEN "opening" ELSE "removing")
  /\ UNCHANGED <<owner, age, errors, crashes, wentStale>>

RefuseWithoutReturn(s) ==
  /\ at[s] = "inspecting"
  /\ Goto(s, CASE ~Exists -> "opening"
               [] Exists /\ age > StaleAfter -> "removing"
               [] OTHER -> "refused")
  /\ UNCHANGED <<owner, age, errors, crashes, wentStale>>

\* Stat: no file, try again; a stale file, remove it; else "server startup
\* already in progress".
Inspect(s) ==
  /\ at[s] = "inspecting"
  /\ Goto(s, CASE ~Exists -> "opening"
               [] Exists /\ age > StaleAfter -> "removing"
               [] OTHER -> "outside")
  /\ UNCHANGED <<owner, age, errors, crashes, wentStale>>

\* os.Remove by path, its error ignored: it takes whatever file is there by now.
RemoveFile ==
  \/ owner' = NoStarter /\ UNCHANGED errors
  \/ owner' = owner /\ Error

\* Mutant of RemoveStale: the stale file stays.
KeepStale(s) ==
  /\ at[s] = "removing"
  /\ Goto(s, "opening")
  /\ UNCHANGED <<owner, age, errors, crashes, wentStale>>

RemoveStale(s) ==
  /\ at[s] = "removing"
  /\ RemoveFile
  /\ Goto(s, "opening")
  /\ UNCHANGED <<age, crashes, wentStale>>

\* The deferred release removes the file by its path, too.
Release(s) ==
  /\ at[s] = "holding"
  /\ RemoveFile
  /\ Goto(s, "outside")
  /\ UNCHANGED <<age, crashes, wentStale>>

\* A scum_run process dies; its lock file stays.
Crash(P) ==
  /\ crashes < MaxCrashes
  /\ crashes' = crashes + 1
  /\ at' = [s \in Starters |-> IF s \in P THEN "outside" ELSE at[s]]
  /\ UNCHANGED <<owner, age, errors, wentStale>>

\* Time passes.
Tick ==
  /\ age <= StaleAfter
  /\ age' = age + 1
  /\ wentStale' = (wentStale \/ (Exists /\ age' > StaleAfter))
  /\ UNCHANGED <<owner, at, errors, crashes>>

Step(s) == Create(s) \/ OpenFails(s) \/ Inspect(s) \/ RemoveStale(s) \/ Release(s)

Next ==
  \/ \E s \in Starters : Call(s)
  \/ \E s \in Starters : Create(s)
  \/ \E s \in Starters : OpenFails(s)
  \/ \E s \in Starters : Inspect(s)
  \/ \E s \in Starters : RemoveStale(s)
  \/ \E s \in Starters : Release(s)
  \/ \E P \in Processes : Crash(P)
  \/ Tick

Spec == Init /\ [][Next]_vars

\* A Start call that runs makes its next system call, and time passes.
Fairness == WF_vars(Tick) /\ \A s \in Starters : WF_vars(Step(s))
FairSpec == Spec /\ Fairness

-------------------------------------------------------------------------------
(* Properties *)

TypeOK ==
  /\ owner \in Starters \cup {NoStarter}
  /\ age \in 0..(StaleAfter + 1)
  /\ at \in [Starters -> {"outside", "opening", "inspecting", "removing", "holding"}]
  /\ errors \in 0..MaxErrors /\ crashes \in 0..MaxCrashes
  /\ wentStale \in BOOLEAN

\* "acquireStartupLock creates an exclusive startup lock for one service": at
\* most one Start call is inside.
MutualExclusion == \A s, t \in Holders : s = t

\* What the lock file gives: exclusion until some lock file has gone stale, and
\* until then the file belongs to the call that is inside.
ExclusiveUntilStale ==
  ~wentStale => \A s \in Holders : owner = s

\* The lock left by a crash does not keep the service down: while Start is called
\* again and again, some call gets inside again.
LockRecovers ==
  []<><<\E s \in Starters : Call(s)>>_vars => []<>(Holders # {})

\* "it returns a release function or an error": every call of acquireStartupLock
\* returns, provided the lock changes hands only finitely often meanwhile and the
\* operating system refuses to create or remove the file only finitely often.
CallReturns ==
  \A s \in Starters :
    at[s] = "opening" ~> (at[s] \in {"holding", "outside"} \/ []<>(Holders # {}))

\* The lock file is a mutex until a lock file goes stale, whatever crashes and
\* whatever file operation fails (acquireStartupLock and its release).
Abstract == INSTANCE Mutex WITH holders <- Holders, broken <- wentStale
ImplementsMutex == Abstract!Spec

===============================================================================
