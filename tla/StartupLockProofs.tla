--------------------------- MODULE StartupLockProofs ---------------------------
(***************************************************************************)
(* What the startup lock guarantees for any number of Start calls and      *)
(* processes: the lock file is a mutex until a lock file goes stale.       *)
(***************************************************************************)
EXTENDS StartupLock, TLAPS

\* Every variable keeps its type.
THEOREM TypeCorrect == Spec => []TypeOK
<1>1. Init => TypeOK
  <2> SUFFICES ASSUME Init PROVE TypeOK
    OBVIOUS
  <2>1. age \in 0..(StaleAfter + 1) /\ errors \in 0..MaxErrors /\ crashes \in 0..MaxCrashes
    BY BoundAssumption, StaleAfterAssumption DEF Init
  <2> QED
    BY <2>1 DEF Init, TypeOK
<1>2. TypeOK /\ [Next]_vars => TypeOK'
  <2> SUFFICES ASSUME TypeOK, [Next]_vars PROVE TypeOK'
    OBVIOUS
  <2> USE DEF TypeOK
  <2>1. ASSUME NEW s \in Starters, Call(s) PROVE TypeOK'
    BY <2>1 DEF Call, Goto
  <2>2. ASSUME NEW s \in Starters, Create(s) PROVE TypeOK'
    BY <2>2, StaleAfterAssumption DEF Create, Goto
  <2>3. ASSUME NEW s \in Starters, OpenFails(s) PROVE TypeOK'
    BY <2>3, BoundAssumption DEF OpenFails, Error, Goto
  <2>4. ASSUME NEW s \in Starters, Inspect(s) PROVE TypeOK'
    BY <2>4 DEF Inspect, Goto
  <2>5. ASSUME NEW s \in Starters, RemoveStale(s) PROVE TypeOK'
    BY <2>5, BoundAssumption DEF RemoveStale, RemoveFile, Error, Goto
  <2>6. ASSUME NEW s \in Starters, Release(s) PROVE TypeOK'
    BY <2>6, BoundAssumption DEF Release, RemoveFile, Error, Goto
  <2>7. ASSUME NEW P \in Processes, Crash(P) PROVE TypeOK'
    BY <2>7, BoundAssumption DEF Crash
  <2>8. CASE Tick
    BY <2>8, StaleAfterAssumption DEF Tick, Exists
  <2>9. CASE UNCHANGED vars
    BY <2>9 DEF vars
  <2> QED
    BY <2>1, <2>2, <2>3, <2>4, <2>5, <2>6, <2>7, <2>8, <2>9 DEF Next
<1> QED
  BY <1>1, <1>2, PTL DEF Spec

-------------------------------------------------------------------------------
(* Exclusion until a lock file goes stale *)

\* While no file has gone stale, the one that exists is fresh, nobody is about
\* to remove a file, and a call that is inside owns the file.
Fresh ==
  ~wentStale =>
    /\ Exists => age <= StaleAfter
    /\ \A s \in Starters : at[s] # "removing"
    /\ \A s \in Holders : owner = s

\* Fresh is an invariant: it is inductive beside TypeOK.
LEMMA FreshInvariant == Spec => []Fresh
<1>1. Init => Fresh
  BY DEF Init, Fresh, Holders, Exists
<1>2. TypeOK /\ Fresh /\ [Next]_vars => Fresh'
  <2> SUFFICES ASSUME TypeOK, Fresh, [Next]_vars, ~wentStale' PROVE Fresh'
    BY DEF Fresh
  <2> USE DEF TypeOK, Fresh, Holders, Exists
  <2>1. ASSUME NEW s \in Starters, Call(s) PROVE Fresh'
    BY <2>1 DEF Call, Goto
  <2>2. ASSUME NEW s \in Starters, Create(s) PROVE Fresh'
    <3>1. \A t \in Starters : at[t] # "holding"
      BY <2>2, NoStarterAssumption DEF Create
    <3> QED
      BY <2>2, <3>1, StaleAfterAssumption DEF Create, Goto
  <2>3. ASSUME NEW s \in Starters, OpenFails(s) PROVE Fresh'
    BY <2>3 DEF OpenFails, Error, Goto
  <2>4. ASSUME NEW s \in Starters, Inspect(s) PROVE Fresh'
    <3>1. ~(Exists /\ age > StaleAfter)
      BY <2>4, StaleAfterAssumption DEF Inspect
    <3> QED
      BY <2>4, <3>1 DEF Inspect, Goto
  <2>5. ASSUME NEW s \in Starters, RemoveStale(s) PROVE Fresh'
    BY <2>5 DEF RemoveStale
  <2>6. ASSUME NEW s \in Starters, Release(s) PROVE Fresh'
    BY <2>6 DEF Release, RemoveFile, Error, Goto
  <2>7. ASSUME NEW P \in Processes, Crash(P) PROVE Fresh'
    BY <2>7 DEF Crash
  <2>8. CASE Tick
    <3>1. UNCHANGED <<owner, at>> /\ age' = age + 1 /\ ~wentStale
      BY <2>8, Zenon DEF Tick
    <3>2. Exists => age' <= StaleAfter
      <4>1. ~(Exists /\ age' > StaleAfter)
        BY <2>8, Zenon DEF Tick
      <4> QED
        BY <3>1, <4>1, StaleAfterAssumption
    <3> QED
      BY <3>1, <3>2
  <2>9. CASE UNCHANGED vars
    BY <2>9 DEF vars
  <2> QED
    BY <2>1, <2>2, <2>3, <2>4, <2>5, <2>6, <2>7, <2>8, <2>9 DEF Next
<1> QED
  BY <1>1, <1>2, TypeCorrect, PTL DEF Spec

\* The lock file belongs to the Start call that is inside, until some lock file
\* goes stale (acquireStartupLock, its release function and process crashes).
THEOREM OwnerIsInside == Spec => []ExclusiveUntilStale
<1>1. Fresh => ExclusiveUntilStale
  BY DEF Fresh, ExclusiveUntilStale
<1> QED
  BY <1>1, FreshInvariant, PTL

\* So at most one Start call is inside, as acquireStartupLock's comment says,
\* until some lock file goes stale.
COROLLARY Exclusion == Spec => [](~wentStale => MutualExclusion)
<1>1. ExclusiveUntilStale => (~wentStale => MutualExclusion)
  BY DEF ExclusiveUntilStale, MutualExclusion
<1> QED
  BY <1>1, OwnerIsInside, PTL

-------------------------------------------------------------------------------
(* The lock file as a mutex *)

\* Every step of acquireStartupLock and its release enters the abstract mutex,
\* leaves it, breaks it or changes nothing.
THEOREM FileIsMutex == Spec => ImplementsMutex
<1>1. Init => Abstract!Init
  BY DEF Init, Abstract!Init, Holders
<1>2. TypeOK /\ Fresh /\ [Next]_vars => [Abstract!Next]_<<Holders, wentStale>>
  <2> SUFFICES ASSUME TypeOK, Fresh, [Next]_vars
               PROVE  Abstract!Next \/ UNCHANGED <<Holders, wentStale>>
    OBVIOUS
  <2> USE DEF TypeOK
  <2>1. ASSUME NEW s \in Starters, Create(s) PROVE Abstract!Next
    <3>1. Holders = {} \/ wentStale
      BY <2>1, NoStarterAssumption DEF Create, Fresh, Holders, Exists
    <3>2. Holders' = Holders \cup {s} /\ UNCHANGED wentStale
      BY <2>1 DEF Create, Goto, Holders
    <3> QED
      BY <3>1, <3>2 DEF Abstract!Next, Abstract!Enter
  <2>2. ASSUME NEW s \in Starters, Release(s) PROVE Abstract!Next
    <3>1. Holders' = Holders \ {s} /\ UNCHANGED wentStale /\ {s} \in SUBSET Starters
      BY <2>2 DEF Release, Goto, Holders
    <3> QED
      BY <3>1 DEF Abstract!Next, Abstract!Leave
  <2>3. ASSUME NEW P \in Processes, Crash(P) PROVE Abstract!Next
    <3>1. Holders' = Holders \ P /\ UNCHANGED wentStale /\ P \in SUBSET Starters
      BY <2>3, ProcessesAssumption DEF Crash, Holders
    <3> QED
      BY <3>1 DEF Abstract!Next, Abstract!Leave
  <2>4. CASE Tick
    <3>1. UNCHANGED Holders
      BY <2>4 DEF Tick, Holders
    <3>2. wentStale' = wentStale \/ wentStale' = TRUE
      BY <2>4, Zenon DEF Tick
    <3> QED
      BY <3>1, <3>2 DEF Abstract!Next, Abstract!Break
  <2>5. ASSUME NEW s \in Starters,
               Call(s) \/ OpenFails(s) \/ Inspect(s) \/ RemoveStale(s)
        PROVE  UNCHANGED <<Holders, wentStale>>
    BY <2>5 DEF Call, OpenFails, Inspect, RemoveStale, Goto, Holders
  <2>6. CASE UNCHANGED vars
    BY <2>6 DEF vars, Holders
  <2> QED
    BY <2>1, <2>2, <2>3, <2>4, <2>5, <2>6 DEF Next
<1> QED
  BY <1>1, <1>2, TypeCorrect, FreshInvariant, PTL DEF Spec, ImplementsMutex, Abstract!Spec

===============================================================================
