---------------------------- MODULE HostAgentProofs ----------------------------
(***************************************************************************)
(* Proofs about HostAgent: what the agent believes the server knows, and   *)
(* the launch profile it uses, are what the server took and handed out     *)
(* last.  The inductive invariant follows the newest upload (and hello)    *)
(* from the moment the server has taken it until a loop has noted it.      *)
(***************************************************************************)
EXTENDS HostAgent, TLAPS

USE LoopsAssumption, CapsAssumption, OpsAssumption, BoundAssumption DEF Loops, Ops

-------------------------------------------------------------------------------
(* Type correctness *)

\* The requests the goroutines make.
LEMMA RequestTypes ==
  ASSUME NEW a \in {"nothing", "hello", "capabilities", "heartbeat", "database", "file", "result"},
         NEW c \in Caps \cup {NoCaps}, NEW o \in Ops \cup {NoOp}
  PROVE  NewRequest(a, c, o) \in Requests
BY DEF NewRequest, Requests, Sessions

\* The places a registration goes through.
OnRegister == {"call", "sent", "answered", "failed", "refused", "profile", "declaring"}

\* How a goroutine gets where it stands: Poll's first registration, the bootstrap,
\* an operation handed out, and from hello to fingerprint.
Paths ==
  /\ stage = "register" =>
       \/ at[Poll] \in {"off", "building"}
       \/ at[Poll] \in OnRegister /\ About(Poll, {"hello"})
  /\ at[Poll] \in {"bootstrap", "starting", "marking"} => stage = "bootstrap"
  /\ at[Poll] \in {"profile", "declaring"} => token # "none"
  /\ ~About(Heart, {"capabilities"})
  /\ at[Poll] = "answered" /\ About(Poll, {"database", "file"}) => req[Poll].op # NoOp
  /\ \A l \in Loops : at[l] \in {"profile", "declaring"} => About(l, {"hello"})

\* The types and paths hold at first.
LEMMA InitType == Init => TypeOK /\ Paths
<1> SUFFICES ASSUME Init PROVE TypeOK /\ Paths
  OBVIOUS
<1>1. NoRequest \in Requests
  BY RequestTypes DEF NoRequest
<1>2. Types
  <2>1. at \in [Loops -> Places] /\ req \in [Loops -> Requests]
    BY <1>1 DEF Init, Places
  <2>2. newest \in [caps : Loops \cup {Nobody}, profile : Loops \cup {Nobody}, gen : 0..MaxLaunch]
    BY DEF Init, NoUpload
  <2>3. status \in [Ops -> {"pending", "claimed", "done"}] /\ lost \subseteq Ops
    BY DEF Init
  <2>4. up \in BOOLEAN /\ running \in BOOLEAN /\ marker \in BOOLEAN /\ unmarked \in BOOLEAN
    BY DEF Init
  <2>5. /\ runs \in 0..MaxRuns /\ profile \in 0..MaxLaunch /\ launch \in 0..MaxLaunch
        /\ faults \in 0..MaxFaults /\ starts \in 0..2
    BY DEF Init
  <2>6. /\ stage \in {"register", "sync1", "bootstrap", "sync2", "loop"}
        /\ token \in Sessions /\ fp \in Caps \cup {NoCaps} /\ local \in Caps
        /\ stored \in Caps \cup {NoCaps} /\ disputed \subseteq {"caps", "profile"}
    BY DEF Init, Sessions
  <2>q. QED
    BY <2>1, <2>2, <2>3, <2>4, <2>5, <2>6 DEF Types
<1>3. \A l \in Loops : at[l] = "off" /\ req[l].about = "nothing" /\ req[l].op = NoOp
  BY DEF Init, NoRequest, NewRequest
<1>4. stage = "register"
  BY DEF Init
<1>5. Phases
  BY <1>3, <1>4 DEF Phases, About
<1>6. Paths
  BY <1>3, <1>4 DEF Paths, About
<1>q. QED
  BY <1>2, <1>5, <1>6 DEF TypeOK

\* A stopped program keeps the types, and leaves no request.
LEMMA EndTypes == TypeOK /\ End => Types'
<1> SUFFICES ASSUME TypeOK, End PROVE Types'
  OBVIOUS
<1>1. (up \in BOOLEAN)' /\ (unmarked \in BOOLEAN)'
  BY Zenon DEF End
<1>2. (at \in [Loops -> Places])' /\ (req \in [Loops -> Requests])'
  BY RequestTypes DEF End, Places, NoRequest
<1>3. /\ (stage \in {"register", "sync1", "bootstrap", "sync2", "loop"})'
      /\ (token \in Sessions)' /\ (fp \in Caps \cup {NoCaps})' /\ (profile \in 0..MaxLaunch)'
      /\ (disputed \subseteq {"caps", "profile"})'
  BY DEF End, Sessions
<1>4. (newest \in [caps : Loops \cup {Nobody}, profile : Loops \cup {Nobody}, gen : 0..MaxLaunch])'
  BY DEF End, NoUpload
<1>5. (lost \subseteq Ops)'
  BY DEF End, TypeOK, Types
<1>6. UNCHANGED <<runs, local, running, marker, stored, launch, status, faults, starts>>
  BY DEF End, host, server
<1>q. QED
  BY <1>1, <1>2, <1>3, <1>4, <1>5, <1>6 DEF TypeOK, Types

\* And stands nowhere.
LEMMA EndPaths == End => Phases' /\ Paths'
<1> SUFFICES ASSUME End PROVE Phases' /\ Paths'
  OBVIOUS
<1>1. \A l \in Loops : at'[l] = "off" /\ req'[l].about = "nothing" /\ req'[l].op = NoOp
  BY DEF End, NoRequest, NewRequest
<1>2. stage' = "register"
  BY DEF End
<1>3. Phases'
  BY <1>1, <1>2 DEF Phases, About
<1>q. QED
  BY <1>1, <1>2, <1>3 DEF Paths, About

\* Every step keeps the types.
LEMMA TypesStep == TypeOK /\ [Next]_vars => Types'
<1> SUFFICES ASSUME TypeOK, [Next]_vars PROVE Types'
  OBVIOUS
<1>1. ASSUME NEW l \in Loops, Send(l)
          PROVE  Types'
  BY <1>1, RequestTypes DEF Send, Goto, About, TypeOK, Types, Phases, Places,
     Requests, Sessions, program, loops, agent, host, server, uploads, bootstraps
<1>2. ASSUME NEW l \in Loops, Answer(l)
          PROVE  Types'
  BY <1>2, RequestTypes DEF Answer, Take, Authorized, Newest, Goto, About, TypeOK,
     Types, Phases, Places, Requests, Sessions, program, loops, agent, host, server,
     uploads, bootstraps
<1>3. ASSUME NEW l \in Loops, LoseAnswer(l)
          PROVE  Types'
  BY <1>3, RequestTypes DEF LoseAnswer, Take, Authorized, Newest, Fault, Goto,
     About, TypeOK, Types, Phases, Places, Requests, Sessions, program, loops,
     agent, host, server, uploads, bootstraps
<1>4. ASSUME NEW l \in Loops, LoseRequest(l)
          PROVE  Types'
  BY <1>4 DEF LoseRequest, Fault, Goto, TypeOK, Types, Places, program, agent, host,
     server, uploads, bootstraps
<1>5. ASSUME NEW l \in Loops, Refuse(l)
          PROVE  Types'
  BY <1>5 DEF Refuse, Goto, TypeOK, Types, Places, program, agent, host, server,
     uploads, bootstraps
<1>6. ASSUME NEW l \in Loops, Build(l)
          PROVE  Types'
  BY <1>6, RequestTypes DEF Build, Ask, Goto, NoRequest, TypeOK, Types, Places,
     program, agent, host, server, uploads, bootstraps
<1>7. ASSUME NEW l \in Loops, SetSessionToken(l)
          PROVE  Types'
  BY <1>7, RequestTypes DEF SetSessionToken, Goto, About, TypeOK, Types, Phases,
     Places, Requests, Sessions, program, loops, agent, host, server, uploads,
     bootstraps
<1>8. ASSUME NEW l \in Loops, ApplyProfile(l)
          PROVE  Types'
  BY <1>8, RequestTypes DEF ApplyProfile, Note, Goto, About, TypeOK, Types, Phases,
     Places, Requests, Sessions, program, loops, agent, host, server, uploads,
     bootstraps
<1>9. ASSUME NEW l \in Loops, Declare(l)
          PROVE  Types'
  BY <1>9, RequestTypes DEF Declare, SetFingerprint, Note, Registered, Rest, Goto,
     NoRequest, TypeOK, Types, Phases, Places, Requests, Sessions, About, program,
     loops, agent, host, server, uploads, bootstraps
<1>10. ASSUME NEW l \in Loops, Tick(l)
          PROVE  Types'
  BY <1>10, RequestTypes DEF Tick, Ask, Rest, Goto, NoRequest, TypeOK, Types,
     Places, program, agent, host, server, uploads, bootstraps
<1>11. ASSUME NEW l \in Loops, Unauthorized(l)
          PROVE  Types'
  BY <1>11, RequestTypes DEF Unauthorized, Synced, Ask, Rest, Goto, NoRequest,
     TypeOK, Types, Places, program, agent, host, server, uploads, bootstraps
<1>12. ASSUME NEW l \in Loops, Failed(l)
          PROVE  Types'
  BY <1>12, RequestTypes DEF Failed, Synced, Ask, Rest, Goto, NoRequest, TypeOK,
     Types, Places, program, agent, host, server, uploads, bootstraps
<1>13. ASSUME NEW kind \in {"database", "file"}, Claim(kind)
          PROVE  Types'
  BY <1>13, RequestTypes DEF Claim, Polling, Pending, Authorized, Fault, Goto,
     About, TypeOK, Types, Phases, Places, Requests, Sessions, program, loops,
     agent, host, server, uploads, bootstraps
<1>14. ASSUME NEW kind \in {"database", "file"}, NothingToClaim(kind)
          PROVE  Types'
  BY <1>14, RequestTypes DEF NothingToClaim, Polling, Ask, Rest, Goto, NoRequest,
     TypeOK, Types, Places, program, agent, host, server, uploads, bootstraps
<1>15. CASE Compare
  BY <1>15, RequestTypes DEF Compare, Upload, Synced, Ask, Rest, Goto, NoRequest,
     TypeOK, Types, Places, program, agent, host, server, uploads, bootstraps
<1>16. CASE Uploaded
  BY <1>16, RequestTypes DEF Uploaded, SetFingerprint, Note, Synced, Ask, Rest,
     Goto, NoRequest, About, TypeOK, Types, Phases, Places, Requests, Sessions,
     program, loops, agent, host, server, uploads, bootstraps
<1>17. CASE CheckBootstrap
  BY <1>17, RequestTypes DEF CheckBootstrap, Bootstrapped, Rest, Goto, NoRequest,
     TypeOK, Types, Places, program, agent, host, server, uploads, bootstraps
<1>18. CASE StartServer
  BY <1>18 DEF StartServer, Goto, TypeOK, Types, Places, program, agent, server, uploads
<1>19. CASE StartFails
  BY <1>19, RequestTypes DEF StartFails, Bootstrapped, Rest, Goto, NoRequest,
     TypeOK, Types, Places, program, agent, host, server, uploads, bootstraps
<1>20. CASE MarkBootstrap
  <2>1. (marker \in BOOLEAN)' /\ (unmarked \in BOOLEAN)' /\ (faults \in 0..MaxFaults)'
    <3>1. CASE marker' = TRUE /\ UNCHANGED <<faults, unmarked>>
      BY <3>1 DEF TypeOK, Types
    <3>2. CASE Fault /\ unmarked' = TRUE /\ UNCHANGED marker
      <4>1. (marker \in BOOLEAN)' /\ (unmarked \in BOOLEAN)'
        BY <3>2 DEF TypeOK, Types
      <4>2. (faults \in 0..MaxFaults)'
        BY <3>2 DEF Fault, TypeOK, Types
      <4>q. QED
        BY <4>1, <4>2
    <3>q. QED
      BY <1>20, <3>1, <3>2 DEF MarkBootstrap
  <2>2. (stage \in {"register", "sync1", "bootstrap", "sync2", "loop"})'
    BY <1>20 DEF MarkBootstrap, Bootstrapped
  <2>3. (at \in [Loops -> Places])' /\ (req \in [Loops -> Requests])'
    BY <1>20, RequestTypes DEF MarkBootstrap, Bootstrapped, Rest, Goto, NoRequest,
       TypeOK, Types, Places
  <2>4. UNCHANGED <<program, agent, local, running, server, uploads, lost, starts>>
    BY <1>20 DEF MarkBootstrap
  <2>q. QED
    BY <2>1, <2>2, <2>3, <2>4 DEF TypeOK, Types, program, agent, server, uploads
<1>21. CASE Handle
  BY <1>21, RequestTypes DEF Handle, Ask, Goto, NoRequest, About, TypeOK, Types,
     Phases, Places, Requests, Sessions, program, loops, agent, host, server,
     uploads, bootstraps
<1>22. CASE Reported
  BY <1>22, RequestTypes DEF Reported, Rest, Goto, NoRequest, About, TypeOK, Types,
     Phases, Places, Requests, Sessions, program, loops, agent, host, server,
     uploads, bootstraps
<1>23. CASE RunReturns
  BY <1>23, EndTypes DEF RunReturns
<1>24. CASE HeartbeatDone
  BY <1>24, RequestTypes DEF HeartbeatDone, Rest, Goto, NoRequest, TypeOK, Types,
     Places, program, agent, host, server, uploads, bootstraps
<1>25. CASE HeartEnds
  BY <1>25, RequestTypes DEF HeartEnds, Rest, Goto, NoRequest, TypeOK, Types,
     Places, program, agent, host, server, uploads, bootstraps
<1>26. CASE Boot
  BY <1>26 DEF Boot, Goto, TypeOK, Types, Places, agent, host, server, uploads,
     bootstraps
<1>27. CASE Crash
  BY <1>27, EndTypes DEF Crash
<1>28. CASE Drift
  BY <1>28 DEF Drift, TypeOK, Types, program, loops, agent, server, uploads, bootstraps
<1>29. CASE ServerExits
  <2>1. (running \in BOOLEAN)'
    BY <1>29 DEF ServerExits
  <2>2. UNCHANGED <<program, loops, agent, local, marker, server, faults, uploads, lost,
                    bootstraps>>
    BY <1>29 DEF ServerExits
  <2>q. QED
    BY <2>1, <2>2 DEF TypeOK, Types, program, loops, agent, server, uploads, bootstraps
<1>30. CASE Expire
  BY <1>30, RequestTypes DEF Expire, Expired, Fault, TypeOK, Types, Phases, Places,
     Requests, Sessions, About, program, loops, agent, host, server, uploads,
     bootstraps
<1>31. CASE DesireLaunch
  BY <1>31 DEF DesireLaunch, TypeOK, Types, program, loops, agent, host, uploads,
     bootstraps
<1>32. CASE UNCHANGED vars
  BY <1>32 DEF vars, TypeOK, Types, program, loops, agent, host, server, uploads,
     bootstraps
<1>q. QED
  BY <1>1, <1>2, <1>3, <1>4, <1>5, <1>6, <1>7, <1>8, <1>9, <1>10, <1>11, <1>12,
     <1>13, <1>14, <1>15, <1>16, <1>17, <1>18, <1>19, <1>20, <1>21, <1>22, <1>23,
     <1>24, <1>25, <1>26, <1>27, <1>28, <1>29, <1>30, <1>31, <1>32 DEF Next,
     CommonStep, RequestStep, RegisterStep, PollStep, BootstrapStep, HeartStep

\* Every step keeps the phases.
LEMMA PhasesStep == TypeOK /\ Paths /\ [Next]_vars => Phases'
<1> SUFFICES ASSUME TypeOK, Paths, [Next]_vars PROVE Phases'
  OBVIOUS
<1>1. ASSUME NEW l \in Loops, Send(l)
          PROVE  Phases'
  BY <1>1 DEF Send, Goto, About, TypeOK, Types, Phases, Paths, program, agent, host,
     server, uploads, bootstraps
<1>2. ASSUME NEW l \in Loops, Answer(l)
          PROVE  Phases'
  BY <1>2 DEF Answer, Take, Authorized, Newest, Goto, About, TypeOK, Types, Phases,
     Paths, program, agent, host, bootstraps
<1>3. ASSUME NEW l \in Loops, LoseAnswer(l)
          PROVE  Phases'
  BY <1>3 DEF LoseAnswer, Take, Authorized, Newest, Fault, Goto, About, TypeOK,
     Types, Phases, Paths, program, agent, host, bootstraps
<1>4. ASSUME NEW l \in Loops, LoseRequest(l)
          PROVE  Phases'
  BY <1>4 DEF LoseRequest, Fault, Goto, TypeOK, Types, Phases, Paths, About,
     program, agent, host, server, uploads, bootstraps
<1>5. ASSUME NEW l \in Loops, Refuse(l)
          PROVE  Phases'
  BY <1>5 DEF Refuse, Goto, TypeOK, Types, Phases, Paths, About, program, agent,
     host, server, uploads, bootstraps
<1>6. ASSUME NEW l \in Loops, Build(l)
          PROVE  Phases'
  BY <1>6 DEF Build, Ask, Goto, NoRequest, NewRequest, TypeOK, Types, Phases, Paths,
     About, program, agent, host, server, uploads, bootstraps
<1>7. ASSUME NEW l \in Loops, SetSessionToken(l)
          PROVE  Phases'
  BY <1>7 DEF SetSessionToken, Goto, About, TypeOK, Types, Phases, Paths, program,
     host, server, uploads, bootstraps
<1>8. ASSUME NEW l \in Loops, ApplyProfile(l)
          PROVE  Phases'
  BY <1>8 DEF ApplyProfile, Note, Goto, About, TypeOK, Types, Phases, Paths,
     program, host, server, bootstraps
<1>9. ASSUME NEW l \in Loops, Declare(l)
          PROVE  Phases'
  BY <1>9 DEF Declare, SetFingerprint, Note, Registered, Rest, Goto, NoRequest,
     NewRequest, TypeOK, Types, Phases, Paths, About, program, host, server,
     bootstraps
<1>10. ASSUME NEW l \in Loops, Tick(l)
          PROVE  Phases'
  BY <1>10 DEF Tick, Ask, Rest, Goto, NoRequest, NewRequest, TypeOK, Types, Phases,
     Paths, About, program, agent, host, server, uploads, bootstraps
<1>11. ASSUME NEW l \in Loops, Unauthorized(l)
          PROVE  Phases'
  BY <1>11 DEF Unauthorized, Synced, Ask, Rest, Goto, NoRequest, NewRequest, About,
     TypeOK, Types, Phases, Paths, program, agent, host, server, uploads, bootstraps
<1>12. ASSUME NEW l \in Loops, Failed(l)
          PROVE  Phases'
  BY <1>12 DEF Failed, Synced, Ask, Rest, Goto, NoRequest, NewRequest, About,
     TypeOK, Types, Phases, Paths, program, agent, host, server, uploads, bootstraps
<1>13. ASSUME NEW kind \in {"database", "file"}, Claim(kind)
          PROVE  Phases'
  BY <1>13 DEF Claim, Polling, Pending, Authorized, Fault, Goto, About, TypeOK,
     Types, Phases, Paths, OnRegister, Requests, Sessions, program, loops, agent,
     host, server, uploads, bootstraps
<1>14. ASSUME NEW kind \in {"database", "file"}, NothingToClaim(kind)
          PROVE  Phases'
  BY <1>14 DEF NothingToClaim, Polling, Ask, Rest, Goto, NoRequest, NewRequest,
     About, TypeOK, Types, Phases, Paths, program, agent, host, server, uploads,
     bootstraps
<1>15. CASE Compare
  BY <1>15 DEF Compare, Upload, Synced, Ask, Rest, Goto, NoRequest, NewRequest,
     About, TypeOK, Types, Phases, Paths, program, agent, host, server, uploads,
     bootstraps
<1>16. CASE Uploaded
  BY <1>16 DEF Uploaded, SetFingerprint, Note, Synced, Ask, Rest, Goto, NoRequest,
     NewRequest, About, TypeOK, Types, Phases, Paths, program, host, server,
     bootstraps
<1>17. CASE CheckBootstrap
  BY <1>17 DEF CheckBootstrap, Bootstrapped, Rest, Goto, NoRequest, NewRequest,
     TypeOK, Types, Phases, Paths, About, program, agent, host, server, uploads,
     bootstraps
<1>18. CASE StartServer
  BY <1>18 DEF StartServer, Goto, TypeOK, Types, Phases, Paths, About, program,
     agent, server, uploads
<1>19. CASE StartFails
  BY <1>19 DEF StartFails, Bootstrapped, Rest, Goto, NoRequest, NewRequest, TypeOK,
     Types, Phases, Paths, About, program, agent, host, server, uploads, bootstraps
<1>20. CASE MarkBootstrap
  BY <1>20 DEF MarkBootstrap, Bootstrapped, Fault, Rest, Goto, NoRequest,
     NewRequest, TypeOK, Types, Phases, Paths, About, program, agent, server,
     uploads
<1>21. CASE Handle
  BY <1>21 DEF Handle, Ask, Goto, NoRequest, NewRequest, About, TypeOK, Types,
     Phases, Paths, program, agent, host, server, uploads, bootstraps
<1>22. CASE Reported
  BY <1>22 DEF Reported, Rest, Goto, NoRequest, NewRequest, About, TypeOK, Types,
     Phases, Paths, program, agent, host, server, uploads, bootstraps
<1>23. CASE RunReturns
  BY <1>23, EndPaths DEF RunReturns
<1>24. CASE HeartbeatDone
  BY <1>24 DEF HeartbeatDone, Rest, Goto, NoRequest, NewRequest, About, TypeOK,
     Types, Phases, Paths, program, agent, host, server, uploads, bootstraps
<1>25. CASE HeartEnds
  BY <1>25 DEF HeartEnds, Rest, Goto, NoRequest, NewRequest, About, TypeOK, Types,
     Phases, Paths, program, agent, host, server, uploads, bootstraps
<1>26. CASE Boot
  BY <1>26 DEF Boot, Goto, TypeOK, Types, Phases, Paths, About, agent, host, server,
     uploads, bootstraps
<1>27. CASE Crash
  BY <1>27, EndPaths DEF Crash
<1>28. CASE Drift
  BY <1>28 DEF Drift, TypeOK, Types, Phases, Paths, About, program, loops, agent,
     server, uploads, bootstraps
<1>29. CASE ServerExits
  BY <1>29 DEF ServerExits, TypeOK, Types, Phases, Paths, About, program, loops,
     agent, server, uploads, bootstraps
<1>30. CASE Expire
  BY <1>30 DEF Expire, Expired, Fault, TypeOK, Types, Phases, Paths, OnRegister,
     Requests, Sessions, About, program, loops, agent, host, server, uploads,
     bootstraps
<1>31. CASE DesireLaunch
  BY <1>31 DEF DesireLaunch, TypeOK, Types, Phases, Paths, About, program, loops,
     agent, host, uploads, bootstraps
<1>32. CASE UNCHANGED vars
  BY <1>32 DEF vars, TypeOK, Types, Phases, Paths, About, program, loops, agent,
     host, server, uploads, bootstraps
<1>q. QED
  BY <1>1, <1>2, <1>3, <1>4, <1>5, <1>6, <1>7, <1>8, <1>9, <1>10, <1>11, <1>12,
     <1>13, <1>14, <1>15, <1>16, <1>17, <1>18, <1>19, <1>20, <1>21, <1>22, <1>23,
     <1>24, <1>25, <1>26, <1>27, <1>28, <1>29, <1>30, <1>31, <1>32 DEF Next,
     CommonStep, RequestStep, RegisterStep, PollStep, BootstrapStep, HeartStep

\* Every step keeps to the paths.
LEMMA PathsStep == TypeOK /\ Paths /\ [Next]_vars => Paths'
<1> SUFFICES ASSUME TypeOK, Paths, [Next]_vars PROVE Paths'
  OBVIOUS
<1>1. ASSUME NEW l \in Loops, Send(l)
          PROVE  Paths'
  BY <1>1 DEF Send, Goto, About, TypeOK, Types, Paths, OnRegister, program, agent,
     host, server, uploads, bootstraps
<1>2. ASSUME NEW l \in Loops, Answer(l)
          PROVE  Paths'
  BY <1>2 DEF Answer, Take, Authorized, Newest, Goto, About, TypeOK, Types, Paths,
     OnRegister, program, agent, host, bootstraps
<1>3. ASSUME NEW l \in Loops, LoseAnswer(l)
          PROVE  Paths'
  BY <1>3 DEF LoseAnswer, Take, Authorized, Newest, Fault, Goto, About, TypeOK,
     Types, Paths, OnRegister, program, agent, host, bootstraps
<1>4. ASSUME NEW l \in Loops, LoseRequest(l)
          PROVE  Paths'
  BY <1>4 DEF LoseRequest, Fault, Goto, TypeOK, Types, Paths, OnRegister, About,
     program, agent, host, server, uploads, bootstraps
<1>5. ASSUME NEW l \in Loops, Refuse(l)
          PROVE  Paths'
  BY <1>5 DEF Refuse, Goto, TypeOK, Types, Paths, OnRegister, About, program, agent,
     host, server, uploads, bootstraps
<1>6. ASSUME NEW l \in Loops, Build(l)
          PROVE  Paths'
  BY <1>6 DEF Build, Ask, Goto, NoRequest, NewRequest, TypeOK, Types, Paths,
     OnRegister, About, program, agent, host, server, uploads, bootstraps
<1>7. ASSUME NEW l \in Loops, SetSessionToken(l)
          PROVE  Paths'
  BY <1>7 DEF SetSessionToken, Goto, About, TypeOK, Types, Phases, Paths,
     OnRegister, Requests, Sessions, program, loops, agent, host, server, uploads,
     bootstraps
<1>8. ASSUME NEW l \in Loops, ApplyProfile(l)
          PROVE  Paths'
  BY <1>8 DEF ApplyProfile, Note, Goto, About, TypeOK, Types, Paths, OnRegister,
     program, host, server, bootstraps
<1>9. ASSUME NEW l \in Loops, Declare(l)
          PROVE  Paths'
  BY <1>9 DEF Declare, SetFingerprint, Note, Registered, Rest, Goto, NoRequest,
     NewRequest, TypeOK, Types, Paths, OnRegister, About, program, host, server,
     bootstraps
<1>10. ASSUME NEW l \in Loops, Tick(l)
          PROVE  Paths'
  BY <1>10 DEF Tick, Ask, Rest, Goto, NoRequest, NewRequest, TypeOK, Types, Paths,
     OnRegister, About, program, agent, host, server, uploads, bootstraps
<1>11. ASSUME NEW l \in Loops, Unauthorized(l)
          PROVE  Paths'
  BY <1>11 DEF Unauthorized, Synced, Ask, Rest, Goto, NoRequest, NewRequest, About,
     TypeOK, Types, Paths, OnRegister, program, agent, host, server, uploads,
     bootstraps
<1>12. ASSUME NEW l \in Loops, Failed(l)
          PROVE  Paths'
  BY <1>12 DEF Failed, Synced, Ask, Rest, Goto, NoRequest, NewRequest, About,
     TypeOK, Types, Paths, OnRegister, program, agent, host, server, uploads,
     bootstraps
<1>13. ASSUME NEW kind \in {"database", "file"}, Claim(kind)
          PROVE  Paths'
  BY <1>13 DEF Claim, Polling, Pending, Authorized, Fault, Goto, About, TypeOK,
     Types, Phases, Paths, OnRegister, Requests, Sessions, program, loops, agent,
     host, server, uploads, bootstraps
<1>14. ASSUME NEW kind \in {"database", "file"}, NothingToClaim(kind)
          PROVE  Paths'
  BY <1>14 DEF NothingToClaim, Polling, Ask, Rest, Goto, NoRequest, NewRequest,
     About, TypeOK, Types, Paths, OnRegister, program, agent, host, server, uploads,
     bootstraps
<1>15. CASE Compare
  BY <1>15 DEF Compare, Upload, Synced, Ask, Rest, Goto, NoRequest, NewRequest,
     About, TypeOK, Types, Paths, OnRegister, program, agent, host, server, uploads,
     bootstraps
<1>16. CASE Uploaded
  BY <1>16 DEF Uploaded, SetFingerprint, Note, Synced, Ask, Rest, Goto, NoRequest,
     NewRequest, About, TypeOK, Types, Paths, OnRegister, program, host, server,
     bootstraps
<1>17. CASE CheckBootstrap
  BY <1>17 DEF CheckBootstrap, Bootstrapped, Rest, Goto, NoRequest, NewRequest,
     TypeOK, Types, Paths, OnRegister, About, program, agent, host, server, uploads,
     bootstraps
<1>18. CASE StartServer
  BY <1>18 DEF StartServer, Goto, TypeOK, Types, Paths, OnRegister, About, program,
     agent, server, uploads
<1>19. CASE StartFails
  BY <1>19 DEF StartFails, Bootstrapped, Rest, Goto, NoRequest, NewRequest, TypeOK,
     Types, Paths, OnRegister, About, program, agent, host, server, uploads,
     bootstraps
<1>20. CASE MarkBootstrap
  BY <1>20 DEF MarkBootstrap, Bootstrapped, Fault, Rest, Goto, NoRequest,
     NewRequest, TypeOK, Types, Paths, OnRegister, About, program, agent, server,
     uploads
<1>21. CASE Handle
  BY <1>21 DEF Handle, Ask, Goto, NoRequest, NewRequest, About, TypeOK, Types,
     Paths, OnRegister, program, agent, host, server, uploads, bootstraps
<1>22. CASE Reported
  BY <1>22 DEF Reported, Rest, Goto, NoRequest, NewRequest, About, TypeOK, Types,
     Paths, OnRegister, program, agent, host, server, uploads, bootstraps
<1>23. CASE RunReturns
  BY <1>23, EndPaths DEF RunReturns
<1>24. CASE HeartbeatDone
  BY <1>24 DEF HeartbeatDone, Rest, Goto, NoRequest, NewRequest, About, TypeOK,
     Types, Paths, OnRegister, program, agent, host, server, uploads, bootstraps
<1>25. CASE HeartEnds
  BY <1>25 DEF HeartEnds, Rest, Goto, NoRequest, NewRequest, About, TypeOK, Types,
     Paths, OnRegister, program, agent, host, server, uploads, bootstraps
<1>26. CASE Boot
  <2>1. at[Heart] = "off" /\ at'[Heart] = "off" /\ at'[Poll] = "building"
    BY <1>26 DEF Boot, Goto, TypeOK, Types, Phases
  <2>2. ~About(Heart, {"capabilities"})'
    BY <1>26 DEF Boot, Paths, About
  <2>q. QED
    BY <2>1, <2>2 DEF Paths
<1>27. CASE Crash
  BY <1>27, EndPaths DEF Crash
<1>28. CASE Drift
  BY <1>28 DEF Drift, TypeOK, Types, Paths, OnRegister, About, program, loops,
     agent, server, uploads, bootstraps
<1>29. CASE ServerExits
  BY <1>29 DEF ServerExits, TypeOK, Types, Paths, OnRegister, About, program, loops,
     agent, server, uploads, bootstraps
<1>30. CASE Expire
  BY <1>30 DEF Expire, Expired, Fault, TypeOK, Types, Phases, Paths, OnRegister,
     Requests, Sessions, About, program, loops, agent, host, server, uploads,
     bootstraps
<1>31. CASE DesireLaunch
  BY <1>31 DEF DesireLaunch, TypeOK, Types, Paths, OnRegister, About, program,
     loops, agent, host, uploads, bootstraps
<1>32. CASE UNCHANGED vars
  BY <1>32 DEF vars, TypeOK, Types, Paths, OnRegister, About, program, loops, agent,
     host, server, uploads, bootstraps
<1>q. QED
  BY <1>1, <1>2, <1>3, <1>4, <1>5, <1>6, <1>7, <1>8, <1>9, <1>10, <1>11, <1>12,
     <1>13, <1>14, <1>15, <1>16, <1>17, <1>18, <1>19, <1>20, <1>21, <1>22, <1>23,
     <1>24, <1>25, <1>26, <1>27, <1>28, <1>29, <1>30, <1>31, <1>32 DEF Next,
     CommonStep, RequestStep, RegisterStep, PollStep, BootstrapStep, HeartStep

-------------------------------------------------------------------------------
(* Uploads and hellos *)

\* The newest upload is either being noted, unchanged, or has been noted.
CapsInv ==
  /\ \A l \in Loops : newest.caps = l /\ Noting(l, "caps") => stored = req[l].caps
  /\ "caps" \notin disputed =>
       \/ fp = NoCaps \/ fp = stored
       \/ \E l \in Loops : newest.caps = l /\ Noting(l, "caps")

\* And so is the newest hello.
ProfileInv ==
  /\ \A l \in Loops : newest.profile = l /\ Noting(l, "profile") => newest.gen = req[l].gen
  /\ "profile" \notin disputed =>
       \/ profile = newest.gen
       \/ \E l \in Loops : newest.profile = l /\ Noting(l, "profile")

IInv == TypeOK /\ Paths /\ CapsInv /\ ProfileInv

\* The newest upload is followed until it is noted.
LEMMA CapsStep == IInv /\ [Next]_vars => CapsInv'
<1> SUFFICES ASSUME TypeOK, Paths, CapsInv, [Next]_vars PROVE CapsInv'
  BY DEF IInv
<1>1. ASSUME NEW l \in Loops, Send(l)
          PROVE  CapsInv'
  BY <1>1 DEF Send, Goto, About, CapsInv, Paths, Noting, TypeOK, Types, program,
     agent, host, server, uploads, bootstraps
<1>2. ASSUME NEW l \in Loops, Answer(l)
          PROVE  CapsInv'
  BY <1>2 DEF Answer, Take, Authorized, Newest, Goto, About, CapsInv, Paths, Noting,
     TypeOK, Types, program, agent, host, bootstraps
<1>3. ASSUME NEW l \in Loops, LoseAnswer(l)
          PROVE  CapsInv'
  BY <1>3 DEF LoseAnswer, Take, Authorized, Newest, Fault, Goto, About, CapsInv,
     Paths, Noting, TypeOK, Types, program, agent, host, bootstraps
<1>4. ASSUME NEW l \in Loops, LoseRequest(l)
          PROVE  CapsInv'
  BY <1>4 DEF LoseRequest, Fault, Goto, CapsInv, Paths, Noting, About, TypeOK,
     Types, program, agent, host, server, uploads, bootstraps
<1>5. ASSUME NEW l \in Loops, Refuse(l)
          PROVE  CapsInv'
  BY <1>5 DEF Refuse, Goto, CapsInv, Paths, Noting, About, TypeOK, Types, program,
     agent, host, server, uploads, bootstraps
<1>6. ASSUME NEW l \in Loops, Build(l)
          PROVE  CapsInv'
  BY <1>6 DEF Build, Ask, Goto, NoRequest, NewRequest, CapsInv, Paths, Noting,
     About, TypeOK, Types, program, agent, host, server, uploads, bootstraps
<1>7. ASSUME NEW l \in Loops, SetSessionToken(l)
          PROVE  CapsInv'
  BY <1>7 DEF SetSessionToken, Goto, About, CapsInv, Paths, Noting, TypeOK, Types,
     program, host, server, uploads, bootstraps
<1>8. ASSUME NEW l \in Loops, ApplyProfile(l)
          PROVE  CapsInv'
  BY <1>8 DEF ApplyProfile, Note, Goto, About, CapsInv, Paths, Noting, TypeOK,
     Types, program, host, server, bootstraps
<1>9. ASSUME NEW l \in Loops, Declare(l)
          PROVE  CapsInv'
  BY <1>9 DEF Declare, SetFingerprint, Note, Registered, Rest, Goto, NoRequest,
     NewRequest, CapsInv, Paths, Noting, About, TypeOK, Types, program, host,
     server, bootstraps
<1>10. ASSUME NEW l \in Loops, Tick(l)
          PROVE  CapsInv'
  BY <1>10 DEF Tick, Ask, Rest, Goto, NoRequest, NewRequest, CapsInv, Paths, Noting,
     About, TypeOK, Types, program, agent, host, server, uploads, bootstraps
<1>11. ASSUME NEW l \in Loops, Unauthorized(l)
          PROVE  CapsInv'
  BY <1>11 DEF Unauthorized, Synced, Ask, Rest, Goto, NoRequest, NewRequest, About,
     CapsInv, Paths, Noting, TypeOK, Types, Phases, Requests, program, loops, agent,
     host, server, uploads, bootstraps
<1>12. ASSUME NEW l \in Loops, Failed(l)
          PROVE  CapsInv'
  BY <1>12 DEF Failed, Synced, Ask, Rest, Goto, NoRequest, NewRequest, About,
     CapsInv, Paths, Noting, TypeOK, Types, Phases, Requests, program, loops, agent,
     host, server, uploads, bootstraps
<1>13. ASSUME NEW kind \in {"database", "file"}, Claim(kind)
          PROVE  CapsInv'
  BY <1>13 DEF Claim, Polling, Pending, Authorized, Fault, Goto, About, CapsInv,
     Paths, Noting, TypeOK, Types, Phases, Requests, program, loops, agent, host,
     server, uploads, bootstraps
<1>14. ASSUME NEW kind \in {"database", "file"}, NothingToClaim(kind)
          PROVE  CapsInv'
  BY <1>14 DEF NothingToClaim, Polling, Ask, Rest, Goto, NoRequest, NewRequest,
     About, CapsInv, Paths, Noting, TypeOK, Types, program, agent, host, server,
     uploads, bootstraps
<1>15. CASE Compare
  BY <1>15 DEF Compare, Upload, Synced, Ask, Rest, Goto, NoRequest, NewRequest,
     About, CapsInv, Paths, Noting, TypeOK, Types, Phases, Requests, program, loops,
     agent, host, server, uploads, bootstraps
<1>16. CASE Uploaded
  BY <1>16 DEF Uploaded, SetFingerprint, Note, Synced, Ask, Rest, Goto, NoRequest,
     NewRequest, About, CapsInv, Paths, Noting, TypeOK, Types, program, host,
     server, bootstraps
<1>17. CASE CheckBootstrap
  BY <1>17 DEF CheckBootstrap, Bootstrapped, Rest, Goto, NoRequest, NewRequest,
     CapsInv, Paths, Noting, About, TypeOK, Types, program, agent, host, server,
     uploads, bootstraps
<1>18. CASE StartServer
  BY <1>18 DEF StartServer, Goto, CapsInv, Paths, Noting, About, TypeOK, Types,
     program, agent, server, uploads
<1>19. CASE StartFails
  BY <1>19 DEF StartFails, Bootstrapped, Rest, Goto, NoRequest, NewRequest, CapsInv,
     Paths, Noting, About, TypeOK, Types, program, agent, host, server, uploads,
     bootstraps
<1>20. CASE MarkBootstrap
  BY <1>20 DEF MarkBootstrap, Bootstrapped, Fault, Rest, Goto, NoRequest,
     NewRequest, CapsInv, Paths, Noting, About, TypeOK, Types, program, agent,
     server, uploads
<1>21. CASE Handle
  BY <1>21 DEF Handle, Ask, Goto, NoRequest, NewRequest, About, CapsInv, Paths,
     Noting, TypeOK, Types, program, agent, host, server, uploads, bootstraps
<1>22. CASE Reported
  BY <1>22 DEF Reported, Rest, Goto, NoRequest, NewRequest, About, CapsInv, Paths,
     Noting, TypeOK, Types, program, agent, host, server, uploads, bootstraps
<1>23. CASE RunReturns
  BY <1>23 DEF RunReturns, End, NoRequest, NewRequest, NoUpload, About, CapsInv,
     Paths, Noting, TypeOK, Types, host, server
<1>24. CASE HeartbeatDone
  BY <1>24 DEF HeartbeatDone, Rest, Goto, NoRequest, NewRequest, About, CapsInv,
     Paths, Noting, TypeOK, Types, program, agent, host, server, uploads, bootstraps
<1>25. CASE HeartEnds
  BY <1>25 DEF HeartEnds, Rest, Goto, NoRequest, NewRequest, About, CapsInv, Paths,
     Noting, TypeOK, Types, program, agent, host, server, uploads, bootstraps
<1>26. CASE Boot
  BY <1>26 DEF Boot, Goto, CapsInv, Paths, Noting, About, TypeOK, Types, Phases,
     Requests, program, loops, agent, host, server, uploads, bootstraps
<1>27. CASE Crash
  BY <1>27 DEF Crash, End, NoRequest, NewRequest, NoUpload, CapsInv, Paths, Noting,
     About, TypeOK, Types, host, server
<1>28. CASE Drift
  BY <1>28 DEF Drift, CapsInv, Paths, Noting, About, TypeOK, Types, program, loops,
     agent, server, uploads, bootstraps
<1>29. CASE ServerExits
  BY <1>29 DEF ServerExits, CapsInv, Paths, Noting, About, TypeOK, Types, program,
     loops, agent, server, uploads, bootstraps
<1>30. CASE Expire
  BY <1>30 DEF Expire, Expired, Fault, CapsInv, Paths, Noting, About, TypeOK, Types,
     Phases, Requests, program, loops, agent, host, server, uploads, bootstraps
<1>31. CASE DesireLaunch
  BY <1>31 DEF DesireLaunch, CapsInv, Paths, Noting, About, TypeOK, Types, program,
     loops, agent, host, uploads, bootstraps
<1>32. CASE UNCHANGED vars
  BY <1>32 DEF vars, CapsInv, Paths, Noting, About, TypeOK, Types, program, loops,
     agent, host, server, uploads, bootstraps
<1>q. QED
  BY <1>1, <1>2, <1>3, <1>4, <1>5, <1>6, <1>7, <1>8, <1>9, <1>10, <1>11, <1>12,
     <1>13, <1>14, <1>15, <1>16, <1>17, <1>18, <1>19, <1>20, <1>21, <1>22, <1>23,
     <1>24, <1>25, <1>26, <1>27, <1>28, <1>29, <1>30, <1>31, <1>32 DEF Next,
     CommonStep, RequestStep, RegisterStep, PollStep, BootstrapStep, HeartStep

\* So is the newest hello.
LEMMA ProfileStep == IInv /\ [Next]_vars => ProfileInv'
<1> SUFFICES ASSUME TypeOK, Paths, ProfileInv, [Next]_vars PROVE ProfileInv'
  BY DEF IInv
<1>1. ASSUME NEW l \in Loops, Send(l)
          PROVE  ProfileInv'
  BY <1>1 DEF Send, Goto, About, ProfileInv, Paths, Noting, TypeOK, Types, program,
     agent, host, server, uploads, bootstraps
<1>2. ASSUME NEW l \in Loops, Answer(l)
          PROVE  ProfileInv'
  BY <1>2 DEF Answer, Take, Authorized, Newest, Goto, About, ProfileInv, Paths,
     Noting, TypeOK, Types, program, agent, host, bootstraps
<1>3. ASSUME NEW l \in Loops, LoseAnswer(l)
          PROVE  ProfileInv'
  BY <1>3 DEF LoseAnswer, Take, Authorized, Newest, Fault, Goto, About, ProfileInv,
     Paths, Noting, TypeOK, Types, program, agent, host, bootstraps
<1>4. ASSUME NEW l \in Loops, LoseRequest(l)
          PROVE  ProfileInv'
  BY <1>4 DEF LoseRequest, Fault, Goto, ProfileInv, Paths, Noting, About, TypeOK,
     Types, program, agent, host, server, uploads, bootstraps
<1>5. ASSUME NEW l \in Loops, Refuse(l)
          PROVE  ProfileInv'
  BY <1>5 DEF Refuse, Goto, ProfileInv, Paths, Noting, About, TypeOK, Types,
     program, agent, host, server, uploads, bootstraps
<1>6. ASSUME NEW l \in Loops, Build(l)
          PROVE  ProfileInv'
  BY <1>6 DEF Build, Ask, Goto, NoRequest, NewRequest, ProfileInv, Paths, Noting,
     About, TypeOK, Types, program, agent, host, server, uploads, bootstraps
<1>7. ASSUME NEW l \in Loops, SetSessionToken(l)
          PROVE  ProfileInv'
  BY <1>7 DEF SetSessionToken, Goto, About, ProfileInv, Paths, Noting, TypeOK,
     Types, program, host, server, uploads, bootstraps
<1>8. ASSUME NEW l \in Loops, ApplyProfile(l)
          PROVE  ProfileInv'
  BY <1>8 DEF ApplyProfile, Note, Goto, About, ProfileInv, Paths, Noting, TypeOK,
     Types, program, host, server, bootstraps
<1>9. ASSUME NEW l \in Loops, Declare(l)
          PROVE  ProfileInv'
  BY <1>9 DEF Declare, SetFingerprint, Note, Registered, Rest, Goto, NoRequest,
     NewRequest, ProfileInv, Paths, Noting, About, TypeOK, Types, program, host,
     server, bootstraps
<1>10. ASSUME NEW l \in Loops, Tick(l)
          PROVE  ProfileInv'
  BY <1>10 DEF Tick, Ask, Rest, Goto, NoRequest, NewRequest, ProfileInv, Paths,
     Noting, About, TypeOK, Types, program, agent, host, server, uploads, bootstraps
<1>11. ASSUME NEW l \in Loops, Unauthorized(l)
          PROVE  ProfileInv'
  BY <1>11 DEF Unauthorized, Synced, Ask, Rest, Goto, NoRequest, NewRequest, About,
     ProfileInv, Paths, Noting, TypeOK, Types, Phases, Requests, program, loops,
     agent, host, server, uploads, bootstraps
<1>12. ASSUME NEW l \in Loops, Failed(l)
          PROVE  ProfileInv'
  BY <1>12 DEF Failed, Synced, Ask, Rest, Goto, NoRequest, NewRequest, About,
     ProfileInv, Paths, Noting, TypeOK, Types, Phases, Requests, program, loops,
     agent, host, server, uploads, bootstraps
<1>13. ASSUME NEW kind \in {"database", "file"}, Claim(kind)
          PROVE  ProfileInv'
  BY <1>13 DEF Claim, Polling, Pending, Authorized, Fault, Goto, About, ProfileInv,
     Paths, Noting, TypeOK, Types, Phases, Requests, program, loops, agent, host,
     server, uploads, bootstraps
<1>14. ASSUME NEW kind \in {"database", "file"}, NothingToClaim(kind)
          PROVE  ProfileInv'
  BY <1>14 DEF NothingToClaim, Polling, Ask, Rest, Goto, NoRequest, NewRequest,
     About, ProfileInv, Paths, Noting, TypeOK, Types, program, agent, host, server,
     uploads, bootstraps
<1>15. CASE Compare
  BY <1>15 DEF Compare, Upload, Synced, Ask, Rest, Goto, NoRequest, NewRequest,
     About, ProfileInv, Paths, Noting, TypeOK, Types, Phases, Requests, program,
     loops, agent, host, server, uploads, bootstraps
<1>16. CASE Uploaded
  BY <1>16 DEF Uploaded, SetFingerprint, Note, Synced, Ask, Rest, Goto, NoRequest,
     NewRequest, About, ProfileInv, Paths, Noting, TypeOK, Types, Phases, Requests,
     program, loops, agent, host, server, uploads, bootstraps
<1>17. CASE CheckBootstrap
  BY <1>17 DEF CheckBootstrap, Bootstrapped, Rest, Goto, NoRequest, NewRequest,
     ProfileInv, Paths, Noting, About, TypeOK, Types, program, agent, host, server,
     uploads, bootstraps
<1>18. CASE StartServer
  BY <1>18 DEF StartServer, Goto, ProfileInv, Paths, Noting, About, TypeOK, Types,
     program, agent, server, uploads
<1>19. CASE StartFails
  BY <1>19 DEF StartFails, Bootstrapped, Rest, Goto, NoRequest, NewRequest,
     ProfileInv, Paths, Noting, About, TypeOK, Types, program, agent, host, server,
     uploads, bootstraps
<1>20. CASE MarkBootstrap
  BY <1>20 DEF MarkBootstrap, Bootstrapped, Fault, Rest, Goto, NoRequest,
     NewRequest, ProfileInv, Paths, Noting, About, TypeOK, Types, program, agent,
     server, uploads
<1>21. CASE Handle
  BY <1>21 DEF Handle, Ask, Goto, NoRequest, NewRequest, About, ProfileInv, Paths,
     Noting, TypeOK, Types, program, agent, host, server, uploads, bootstraps
<1>22. CASE Reported
  BY <1>22 DEF Reported, Rest, Goto, NoRequest, NewRequest, About, ProfileInv,
     Paths, Noting, TypeOK, Types, program, agent, host, server, uploads, bootstraps
<1>23. CASE RunReturns
  BY <1>23 DEF RunReturns, End, NoRequest, NewRequest, NoUpload, About, ProfileInv,
     Paths, Noting, TypeOK, Types, host, server
<1>24. CASE HeartbeatDone
  BY <1>24 DEF HeartbeatDone, Rest, Goto, NoRequest, NewRequest, About, ProfileInv,
     Paths, Noting, TypeOK, Types, program, agent, host, server, uploads, bootstraps
<1>25. CASE HeartEnds
  BY <1>25 DEF HeartEnds, Rest, Goto, NoRequest, NewRequest, About, ProfileInv,
     Paths, Noting, TypeOK, Types, program, agent, host, server, uploads, bootstraps
<1>26. CASE Boot
  BY <1>26 DEF Boot, Goto, ProfileInv, Paths, Noting, About, TypeOK, Types, Phases,
     Requests, program, loops, agent, host, server, uploads, bootstraps
<1>27. CASE Crash
  BY <1>27 DEF Crash, End, NoRequest, NewRequest, NoUpload, ProfileInv, Paths,
     Noting, About, TypeOK, Types, host, server
<1>28. CASE Drift
  BY <1>28 DEF Drift, ProfileInv, Paths, Noting, About, TypeOK, Types, program,
     loops, agent, server, uploads, bootstraps
<1>29. CASE ServerExits
  BY <1>29 DEF ServerExits, ProfileInv, Paths, Noting, About, TypeOK, Types,
     program, loops, agent, server, uploads, bootstraps
<1>30. CASE Expire
  BY <1>30 DEF Expire, Expired, Fault, ProfileInv, Paths, Noting, About, TypeOK,
     Types, Phases, Requests, program, loops, agent, host, server, uploads,
     bootstraps
<1>31. CASE DesireLaunch
  BY <1>31 DEF DesireLaunch, ProfileInv, Paths, Noting, About, TypeOK, Types,
     program, loops, agent, host, uploads, bootstraps
<1>32. CASE UNCHANGED vars
  BY <1>32 DEF vars, ProfileInv, Paths, Noting, About, TypeOK, Types, program,
     loops, agent, host, server, uploads, bootstraps
<1>q. QED
  BY <1>1, <1>2, <1>3, <1>4, <1>5, <1>6, <1>7, <1>8, <1>9, <1>10, <1>11, <1>12,
     <1>13, <1>14, <1>15, <1>16, <1>17, <1>18, <1>19, <1>20, <1>21, <1>22, <1>23,
     <1>24, <1>25, <1>26, <1>27, <1>28, <1>29, <1>30, <1>31, <1>32 DEF Next,
     CommonStep, RequestStep, RegisterStep, PollStep, BootstrapStep, HeartStep

\* The inductive invariant.
THEOREM Invariant == Spec => []IInv
<1>1. Init => IInv
  BY InitType DEF Init, IInv, CapsInv, ProfileInv, Noting, NoUpload, About
<1>2. IInv /\ [Next]_vars => IInv'
  BY TypesStep, PhasesStep, PathsStep, CapsStep, ProfileStep DEF IInv, TypeOK
<1>q. QED
  BY <1>1, <1>2, PTL DEF Spec

\* Type correctness of the host agent: the heartbeats start with the poll loop,
\* after a registration, and a result belongs to a claimed operation.
THEOREM TypeCorrect == Spec => []TypeOK
<1>1. IInv => TypeOK
  BY DEF IInv
<1>q. QED
  BY <1>1, Invariant, PTL

\* An upload is skipped only when the server has these capabilities
\* (capabilityFingerprintMatches), for any declarations, operations and bounds.
THEOREM UploadsAreKnown == Spec => []FingerprintIsUploaded
<1>1. IInv => FingerprintIsUploaded
  BY DEF IInv, CapsInv, FingerprintIsUploaded, Noted
<1>q. QED
  BY <1>1, Invariant, PTL

\* The launch profile in use is the newest one handed out (register), unless two
\* registrations overtook each other or an answer was lost.
THEOREM ProfileIsTheNewest == Spec => []ProfileIsNewest
<1>1. IInv => ProfileIsNewest
  BY DEF IInv, ProfileInv, ProfileIsNewest, Noted
<1>q. QED
  BY <1>1, Invariant, PTL

-------------------------------------------------------------------------------
(* The bootstrap start *)

\* Without its marker the server has not been started, save for a start whose
\* marker is about to be written.
BootstrapInv ==
  ~unmarked =>
    /\ starts <= 1
    /\ ~marker /\ at[Poll] # "marking" => starts = 0
    /\ at[Poll] = "starting" => ~marker

\* A step that starts nothing and leaves the marker to the goroutine that writes it.
Quiet ==
  /\ UNCHANGED <<starts, unmarked, marker>>
  /\ at[Poll] = "marking" => at'[Poll] = "marking"
  /\ at'[Poll] = "starting" => at[Poll] = "starting"

\* Such a step preserves the invariant.
LEMMA QuietKeeps == BootstrapInv /\ Quiet => BootstrapInv'
  BY DEF BootstrapInv, Quiet

\* Requests, registrations and the other answers of both loops are quiet.
LEMMA CommonIsQuiet ==
  ASSUME TypeOK, Paths, NEW l \in Loops, CommonStep(l)
  PROVE  Quiet
<1>1. ASSUME RequestStep(l) PROVE Quiet
  BY <1>1 DEF RequestStep, Send, Answer, LoseAnswer, LoseRequest, Refuse, Take, Goto,
     Quiet, TypeOK, Types, host, bootstraps
<1>2. ASSUME RegisterStep(l) PROVE Quiet
  BY <1>2 DEF RegisterStep, Build, SetSessionToken, ApplyProfile, Declare, Registered, Ask,
     Rest, Goto, Quiet, TypeOK, Types, host, bootstraps
<1>3. ASSUME Tick(l) PROVE Quiet
  BY <1>3 DEF Tick, Ask, Rest, Goto, Quiet, TypeOK, Types, host, bootstraps
<1>4. ASSUME Unauthorized(l) PROVE Quiet
  BY <1>4 DEF Unauthorized, Synced, Ask, Rest, Goto, About, Paths, Quiet, TypeOK, Types,
     host, bootstraps
<1>5. ASSUME Failed(l) PROVE Quiet
  BY <1>5 DEF Failed, Synced, Ask, Rest, Goto, About, Paths, Quiet, TypeOK, Types,
     host, bootstraps
<1>q. QED
  BY <1>1, <1>2, <1>3, <1>4, <1>5 DEF CommonStep

\* Every step keeps the invariant.
LEMMA BootstrapIsKept == TypeOK /\ Paths /\ BootstrapInv /\ [Next]_vars => BootstrapInv'
<1> SUFFICES ASSUME TypeOK, Paths, BootstrapInv, [Next]_vars PROVE BootstrapInv'
  OBVIOUS
<1>1. ASSUME NEW l \in Loops, CommonStep(l) PROVE BootstrapInv'
  BY <1>1, CommonIsQuiet, QuietKeeps
<1>2. ASSUME NEW kind \in {"database", "file"}, Claim(kind) \/ NothingToClaim(kind)
      PROVE  BootstrapInv'
  <2>1. Quiet
    BY <1>2 DEF Claim, NothingToClaim, Polling, Ask, Rest, Goto, Quiet, TypeOK, Types, host,
       bootstraps
  <2>q. QED
    BY <2>1, QuietKeeps
<1>3. CASE Compare \/ Uploaded \/ Handle \/ Reported
  <2>1. Quiet
    BY <1>3 DEF Compare, Uploaded, Handle, Reported, Synced, Ask, Rest, Goto, Quiet, TypeOK,
       Types, host, bootstraps
  <2>q. QED
    BY <2>1, QuietKeeps
<1>4. CASE CheckBootstrap
  BY <1>4 DEF CheckBootstrap, Bootstrapped, Rest, Goto, BootstrapInv, TypeOK, Types, host,
     bootstraps
<1>5. CASE StartServer
  BY <1>5 DEF StartServer, Goto, BootstrapInv, TypeOK, Types
<1>6. CASE StartFails \/ MarkBootstrap
  BY <1>6 DEF StartFails, MarkBootstrap, Bootstrapped, Rest, Goto, BootstrapInv, TypeOK, Types,
     host, bootstraps
<1>7. CASE RunReturns \/ Crash
  BY <1>7 DEF RunReturns, Crash, End, BootstrapInv, TypeOK, Types, host
<1>8. CASE HeartStep \/ Boot
  <2>1. Quiet
    BY <1>8 DEF HeartStep, HeartbeatDone, HeartEnds, Boot, Rest, Goto, Quiet, TypeOK, Types,
       Phases, host, bootstraps
  <2>q. QED
    BY <2>1, QuietKeeps
<1>9. CASE Drift \/ ServerExits \/ Expire \/ DesireLaunch \/ UNCHANGED vars
  <2>1. Quiet
    BY <1>9 DEF Drift, ServerExits, Expire, DesireLaunch, vars, loops, host, bootstraps, Quiet
  <2>q. QED
    BY <2>1, QuietKeeps
<1>q. QED
  BY <1>1, <1>2, <1>3, <1>4, <1>5, <1>6, <1>7, <1>8, <1>9 DEF Next, PollStep, BootstrapStep

\* The bootstrap starts the server once, over any number of program runs and faults,
\* unless a start was left without its marker (maybeBootstrapStartOnce).
THEOREM OneBootstrapStart == Spec => []BootstrapOnce
<1>1. Init => BootstrapInv
  BY DEF Init, BootstrapInv
<1>2. IInv /\ BootstrapInv /\ [Next]_vars => BootstrapInv'
  BY BootstrapIsKept DEF IInv
<1>3. TypeOK /\ BootstrapInv => BootstrapOnce
  BY DEF BootstrapInv, BootstrapOnce, TypeOK, Types
<1>q. QED
  BY <1>1, <1>2, <1>3, Invariant, TypeCorrect, PTL DEF Spec

===============================================================================
