------------------------------ MODULE HostAgent ------------------------------
(***************************************************************************)
(* The host agent (internal/hostagent/agent.go): Run registers, uploads    *)
(* the capabilities, starts the game server once, and then two goroutines  *)
(* share the session: Poll (Run itself, then pollLoop) and Heart           *)
(* (heartbeatLoop).  Each has one HTTP request under way at a time; either *)
(* registers anew when the server answers 401.  A request or its answer    *)
(* can be lost, a session can expire, the program can die.                 *)
(*                                                                         *)
(* scum_server is modelled from how the agent uses it.  What a request the *)
(* agent has given up does later is left out.                              *)
(***************************************************************************)
EXTENDS Integers

CONSTANTS
  Poll, Heart,      \* the two goroutines
  Nobody,           \* neither
  Caps, NoCaps,     \* capability declarations, known by their fingerprints
  DbOps, FileOps,   \* operations scum_server hands out
  NoOp,
  StartOnce,        \* StartupBehavior is bootstrap_start_once
  MaxLaunch,        \* bound on the launch profile generations
  MaxFaults,        \* bound on lost requests and answers, expiries, write errors
  MaxRuns           \* bound on the program runs

Loops == {Poll, Heart}
Ops == DbOps \cup FileOps
Sessions == {"none", "good", "bad"}

ASSUME LoopsAssumption == Poll # Heart /\ Nobody \notin Loops
ASSUME CapsAssumption == NoCaps \notin Caps /\ Caps # {}
ASSUME OpsAssumption == NoOp \notin Ops /\ DbOps \cap FileOps = {}
ASSUME StartOnceAssumption == StartOnce \in BOOLEAN
ASSUME BoundAssumption == MaxLaunch \in Nat /\ MaxFaults \in Nat /\ MaxRuns \in Nat

VARIABLES
  up,       \* the program is running
  runs,     \* program runs so far
  stage,    \* how far Run is: "register", "sync1", "bootstrap", "sync2" or "loop"
  at,       \* where each goroutine stands
  req,      \* its request: what it is about, the capabilities built for it, the
            \* session it carries (or a hello is answered with), and what an answer
            \* brings: a launch profile generation or an operation
  token,    \* Agent.sessionToken: "none", "good" or "bad" (expired)
  fp,       \* Agent.capabilityFingerprint
  profile,  \* the launch profile generation in the process manager's config
  local,    \* the capabilities buildCapabilities would find now
  running,  \* the game server runs
  marker,   \* the bootstrap marker file exists
  stored,   \* scum_server: the capabilities it knows
  launch,   \* scum_server: the launch profile generation it desires
  status,   \* scum_server: "pending", "claimed" or "done" for each operation
  faults,   \* faults so far
  newest,   \* history: whose upload and whose hello the server took last, and the
            \* launch profile generation it answered
  disputed, \* history: the agent may hold something older than that
  lost,     \* history: operations whose answer or result was lost
  starts,   \* history: bootstrap starts so far, 2 at most
  unmarked  \* history: a bootstrap start was not followed by its marker

program == <<up, runs>>
loops == <<stage, at, req>>
agent == <<token, fp, profile>>
host == <<local, running, marker>>
server == <<stored, launch, status>>
uploads == <<newest, disputed>>
bootstraps == <<starts, unmarked>>
vars == <<program, loops, agent, host, server, faults, uploads, lost, bootstraps>>

NewRequest(about, caps, op) ==
  [about |-> about, caps |-> caps, session |-> "none", gen |-> 0, op |-> op]
NoRequest == NewRequest("nothing", NoCaps, NoOp)
NoUpload == [caps |-> Nobody, profile |-> Nobody, gen |-> 0]

About(l, things) == req[l].about \in things
Goto(l, place) == at' = [at EXCEPT ![l] = place]
Ask(l, request) == Goto(l, "call") /\ req' = [req EXCEPT ![l] = request]
Rest(l, place) == Goto(l, place) /\ req' = [req EXCEPT ![l] = NoRequest]
Fault == faults < MaxFaults /\ faults' = faults + 1

Init ==
  /\ up = FALSE /\ runs = 0 /\ stage = "register"
  /\ at = [l \in Loops |-> "off"]
  /\ req = [l \in Loops |-> NoRequest]
  /\ token = "none" /\ fp = NoCaps /\ profile = 0
  /\ local \in Caps /\ running = FALSE /\ marker = FALSE
  /\ stored = NoCaps /\ launch = 0
  /\ status = [o \in Ops |-> "pending"]
  /\ faults = 0
  /\ newest = NoUpload /\ disputed = {}
  /\ lost = {} /\ starts = 0 /\ unmarked = FALSE

-------------------------------------------------------------------------------
(* requestJSON, and scum_server *)

\* The session token is read when the request is made; a hello carries none.
Send(l) ==
  /\ at[l] = "call"
  /\ req' = [req EXCEPT ![l].session = IF About(l, {"hello"}) THEN "none" ELSE token]
  /\ Goto(l, "sent")
  /\ UNCHANGED <<program, stage, agent, host, server, faults, uploads, lost, bootstraps>>

Authorized(l) == About(l, {"hello"}) \/ req[l].session = "good"

\* Whose upload, and whose hello, is now the newest; Nobody when its answer is lost.
Newest(l, who) ==
  [caps |-> IF About(l, {"hello", "capabilities"}) THEN who ELSE newest.caps,
   profile |-> IF About(l, {"hello"}) THEN who ELSE newest.profile,
   gen |-> IF About(l, {"hello"}) THEN launch ELSE newest.gen]

\* The server stores capabilities, hands out its launch profile, takes a result.
Take(l) ==
  /\ at[l] = "sent" /\ Authorized(l)
  /\ About(l, {"hello", "capabilities", "heartbeat", "result"})
  /\ stored' = IF About(l, {"hello", "capabilities"}) THEN req[l].caps ELSE stored
  /\ status' = IF About(l, {"result"}) THEN [status EXCEPT ![req[l].op] = "done"] ELSE status
  /\ UNCHANGED launch

Answer(l) ==
  /\ Take(l)
  /\ req' = IF About(l, {"hello"})
            THEN [req EXCEPT ![l].session = "good", ![l].gen = launch] ELSE req
  /\ newest' = Newest(l, l)
  /\ Goto(l, "answered")
  /\ UNCHANGED <<program, stage, agent, host, faults, disputed, lost, bootstraps>>

LoseAnswer(l) ==
  /\ Take(l) /\ Fault
  /\ newest' = Newest(l, Nobody)
  /\ disputed' = disputed \cup (IF About(l, {"hello", "capabilities"}) THEN {"caps"} ELSE {})
                          \cup (IF About(l, {"hello"}) THEN {"profile"} ELSE {})
  /\ Goto(l, "failed")
  /\ UNCHANGED <<program, stage, req, agent, host, lost, bootstraps>>

\* The server never sees the request, or answers with an error other than 401.
LoseRequest(l) ==
  /\ at[l] = "sent" /\ Fault
  /\ Goto(l, "failed")
  /\ UNCHANGED <<program, stage, req, agent, host, server, uploads, lost, bootstraps>>

\* 401.
Refuse(l) ==
  /\ at[l] = "sent" /\ ~Authorized(l)
  /\ Goto(l, "refused")
  /\ UNCHANGED <<program, stage, req, agent, host, server, faults, uploads, lost, bootstraps>>

\* nextDatabaseOperation, nextFileOperation: the server claims a pending operation
\* for this agent, or answers 404.
Pending(kind) == {o \in IF kind = "database" THEN DbOps ELSE FileOps : status[o] = "pending"}
Polling(kind) == at[Poll] = "sent" /\ Authorized(Poll) /\ About(Poll, {kind})

Claim(kind) ==
  /\ Polling(kind)
  /\ \E o \in Pending(kind) :
       /\ status' = [status EXCEPT ![o] = "claimed"]
       /\ \/ /\ req' = [req EXCEPT ![Poll].op = o]
             /\ Goto(Poll, "answered")
             /\ UNCHANGED <<faults, lost>>
          \/ /\ Fault /\ lost' = lost \cup {o}
             /\ Goto(Poll, "failed")
             /\ UNCHANGED req
  /\ UNCHANGED <<program, stage, agent, host, stored, launch, uploads, bootstraps>>

\* Mutant of NothingToClaim: without a database operation the round ends.
EndRound(kind) ==
  /\ Polling(kind) /\ Pending(kind) = {}
  /\ Rest(Poll, "ticking")
  /\ UNCHANGED <<program, stage, agent, host, server, faults, uploads, lost, bootstraps>>

\* No database operation: ask for a file operation; none: wait for the next tick.
NothingToClaim(kind) ==
  /\ Polling(kind) /\ Pending(kind) = {}
  /\ IF kind = "database" THEN Ask(Poll, NewRequest("file", NoCaps, NoOp))
     ELSE Rest(Poll, "ticking")
  /\ UNCHANGED <<program, stage, agent, host, server, faults, uploads, lost, bootstraps>>

-------------------------------------------------------------------------------
(* register *)

\* The capabilities are built before the hello is sent.
Build(l) ==
  /\ at[l] = "building"
  /\ Ask(l, NewRequest("hello", local, NoOp))
  /\ UNCHANGED <<program, stage, agent, host, server, faults, uploads, lost, bootstraps>>

SetSessionToken(l) ==
  /\ at[l] = "answered" /\ About(l, {"hello"})
  /\ token' = req[l].session
  /\ Goto(l, "profile")
  /\ UNCHANGED <<program, stage, req, fp, profile, host, server, faults, uploads, lost, bootstraps>>

\* Something of l's answer is noted: it is the newest, or it may be outdated.
Note(l, thing) ==
  /\ disputed' = IF newest[thing] = l THEN disputed \ {thing} ELSE disputed \cup {thing}
  /\ UNCHANGED newest

\* Mutant of ApplyProfile: only the first registration applies its profile.
KeepProfile(l) ==
  /\ at[l] = "profile"
  /\ profile' = IF stage = "register" THEN req[l].gen ELSE profile
  /\ Note(l, "profile")
  /\ Goto(l, "declaring")
  /\ UNCHANGED <<program, stage, req, token, fp, host, server, faults, lost, bootstraps>>

\* ApplyLaunchProfile sets every field of the configuration the agent ever changes.
ApplyProfile(l) ==
  /\ at[l] = "profile"
  /\ profile' = req[l].gen
  /\ Note(l, "profile")
  /\ Goto(l, "declaring")
  /\ UNCHANGED <<program, stage, req, token, fp, host, server, faults, lost, bootstraps>>

\* Where a goroutine goes on after register has returned.
Registered(l) ==
  IF l = Poll /\ stage = "register"
  THEN stage' = "sync1" /\ Rest(Poll, "syncing")
  ELSE Rest(l, "ticking") /\ UNCHANGED stage

SetFingerprint(l) == fp' = req[l].caps /\ Note(l, "caps")

Declare(l) ==
  /\ at[l] = "declaring"
  /\ SetFingerprint(l)
  /\ Registered(l)
  /\ UNCHANGED <<program, token, profile, host, server, faults, lost, bootstraps>>

-------------------------------------------------------------------------------
(* syncCapabilities *)

\* After it, also when it has failed: Run goes on and in the end starts
\* heartbeatLoop; pollLoop asks for work.
Synced ==
  CASE stage = "sync1" -> stage' = "bootstrap" /\ Rest(Poll, "bootstrap")
    [] stage = "sync2" -> /\ stage' = "loop"
                          /\ at' = [l \in Loops |-> "ticking"]
                          /\ req' = [req EXCEPT ![Poll] = NoRequest]
    [] OTHER -> Ask(Poll, NewRequest("database", NoCaps, NoOp)) /\ UNCHANGED stage

Upload == NewRequest("capabilities", local, NoOp)

\* Mutant of Compare: the fingerprint is noted before the upload.
CompareAndSet ==
  /\ at[Poll] = "syncing"
  /\ IF fp = local THEN Synced ELSE Ask(Poll, Upload) /\ UNCHANGED stage
  /\ fp' = local
  /\ UNCHANGED <<program, token, profile, host, server, faults, uploads, lost, bootstraps>>

Compare ==
  /\ at[Poll] = "syncing"
  /\ IF fp = local THEN Synced ELSE Ask(Poll, Upload) /\ UNCHANGED stage
  /\ UNCHANGED <<program, agent, host, server, faults, uploads, lost, bootstraps>>

Uploaded ==
  /\ at[Poll] = "answered" /\ About(Poll, {"capabilities"})
  /\ SetFingerprint(Poll)
  /\ Synced
  /\ UNCHANGED <<program, token, profile, host, server, faults, lost, bootstraps>>

-------------------------------------------------------------------------------
(* maybeBootstrapStartOnce *)

Bootstrapped == stage' = "sync2" /\ Rest(Poll, "syncing")

\* A server that runs already is only recorded; one that is not ready is left.
CheckBootstrap ==
  /\ at[Poll] = "bootstrap"
  /\ \/ /\ StartOnce /\ ~marker
        /\ Goto(Poll, IF running THEN "marking" ELSE "starting")
        /\ UNCHANGED <<stage, req>>
     \/ /\ StartOnce /\ ~marker => ~running
        /\ Bootstrapped
  /\ UNCHANGED <<program, agent, host, server, faults, uploads, lost, bootstraps>>

StartServer ==
  /\ at[Poll] = "starting"
  /\ running' = TRUE
  /\ starts' = IF starts < 2 THEN starts + 1 ELSE 2
  /\ Goto(Poll, "marking")
  /\ UNCHANGED <<program, stage, req, agent, local, marker, server, faults, uploads, lost, unmarked>>

StartFails ==
  /\ at[Poll] = "starting"
  /\ Bootstrapped
  /\ UNCHANGED <<program, agent, host, server, faults, uploads, lost, bootstraps>>

\* Mutant of MarkBootstrap: the marker is not written.
ForgetMarker ==
  /\ at[Poll] = "marking"
  /\ Bootstrapped
  /\ UNCHANGED <<program, agent, host, server, faults, uploads, lost, bootstraps>>

\* The marker is written after the start.
MarkBootstrap ==
  /\ at[Poll] = "marking"
  /\ \/ marker' = TRUE /\ UNCHANGED <<faults, unmarked>>
     \/ Fault /\ unmarked' = TRUE /\ UNCHANGED marker
  /\ Bootstrapped
  /\ UNCHANGED <<program, agent, local, running, server, uploads, lost, starts>>

-------------------------------------------------------------------------------
(* heartbeatLoop and pollLoop *)

Tick(l) ==
  /\ at[l] = "ticking"
  /\ IF l = Heart THEN Ask(Heart, NewRequest("heartbeat", NoCaps, NoOp))
     ELSE Rest(Poll, "syncing")
  /\ UNCHANGED <<program, stage, agent, host, server, faults, uploads, lost, bootstraps>>

HeartbeatDone ==
  /\ at[Heart] = "answered" /\ About(Heart, {"heartbeat"})
  /\ Rest(Heart, "ticking")
  /\ UNCHANGED <<program, stage, agent, host, server, faults, uploads, lost, bootstraps>>

\* Mutant of Handle: the result is posted without the operation's id.
HandleNameless ==
  /\ at[Poll] = "answered" /\ About(Poll, {"database", "file"})
  /\ Ask(Poll, NewRequest("result", NoCaps, NoOp))
  /\ UNCHANGED <<program, stage, agent, host, server, faults, uploads, lost, bootstraps>>

\* The operation is executed, and its result sent.
Handle ==
  /\ at[Poll] = "answered" /\ About(Poll, {"database", "file"})
  /\ Ask(Poll, NewRequest("result", NoCaps, req[Poll].op))
  /\ UNCHANGED <<program, stage, agent, host, server, faults, uploads, lost, bootstraps>>

\* An operation is put away once its result was sent, whether it arrived or not.
Reported ==
  /\ at[Poll] \in {"answered", "failed", "refused"} /\ About(Poll, {"result"})
  /\ lost' = IF at[Poll] = "answered" THEN lost ELSE lost \cup {req[Poll].op}
  /\ Rest(Poll, "ticking")
  /\ UNCHANGED <<program, stage, agent, host, server, faults, uploads, bootstraps>>

\* Mutant of Unauthorized: a refused request is only logged.
IgnoreRefusal(l) ==
  /\ at[l] = "refused" /\ ~About(l, {"result"})
  /\ IF About(l, {"capabilities"}) /\ stage # "loop" THEN Synced
     ELSE Rest(l, "ticking") /\ UNCHANGED stage
  /\ UNCHANGED <<program, agent, host, server, faults, uploads, lost, bootstraps>>

\* A refused request makes its loop register; while Run starts up it is ignored.
Unauthorized(l) ==
  /\ at[l] = "refused" /\ ~About(l, {"result"})
  /\ IF About(l, {"capabilities"}) /\ stage # "loop" THEN Synced
     ELSE Rest(l, "building") /\ UNCHANGED stage
  /\ UNCHANGED <<program, agent, host, server, faults, uploads, lost, bootstraps>>

\* A failed upload, heartbeat or poll is tried again later.
Failed(l) ==
  /\ at[l] = "failed" /\ ~About(l, {"hello", "result"})
  /\ IF About(l, {"capabilities"}) THEN Synced ELSE Rest(l, "ticking") /\ UNCHANGED stage
  /\ UNCHANGED <<program, agent, host, server, faults, uploads, lost, bootstraps>>

\* A failed registration ends heartbeatLoop; the error lies in errCh.
HeartEnds ==
  /\ at[Heart] = "failed" /\ About(Heart, {"hello"})
  /\ Rest(Heart, "ended")
  /\ UNCHANGED <<program, stage, agent, host, server, faults, uploads, lost, bootstraps>>

-------------------------------------------------------------------------------
(* The program's life, the host and the server *)

\* The program starts: nothing in memory survives the run before.
Boot ==
  /\ ~up /\ runs < MaxRuns
  /\ up' = TRUE /\ runs' = runs + 1
  /\ stage' = "register"
  /\ Goto(Poll, "building")
  /\ UNCHANGED <<req, agent, host, server, faults, uploads, lost, bootstraps>>

\* What ends with the program.
End ==
  /\ up' = FALSE
  /\ stage' = "register"
  /\ at' = [l \in Loops |-> "off"]
  /\ req' = [l \in Loops |-> NoRequest]
  /\ token' = "none" /\ fp' = NoCaps /\ profile' = 0
  /\ newest' = NoUpload /\ disputed' = {}
  /\ lost' = lost \cup ({req[Poll].op} \cap Ops)
  /\ unmarked' = (unmarked \/ at[Poll] = "marking")
  /\ UNCHANGED <<runs, host, server, faults, starts>>

\* Poll's registration has failed: Run returns the error and the program exits.
RunReturns == at[Poll] = "failed" /\ About(Poll, {"hello"}) /\ End

\* A crash, or a signal.
Crash == up /\ End

\* The server's binary, its process and the marker change what is declared.
Drift ==
  /\ local' \in Caps \ {local}
  /\ UNCHANGED <<program, loops, agent, running, marker, server, faults, uploads, lost, bootstraps>>

ServerExits ==
  /\ running /\ running' = FALSE
  /\ UNCHANGED <<program, loops, agent, local, marker, server, faults, uploads, lost, bootstraps>>

\* scum_server forgets its sessions.
Expired(session) == IF session = "good" THEN "bad" ELSE session

Expire ==
  /\ Fault
  /\ token' = Expired(token)
  /\ req' = [l \in Loops |-> [req[l] EXCEPT !.session = Expired(@)]]
  /\ UNCHANGED <<program, stage, at, fp, profile, host, server, uploads, lost, bootstraps>>

DesireLaunch ==
  /\ launch < MaxLaunch
  /\ launch' = launch + 1
  /\ UNCHANGED <<program, loops, agent, host, stored, status, faults, uploads, lost, bootstraps>>

RequestStep(l) == Send(l) \/ Answer(l) \/ LoseAnswer(l) \/ LoseRequest(l) \/ Refuse(l)
RegisterStep(l) == Build(l) \/ SetSessionToken(l) \/ ApplyProfile(l) \/ Declare(l)
BootstrapStep == CheckBootstrap \/ StartServer \/ StartFails \/ MarkBootstrap
PollStep ==
  \/ \E kind \in {"database", "file"} : Claim(kind) \/ NothingToClaim(kind)
  \/ Compare \/ Uploaded \/ BootstrapStep \/ Handle \/ Reported \/ RunReturns
HeartStep == HeartbeatDone \/ HeartEnds
CommonStep(l) ==
  RequestStep(l) \/ RegisterStep(l) \/ Tick(l) \/ Unauthorized(l) \/ Failed(l)

Next ==
  \/ \E l \in Loops : CommonStep(l)
  \/ PollStep
  \/ HeartStep
  \/ Boot \/ Crash
  \/ Drift \/ ServerExits \/ Expire \/ DesireLaunch

Spec == Init /\ [][Next]_vars

\* The goroutines run, their tickers tick, and a request ends (RequestTimeout).
Fairness == WF_vars(CommonStep(Poll) \/ PollStep) /\ WF_vars(CommonStep(Heart) \/ HeartStep)
FairSpec == Spec /\ Fairness

-------------------------------------------------------------------------------
(* Properties *)

Places == {"off", "ticking", "building", "call", "sent", "answered", "failed", "refused",
           "profile", "declaring", "syncing", "bootstrap", "starting", "marking", "ended"}
Requests == [about : {"nothing", "hello", "capabilities", "heartbeat", "database", "file",
                      "result"},
             caps : Caps \cup {NoCaps}, session : Sessions, gen : 0..MaxLaunch,
             op : Ops \cup {NoOp}]

Types ==
  /\ up \in BOOLEAN /\ runs \in 0..MaxRuns
  /\ stage \in {"register", "sync1", "bootstrap", "sync2", "loop"}
  /\ at \in [Loops -> Places] /\ req \in [Loops -> Requests]
  /\ token \in Sessions /\ fp \in Caps \cup {NoCaps} /\ profile \in 0..MaxLaunch
  /\ local \in Caps /\ running \in BOOLEAN /\ marker \in BOOLEAN
  /\ stored \in Caps \cup {NoCaps} /\ launch \in 0..MaxLaunch
  /\ status \in [Ops -> {"pending", "claimed", "done"}]
  /\ faults \in 0..MaxFaults
  /\ newest \in [caps : Loops \cup {Nobody}, profile : Loops \cup {Nobody}, gen : 0..MaxLaunch]
  /\ disputed \subseteq {"caps", "profile"}
  /\ lost \subseteq Ops /\ starts \in 0..2 /\ unmarked \in BOOLEAN

\* Heart runs only beside pollLoop, both have a session to use, and a result is sent
\* for an operation that was claimed.
Phases ==
  /\ ~up => \A l \in Loops : at[l] = "off"
  /\ at[Heart] # "off" => stage = "loop"
  /\ stage # "register" => token # "none"
  /\ \A l \in Loops :
       /\ at[l] = "answered" /\ About(l, {"hello"}) => req[l].session # "none"
       /\ req[l].op # NoOp => status[req[l].op] # "pending"
       /\ About(l, {"result"}) => req[l].op # NoOp

TypeOK == Types /\ Phases

\* The server has taken an upload or answered a hello, and l has not noted it yet.
Noting(l, thing) ==
  /\ About(l, IF thing = "caps" THEN {"hello", "capabilities"} ELSE {"hello"})
  /\ at[l] \in {"answered", "profile"} \cup (IF thing = "caps" THEN {"declaring"} ELSE {})

Noted(thing) == (\A l \in Loops : ~Noting(l, thing)) /\ thing \notin disputed

\* "capabilityFingerprintMatches reports whether the supplied capability fingerprint
\* already matches the last successful upload": with no upload being noted, an
\* upload is skipped only when the server has these capabilities, unless an answer
\* was lost, or the answers to two loops were noted in another order than given.
FingerprintIsUploaded == Noted("caps") /\ fp # NoCaps => fp = stored

\* The launch profile in use is the one the server handed out last ("the launch
\* generation that is desired now"), with the same reservation.
ProfileIsNewest == Noted("profile") => profile = newest.gen

\* "bootstrapMarkerPath returns the host-local path used to prevent duplicate
\* bootstrap_start_once process starts": there is one start, unless its marker
\* could not be written or the program died before writing it.
BootstrapOnce == starts > 1 => unmarked

\* "re-registers when the session expires": while the agent runs its loops, an
\* expired session is replaced.
SessionRenewed == token = "bad" /\ stage = "loop" ~> token = "good" \/ ~up

\* pollLoop "continuously claims database and file operations and reports execution
\* results": every operation is done, unless its answer or its result was lost.
OperationsServed ==
  \A o \in Ops : up /\ status[o] # "done" ~> status[o] = "done" \/ o \in lost \/ ~up

===============================================================================
