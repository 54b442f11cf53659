-------------------------------- MODULE WsClient --------------------------------
(***************************************************************************)
(* The WebSocket client (internal/websocket_client/client.go) with the     *)
(* goroutines that use it: the one that connects first, the reader         *)
(* (handleMessages of internal/client), heartbeatLoop, monitorConnection   *)
(* and reconnect.  Client.mutex guards conn and isRunning (Connect holds   *)
(* it over the dial), but no one holds it while it reads or writes: a      *)
(* goroutine uses the connection it has captured.                          *)
(*                                                                         *)
(* Every reconnect spawns one more monitor, and each monitor one more      *)
(* reconnect: Monitors and Reconnectors bound how many live at once, and   *)
(* one more is left out.                                                   *)
(***************************************************************************)
EXTENDS Integers

CONSTANTS
  Main, Reader, Beater,   \* Client.Start, handleMessages, heartbeatLoop
  Monitors, Reconnectors, \* goroutines of monitorConnection and reconnect
  Conns,                  \* connections; one nobody refers to is used again
  NoConn

Connectors == {Main} \cup Reconnectors
Goroutines == Connectors \cup {Reader, Beater} \cup Monitors

ASSUME NoConnAssumption == NoConn \notin Conns
ASSUME GoroutinesAssumption ==
  /\ Main \notin Reconnectors \cup {Reader, Beater} \cup Monitors
  /\ Reader \notin Reconnectors \cup {Beater} \cup Monitors
  /\ Beater \notin Reconnectors \cup Monitors
  /\ Reconnectors \cap Monitors = {}

VARIABLES
  conn,      \* Client.conn
  isRunning, \* Client.isRunning
  done,      \* ctx is cancelled
  beat,      \* lastHeartbeat: "never", "fresh", or "stale" (heartbeatTimeout ago)
  pc,        \* where each goroutine stands
  held,      \* the connection a goroutine has captured
  todo,      \* messages a goroutine has left to send
  open,      \* connections this side has not closed
  broken,    \* those of them that the network or the server has broken
  greeted,   \* history: the token was written to the current connection
  doubled    \* history: a reconnect was started beside another one, or with the
             \* connection up again

client == <<conn, isRunning, beat>>
goroutines == <<pc, held, todo>>
network == <<open, broken, greeted>>
vars == <<client, done, goroutines, network, doubled>>

IsConnected == isRunning /\ conn # NoConn
Dialing(g) == pc[g] = "dialing"
Goto(g, place) == pc' = [pc EXCEPT ![g] = place]

Init ==
  /\ conn = NoConn /\ isRunning = FALSE /\ done = FALSE /\ beat = "never"
  /\ pc = [g \in Goroutines |->
             IF g = Main THEN "dialing" ELSE IF g = Reader THEN "idle" ELSE "off"]
  /\ held = [g \in Goroutines |-> NoConn]
  /\ todo = [g \in Goroutines |-> 0]
  /\ open = {} /\ broken = {} /\ greeted = FALSE /\ doubled = FALSE

-------------------------------------------------------------------------------
(* Connect, reconnect *)

\* Nothing refers to k: it is used for the next connection.
Unused(k) == k # conn /\ \A g \in Goroutines : held[g] # k

\* Mutant of Connect: the callbacks are not called.
ConnectSilently(g) ==
  /\ Dialing(g)
  /\ \E k \in Conns :
       /\ Unused(k)
       /\ conn' = k
       /\ open' = {j \in open : ~Unused(j)} \cup {k}
       /\ broken' = {j \in broken : ~Unused(j)}
  /\ greeted' = FALSE /\ isRunning' = TRUE
  /\ Goto(g, "launching")
  /\ UNCHANGED <<beat, done, held, todo, doubled>>

\* Connect: whatever connection was there is overwritten.  A failed dial changes
\* nothing and is tried again after a while; its goroutine stays "dialing".
Connect(g) ==
  /\ Dialing(g)
  /\ \E k \in Conns :
       /\ Unused(k)
       /\ conn' = k
       /\ open' = {j \in open : ~Unused(j)} \cup {k}
       /\ broken' = {j \in broken : ~Unused(j)}
  /\ greeted' = FALSE
  /\ isRunning' = TRUE
  \* onConnect sends the token; after a reconnect onReconnect sends it once more.
  /\ todo' = [todo EXCEPT ![g] = IF g = Main THEN 1 ELSE 2]
  /\ Goto(g, "sending")
  /\ UNCHANGED <<beat, done, held, doubled>>

\* reconnect sees that ctx is done.
GiveUp(g) ==
  /\ Dialing(g) /\ g \in Reconnectors /\ done
  /\ Goto(g, "off")
  /\ UNCHANGED <<client, done, held, todo, network, doubled>>

\* go reconnect(), as the next step of goroutine g, which goes on to place.
Spawn(g, place) ==
  \/ \E r \in Reconnectors :
       /\ pc[r] = "off"
       /\ pc' = [pc EXCEPT ![r] = "dialing", ![g] = place]
       /\ doubled' = (doubled \/ IsConnected \/ \E c \in Connectors : Dialing(c))
  \/ /\ \A r \in Reconnectors : pc[r] # "off"
     /\ Goto(g, place) /\ UNCHANGED doubled

\* go monitorConnection(), and heartbeatLoop at first.  One more than Monitors
\* would do what they do.
Launch(g) ==
  /\ pc[g] = "launching"
  /\ LET started == IF g = Main THEN {Beater} ELSE {}
         monitor(m) == pc' = [h \in Goroutines |->
                                IF h = g THEN "off" ELSE IF h \in started THEN "idle"
                                ELSE IF h \in m THEN "select" ELSE pc[h]]
     IN  IF \E m \in Monitors : pc[m] = "off"
         THEN \E m \in Monitors : pc[m] = "off" /\ monitor({m})
         ELSE monitor({})
  /\ UNCHANGED <<client, done, held, todo, network, doubled>>

-------------------------------------------------------------------------------
(* SendMessage: by connectors (the token), and by heartbeatLoop *)

\* What a goroutine does after SendMessage has failed or handleDisconnection has
\* returned; heartbeatLoop calls handleDisconnection after SendMessage did.
After(g) ==
  CASE g \in Monitors -> "select"
    [] g \in Connectors -> IF todo[g] > 1 THEN "sending" ELSE "launching"
    [] g = Beater -> IF todo[g] > 0 THEN "closing" ELSE "idle"
    [] OTHER -> "idle"

LessToDo(g) == todo' = [todo EXCEPT ![g] = IF @ > 0 THEN @ - 1 ELSE 0]

HeartbeatTick ==
  /\ pc[Beater] = "idle" /\ IsConnected
  /\ Goto(Beater, "sending")
  /\ todo' = [todo EXCEPT ![Beater] = 1]
  /\ UNCHANGED <<client, done, held, network, doubled>>

Capture(g) ==
  /\ pc[g] = "sending"
  /\ IF IsConnected
     THEN /\ held' = [held EXCEPT ![g] = conn]
          /\ Goto(g, "writing") /\ UNCHANGED todo
     ELSE Goto(g, After(g)) /\ LessToDo(g) /\ UNCHANGED held
  /\ UNCHANGED <<client, done, network, doubled>>

\* A write to a broken connection may still succeed.
Write(g) ==
  /\ pc[g] = "writing" /\ held[g] \in open
  /\ held' = [held EXCEPT ![g] = NoConn]
  /\ LessToDo(g)
  /\ IF g = Beater
     THEN Goto(g, "idle") /\ beat' = "fresh" /\ UNCHANGED greeted
     ELSE /\ Goto(g, After(g)) /\ UNCHANGED beat
          /\ greeted' = (greeted \/ held[g] = conn)
  /\ UNCHANGED <<conn, isRunning, done, open, broken, doubled>>

WriteFails(g) ==
  /\ pc[g] = "writing" /\ (held[g] \notin open \/ held[g] \in broken)
  /\ held' = [held EXCEPT ![g] = NoConn]
  /\ Goto(g, "closing")
  /\ UNCHANGED <<client, done, todo, network, doubled>>

-------------------------------------------------------------------------------
(* handleDisconnection *)

\* Mutants of Disconnect: the connection is closed but kept; it is forgotten but
\* not closed.
DisconnectHalf(g) ==
  /\ pc[g] = "closing"
  /\ isRunning' = FALSE /\ UNCHANGED conn
  /\ open' = open \ {conn} /\ broken' = broken \ {conn}
  /\ IF isRunning THEN Goto(g, "signalling") /\ UNCHANGED todo
     ELSE Goto(g, After(g)) /\ LessToDo(g)
  /\ UNCHANGED <<beat, done, held, greeted, doubled>>

DisconnectOnly(g) ==
  /\ pc[g] = "closing"
  /\ isRunning' = FALSE /\ conn' = NoConn
  /\ IF isRunning THEN Goto(g, "signalling") /\ UNCHANGED todo
     ELSE Goto(g, After(g)) /\ LessToDo(g)
  /\ UNCHANGED <<beat, done, held, open, broken, greeted, doubled>>

\* The current connection is closed, whichever one the error came from.
Disconnect(g) ==
  /\ pc[g] = "closing"
  /\ isRunning' = FALSE /\ conn' = NoConn
  /\ open' = open \ {conn} /\ broken' = broken \ {conn}
  /\ IF isRunning THEN Goto(g, "signalling") /\ UNCHANGED todo
     ELSE Goto(g, After(g)) /\ LessToDo(g)
  /\ UNCHANGED <<beat, done, held, greeted, doubled>>

Receivers == {m \in Monitors : pc[m] = "select"}

\* The send on reconnectChan: to a monitor that waits in its select, if there is
\* one, and that monitor starts a reconnect.
SignalReconnect(g) ==
  /\ pc[g] = "signalling" /\ Receivers # {}
  /\ Spawn(g, After(g))
  /\ LessToDo(g)
  /\ UNCHANGED <<client, done, held, network>>

SignalDropped(g) ==
  /\ pc[g] = "signalling" /\ Receivers = {}
  /\ Goto(g, After(g)) /\ LessToDo(g)
  /\ UNCHANGED <<client, done, held, network, doubled>>

-------------------------------------------------------------------------------
(* monitorConnection, ReadMessage *)

\* Mutant of MonitorTick: only the heartbeat is looked at.
TickHeartbeatOnly(m) ==
  /\ pc[m] = "select" /\ IsConnected /\ beat = "stale"
  /\ Goto(m, "closing")
  /\ UNCHANGED <<client, done, held, todo, network, doubled>>

MonitorTick(m) ==
  /\ pc[m] = "select"
  /\ \/ /\ ~IsConnected
        /\ Spawn(m, "select")
     \/ /\ IsConnected /\ beat = "stale"
        /\ Goto(m, "closing") /\ UNCHANGED doubled
  /\ UNCHANGED <<client, done, held, todo, network>>

ReaderCapture ==
  /\ pc[Reader] = "idle" /\ ~done /\ IsConnected
  /\ held' = [held EXCEPT ![Reader] = conn]
  /\ Goto(Reader, "reading")
  /\ UNCHANGED <<client, done, todo, network, doubled>>

\* A message, or a pong, which refreshes lastHeartbeat.
ReadMessage ==
  /\ pc[Reader] = "reading" /\ held[Reader] \in open \ broken
  /\ held' = [held EXCEPT ![Reader] = NoConn]
  /\ Goto(Reader, "idle")
  /\ beat' \in {beat, "fresh"}
  /\ UNCHANGED <<conn, isRunning, done, todo, network, doubled>>

\* Mutant of ReadFails: a connection closed on this side is not noticed.
ReadFailsIfBroken ==
  /\ pc[Reader] = "reading" /\ held[Reader] \in broken
  /\ held' = [held EXCEPT ![Reader] = NoConn]
  /\ Goto(Reader, "closing")
  /\ UNCHANGED <<client, done, todo, network, doubled>>

ReadFails ==
  /\ pc[Reader] = "reading" /\ held[Reader] \notin open \ broken
  /\ held' = [held EXCEPT ![Reader] = NoConn]
  /\ Goto(Reader, "closing")
  /\ UNCHANGED <<client, done, todo, network, doubled>>

\* ctx is done: the loops return.
Leave(g) ==
  /\ done /\ pc[g] = IF g \in Monitors THEN "select" ELSE "idle"
  /\ Goto(g, "off")
  /\ UNCHANGED <<client, done, held, todo, network, doubled>>

-------------------------------------------------------------------------------

\* Client.Stop and Close.
Close ==
  /\ ~done /\ pc[Main] = "off"
  /\ done' = TRUE
  /\ isRunning' = FALSE /\ conn' = NoConn
  /\ open' = open \ {conn} /\ broken' = broken \ {conn}
  /\ UNCHANGED <<beat, goroutines, greeted, doubled>>

Break(k) ==
  /\ k \in open \ broken
  /\ broken' = broken \cup {k}
  /\ UNCHANGED <<client, done, goroutines, open, greeted, doubled>>

HeartbeatTimeout ==
  /\ beat = "fresh" /\ beat' = "stale"
  /\ UNCHANGED <<conn, isRunning, done, goroutines, network, doubled>>

SendStep(g) == Capture(g) \/ Write(g) \/ WriteFails(g)
HandleDisconnection(g) == Disconnect(g) \/ SignalReconnect(g) \/ SignalDropped(g)
ConnectorStep(g) == GiveUp(g) \/ Launch(g) \/ SendStep(g) \/ HandleDisconnection(g)
BeaterStep == HeartbeatTick \/ SendStep(Beater) \/ HandleDisconnection(Beater) \/ Leave(Beater)
MonitorStep(m) == MonitorTick(m) \/ HandleDisconnection(m) \/ Leave(m)
ReaderStep ==
  ReaderCapture \/ ReadMessage \/ ReadFails \/ HandleDisconnection(Reader) \/ Leave(Reader)

Next ==
  \/ \E g \in Connectors : Connect(g)
  \/ \E g \in Connectors : ConnectorStep(g)
  \/ BeaterStep
  \/ \E m \in Monitors : MonitorStep(m)
  \/ ReaderStep
  \/ Close
  \/ \E k \in Conns : Break(k)
  \/ HeartbeatTimeout

Spec == Init /\ [][Next]_vars

\* Goroutines run, tickers tick, and of the dials tried for ever one succeeds.
Fairness ==
  /\ \A g \in Connectors : SF_vars(Connect(g)) /\ WF_vars(ConnectorStep(g))
  /\ \A m \in Monitors : WF_vars(MonitorStep(m))
  /\ WF_vars(BeaterStep) /\ WF_vars(ReaderStep)
FairSpec == Spec /\ Fairness

-------------------------------------------------------------------------------
(* Properties *)

TypeOK ==
  /\ conn \in Conns \cup {NoConn} /\ isRunning \in BOOLEAN
  /\ done \in BOOLEAN /\ doubled \in BOOLEAN
  /\ beat \in {"never", "fresh", "stale"}
  /\ pc \in [Goroutines -> {"off", "dialing", "sending", "writing", "closing",
                            "signalling", "launching", "idle", "select", "reading"}]
  /\ held \in [Goroutines -> Conns \cup {NoConn}]
  /\ todo \in [Goroutines -> 0..2]
  /\ open \subseteq Conns /\ broken \subseteq open /\ greeted \in BOOLEAN
  /\ isRunning <=> conn # NoConn
  /\ conn # NoConn => conn \in open

\* No connection but the current one is open: none is left behind for the reader
\* to wait on while messages arrive on the current one, or for the server to take
\* for a second client.  It holds as long as no reconnect was started beside
\* another one or too late (tickers and delayed signals do that).
OneConnection == ~doubled => open \subseteq {conn}

\* A lost connection is replaced, whether or not its signal was received.
Reconnects == pc[Main] = "off" /\ ~IsConnected ~> IsConnected \/ done

\* The server learns the token on every connection that lasts.
Authenticated == \A k \in Conns : conn = k ~> greeted \/ conn # k

\* Stop waits for the reader, which ends when Close has closed its connection.
ReaderStops == done ~> pc[Reader] = "off" \/ doubled

===============================================================================
