----------------------------- MODULE WsClientProofs -----------------------------
(***************************************************************************)
(* Proofs about WsClient: type correctness, and that the client has one    *)
(* connection open at most as long as no reconnect was started beside      *)
(* another one or with the connection up.  Beside the types the induction  *)
(* needs that then one goroutine at most dials, and only without a         *)
(* connection (OneDialer): Connect overwrites whatever conn holds.         *)
(***************************************************************************)
EXTENDS WsClient, TLAPS

Places == {"off", "dialing", "sending", "writing", "closing",
           "signalling", "launching", "idle", "select", "reading"}

OneDialer ==
  ~doubled =>
    \A c \in Connectors : Dialing(c) =>
      conn = NoConn /\ \A d \in Connectors : Dialing(d) => c = d

IInv == TypeOK /\ OneDialer /\ OneConnection

-------------------------------------------------------------------------------

\* Where a goroutine goes on after handleDisconnection it does not dial.
LEMMA AfterPlace ==
  ASSUME NEW g \in Goroutines
  PROVE  After(g) \in Places \ {"dialing"}
BY DEF After, Places

\* Counting the messages down keeps the counter in its range.
LEMMA LessToDoType ==
  ASSUME TypeOK, NEW g \in Goroutines, LessToDo(g)
  PROVE  todo' \in [Goroutines -> 0..2]
<1>1. todo[g] \in 0..2 /\ todo \in [Goroutines -> 0..2]
  BY DEF TypeOK
<1>2. (IF todo[g] > 0 THEN todo[g] - 1 ELSE 0) \in 0..2
  BY <1>1
<1> QED
  BY <1>1, <1>2 DEF LessToDo

\* A step that makes no goroutine dial and sets no connection keeps OneDialer.
LEMMA NoNewDialer ==
  ASSUME OneDialer, UNCHANGED doubled, conn' \in {conn, NoConn},
         \A c \in Connectors : Dialing(c)' => Dialing(c)
  PROVE  OneDialer'
BY DEF OneDialer

\* A goroutine that goes to a place other than "dialing" makes nobody dial.
LEMMA GotoPlace ==
  ASSUME TypeOK, NEW g \in Goroutines, NEW p \in Places \ {"dialing"}, Goto(g, p)
  PROVE  /\ pc' \in [Goroutines -> Places]
         /\ \A c \in Connectors : Dialing(c)' => Dialing(c)
<1>1. pc \in [Goroutines -> Places] /\ Connectors \subseteq Goroutines
  BY DEF TypeOK, Places, Goroutines
<1>2. pc' = [pc EXCEPT ![g] = p]
  BY DEF Goto
<1> QED
  BY <1>1, <1>2 DEF Dialing

\* go reconnect() keeps OneDialer: beside a dialer or a connection it sets doubled.
LEMMA SpawnDialer ==
  ASSUME TypeOK, OneDialer, NEW g \in Goroutines, NEW p \in Places \ {"dialing"},
         Spawn(g, p), UNCHANGED <<conn, isRunning>>
  PROVE  /\ pc' \in [Goroutines -> Places] /\ doubled' \in BOOLEAN
         /\ OneDialer'
         /\ ~doubled' => ~doubled
<1>1. pc \in [Goroutines -> Places] /\ doubled \in BOOLEAN
  BY DEF TypeOK, Places
<1>2. CASE Goto(g, p) /\ UNCHANGED doubled
  BY <1>1, <1>2, GotoPlace, NoNewDialer
<1>3. ASSUME NEW r \in Reconnectors, pc[r] = "off",
             pc' = [pc EXCEPT ![r] = "dialing", ![g] = p],
             doubled' = (doubled \/ IsConnected \/ \E c \in Connectors : Dialing(c))
      PROVE  /\ pc' \in [Goroutines -> Places] /\ doubled' \in BOOLEAN
             /\ OneDialer' /\ (~doubled' => ~doubled)
  <2>1. r \in Goroutines /\ Connectors \subseteq Goroutines
    BY DEF Goroutines, Connectors
  <2>2. pc' \in [Goroutines -> Places] /\ doubled' \in BOOLEAN
    BY <1>1, <1>3, <2>1 DEF Places
  <2>3. \A c \in Connectors : Dialing(c)' => c = r \/ Dialing(c)
    BY <1>1, <1>3, <2>1 DEF Dialing
  <2>4. ~doubled' => conn = NoConn /\ \A c \in Connectors : ~Dialing(c)
    BY <1>3 DEF TypeOK, IsConnected
  <2> QED
    BY <1>3, <2>2, <2>3, <2>4 DEF OneDialer
<1> QED
  BY <1>2, <1>3 DEF Spawn

-------------------------------------------------------------------------------

\* The inductive invariant holds at first.
LEMMA InitInvariant == Init => IInv
<1> SUFFICES ASSUME Init PROVE IInv
  OBVIOUS
<1>1. TypeOK
  <2>1. pc \in [Goroutines -> Places]
    BY DEF Init, Places
  <2>2. todo \in [Goroutines -> 0..2]
    <3> 0 \in 0..2
      OBVIOUS
    <3> QED
      BY DEF Init
  <2>3. held \in [Goroutines -> Conns \cup {NoConn}]
    BY DEF Init
  <2> QED
    BY <2>1, <2>2, <2>3 DEF Init, TypeOK, Places
<1>2. \A c \in Connectors : Dialing(c) => c = Main
  <2> Connectors \subseteq Goroutines
    BY DEF Goroutines
  <2> QED
    BY DEF Init, Dialing
<1> QED
  BY <1>1, <1>2 DEF Init, IInv, OneDialer, OneConnection

\* Every step preserves it.
LEMMA StepInvariant == IInv /\ [Next]_vars => IInv'
<1> SUFFICES ASSUME IInv, [Next]_vars PROVE IInv'
  OBVIOUS
<1> USE DEF IInv
<1>a. /\ Connectors \subseteq Goroutines /\ Monitors \subseteq Goroutines
      /\ Beater \in Goroutines /\ Reader \in Goroutines
  BY DEF Goroutines
<1>b. pc \in [Goroutines -> Places] /\ held \in [Goroutines -> Conns \cup {NoConn}]
  BY DEF TypeOK, Places
<1>1. ASSUME NEW g \in Connectors, Connect(g)
      PROVE  IInv'
  <2>1. PICK k \in Conns :
          /\ Unused(k) /\ conn' = k
          /\ open' = {j \in open : ~Unused(j)} \cup {k}
          /\ broken' = {j \in broken : ~Unused(j)}
    BY <1>1 DEF Connect
  <2>2. Goto(g, "sending") /\ "sending" \in Places \ {"dialing"}
    BY <1>1 DEF Connect, Places
  <2>3. pc' \in [Goroutines -> Places] /\ \A c \in Connectors : Dialing(c)' => Dialing(c)
    BY <1>a, <2>2, GotoPlace
  <2>4. TypeOK'
    <3>1. todo' \in [Goroutines -> 0..2]
      <4>1. (IF g = Main THEN 1 ELSE 2) \in 0..2
        OBVIOUS
      <4> QED
        BY <1>1, <4>1 DEF Connect, TypeOK
    <3>2. isRunning' = TRUE /\ conn' # NoConn /\ conn' \in open'
      BY <1>1, <2>1, NoConnAssumption DEF Connect
    <3> QED
      BY <1>1, <2>1, <2>3, <3>1, <3>2 DEF Connect, TypeOK, Places
  <2>5. ~doubled => \A c \in Connectors : ~Dialing(c)'
    <3>1. ~Dialing(g)'
      BY <1>1, <1>a, <1>b DEF Connect, Goto, Dialing
    <3> QED
      BY <1>1, <2>3, <3>1 DEF OneDialer, Connect
  <2>6. ~doubled => open = {}
    BY <1>1, NoConnAssumption DEF Connect, OneDialer, OneConnection, TypeOK
  <2> QED
    BY <1>1, <2>1, <2>4, <2>5, <2>6 DEF Connect, OneDialer, OneConnection
<1>2. ASSUME NEW g \in Reconnectors, GiveUp(g)
      PROVE  IInv'
  <2>1. g \in Goroutines /\ Goto(g, "off") /\ "off" \in Places \ {"dialing"}
    BY <1>2, <1>a DEF GiveUp, Places, Connectors
  <2>2. pc' \in [Goroutines -> Places] /\ \A c \in Connectors : Dialing(c)' => Dialing(c)
    BY <2>1, GotoPlace
  <2>3. TypeOK'
    BY <1>2, <2>2 DEF GiveUp, TypeOK, Places, client, network
  <2> QED
    BY <1>2, <2>2, <2>3, NoNewDialer DEF GiveUp, client, network, OneConnection
<1>3. ASSUME NEW g \in Connectors, Launch(g)
      PROVE  IInv'
  <2>1. /\ pc' = [h \in Goroutines |-> pc'[h]]
        /\ \A h \in Goroutines : pc'[h] \in {"off", "idle", "select", pc[h]}
    <3>1. CASE \E m \in Monitors : pc[m] = "off"
      <4> PICK m \in Monitors :
            pc' = [h \in Goroutines |->
                     IF h = g THEN "off"
                     ELSE IF h \in (IF g = Main THEN {Beater} ELSE {}) THEN "idle"
                     ELSE IF h \in {m} THEN "select" ELSE pc[h]]
        BY <1>3, <3>1 DEF Launch
      <4> QED
        OBVIOUS
    <3>2. CASE ~ \E m \in Monitors : pc[m] = "off"
      <4> pc' = [h \in Goroutines |->
                   IF h = g THEN "off"
                   ELSE IF h \in (IF g = Main THEN {Beater} ELSE {}) THEN "idle"
                   ELSE IF h \in {} THEN "select" ELSE pc[h]]
        BY <1>3, <3>2 DEF Launch
      <4> QED
        OBVIOUS
    <3> QED
      BY <3>1, <3>2
  <2>2. pc' \in [Goroutines -> Places] /\ \A c \in Connectors : Dialing(c)' => Dialing(c)
    BY <1>a, <1>b, <2>1 DEF Places, Dialing
  <2>3. TypeOK'
    BY <1>3, <2>2 DEF Launch, TypeOK, Places, client, network
  <2> QED
    BY <1>3, <2>2, <2>3, NoNewDialer DEF Launch, client, network, OneConnection
<1>4. ASSUME NEW g \in Goroutines, SendStep(g)
      PROVE  IInv'
  <2>1. PICK p \in Places \ {"dialing"} : Goto(g, p)
    <3>1. {"writing", "idle", "closing"} \subseteq Places \ {"dialing"}
      BY DEF Places
    <3> QED
      BY <1>4, <3>1, AfterPlace DEF SendStep, Capture, Write, WriteFails
  <2>2. pc' \in [Goroutines -> Places] /\ \A c \in Connectors : Dialing(c)' => Dialing(c)
    BY <2>1, GotoPlace
  <2>3. UNCHANGED <<conn, isRunning, done, open, broken, doubled>>
    BY <1>4 DEF SendStep, Capture, Write, WriteFails, client, network
  <2>4. todo' \in [Goroutines -> 0..2]
    BY <1>4, LessToDoType DEF SendStep, Capture, Write, WriteFails, TypeOK
  <2>5. held' \in [Goroutines -> Conns \cup {NoConn}]
    BY <1>4, <1>b DEF SendStep, Capture, Write, WriteFails, TypeOK
  <2>6. beat' \in {"never", "fresh", "stale"} /\ greeted' \in BOOLEAN
    BY <1>4 DEF SendStep, Capture, Write, WriteFails, TypeOK, client, network
  <2>7. TypeOK'
    BY <2>2, <2>3, <2>4, <2>5, <2>6 DEF TypeOK, Places
  <2> QED
    BY <2>2, <2>3, <2>7, NoNewDialer DEF OneConnection
<1>5. ASSUME NEW g \in Goroutines, HandleDisconnection(g)
      PROVE  IInv'
  <2>p. After(g) \in Places \ {"dialing"} /\ "signalling" \in Places \ {"dialing"}
    BY AfterPlace DEF Places
  <2>1. CASE Disconnect(g)
    <3>1. PICK p \in Places \ {"dialing"} : Goto(g, p)
      BY <2>1, <2>p DEF Disconnect
    <3>2. pc' \in [Goroutines -> Places] /\ \A c \in Connectors : Dialing(c)' => Dialing(c)
      BY <3>1, GotoPlace
    <3>3. todo' \in [Goroutines -> 0..2]
      BY <2>1, LessToDoType DEF Disconnect, TypeOK
    <3>4. TypeOK'
      BY <2>1, <3>2, <3>3 DEF Disconnect, TypeOK, Places
    <3> QED
      BY <2>1, <3>2, <3>4, NoNewDialer DEF Disconnect, OneConnection
  <2>2. CASE SignalReconnect(g)
    <3>1. /\ Spawn(g, After(g)) /\ LessToDo(g)
          /\ UNCHANGED <<client, done, held, network>>
      BY <2>2 DEF SignalReconnect
    <3>2. /\ pc' \in [Goroutines -> Places] /\ doubled' \in BOOLEAN
          /\ OneDialer' /\ (~doubled' => ~doubled)
      BY <2>p, <3>1, SpawnDialer DEF client
    <3>3. TypeOK'
      BY <3>1, <3>2, LessToDoType DEF TypeOK, Places, client, network
    <3> QED
      BY <3>1, <3>2, <3>3 DEF OneConnection, client, network
  <2>3. CASE SignalDropped(g)
    <3>1. Goto(g, After(g)) /\ LessToDo(g) /\ UNCHANGED <<client, done, held, network, doubled>>
      BY <2>3 DEF SignalDropped
    <3>2. pc' \in [Goroutines -> Places] /\ \A c \in Connectors : Dialing(c)' => Dialing(c)
      BY <2>p, <3>1, GotoPlace
    <3>3. TypeOK'
      BY <3>1, <3>2, LessToDoType DEF TypeOK, Places, client, network
    <3> QED
      BY <3>1, <3>2, <3>3, NoNewDialer DEF OneConnection, client, network
  <2> QED
    BY <1>5, <2>1, <2>2, <2>3 DEF HandleDisconnection
<1>6. ASSUME NEW m \in Monitors, MonitorTick(m)
      PROVE  IInv'
  <2>1. CASE Spawn(m, "select")
    <3>1. "select" \in Places \ {"dialing"} /\ UNCHANGED <<client, done, held, todo, network>>
      BY <1>6 DEF MonitorTick, Places
    <3>2. /\ pc' \in [Goroutines -> Places] /\ doubled' \in BOOLEAN
          /\ OneDialer' /\ (~doubled' => ~doubled)
      BY <1>a, <2>1, <3>1, SpawnDialer DEF client
    <3>3. TypeOK'
      BY <3>1, <3>2 DEF TypeOK, Places, client, network
    <3> QED
      BY <3>1, <3>2, <3>3 DEF OneConnection, client, network
  <2>2. CASE Goto(m, "closing") /\ UNCHANGED doubled
    <3>1. "closing" \in Places \ {"dialing"} /\ UNCHANGED <<client, done, held, todo, network>>
      BY <1>6 DEF MonitorTick, Places
    <3>2. pc' \in [Goroutines -> Places] /\ \A c \in Connectors : Dialing(c)' => Dialing(c)
      BY <1>a, <2>2, <3>1, GotoPlace
    <3>3. TypeOK'
      BY <2>2, <3>1, <3>2 DEF TypeOK, Places, client, network
    <3> QED
      BY <2>2, <3>1, <3>2, <3>3, NoNewDialer DEF OneConnection, client, network
  <2> QED
    BY <1>6, <2>1, <2>2 DEF MonitorTick
<1>7. CASE HeartbeatTick \/ ReaderCapture \/ ReadMessage \/ ReadFails
  <2>1. PICK g \in Goroutines, p \in Places \ {"dialing"} : Goto(g, p)
    <3>1. {"sending", "reading", "idle", "closing"} \subseteq Places \ {"dialing"}
      BY DEF Places
    <3> QED
      BY <1>7, <1>a, <3>1 DEF HeartbeatTick, ReaderCapture, ReadMessage, ReadFails
  <2>2. pc' \in [Goroutines -> Places] /\ \A c \in Connectors : Dialing(c)' => Dialing(c)
    BY <2>1, GotoPlace
  <2>3. UNCHANGED <<conn, isRunning, done, open, broken, greeted, doubled>>
    BY <1>7 DEF HeartbeatTick, ReaderCapture, ReadMessage, ReadFails, client, network
  <2>4. todo' \in [Goroutines -> 0..2] /\ beat' \in {"never", "fresh", "stale"}
    BY <1>7 DEF HeartbeatTick, ReaderCapture, ReadMessage, ReadFails, client, TypeOK
  <2>5. held' \in [Goroutines -> Conns \cup {NoConn}]
    BY <1>7, <1>b DEF HeartbeatTick, ReaderCapture, ReadMessage, ReadFails, TypeOK
  <2>6. TypeOK'
    BY <2>2, <2>3, <2>4, <2>5 DEF TypeOK, Places
  <2> QED
    BY <2>2, <2>3, <2>6, NoNewDialer DEF OneConnection
<1>8. ASSUME NEW g \in Goroutines, Leave(g)
      PROVE  IInv'
  <2>1. Goto(g, "off") /\ "off" \in Places \ {"dialing"}
    BY <1>8 DEF Leave, Places
  <2>2. pc' \in [Goroutines -> Places] /\ \A c \in Connectors : Dialing(c)' => Dialing(c)
    BY <2>1, GotoPlace
  <2>3. TypeOK'
    BY <1>8, <2>2 DEF Leave, TypeOK, Places, client, network
  <2> QED
    BY <1>8, <2>2, <2>3, NoNewDialer DEF Leave, client, network, OneConnection
<1>9. CASE Close
  <2>1. TypeOK'
    BY <1>9 DEF Close, TypeOK, goroutines
  <2> QED
    BY <1>9, <2>1, NoNewDialer DEF Close, goroutines, Dialing, OneConnection
<1>10. CASE \E k \in Conns : Break(k)
  <2>1. TypeOK'
    BY <1>10 DEF Break, TypeOK, goroutines, client
  <2> QED
    BY <1>10, <2>1, NoNewDialer DEF Break, goroutines, client, Dialing, OneConnection
<1>11. CASE HeartbeatTimeout
  <2>1. TypeOK'
    BY <1>11 DEF HeartbeatTimeout, TypeOK, goroutines, network
  <2> QED
    BY <1>11, <2>1, NoNewDialer DEF HeartbeatTimeout, goroutines, network, Dialing, OneConnection
<1>12. CASE UNCHANGED vars
  BY <1>12 DEF vars, client, goroutines, network, TypeOK, OneDialer, OneConnection, Dialing
<1>13. ASSUME NEW g \in Connectors, ConnectorStep(g)
       PROVE  IInv'
  BY <1>13, <1>2, <1>3, <1>4, <1>5, <1>a DEF ConnectorStep, GiveUp
<1>14. CASE BeaterStep
  BY <1>14, <1>4, <1>5, <1>7, <1>8, <1>a DEF BeaterStep
<1>15. ASSUME NEW m \in Monitors, MonitorStep(m)
       PROVE  IInv'
  BY <1>15, <1>5, <1>6, <1>8, <1>a DEF MonitorStep
<1>16. CASE ReaderStep
  BY <1>16, <1>5, <1>7, <1>8, <1>a DEF ReaderStep
<1> QED
  BY <1>1, <1>9, <1>10, <1>11, <1>12, <1>13, <1>14, <1>15, <1>16 DEF Next

\* It holds in every reachable state.
THEOREM Invariant == Spec => []IInv
<1> QED
  BY InitInvariant, StepInvariant, PTL DEF Spec

\* The client's state has its types, and a connection is current exactly while the
\* client is running and has not closed it.
THEOREM TypeCorrect == Spec => []TypeOK
<1>1. IInv => TypeOK
  BY DEF IInv
<1> QED
  BY <1>1, Invariant, PTL

\* The client keeps no connection open but the current one, whatever breaks and in
\* whatever order the goroutines run, as long as no reconnect was started beside
\* another one or with the connection up.
THEOREM NoConnectionLeftBehind == Spec => []OneConnection
<1>1. IInv => OneConnection
  BY DEF IInv
<1> QED
  BY <1>1, Invariant, PTL

===============================================================================
