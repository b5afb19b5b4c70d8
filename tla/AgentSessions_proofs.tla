------------------------ MODULE AgentSessions_proofs ------------------------
(***************************************************************************)
(* What holds of the agent registry for any tunnels, connections and       *)
(* capacity.  TypeOK, HandshakeOrder and NoStaleEntry are inductive        *)
(* together; the capacity bound, the refinement of AgentDirectory and,     *)
(* with WelcomedLive, that a dead connection is on its way out follow from *)
(* them step by step.                                                      *)
(***************************************************************************)
EXTENDS AgentSessions, FiniteSetTheorems, TLAPS

USE DEF Phases, States, Closings, ApiSteps, ServerStates,
        sessionVars, apiVars, vars

(***************************************************************************)
(* register_agent(), unregister_agent() and shutdown() keep a registry a   *)
(* registry.                                                               *)
(***************************************************************************)
LEMMA RegisterType ==
  ASSUME TypeOK, NEW t, NEW c \in Conns
  PROVE  AfterRegister(t, c) \in [Tunnels -> Conns \cup {NoConn}]
  BY DEF TypeOK, AfterRegister

\* The same of unregister_agent()
LEMMA UnregisterType ==
  ASSUME TypeOK, NEW t
  PROVE  AfterUnregister(t) \in [Tunnels -> Conns \cup {NoConn}]
  BY DEF TypeOK, AfterUnregister

\* and of shutdown().
LEMMA NobodyType == Nobody \in [Tunnels -> Conns \cup {NoConn}]
  BY DEF Nobody

(***************************************************************************)
(* The initial state, of a first start or of a restart, satisfies the      *)
(* inductive invariant.                                                    *)
(***************************************************************************)
LEMMA InitInv == Init => TypeOK /\ HandshakeOrder /\ NoStaleEntry
  BY TunnelsAssumption
  DEF Init, TypeOK, HandshakeOrder, NoStaleEntry, Nobody, AllConns

(***************************************************************************)
(* Every variable stays within its type, whatever thread makes the step.   *)
(***************************************************************************)
LEMMA TypeStep == TypeOK /\ HandshakeOrder /\ [Next]_vars => TypeOK'
  <1> SUFFICES ASSUME TypeOK, HandshakeOrder, [Next]_vars PROVE TypeOK'
    OBVIOUS
  <1>1. ASSUME NEW c \in Conns, Handshake(c) PROVE TypeOK'
    <2>1. CASE Register(c)
      <3>1. AfterRegister(tunnel[c], c) \in [Tunnels -> Conns \cup {NoConn}]
        BY RegisterType
      <3>2. QED
        BY <2>1, <3>1 DEF Register, TypeOK
    <2>2. CASE Accept(c) \/ RejectAtCapacity(c)
      BY <2>2 DEF Accept, RejectAtCapacity, NextAccept, TypeOK
    <2>3. CASE TlsDone(c) \/ HandshakeFails(c) \/ Unauthorized(c)
      BY <2>3 DEF TlsDone, HandshakeFails, Unauthorized, TypeOK
    <2>4. CASE \E t \in Tunnels : Validate(c, t)
      BY <2>4 DEF Validate, TypeOK
    <2>5. CASE LookUp(c)
      <3>1. tunnel[c] \in Tunnels
        BY <2>5 DEF LookUp, HandshakeOrder
      <3>2. QED
        BY <2>5, <3>1 DEF LookUp, TypeOK
    <2>6. CASE Conflict(c) \/ PortsThrow(c) \/ Welcome(c)
      BY <2>6 DEF Conflict, PortsThrow, Welcome, TypeOK
    <2>7. CASE Start(c)
      BY <2>7 DEF Start, TypeOK
    <2>8. QED
      BY <1>1, <2>1, <2>2, <2>3, <2>4, <2>5, <2>6, <2>7 DEF Handshake
  <1>2. ASSUME NEW c \in Conns, Disconnect(c) PROVE TypeOK'
    <2>1. CASE Disconnected(c)
      <3>1. AfterUnregister(tunnel[c]) \in [Tunnels -> Conns \cup {NoConn}]
        BY UnregisterType
      <3>2. QED
        BY <2>1, <3>1 DEF Disconnected, TypeOK
    <2>2. CASE CloseBegin(c) \/ CloseEnd(c)
      BY <2>2 DEF CloseBegin, CloseEnd, TypeOK
    <2>3. CASE DisconnectCrashes(c) \/ GoawayCrashes(c)
      BY <2>3 DEF DisconnectCrashes, GoawayCrashes, TypeOK
    <2>4. CASE Redial(c)
      BY <2>4 DEF Redial, TypeOK
    <2>5. QED
      BY <1>2, <2>1, <2>2, <2>3, <2>4 DEF Disconnect
  <1>3. ASSUME NEW t \in Tunnels, Manage(t) PROVE TypeOK'
    <2>1. CASE DeleteUnregister(t)
      <3>1. AfterUnregister(t) \in [Tunnels -> Conns \cup {NoConn}]
        BY UnregisterType
      <3>2. QED
        BY <2>1, <3>1 DEF DeleteUnregister, ApiStep, TypeOK
    <2>2. CASE BeginCreate(t) \/ StoreToken(t) \/ StoreTunnel(t)
      BY <2>2 DEF BeginCreate, StoreToken, StoreTunnel, ApiStep, TypeOK
    <2>3. CASE BeginDelete(t) \/ DropTunnel(t) \/ DropToken(t)
      BY <2>3 DEF BeginDelete, DropTunnel, DropToken, ApiStep, TypeOK
    <2>4. QED
      BY <1>3, <2>1, <2>2, <2>3 DEF Manage
  <1>4. CASE Main
    <2>1. CASE StopServers \/ LockRegistry \/ StopPool
      BY <2>1 DEF StopServers, LockRegistry, StopPool, TypeOK
    <2>2. CASE ShutdownDone
      BY <2>2, NobodyType DEF ShutdownDone, TypeOK
    <2>3. CASE Restart
      BY <2>3, NobodyType, TunnelsAssumption DEF Restart, AllConns, TypeOK
    <2>4. CASE \E t \in Tunnels : ShutdownClose(t)
      BY <2>4 DEF ShutdownClose, TypeOK
    <2>5. QED
      BY <1>4, <2>1, <2>2, <2>3, <2>4 DEF Main
  <1>5. CASE AcceptFails \/ UNCHANGED vars
    BY <1>5 DEF AcceptFails, NextAccept, TypeOK
  <1>6. QED
    BY <1>1, <1>2, <1>3, <1>4, <1>5 DEF Next

(***************************************************************************)
(* A handshake that got past the token has a tunnel, and close() comes     *)
(* after start(): no step of another connection changes either.            *)
(***************************************************************************)
LEMMA OrderStep == TypeOK /\ HandshakeOrder /\ [Next]_vars => HandshakeOrder'
  <1> SUFFICES ASSUME TypeOK, HandshakeOrder, [Next]_vars,
                      NEW d \in Conns
               PROVE  /\ phase'[d] \in {"validated", "looked", "welcomed",
                                        "registered", "started"}
                           => tunnel'[d] \in Tunnels
                      /\ phase'[d] # "started" => closing'[d] = "no"
    BY DEF HandshakeOrder
  <1> USE DEF TypeOK, HandshakeOrder
  <1>1. ASSUME NEW c \in Conns, Handshake(c)
        PROVE  /\ phase'[d] \in {"validated", "looked", "welcomed",
                                 "registered", "started"}
                    => tunnel'[d] \in Tunnels
               /\ phase'[d] # "started" => closing'[d] = "no"
    <2>1. CASE Accept(c) \/ RejectAtCapacity(c) \/ TlsDone(c) \/ HandshakeFails(c)
      BY <2>1 DEF Accept, RejectAtCapacity, TlsDone, HandshakeFails
    <2>2. CASE (\E t \in Tunnels : Validate(c, t)) \/ Unauthorized(c)
      BY <2>2 DEF Validate, Unauthorized
    <2>3. CASE LookUp(c) \/ Conflict(c) \/ PortsThrow(c) \/ Welcome(c)
      BY <2>3 DEF LookUp, Conflict, PortsThrow, Welcome
    <2>4. CASE Register(c) \/ Start(c)
      BY <2>4 DEF Register, Start
    <2>5. QED
      BY <1>1, <2>1, <2>2, <2>3, <2>4 DEF Handshake
  <1>2. CASE \E c \in Conns : Disconnect(c)
    BY <1>2 DEF Disconnect, CloseBegin, CloseEnd, Disconnected,
                DisconnectCrashes, GoawayCrashes, Redial
  <1>3. CASE \E t \in Tunnels : Manage(t)
    BY <1>3 DEF Manage, ApiStep, BeginCreate, StoreToken, StoreTunnel,
                BeginDelete, DeleteUnregister, DropTunnel, DropToken
  <1>4. CASE Main
    BY <1>4 DEF Main, StopServers, LockRegistry, StopPool, ShutdownDone,
                Restart, AllConns, ShutdownClose
  <1>5. CASE AcceptFails \/ UNCHANGED vars
    BY <1>5 DEF AcceptFails
  <1>6. QED
    BY <1>1, <1>2, <1>3, <1>4, <1>5 DEF Next

(***************************************************************************)
(* An entry is only made by the connection itself between 200 and start(), *)
(* and gone once its on_disconnect_ has run.                               *)
(***************************************************************************)
LEMMA EntryStep ==
  TypeOK /\ HandshakeOrder /\ NoStaleEntry /\ [Next]_vars => NoStaleEntry'
  <1> SUFFICES ASSUME TypeOK, HandshakeOrder, NoStaleEntry, [Next]_vars,
                      NEW u \in Tunnels, agents'[u] # NoConn
               PROVE  /\ tunnel'[agents'[u]] = u
                      /\ phase'[agents'[u]] \in {"registered", "started"}
                      /\ closing'[agents'[u]] # "done"
    BY DEF NoStaleEntry
  <1> DEFINE Good == /\ tunnel'[agents'[u]] = u
                     /\ phase'[agents'[u]] \in {"registered", "started"}
                     /\ closing'[agents'[u]] # "done"
  <1> USE DEF TypeOK, NoStaleEntry
  <1>1. ASSUME NEW c \in Conns, Handshake(c) PROVE Good
    <2>1. CASE Register(c)
      <3>1. tunnel[c] \in Tunnels /\ closing[c] = "no"
        BY <2>1 DEF Register, HandshakeOrder
      <3>2. QED
        BY <2>1, <3>1 DEF Register, AfterRegister
    <2>2. CASE Accept(c) \/ RejectAtCapacity(c) \/ TlsDone(c) \/ HandshakeFails(c)
      BY <2>2 DEF Accept, RejectAtCapacity, TlsDone, HandshakeFails
    <2>3. CASE (\E t \in Tunnels : Validate(c, t)) \/ Unauthorized(c)
      BY <2>3 DEF Validate, Unauthorized
    <2>4. CASE LookUp(c) \/ Conflict(c) \/ PortsThrow(c) \/ Welcome(c)
      BY <2>4 DEF LookUp, Conflict, PortsThrow, Welcome
    <2>5. CASE Start(c)
      BY <2>5 DEF Start
    <2>6. QED
      BY <1>1, <2>1, <2>2, <2>3, <2>4, <2>5 DEF Handshake
  <1>2. ASSUME NEW c \in Conns, Disconnect(c) PROVE Good
    <2>1. CASE Disconnected(c)
      BY <2>1 DEF Disconnected, AfterUnregister
    <2>2. CASE CloseBegin(c) \/ CloseEnd(c) \/ DisconnectCrashes(c) \/ GoawayCrashes(c)
      BY <2>2 DEF CloseBegin, CloseEnd, DisconnectCrashes, GoawayCrashes
    <2>3. CASE Redial(c)
      BY <2>3 DEF Redial, Ended
    <2>4. QED
      BY <1>2, <2>1, <2>2, <2>3 DEF Disconnect
  <1>3. ASSUME NEW t \in Tunnels, Manage(t) PROVE Good
    BY <1>3 DEF Manage, ApiStep, BeginCreate, StoreToken, StoreTunnel,
                BeginDelete, DeleteUnregister, AfterUnregister, DropTunnel, DropToken
  <1>4. CASE Main
    BY <1>4 DEF Main, StopServers, LockRegistry, StopPool, ShutdownDone,
                Restart, Nobody, ShutdownClose
  <1>5. CASE AcceptFails \/ UNCHANGED vars
    BY <1>5 DEF AcceptFails
  <1>6. QED
    BY <1>1, <1>2, <1>3, <1>4, <1>5 DEF Next

-----------------------------------------------------------------------------
(***************************************************************************)
(* Type correctness of the handshakes, the registry and the connections.   *)
(***************************************************************************)
THEOREM TypeCorrect == Spec => [](TypeOK /\ HandshakeOrder)
  <1>1. Init => TypeOK /\ HandshakeOrder
    BY InitInv
  <1>2. TypeOK /\ HandshakeOrder /\ [Next]_vars => (TypeOK /\ HandshakeOrder)'
    BY TypeStep, OrderStep
  <1>3. QED
    BY <1>1, <1>2, PTL DEF Spec

(***************************************************************************)
(* No connection stays in the registry after its handle_disconnect(), and  *)
(* none stands under a tunnel it did not authenticate for.                 *)
(***************************************************************************)
THEOREM EntriesNeverStale == Spec => []NoStaleEntry
  <1>1. Init => NoStaleEntry
    BY InitInv
  <1>2. TypeOK /\ HandshakeOrder /\ NoStaleEntry /\ [Next]_vars => NoStaleEntry'
    BY EntryStep
  <1>3. QED
    BY <1>1, <1>2, TypeCorrect, PTL DEF Spec

-----------------------------------------------------------------------------
(***************************************************************************)
(* The steps that do not register an agent leave the registry alone, take  *)
(* one entry out, or empty it.                                             *)
(***************************************************************************)
LEMMA RegistrySteps ==
  ASSUME TypeOK, HandshakeOrder, [Next]_vars,
         ~ \E c \in Conns : Register(c)
  PROVE  \/ agents' = agents
         \/ \E t \in Tunnels : agents' = AfterUnregister(t)
         \/ agents' = Nobody
  <1> DEFINE Shrinks == \/ agents' = agents
                        \/ \E t \in Tunnels : agents' = AfterUnregister(t)
                        \/ agents' = Nobody
  <1>1. ASSUME NEW c \in Conns, Handshake(c) PROVE Shrinks
    BY <1>1 DEF Handshake, Accept, RejectAtCapacity, TlsDone, HandshakeFails,
                Validate, Unauthorized, LookUp, Conflict, PortsThrow, Welcome, Start
  <1>2. ASSUME NEW c \in Conns, Disconnect(c) PROVE Shrinks
    <2>1. CASE Disconnected(c)
      BY <2>1 DEF Disconnected, AfterUnregister, TypeOK, HandshakeOrder
    <2>2. QED
      BY <1>2, <2>1 DEF Disconnect, CloseBegin, CloseEnd, DisconnectCrashes,
                        GoawayCrashes, Redial
  <1>3. ASSUME NEW t \in Tunnels, Manage(t) PROVE Shrinks
    BY <1>3 DEF Manage, BeginCreate, StoreToken, StoreTunnel, BeginDelete,
                DeleteUnregister, DropTunnel, DropToken
  <1>4. CASE Main
    BY <1>4 DEF Main, StopServers, LockRegistry, ShutdownDone, StopPool,
                Restart, ShutdownClose
  <1>5. CASE AcceptFails \/ UNCHANGED vars
    BY <1>5 DEF AcceptFails
  <1>6. QED
    BY <1>1, <1>2, <1>3, <1>4, <1>5 DEF Next

(***************************************************************************)
(* A registry with fewer entries is within the capacity too.               *)
(***************************************************************************)
LEMMA FewerEntries ==
  ASSUME CapacityRespected, Registered' \subseteq Registered
  PROVE  CapacityRespected'
  <1>1. IsFiniteSet(Registered)
    BY TunnelsAssumption, FS_Subset DEF Registered
  <1>2. Cardinality(Registered') <= Cardinality(Registered)
    BY <1>1, FS_Subset
  <1>3. Cardinality(Registered) \in Nat /\ Cardinality(Registered') \in Nat
    BY <1>1, FS_Subset, FS_CardinalityType
  <1>4. QED
    BY <1>2, <1>3, MaxAgentsAssumption DEF CapacityRespected

(***************************************************************************)
(* register_agent() adds an entry only while there is room for it.         *)
(***************************************************************************)
LEMMA OneMoreEntry ==
  ASSUME TypeOK, CapacityRespected, NEW c \in Conns,
         tunnel[c] \in Tunnels, Register(c)
  PROVE  CapacityRespected'
  <1>1. CASE Full \/ agents[tunnel[c]] # NoConn
    <2>1. Registered' = Registered
      BY <1>1 DEF Register, AfterRegister, Registered
    <2>2. QED
      BY <2>1, FewerEntries
  <1>2. CASE ~Full /\ agents[tunnel[c]] = NoConn
    <2>1. Registered' = Registered \cup {tunnel[c]}
      BY <1>2, ConnsAssumption DEF Register, AfterRegister, Registered, TypeOK
    <2>2. tunnel[c] \notin Registered /\ IsFiniteSet(Registered)
      BY <1>2, TunnelsAssumption, FS_Subset DEF Registered
    <2>3. /\ Cardinality(Registered') = Cardinality(Registered) + 1
          /\ Cardinality(Registered) \in Nat
      BY <2>1, <2>2, FS_AddElement, FS_CardinalityType
    <2>4. QED
      BY <1>2, <2>3, MaxAgentsAssumption DEF Full, CapacityRespected
  <1>3. QED
    BY <1>1, <1>2

(***************************************************************************)
(* However many handshakes pass the capacity check of do_accept together,  *)
(* the registry never holds more than max_agents_ entries.                 *)
(***************************************************************************)
THEOREM CapacityNeverExceeded == Spec => []CapacityRespected
  <1>1. Init => CapacityRespected
    <2> SUFFICES ASSUME Init PROVE CapacityRespected
      OBVIOUS
    <2>1. Registered = {}
      BY DEF Init, Nobody, Registered
    <2>2. QED
      BY <2>1, FS_EmptySet, MaxAgentsAssumption DEF CapacityRespected
  <1>2. /\ TypeOK /\ HandshakeOrder /\ CapacityRespected /\ [Next]_vars
        => CapacityRespected'
    <2> SUFFICES ASSUME TypeOK, HandshakeOrder, CapacityRespected, [Next]_vars
                 PROVE  CapacityRespected'
      OBVIOUS
    <2>1. ASSUME NEW c \in Conns, Register(c) PROVE CapacityRespected'
      <3>1. tunnel[c] \in Tunnels
        BY <2>1 DEF Register, HandshakeOrder
      <3>2. QED
        BY <2>1, <3>1, OneMoreEntry
    <2>2. CASE ~ \E c \in Conns : Register(c)
      <3>1. Registered' \subseteq Registered
        BY <2>2, RegistrySteps DEF AfterUnregister, Nobody, Registered, TypeOK
      <3>2. QED
        BY <3>1, FewerEntries
    <2>3. QED
      BY <2>1, <2>2
  <1>3. QED
    BY <1>1, <1>2, TypeCorrect, PTL DEF Spec

(***************************************************************************)
(* A step of the server is a step of the directory or leaves it alone: the *)
(* agent that register_agent() adds stands nowhere else, since it is only  *)
(* now past its own registration.                                          *)
(***************************************************************************)
LEMMA DirectoryStep ==
  ASSUME TypeOK, HandshakeOrder, NoStaleEntry, [Next]_vars
  PROVE  [Directory!Next]_agents
  <1> USE DEF Directory!Next
  <1>1. ASSUME NEW c \in Conns, Register(c) PROVE [Directory!Next]_agents
    <2>1. CASE Full \/ agents[tunnel[c]] # NoConn
      BY <1>1, <2>1 DEF Register, AfterRegister
    <2>2. CASE ~Full /\ agents[tunnel[c]] = NoConn
      <3>1. tunnel[c] \in Tunnels
        BY <1>1 DEF Register, HandshakeOrder
      <3>2. \A u \in Tunnels : agents[u] # c
        BY <1>1, ConnsAssumption DEF Register, NoStaleEntry
      <3>3. Directory!Cardinality(Directory!Listed(agents)) < MaxAgents
        <4>1. Registered = Directory!Listed(agents)
          BY DEF Registered, Directory!Listed
        <4>2. Cardinality(Registered) \in Nat
          BY TunnelsAssumption, FS_Subset, FS_CardinalityType DEF Registered
        <4>3. QED
          BY <2>2, <4>1, <4>2, MaxAgentsAssumption
          DEF Full, Cardinality, Directory!Cardinality
      <3>4. Directory!Claim(tunnel[c], c)
        BY <1>1, <2>2, <3>2, <3>3 DEF Register, AfterRegister, Directory!Claim
      <3>5. QED
        BY <3>1, <3>4
    <2>3. QED
      BY <2>1, <2>2
  <1>2. CASE ~ \E c \in Conns : Register(c)
    <2>1. ASSUME NEW t \in Tunnels, agents' = AfterUnregister(t)
          PROVE  [Directory!Next]_agents
      <3>1. CASE agents[t] = NoConn
        BY <2>1, <3>1 DEF AfterUnregister, TypeOK
      <3>2. CASE agents[t] # NoConn
        BY <2>1, <3>2 DEF AfterUnregister, Directory!Vacate
      <3>3. QED
        BY <3>1, <3>2
    <2>2. CASE agents' = Nobody
      BY <2>2 DEF Nobody, Directory!Wipe
    <2>3. QED
      BY <1>2, <2>1, <2>2, RegistrySteps
  <1>3. QED
    BY <1>1, <1>2

(***************************************************************************)
(* The registry, used by handshakes, closing connections, the management   *)
(* API and shutdown at once, implements AgentDirectory.                    *)
(***************************************************************************)
THEOREM RegistryImplementsDirectory == Spec => ImplementsDirectory
  <1>1. Init => Directory!Init
    BY DEF Init, Directory!Init, Nobody
  <1>2. TypeOK /\ HandshakeOrder /\ NoStaleEntry /\ [Next]_vars
          => [Directory!Next]_agents
    BY DirectoryStep
  <1>3. QED
    BY <1>1, <1>2, TypeCorrect, EntriesNeverStale, PTL
    DEF Spec, ImplementsDirectory, Directory!Spec
-----------------------------------------------------------------------------
(***************************************************************************)
(* A connection that has its 200 and is not yet registered is CONNECTED:   *)
(* shutdown() only closes connections it finds in the registry.            *)
(***************************************************************************)
WelcomedLive == \A c \in Conns : phase[c] = "welcomed" => state[c] = "CONNECTED"

\* A connection that is being welcomed has not been closed.
LEMMA WelcomedStep ==
  ASSUME TypeOK, HandshakeOrder, NoStaleEntry, WelcomedLive, [Next]_vars
  PROVE  WelcomedLive'
  <1> USE DEF TypeOK, WelcomedLive
  <1>1. ASSUME NEW c \in Conns, Handshake(c) PROVE WelcomedLive'
    <2>1. CASE Accept(c) \/ RejectAtCapacity(c) \/ TlsDone(c) \/ HandshakeFails(c)
      BY <2>1 DEF Accept, RejectAtCapacity, TlsDone, HandshakeFails
    <2>2. CASE (\E t \in Tunnels : Validate(c, t)) \/ Unauthorized(c)
      BY <2>2 DEF Validate, Unauthorized
    <2>3. CASE LookUp(c) \/ Conflict(c) \/ PortsThrow(c) \/ Welcome(c)
      BY <2>3 DEF LookUp, Conflict, PortsThrow, Welcome
    <2>4. CASE Register(c) \/ Start(c)
      BY <2>4 DEF Register, Start
    <2>5. QED
      BY <1>1, <2>1, <2>2, <2>3, <2>4 DEF Handshake
  <1>2. ASSUME NEW c \in Conns, Disconnect(c) PROVE WelcomedLive'
    <2>1. CASE CloseBegin(c) \/ Redial(c)
      BY <2>1 DEF CloseBegin, Redial
    <2>2. CASE CloseEnd(c)
      <3>1. phase[c] = "started"
        BY <2>2 DEF CloseEnd, HandshakeOrder
      <3>2. QED
        BY <2>2, <3>1 DEF CloseEnd
    <2>3. CASE Disconnected(c) \/ DisconnectCrashes(c) \/ GoawayCrashes(c)
      BY <2>3 DEF Disconnected, DisconnectCrashes, GoawayCrashes
    <2>4. QED
      BY <1>2, <2>1, <2>2, <2>3 DEF Disconnect
  <1>3. ASSUME NEW t \in Tunnels, Manage(t) PROVE WelcomedLive'
    BY <1>3 DEF Manage, BeginCreate, StoreToken, StoreTunnel, BeginDelete,
                DeleteUnregister, DropTunnel, DropToken
  <1>4. CASE Main
    <2>1. ASSUME NEW t \in Tunnels, ShutdownClose(t) PROVE WelcomedLive'
      <3>1. agents[t] # NoConn /\ phase[agents[t]] # "welcomed"
        BY <2>1 DEF ShutdownClose, Unclosed, Registered, NoStaleEntry
      <3>2. QED
        BY <2>1, <3>1 DEF ShutdownClose
    <2>2. QED
      BY <1>4, <2>1 DEF Main, StopServers, LockRegistry, ShutdownDone, StopPool,
                        Restart, AllConns
  <1>5. CASE AcceptFails \/ UNCHANGED vars
    BY <1>5 DEF AcceptFails
  <1>6. QED
    BY <1>1, <1>2, <1>3, <1>4, <1>5 DEF Next

(***************************************************************************)
(* What is registered is alive.  What dies while it is listed has its      *)
(* on_disconnect_ to run, and nothing else takes that from it: only        *)
(* shutdown() closes a connection without telling it, and then start() has *)
(* yet to find out, or shutdown() hangs in the very call.                  *)
(***************************************************************************)
LEMMA LeavingStep ==
  ASSUME TypeOK, HandshakeOrder, NoStaleEntry, WelcomedLive, DeadEntryLeaving,
         [Next]_vars
  PROVE  DeadEntryLeaving'
  <1> DEFINE Up == Alive /\ server # "stuck"
             Leaving(u) ==
               Up' /\ agents'[u] # NoConn /\ state'[agents'[u]] = "DISCONNECTED"
                 => \/ phase'[agents'[u]] = "registered"
                    \/ closing'[agents'[u]] = "notify"
  <1>0. ASSUME \A u \in Tunnels : Leaving(u) PROVE DeadEntryLeaving'
    BY <1>0 DEF DeadEntryLeaving, Registered
  <1>a. \A u \in Tunnels : agents[u] # NoConn =>
          /\ agents[u] \in Conns
          /\ phase[agents[u]] \in {"registered", "started"}
          /\ closing[agents[u]] # "done"
          /\ Up /\ state[agents[u]] = "DISCONNECTED"
               => phase[agents[u]] = "registered" \/ closing[agents[u]] = "notify"
    BY DEF TypeOK, NoStaleEntry, DeadEntryLeaving, Registered
  <1>1. ASSUME NEW c \in Conns, Handshake(c), NEW u \in Tunnels PROVE Leaving(u)
    <2>1. CASE Accept(c) \/ RejectAtCapacity(c) \/ TlsDone(c) \/ HandshakeFails(c)
      BY <1>a, <2>1 DEF Accept, RejectAtCapacity, TlsDone, HandshakeFails, Alive, TypeOK
    <2>2. CASE (\E t \in Tunnels : Validate(c, t)) \/ Unauthorized(c)
      BY <1>a, <2>2 DEF Validate, Unauthorized, Alive, TypeOK
    <2>3. CASE LookUp(c) \/ Conflict(c)
      BY <1>a, <2>3 DEF LookUp, Conflict, Alive, TypeOK
    <2>4. CASE PortsThrow(c)
      BY <2>4 DEF PortsThrow, Alive
    <2>5. CASE Welcome(c)
      BY <1>a, <2>5 DEF Welcome, TypeOK, Alive
    <2>6. CASE Register(c)
      <3>1. tunnel[c] \in Tunnels /\ state[c] = "CONNECTED"
        BY <2>6 DEF Register, HandshakeOrder, WelcomedLive
      <3>2. agents'[u] = agents[u] \/ agents'[u] = c
        BY <2>6, <3>1 DEF Register, AfterRegister, TypeOK
      <3>3. UNCHANGED <<state, closing, server>>
        BY <2>6 DEF Register
      <3>4. agents[u] # c
        BY <1>a, <2>6, ConnsAssumption DEF Register
      <3>5. CASE agents'[u] = c
        BY <3>1, <3>3, <3>5
      <3>6. CASE agents'[u] = agents[u]
        BY <1>a, <2>6, <3>3, <3>4, <3>6 DEF Register, Alive, TypeOK
      <3>7. QED
        BY <3>2, <3>5, <3>6
    <2>7. CASE Start(c)
      BY <1>a, <2>7 DEF Start, TypeOK, Alive
    <2>8. QED
      BY <1>1, <2>1, <2>2, <2>3, <2>4, <2>5, <2>6, <2>7 DEF Handshake
  <1>2. ASSUME NEW c \in Conns, Disconnect(c), NEW u \in Tunnels PROVE Leaving(u)
    <2>1. CASE CloseBegin(c) \/ CloseEnd(c)
      BY <1>a, <2>1 DEF CloseBegin, CloseEnd, TypeOK, Alive
    <2>2. CASE Disconnected(c)
      <3>1. /\ agents' = AfterUnregister(tunnel[c])
            /\ closing' = [closing EXCEPT ![c] = "done"]
            /\ UNCHANGED <<state, phase, server>>
        BY <2>2 DEF Disconnected
      <3>2. agents'[u] # NoConn => agents'[u] = agents[u] /\ agents[u] # c
        BY <3>1 DEF AfterUnregister, TypeOK, NoStaleEntry
      <3>3. QED
        BY <1>a, <3>1, <3>2 DEF TypeOK, Alive
    <2>3. CASE DisconnectCrashes(c) \/ GoawayCrashes(c)
      BY <2>3 DEF DisconnectCrashes, GoawayCrashes, Alive
    <2>4. CASE Redial(c)
      BY <1>a, <2>4 DEF Redial, TypeOK, Alive
    <2>5. QED
      BY <1>2, <2>1, <2>2, <2>3, <2>4 DEF Disconnect
  <1>3. ASSUME NEW t \in Tunnels, Manage(t), NEW u \in Tunnels PROVE Leaving(u)
    <2>1. agents'[u] # NoConn => agents'[u] = agents[u]
      BY <1>3 DEF Manage, BeginCreate, StoreToken, StoreTunnel, BeginDelete,
                  DeleteUnregister, AfterUnregister, DropTunnel, DropToken, TypeOK
    <2>2. UNCHANGED <<state, phase, closing, server>>
      BY <1>3 DEF Manage, BeginCreate, StoreToken, StoreTunnel, BeginDelete,
                  DeleteUnregister, DropTunnel, DropToken
    <2>3. QED
      BY <1>a, <2>1, <2>2 DEF Alive
  <1>4. ASSUME Main, NEW u \in Tunnels PROVE Leaving(u)
    <2>1. CASE StopServers \/ LockRegistry
      BY <1>a, <2>1 DEF StopServers, LockRegistry, Alive
    <2>2. CASE ShutdownDone \/ Restart
      BY <2>2 DEF ShutdownDone, Restart, Nobody
    <2>3. CASE StopPool
      BY <2>3 DEF StopPool, Alive
    <2>4. ASSUME NEW t \in Tunnels, ShutdownClose(t) PROVE Leaving(u)
      <3>1. CASE phase[agents[t]] = "started"
        BY <2>4, <3>1 DEF ShutdownClose, Alive
      <3>2. CASE phase[agents[t]] = "registered"
        BY <1>a, <2>4, <3>2 DEF ShutdownClose, TypeOK, Alive
      <3>3. QED
        BY <1>a, <2>4, <3>1, <3>2 DEF ShutdownClose, Unclosed, Registered
    <2>5. QED
      BY <1>4, <2>1, <2>2, <2>3, <2>4 DEF Main
  <1>5. ASSUME AcceptFails \/ UNCHANGED vars, NEW u \in Tunnels PROVE Leaving(u)
    BY <1>a, <1>5 DEF AcceptFails, Alive
  <1>6. QED
    BY <1>0, <1>1, <1>2, <1>3, <1>4, <1>5 DEF Next

(***************************************************************************)
(* No dead connection blocks a tunnel for good: one that is listed has its *)
(* on_disconnect_ to come, or start() that leads to it, also while         *)
(* shutdown() has the mutex; not any more once shutdown() hangs on it.     *)
(***************************************************************************)
THEOREM DeadAlwaysLeaving == Spec => []DeadEntryLeaving
  <1>1. Init => WelcomedLive /\ DeadEntryLeaving
    BY DEF Init, AllConns, Nobody, WelcomedLive, DeadEntryLeaving, Registered
  <1>2. /\ TypeOK /\ HandshakeOrder /\ NoStaleEntry
        /\ WelcomedLive /\ DeadEntryLeaving /\ [Next]_vars
        => (WelcomedLive /\ DeadEntryLeaving)'
    BY WelcomedStep, LeavingStep
  <1>3. QED
    BY <1>1, <1>2, TypeCorrect, EntriesNeverStale, PTL DEF Spec

(***************************************************************************)
(* What the types of the handshake rest on: a connection that reached the  *)
(* registry has a tunnel id, and close() and on_disconnect_ come only      *)
(* after start().                                                          *)
(***************************************************************************)
THEOREM HandshakesInOrder == Spec => []HandshakeOrder
  BY TypeCorrect, PTL
=============================================================================
