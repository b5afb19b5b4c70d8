---------------------------- MODULE AgentSessions ----------------------------
(***************************************************************************)
(* The life of agent connections in the server: AgentServer accepts a      *)
(* socket and runs an AgentHandshake on it, the handshake consults and     *)
(* then fills the AgentRegistry, and the AgentConnection it leaves behind  *)
(* removes its tunnel from the registry when it goes down.  The management *)
(* API creates and deletes tunnels, and main() shuts the registry down.    *)
(*                                                                         *)
(* Every connection has its own io_context, and every io_context its own   *)
(* thread (IOContextPool), so the steps of different connections           *)
(* interleave between any two accesses to shared state.  An action is one  *)
(* such step: what one thread does between two such accesses.              *)
(***************************************************************************)
EXTENDS FiniteSets, Naturals

CONSTANTS
  Tunnels,      \* tunnel ids
  BootTunnels,  \* tunnels (and tokens) main() installs before listening
  Conns,        \* sockets of agents; one that has ended is used again
  NoConn,       \* the null agent_ptr
  NoTunnel,     \* tunnel id of a connection that has not authenticated
  MaxAgents,    \* AgentRegistry::max_agents_
  MayStop       \* whether SIGTERM/SIGINT belongs to the behaviours considered

ASSUME TunnelsAssumption == IsFiniteSet(Tunnels) /\ BootTunnels \subseteq Tunnels
ASSUME ConnsAssumption == NoConn \notin Conns
ASSUME NoTunnelAssumption == NoTunnel \notin Tunnels
ASSUME MaxAgentsAssumption == MaxAgents \in Nat
ASSUME MayStopAssumption == MayStop \in BOOLEAN

VARIABLES
  agents,   \* AgentRegistry::agents_, NoConn where there is no entry
  accept,   \* what the posted async_accept will do with the next socket
  phase,    \* progress of the AgentHandshake of a socket
  tunnel,   \* tunnel id the token validator returned for a socket
  seen,     \* agent_ptr that is_connected() got from get_agent()
  state,    \* AgentConnection::state_
  closing,  \* progress of AgentConnection::close() and handle_disconnect()
  tunnels,  \* keys of tunnel_cache
  tokens,   \* tunnels whose current token is in token_cache
  api,      \* progress of the management request on a tunnel
  server    \* progress of main()

sessionVars == <<phase, tunnel, seen, state, closing>>
apiVars == <<tunnels, tokens, api>>
vars == <<agents, accept, sessionVars, apiVars, server>>

Phases == {"idle", "tls", "auth", "validated", "looked", "welcomed",
           "registered", "started", "refused", "lost"}
States == {"none", "CONNECTED", "DISCONNECTING", "DISCONNECTED"}
Closings == {"no", "tearing", "notify", "done"}
ApiSteps == {"none", "unregister", "dropTunnel", "dropToken",
             "storeToken", "storeTunnel"}
ServerStates == {"running", "draining", "locked", "stuck",
                 "cleared", "stopped", "failed", "crashed"}

TypeOK ==
  /\ agents \in [Tunnels -> Conns \cup {NoConn}]
  /\ accept \in {"handshake", "reject", "closed"}
  /\ phase \in [Conns -> Phases]
  /\ tunnel \in [Conns -> Tunnels \cup {NoTunnel}]
  /\ seen \in [Conns -> Conns \cup {NoConn}]
  /\ state \in [Conns -> States]
  /\ closing \in [Conns -> Closings]
  /\ tunnels \in SUBSET Tunnels
  /\ tokens \in SUBSET Tunnels
  /\ api \in [Tunnels -> ApiSteps]
  /\ server \in ServerStates

(***************************************************************************)
(* The io threads run from start() of the pool to its stop(); the registry *)
(* mutex is free unless shutdown() holds it.                               *)
(***************************************************************************)
Alive == server \in {"running", "draining", "locked", "stuck", "cleared"}
RegistryFree == server \in {"running", "draining", "cleared"}

-----------------------------------------------------------------------------
\* AgentRegistry

Registered == {t \in Tunnels : agents[t] # NoConn}
Full == Cardinality(Registered) >= MaxAgents

\* Faulty variants: an entry that stands is replaced; no check of the capacity
FaultyRegisterOver(t, c) ==
  IF Full /\ agents[t] = NoConn THEN agents ELSE [agents EXCEPT ![t] = c]
FaultyRegisterUncapped(t, c) ==
  IF agents[t] # NoConn THEN agents ELSE [agents EXCEPT ![t] = c]

\* agents_ after register_agent(t, c): unchanged when it returns false
AfterRegister(t, c) ==
  IF Full \/ agents[t] # NoConn THEN agents ELSE [agents EXCEPT ![t] = c]

\* agents_ after unregister_agent(t): whatever stands under t goes
AfterUnregister(t) == [agents EXCEPT ![t] = NoConn]

Nobody == [t \in Tunnels |-> NoConn]

-----------------------------------------------------------------------------
\* AgentServer::do_accept

\* The capacity is looked at when the accept is posted, not when it completes.
NextAccept ==
  IF accept = "closed" THEN "closed" ELSE IF Full THEN "reject" ELSE "handshake"

Accept(c) ==
  /\ RegistryFree
  /\ accept = "handshake"
  /\ phase[c] = "idle"
  /\ phase' = [phase EXCEPT ![c] = "tls"]
  /\ accept' = NextAccept
  /\ UNCHANGED <<agents, tunnel, seen, state, closing, apiVars, server>>

\* The accept itself failed, at capacity or not: the next one is posted.
AcceptFails ==
  /\ RegistryFree
  /\ accept # "closed"
  /\ accept' = NextAccept
  /\ UNCHANGED <<agents, sessionVars, apiVars, server>>

\* 503 Service Unavailable
RejectAtCapacity(c) ==
  /\ RegistryFree
  /\ accept = "reject"
  /\ phase[c] = "idle"
  /\ phase' = [phase EXCEPT ![c] = "refused"]
  /\ accept' = NextAccept
  /\ UNCHANGED <<agents, tunnel, seen, state, closing, apiVars, server>>

-----------------------------------------------------------------------------
\* AgentServer::AgentHandshake

TlsDone(c) ==
  /\ Alive
  /\ phase[c] = "tls"
  /\ phase' = [phase EXCEPT ![c] = "auth"]
  /\ UNCHANGED <<agents, accept, tunnel, seen, state, closing, apiVars, server>>

\* handle_error(): the TLS handshake or the read of the headers failed
HandshakeFails(c) ==
  /\ Alive
  /\ phase[c] \in {"tls", "auth"}
  /\ phase' = [phase EXCEPT ![c] = "lost"]
  /\ UNCHANGED <<agents, accept, tunnel, seen, state, closing, apiVars, server>>

\* authenticate(): the headers are complete and the token is that of tunnel t
\* (any tunnel that has a token: which tokens open a tunnel is TokenStore's)
Validate(c, t) ==
  /\ Alive
  /\ phase[c] = "auth"
  /\ t \in tokens
  /\ phase' = [phase EXCEPT ![c] = "validated"]
  /\ tunnel' = [tunnel EXCEPT ![c] = t]
  /\ UNCHANGED <<agents, accept, seen, state, closing, apiVars, server>>

\* 401: no token, or none of the tokens in the cache
Unauthorized(c) ==
  /\ Alive
  /\ phase[c] = "auth"
  /\ phase' = [phase EXCEPT ![c] = "refused"]
  /\ UNCHANGED <<agents, accept, tunnel, seen, state, closing, apiVars, server>>

\* is_connected(), first half: get_agent() under the shared lock
LookUp(c) ==
  /\ RegistryFree
  /\ phase[c] = "validated"
  /\ seen' = [seen EXCEPT ![c] = agents[tunnel[c]]]
  /\ phase' = [phase EXCEPT ![c] = "looked"]
  /\ UNCHANGED <<agents, accept, tunnel, state, closing, apiVars, server>>

SeenConnected(c) == seen[c] # NoConn /\ state[seen[c]] = "CONNECTED"

\* Faulty variant: looks again instead of answering 409
FaultyConflict(c) ==
  /\ Alive
  /\ phase[c] = "looked"
  /\ SeenConnected(c)
  /\ phase' = [phase EXCEPT ![c] = "validated"]
  /\ seen' = [seen EXCEPT ![c] = NoConn]
  /\ UNCHANGED <<agents, accept, tunnel, state, closing, apiVars, server>>

\* is_connected(), second half: state() of the agent found; 409 if connected
Conflict(c) ==
  /\ Alive
  /\ phase[c] = "looked"
  /\ SeenConnected(c)
  /\ phase' = [phase EXCEPT ![c] = "refused"]
  /\ seen' = [seen EXCEPT ![c] = NoConn]
  /\ UNCHANGED <<agents, accept, tunnel, state, closing, apiVars, server>>

\* Faulty variant: the AgentConnection is left in AUTHENTICATING
FaultyWelcome(c) ==
  /\ Alive
  /\ phase[c] = "looked"
  /\ ~SeenConnected(c)
  /\ phase' = [phase EXCEPT ![c] = "welcomed"]
  /\ seen' = [seen EXCEPT ![c] = NoConn]
  /\ state' = [state EXCEPT ![c] = "AUTHENTICATING"]
  /\ UNCHANGED <<agents, accept, tunnel, closing, apiVars, server>>

\* 200, and an AgentConnection built on the socket in state CONNECTED
Welcome(c) ==
  /\ Alive
  /\ phase[c] = "looked"
  /\ ~SeenConnected(c)
  /\ phase' = [phase EXCEPT ![c] = "welcomed"]
  /\ seen' = [seen EXCEPT ![c] = NoConn]
  /\ state' = [state EXCEPT ![c] = "CONNECTED"]
  /\ UNCHANGED <<agents, accept, tunnel, closing, apiVars, server>>

(***************************************************************************)
(* X-TCP-Ports of an agent whose tunnel is in the cache: std::stoi of what *)
(* is no number throws before the 200, and no thread of the pool catches.  *)
(***************************************************************************)
PortsThrow(c) ==
  /\ Alive
  /\ phase[c] = "looked"
  /\ ~SeenConnected(c)
  /\ tunnel[c] \in tunnels
  /\ server' = "crashed"
  /\ UNCHANGED <<agents, accept, sessionVars, apiVars>>

\* register_agent(), whose result authenticate() does not look at
Register(c) ==
  /\ RegistryFree
  /\ phase[c] = "welcomed"
  /\ agents' = AfterRegister(tunnel[c], c)
  /\ phase' = [phase EXCEPT ![c] = "registered"]
  /\ UNCHANGED <<accept, tunnel, seen, state, closing, apiVars, server>>

\* Faulty variant: start() of a connection that is closed just returns
FaultyStart(c) ==
  /\ Alive
  /\ phase[c] = "registered"
  /\ phase' = [phase EXCEPT ![c] = "started"]
  /\ UNCHANGED <<agents, accept, tunnel, seen, state, closing, apiVars, server>>

(***************************************************************************)
(* AgentConnection::start(): a CONNECTED one opens its HTTP/2 session; one *)
(* that shutdown() closed meanwhile tries a TLS handshake on its closed    *)
(* socket, fails and goes through handle_disconnect().                     *)
(***************************************************************************)
Start(c) ==
  /\ Alive
  /\ phase[c] = "registered"
  /\ phase' = [phase EXCEPT ![c] = "started"]
  /\ IF state[c] = "CONNECTED"
       THEN UNCHANGED <<state, closing>>
       ELSE /\ state' = [state EXCEPT ![c] = "DISCONNECTED"]
            /\ closing' = [closing EXCEPT ![c] = "notify"]
  /\ UNCHANGED <<agents, accept, tunnel, seen, apiVars, server>>

-----------------------------------------------------------------------------
\* AgentConnection::close

\* Faulty variant: the connection may close before start() has run
FaultyCloseBegin(c) ==
  /\ Alive
  /\ state[c] = "CONNECTED"
  /\ state' = [state EXCEPT ![c] = "DISCONNECTING"]
  /\ closing' = [closing EXCEPT ![c] = "tearing"]
  /\ UNCHANGED <<agents, accept, phase, tunnel, seen, apiVars, server>>

\* Read error or end of file, heartbeat timeout, GOAWAY, or a failed send.
CloseBegin(c) ==
  /\ Alive
  /\ phase[c] = "started"
  /\ state[c] = "CONNECTED"
  /\ state' = [state EXCEPT ![c] = "DISCONNECTING"]
  /\ closing' = [closing EXCEPT ![c] = "tearing"]
  /\ UNCHANGED <<agents, accept, phase, tunnel, seen, apiVars, server>>

CloseEnd(c) ==
  /\ Alive
  /\ closing[c] = "tearing"
  /\ state' = [state EXCEPT ![c] = "DISCONNECTED"]
  /\ closing' = [closing EXCEPT ![c] = "notify"]
  /\ UNCHANGED <<agents, accept, phase, tunnel, seen, apiVars, server>>

\* Faulty variant: handle_disconnect() without on_disconnect_
FaultyDisconnected(c) ==
  /\ RegistryFree
  /\ closing[c] = "notify"
  /\ closing' = [closing EXCEPT ![c] = "done"]
  /\ UNCHANGED <<agents, accept, phase, tunnel, seen, state, apiVars, server>>

\* on_disconnect_: the lambda of authenticate() unregisters the tunnel
Disconnected(c) ==
  /\ RegistryFree
  /\ closing[c] = "notify"
  /\ agents' = AfterUnregister(tunnel[c])
  /\ closing' = [closing EXCEPT ![c] = "done"]
  /\ UNCHANGED <<accept, phase, tunnel, seen, state, apiVars, server>>

(***************************************************************************)
(* The same lambda reads agent_registry_ through the `this' of an          *)
(* AgentHandshake that nothing keeps alive once the 200 is written: where  *)
(* that memory is in use again the process dies.                           *)
(***************************************************************************)
DisconnectCrashes(c) ==
  /\ Alive
  /\ closing[c] = "notify"
  /\ server' = "crashed"
  /\ UNCHANGED <<agents, accept, sessionVars, apiVars>>

\* After GOAWAY the read handler goes on with the session that close() deleted.
GoawayCrashes(c) ==
  /\ Alive
  /\ phase[c] = "started"
  /\ closing[c] = "done"
  /\ server' = "crashed"
  /\ UNCHANGED <<agents, accept, sessionVars, apiVars>>

\* The socket is gone, nothing refers to it, and the agent may dial again.
Ended(c) ==
  \/ phase[c] \in {"refused", "lost"}
  \/ phase[c] = "started" /\ closing[c] = "done"

Redial(c) ==
  /\ Alive
  /\ Ended(c)
  /\ \A d \in Conns : seen[d] # c
  /\ phase' = [phase EXCEPT ![c] = "idle"]
  /\ tunnel' = [tunnel EXCEPT ![c] = NoTunnel]
  /\ state' = [state EXCEPT ![c] = "none"]
  /\ closing' = [closing EXCEPT ![c] = "no"]
  /\ UNCHANGED <<agents, accept, seen, apiVars, server>>

-----------------------------------------------------------------------------
\* TunnelsHandler: handle_create_tunnel and handle_delete_tunnel

ApiStep(t, from, to) ==
  /\ Alive
  /\ api[t] = from
  /\ api' = [api EXCEPT ![t] = to]

BeginCreate(t) ==
  /\ ApiStep(t, "none", "storeToken")
  /\ t \notin tunnels
  /\ UNCHANGED <<agents, accept, sessionVars, tunnels, tokens, server>>

StoreToken(t) ==
  /\ ApiStep(t, "storeToken", "storeTunnel")
  /\ tokens' = tokens \cup {t}
  /\ UNCHANGED <<agents, accept, sessionVars, tunnels, server>>

StoreTunnel(t) ==
  /\ ApiStep(t, "storeTunnel", "none")
  /\ tunnels' = tunnels \cup {t}
  /\ UNCHANGED <<agents, accept, sessionVars, tokens, server>>

BeginDelete(t) ==
  /\ ApiStep(t, "none", "unregister")
  /\ t \in tunnels
  /\ UNCHANGED <<agents, accept, sessionVars, tunnels, tokens, server>>

\* unregister_agent(): the entry goes, the connection is not told
DeleteUnregister(t) ==
  /\ RegistryFree
  /\ ApiStep(t, "unregister", "dropTunnel")
  /\ agents' = AfterUnregister(t)
  /\ UNCHANGED <<accept, sessionVars, tunnels, tokens, server>>

DropTunnel(t) ==
  /\ ApiStep(t, "dropTunnel", "dropToken")
  /\ tunnels' = tunnels \ {t}
  /\ UNCHANGED <<agents, accept, sessionVars, tokens, server>>

DropToken(t) ==
  /\ ApiStep(t, "dropToken", "none")
  /\ tokens' = tokens \ {t}
  /\ UNCHANGED <<agents, accept, sessionVars, tunnels, server>>

-----------------------------------------------------------------------------
\* main() and AgentRegistry::shutdown

\* agent_server->stop(): the acceptor is closed; connections keep running.
StopServers ==
  /\ MayStop
  /\ server = "running"
  /\ server' = "draining"
  /\ accept' = "closed"
  /\ UNCHANGED <<agents, sessionVars, apiVars>>

LockRegistry ==
  /\ server = "draining"
  /\ server' = "locked"
  /\ UNCHANGED <<agents, accept, sessionVars, apiVars>>

\* Entries whose agent->close() has not been called by the loop of shutdown().
Unclosed == {t \in Registered : state[agents[t]] = "CONNECTED"}

(***************************************************************************)
(* agent->close() under the mutex: a started connection calls              *)
(* on_disconnect_ and so unregister_agent(), which locks the mutex its own *)
(* thread holds.  glibc detects it and the exception leaves main(), other  *)
(* platforms wait for ever.                                                *)
(***************************************************************************)
ShutdownClose(t) ==
  LET c == agents[t] IN
  /\ server = "locked"
  /\ t \in Unclosed
  /\ state' = [state EXCEPT ![c] = "DISCONNECTED"]
  /\ IF phase[c] = "started"
       THEN server' \in {"stuck", "failed"}
       ELSE UNCHANGED server
  /\ UNCHANGED <<agents, accept, phase, tunnel, seen, closing, apiVars>>

\* agents_.clear(), and the mutex is released
ShutdownDone ==
  /\ server = "locked"
  /\ Unclosed = {}
  /\ agents' = Nobody
  /\ server' = "cleared"
  /\ UNCHANGED <<accept, sessionVars, apiVars>>

\* io_pool->stop(): until now the io threads were running
StopPool ==
  /\ server = "cleared"
  /\ server' = "stopped"
  /\ UNCHANGED <<agents, accept, sessionVars, apiVars>>

AllConns(x) == [c \in Conns |-> x]

Init ==
  /\ agents = Nobody
  /\ accept = IF MaxAgents = 0 THEN "reject" ELSE "handshake"
  /\ phase = AllConns("idle")
  /\ tunnel = AllConns(NoTunnel)
  /\ seen = AllConns(NoConn)
  /\ state = AllConns("none")
  /\ closing = AllConns("no")
  /\ tunnels = BootTunnels
  /\ tokens = BootTunnels
  /\ api = [t \in Tunnels |-> "none"]
  /\ server = "running"

\* The process died and the container is started again: memory is lost.
Restart ==
  /\ server \in {"crashed", "failed"}
  /\ agents' = Nobody
  /\ accept' = IF MaxAgents = 0 THEN "reject" ELSE "handshake"
  /\ phase' = AllConns("idle")
  /\ tunnel' = AllConns(NoTunnel)
  /\ seen' = AllConns(NoConn)
  /\ state' = AllConns("none")
  /\ closing' = AllConns("no")
  /\ tunnels' = BootTunnels
  /\ tokens' = BootTunnels
  /\ api' = [t \in Tunnels |-> "none"]
  /\ server' = "running"

-----------------------------------------------------------------------------
Handshake(c) ==
  \/ Accept(c) \/ RejectAtCapacity(c) \/ TlsDone(c) \/ HandshakeFails(c)
  \/ (\E t \in Tunnels : Validate(c, t)) \/ Unauthorized(c)
  \/ LookUp(c) \/ Conflict(c) \/ PortsThrow(c) \/ Welcome(c)
  \/ Register(c) \/ Start(c)

Disconnect(c) ==
  \/ CloseBegin(c) \/ CloseEnd(c) \/ Disconnected(c)
  \/ DisconnectCrashes(c) \/ GoawayCrashes(c) \/ Redial(c)

Manage(t) ==
  \/ BeginCreate(t) \/ StoreToken(t) \/ StoreTunnel(t)
  \/ BeginDelete(t) \/ DeleteUnregister(t) \/ DropTunnel(t) \/ DropToken(t)

Main ==
  \/ StopServers \/ LockRegistry \/ ShutdownDone \/ StopPool \/ Restart
  \/ \E t \in Tunnels : ShutdownClose(t)

Next ==
  \/ \E c \in Conns : Handshake(c) \/ Disconnect(c)
  \/ AcceptFails
  \/ \E t \in Tunnels : Manage(t)
  \/ Main

Spec == Init /\ [][Next]_vars

(***************************************************************************)
(* The io threads run what is ready on them: a handshake that validated    *)
(* its token, a close() that began.  Nothing obliges an agent to connect,  *)
(* to send its headers or to go away, nor an administrator to act.         *)
(***************************************************************************)
Fairness ==
  /\ \A c \in Conns :
       /\ WF_vars(LookUp(c))
       /\ WF_vars(Conflict(c) \/ PortsThrow(c) \/ Welcome(c))
       /\ WF_vars(Register(c))
       /\ WF_vars(Start(c))
       /\ WF_vars(CloseEnd(c))
       /\ WF_vars(Disconnected(c) \/ DisconnectCrashes(c))
  /\ WF_vars(LockRegistry)
  /\ \A t \in Tunnels : WF_vars(ShutdownClose(t))
  /\ WF_vars(ShutdownDone)
  /\ WF_vars(StopPool)

FairSpec == Spec /\ Fairness

-----------------------------------------------------------------------------
(***************************************************************************)
(* register_agent(): whatever handshakes race past the capacity check of   *)
(* do_accept, the registry never holds more than max_agents_ entries.      *)
(***************************************************************************)
CapacityRespected == Cardinality(Registered) <= MaxAgents

(***************************************************************************)
(* An entry of the registry is a connection that authenticated for that    *)
(* very tunnel, is past register_agent(), and has not yet run its          *)
(* on_disconnect_: no connection is left behind after handle_disconnect(), *)
(* whatever other handshakes, deletions and shutdown() did meanwhile.      *)
(***************************************************************************)
NoStaleEntry ==
  \A t \in Tunnels : agents[t] # NoConn =>
    LET c == agents[t] IN
      /\ tunnel[c] = t
      /\ phase[c] \in {"registered", "started"}
      /\ closing[c] # "done"

(***************************************************************************)
(* close() and on_disconnect_ come only after start(), and a handshake     *)
(* that reached the registry has a tunnel id: with NoStaleEntry this is    *)
(* inductive, so the registry needs no other agreement between threads.    *)
(***************************************************************************)
HandshakeOrder ==
  \A c \in Conns :
    /\ phase[c] \in {"validated", "looked", "welcomed", "registered", "started"}
         => tunnel[c] \in Tunnels
    /\ phase[c] # "started" => closing[c] = "no"

(***************************************************************************)
(* A dead connection is listed only with its on_disconnect_ still to come: *)
(* its handle_disconnect() is about to call it, or start() will find the   *)
(* socket that shutdown() closed and lead there.  Otherwise is_connected() *)
(* would let an agent in and register_agent() would not list it.  It holds *)
(* also while shutdown() has the mutex, for as long as shutdown() has not  *)
(* run into it itself: what is left of that case is ShutdownCompletes.     *)
(***************************************************************************)
DeadEntryLeaving ==
  Alive /\ server # "stuck" =>
    \A t \in Registered :
      state[agents[t]] = "DISCONNECTED" =>
        phase[agents[t]] = "registered" \/ closing[agents[t]] = "notify"

Directory == INSTANCE AgentDirectory WITH dir <- agents

(***************************************************************************)
(* The registry under all the concurrent callers implements the abstract   *)
(* directory: an agent is listed once, never replaces a listed one, and    *)
(* leaves only by its entry being vacated or all being wiped.              *)
(***************************************************************************)
ImplementsDirectory == Directory!Spec

(***************************************************************************)
(* A dead agent gives its slot back: once close() has begun the entry of   *)
(* the connection leaves the registry, unless the process dies or          *)
(* shutdown() hangs with the mutex.                                        *)
(***************************************************************************)
DeadAgentLeaves ==
  \A t \in Tunnels, c \in Conns :
    agents[t] = c /\ closing[c] = "tearing"
      ~> agents[t] # c \/ ~Alive \/ server = "stuck"

(***************************************************************************)
(* An authenticated handshake is decided: the agent is turned away with    *)
(* 409 or its session starts, whatever the others do to the registry, with *)
(* the same two excuses.                                                   *)
(***************************************************************************)
HandshakeDecides ==
  \A c \in Conns :
    phase[c] = "validated"
      ~> phase[c] \in {"refused", "started"} \/ ~Alive \/ server = "stuck"

(***************************************************************************)
(* "Close all connections gracefully" (AgentRegistry::shutdown) and        *)
(* "drain connections, cleanup resources" (main): a shutdown that began    *)
(* ends with the pool stopped.  It does not: shutdown() closes connections *)
(* under the mutex that their on_disconnect_ locks.                        *)
(***************************************************************************)
ShutdownCompletes ==
  server = "draining" ~> server \in {"stopped", "crashed"}
=============================================================================
