--------------------------- MODULE AgentDirectory ---------------------------
(***************************************************************************)
(* What the agent registry promises to the proxies: a directory from       *)
(* tunnels to agent connections.  A tunnel has at most one entry, an entry *)
(* is never replaced while it stands, a connection stands under one tunnel *)
(* at a time, and no more than MaxAgents entries stand together.           *)
(* AgentSessions is shown to implement this module.                        *)
(***************************************************************************)
EXTENDS FiniteSets, Naturals

CONSTANTS
  Tunnels,    \* tunnel ids
  Conns,      \* agent connections
  NoConn,     \* "no agent"
  MaxAgents   \* AgentRegistry::max_agents_

VARIABLE dir  \* the directory

Listed(d) == {t \in Tunnels : d[t] # NoConn}

Init == dir = [t \in Tunnels |-> NoConn]

\* A free tunnel gets the connection c, which stands nowhere else.
Claim(t, c) ==
  /\ dir[t] = NoConn
  /\ Cardinality(Listed(dir)) < MaxAgents
  /\ \A u \in Tunnels : dir[u] # c
  /\ dir' = [dir EXCEPT ![t] = c]

Vacate(t) ==
  /\ dir[t] # NoConn
  /\ dir' = [dir EXCEPT ![t] = NoConn]

\* Shutdown or a restart of the process empties the directory.
Wipe == dir' = [t \in Tunnels |-> NoConn]

Next ==
  \/ \E t \in Tunnels, c \in Conns : Claim(t, c)
  \/ \E t \in Tunnels : Vacate(t)
  \/ Wipe

Spec == Init /\ [][Next]_dir
=============================================================================
