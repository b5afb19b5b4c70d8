------------------------------ MODULE TokenStore ------------------------------
(***************************************************************************)
(* The two caches of the server, tunnels and tokens, under concurrent      *)
(* requests of the management API (TunnelsHandler), the agents that        *)
(* authenticate (TokenValidator, AgentHandshake) and the look-up of a      *)
(* tunnel by TCP port (TCPServer).  Every operation of Cache is atomic,    *)
(* because it holds the mutex of the cache; a request is several of them.  *)
(*                                                                         *)
(* Time is a bounded count of ticks.  Left out: the copy of a token in the *)
(* key vault, which nothing reads back, and the other data of a tunnel.    *)
(***************************************************************************)
EXTENDS FiniteSets, Naturals, Sequences

CONSTANTS
  Tunnels,     \* tunnel ids
  BootTunnel,  \* "test-api" of main()
  BootToken,   \* its token, the only one that starts with "tnl_"
  NewTokens,   \* what generate_token() returns, hexadecimal digits only
  NoToken,
  NoTunnel,
  Requests,    \* requests of the API that run at a time
  Grace,       \* 300 s, the life of a token that was replaced
  Day,         \* 24 h, of the boot entries and of a TCP registration
  Year,        \* of everything the API stores
  MaxTime      \* the bound of the clock

Tokens == NewTokens \cup {BootToken}

ASSUME BootAssumption ==
  /\ BootTunnel \in Tunnels /\ NoTunnel \notin Tunnels
  /\ BootToken \notin NewTokens /\ NoToken \notin Tokens
ASSUME TimesAssumption ==
  /\ {Grace, Day, Year, MaxTime} \subseteq Nat
  /\ Grace > 0 /\ Grace < Day /\ Day < Year

VARIABLES
  now,
  tunnels,   \* tunnel_cache_: when the entry of a tunnel expires, 0 if none
  ports,     \* tunnel_cache_, keys "id:tcp:port": the same
  tokens,    \* token_cache_: entries under "id" and under "id:old"
  pc,        \* how far a request is
  on,        \* the tunnel it is about
  read,      \* the token entry it has read
  agents,    \* keys in the agent registry
  portMap,   \* TCPServer::port_to_tunnel_ of the port that agents announce
  issued,    \* history: tokens stored as the token of a tunnel
  raced      \* history: tunnels with requests that overlapped

caches == <<tunnels, ports, tokens>>
requestVars == <<pc, on, read>>
ghosts == <<issued, raced>>
vars == <<now, caches, requestVars, agents, portMap, ghosts>>

Slots == {"main", "old"}
Keys == Tunnels \X Slots
Entries == [token : Tokens \cup {NoToken}, expires : Nat, until : Nat]
NoEntry == [token |-> NoToken, expires |-> 0, until |-> 0]

TypeOK ==
  /\ now \in 0..MaxTime
  /\ tunnels \in [Tunnels -> 0..MaxTime + Year]
  /\ ports \in [Tunnels -> 0..MaxTime + Day]
  /\ tokens \in [Keys -> Entries]
  /\ pc \in [Requests -> {"idle", "checked", "stored", "found", "unlisted",
                          "dropped", "listed", "read", "replaced"}]
  /\ on \in [Requests -> Tunnels]
  /\ read \in [Requests -> Entries]
  /\ agents \subseteq Keys
  /\ portMap \in Tunnels \cup {NoTunnel}
  /\ issued \in [Tunnels -> Seq(Tokens)]
  /\ raced \subseteq Tunnels

-----------------------------------------------------------------------------
\* Cache: an entry that has expired stays, but nobody sees it.

Listed(t) == now < tunnels[t]
Seen(k) == tokens[k].token # NoToken /\ now < tokens[k].until

\* put() of a token under a key, for ttl
Put(k, tok, expires, ttl) ==
  tokens' = [tokens EXCEPT ![k] = [token |-> tok, expires |-> expires, until |-> now + ttl]]

-----------------------------------------------------------------------------
\* TokenValidator

Used == UNION {{issued[t][i] : i \in DOMAIN issued[t]} : t \in Tunnels}

\* validate_token(): the keys under which the token is found, of which the
\* last one visited is returned as the tunnel id
Opens(tok) ==
  {k \in Keys : Seen(k) /\ tokens[k].token = tok /\ now < tokens[k].expires}

\* extract_token() wants the prefix "tnl_"
Extract(tok) == tok = BootToken

-----------------------------------------------------------------------------
\* TunnelsHandler

Busy(t) == \E r \in Requests : pc[r] # "idle" /\ on[r] = t

Begin(r, t, step) ==
  /\ pc[r] = "idle"
  /\ pc' = [pc EXCEPT ![r] = step]
  /\ on' = [on EXCEPT ![r] = t]
  /\ raced' = IF Busy(t) THEN raced \cup {t} ELSE raced

Goto(r, step) == pc' = [pc EXCEPT ![r] = step] /\ UNCHANGED on

\* Faulty: the generator repeats itself
FaultyNewToken(r) ==
  \E tok \in NewTokens :
    /\ Put(<<on[r], "main">>, tok, now + Year, Year)
    /\ issued' = [issued EXCEPT ![on[r]] = Append(@, tok)]

\* The token in use becomes the newest of its tunnel.
NewToken(r) ==
  \E tok \in NewTokens \ Used :
    /\ Put(<<on[r], "main">>, tok, now + Year, Year)
    /\ issued' = [issued EXCEPT ![on[r]] = Append(@, tok)]

\* 409 for a tunnel that exists changes nothing.
BeginCreate(r, t) ==
  /\ ~Listed(t)
  /\ Begin(r, t, "checked")
  /\ UNCHANGED <<now, caches, read, agents, portMap, issued>>

CreateToken(r) ==
  /\ pc[r] = "checked"
  /\ NewToken(r)
  /\ Goto(r, "stored")
  /\ UNCHANGED <<now, tunnels, ports, read, agents, portMap, raced>>

\* Faulty: the life of a tunnel is added twice
FaultyCreateTunnel(r) ==
  /\ pc[r] = "stored"
  /\ tunnels' = [tunnels EXCEPT ![on[r]] = now + Year + Year]
  /\ Goto(r, "idle")
  /\ UNCHANGED <<now, ports, tokens, read, agents, portMap, ghosts>>

CreateTunnel(r) ==
  /\ pc[r] = "stored"
  /\ tunnels' = [tunnels EXCEPT ![on[r]] = now + Year]
  /\ Goto(r, "idle")
  /\ UNCHANGED <<now, ports, tokens, read, agents, portMap, ghosts>>

BeginDelete(r, t) ==
  /\ Listed(t)
  /\ Begin(r, t, "found")
  /\ UNCHANGED <<now, caches, read, agents, portMap, issued>>

\* Only the agent registered under the plain id goes.
DeleteUnregister(r) ==
  /\ pc[r] = "found"
  /\ agents' = agents \ {<<on[r], "main">>}
  /\ Goto(r, "unlisted")
  /\ UNCHANGED <<now, caches, read, portMap, ghosts>>

\* Faulty: the tunnel is left in the cache without its token
FaultyDeleteTunnel(r) ==
  /\ pc[r] = "unlisted"
  /\ Goto(r, "dropped")
  /\ UNCHANGED <<now, caches, read, agents, portMap, ghosts>>

DeleteTunnel(r) ==
  /\ pc[r] = "unlisted"
  /\ tunnels' = [tunnels EXCEPT ![on[r]] = 0]
  /\ Goto(r, "dropped")
  /\ UNCHANGED <<now, ports, tokens, read, agents, portMap, ghosts>>

\* "id:old" and "id:tcp:port" stay until they expire.
DeleteToken(r) ==
  /\ pc[r] = "dropped"
  /\ tokens' = [tokens EXCEPT ![<<on[r], "main">>] = NoEntry]
  /\ Goto(r, "idle")
  /\ UNCHANGED <<now, tunnels, ports, read, agents, portMap, ghosts>>

BeginRotate(r, t) ==
  /\ Listed(t)
  /\ Begin(r, t, "listed")
  /\ UNCHANGED <<now, caches, read, agents, portMap, issued>>

\* Without a token the answer is 500.
RotateRead(r) ==
  /\ pc[r] = "listed"
  /\ LET k == <<on[r], "main">> IN
       \/ /\ Seen(k)
          /\ read' = [read EXCEPT ![r] = tokens[k]]
          /\ Goto(r, "read")
       \/ /\ ~Seen(k)
          /\ Goto(r, "idle")
          /\ UNCHANGED read
  /\ UNCHANGED <<now, caches, agents, portMap, ghosts>>

\* Faulty: the old token is kept, and is not replaced
FaultyRotateNew(r) ==
  /\ pc[r] = "read"
  /\ Put(<<on[r], "old">>, read[r].token, read[r].expires, Grace)
  /\ Goto(r, "replaced")
  /\ UNCHANGED <<now, tunnels, ports, read, agents, portMap, ghosts>>

RotateNew(r) ==
  /\ pc[r] = "read"
  /\ NewToken(r)
  /\ Goto(r, "replaced")
  /\ UNCHANGED <<now, tunnels, ports, read, agents, portMap, raced>>

\* Faulty: what is kept is the token in the cache now
FaultyRotateOld(r) ==
  /\ pc[r] = "replaced"
  /\ LET k == <<on[r], "main">> IN
       Put(<<on[r], "old">>, tokens[k].token, tokens[k].expires, Grace)
  /\ Goto(r, "idle")
  /\ UNCHANGED <<now, tunnels, ports, read, agents, portMap, ghosts>>

RotateOld(r) ==
  /\ pc[r] = "replaced"
  /\ Put(<<on[r], "old">>, read[r].token, read[r].expires, Grace)
  /\ Goto(r, "idle")
  /\ read' = [read EXCEPT ![r] = NoEntry]
  /\ UNCHANGED <<now, tunnels, ports, agents, portMap, ghosts>>

-----------------------------------------------------------------------------
\* AgentHandshake::authenticate, in one step: the key that validate() found is
\* the tunnel id from here on.  The TCP port is only registered for a tunnel
\* that is found under that id; a port that is no number ends the process and
\* everything here with it (PortsThrow of AgentSessions).
Authenticate(k) ==
  /\ \E tok \in Tokens : Extract(tok) /\ k \in Opens(tok)
  /\ k \notin agents
  /\ agents' = agents \cup {k}
  /\ ports' = IF k[2] = "main" /\ Listed(k[1])
                THEN [ports EXCEPT ![k[1]] = now + Day] ELSE ports
  /\ UNCHANGED <<now, tunnels, tokens, requestVars, portMap, ghosts>>

AgentLeaves(k) ==
  /\ k \in agents
  /\ agents' = agents \ {k}
  /\ UNCHANGED <<now, caches, requestVars, portMap, ghosts>>

\* find_tunnel_for_port(): the first tunnel found is kept for good.
Resolve(t) ==
  /\ portMap = NoTunnel
  /\ now < ports[t]
  /\ portMap' = t
  /\ UNCHANGED <<now, caches, requestVars, agents, ghosts>>

Tick ==
  /\ now < MaxTime
  /\ now' = now + 1
  /\ UNCHANGED <<caches, requestVars, agents, portMap, ghosts>>

-----------------------------------------------------------------------------
\* The server starts with the test tunnel and its token.
Init ==
  /\ now = 0
  /\ tunnels = [t \in Tunnels |-> IF t = BootTunnel THEN Day ELSE 0]
  /\ ports = [t \in Tunnels |-> 0]
  /\ tokens = [k \in Keys |->
       IF k = <<BootTunnel, "main">>
         THEN [token |-> BootToken, expires |-> Day, until |-> Day] ELSE NoEntry]
  /\ pc = [r \in Requests |-> "idle"]
  /\ on = [r \in Requests |-> BootTunnel]
  /\ read = [r \in Requests |-> NoEntry]
  /\ agents = {}
  /\ portMap = NoTunnel
  /\ issued = [t \in Tunnels |-> IF t = BootTunnel THEN <<BootToken>> ELSE <<>>]
  /\ raced = {}

Next ==
  \/ Tick
  \/ \E k \in Keys : Authenticate(k) \/ AgentLeaves(k)
  \/ \E t \in Tunnels :
       \/ Resolve(t)
       \/ \E r \in Requests : BeginCreate(r, t) \/ BeginDelete(r, t) \/ BeginRotate(r, t)
  \/ \E r \in Requests :
       \/ CreateToken(r) \/ CreateTunnel(r)
       \/ DeleteUnregister(r) \/ DeleteTunnel(r) \/ DeleteToken(r)
       \/ RotateRead(r) \/ RotateNew(r) \/ RotateOld(r)

Spec == Init /\ [][Next]_vars

-----------------------------------------------------------------------------
Accepted == {tok \in Tokens : Opens(tok) # {}}
Held == {read[r].token : r \in {q \in Requests : pc[q] \in {"read", "replaced"}}}

(***************************************************************************)
(* A token is found under one key at most, also while rotations, creations *)
(* and deletions of its tunnel overlap: otherwise the order of a hash map  *)
(* would decide which tunnel an agent gets (validate_token).               *)
(***************************************************************************)
OneNamePerToken == \A tok \in Tokens : Cardinality(Opens(tok)) <= 1

(***************************************************************************)
(* Of a tunnel that is listed the cache holds the token issued last,       *)
(* unless a request is at work on it or two have overlapped: a rotation    *)
(* finds it and keeps just that one for the grace period                   *)
(* (handle_create_tunnel, handle_delete_tunnel, handle_rotate_token).      *)
(* This is about what is kept; who is let in with it: TokensHonoured.      *)
(***************************************************************************)
ListedKeepsNewest ==
  \A t \in Tunnels \ raced :
    Listed(t) /\ ~Busy(t) =>
      /\ Seen(<<t, "main">>)
      /\ issued[t] # <<>>
      /\ tokens[<<t, "main">>].token = issued[t][Len(issued[t])]

(***************************************************************************)
(* User story 3: "The agent uses this token to authenticate and establish  *)
(* the tunnel", and after a rotation the "old token remains valid for      *)
(* 5-minute grace period".  So what the cache holds for a tunnel, as its   *)
(* token or for the grace period, authenticates an agent for that tunnel.  *)
(* It does not: extract_token() refuses what generate_token() makes, and   *)
(* what stands under "id:old" authenticates for the tunnel "id:old".       *)
(***************************************************************************)
TokensHonoured ==
  \A t \in Tunnels \ raced, slot \in Slots :
    LET kept == tokens[<<t, slot>>] IN
      Listed(t) /\ ~Busy(t) /\ Seen(<<t, slot>>) /\ now < kept.expires =>
        Extract(kept.token) /\ <<t, "main">> \in Opens(kept.token)

(***************************************************************************)
(* A token that is refused stays refused: neither time, nor a deletion,    *)
(* nor a rotation brings it back, except a rotation that has read it       *)
(* before: it still writes it back (handle_rotate_token reads the cache    *)
(* and writes it in two steps).                                            *)
(***************************************************************************)
RefusedStaysRefused ==
  [][\A tok \in Used : tok \notin Accepted /\ tok \notin Held => tok \notin Accepted']_vars

(***************************************************************************)
(* For a tunnel whose requests do not overlap the caches implement the     *)
(* ledger of tokens: the newest is kept as the token of the tunnel and the *)
(* one before it for the grace period.  Who is let in is not the ledger's. *)
(***************************************************************************)
Kept(t, slot) == IF Seen(<<t, slot>>) THEN tokens[<<t, slot>>].token ELSE NoToken
Ledger == INSTANCE TokenLedger WITH
  current <- [t \in Tunnels |-> Kept(t, "main")],
  graced <- [t \in Tunnels |-> Kept(t, "old")]
ImplementsLedger == Ledger!Spec
=============================================================================
