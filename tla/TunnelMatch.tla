----------------------------- MODULE TunnelMatch -----------------------------
(***************************************************************************)
(* Which tunnel an HTTP request goes to and which certificate a TLS client *)
(* gets.  A host name is the sequence of its labels, <<>> the empty one;   *)
(* a tunnel id of several labels is one with dots in it.  The containers   *)
(* are hash maps, so what walks them takes the order as a parameter.       *)
(***************************************************************************)
EXTENDS IPAllowlist, FiniteSets, SequencesExt

NoName == <<>>

-----------------------------------------------------------------------------
\* Headers, in the order they came: [name, value], where the name "host" is
\* any other spelling of "Host"

LastNamed(headers, names) ==
  FoldLeft(LAMBDA value, h : IF h.name \in names THEN h.value ELSE value, NoName, headers)

\* HTTPServer::handle_plain_http(), the parser main() runs with
PlainHost(headers) == LastNamed(headers, {"Host"})

\* HTTPProxy::parse_request(), which folds the case of the names
ProxyHost(headers) == LastNamed(headers, {"Host", "host"})

-----------------------------------------------------------------------------
\* HTTPProxy

\* match_tunnel(): the last tunnel walked whose id, and a dot, begin the host
\* name, or whose id is the host name.
\* Faulty: the id may stand anywhere in the host name
FaultyMatchTunnel(walk, host) ==
  FoldLeft(LAMBDA m, id : IF id # NoName /\ \E i \in DOMAIN host : IsPrefix(id, SubSeq(host, i, Len(host)))
                          THEN id ELSE m, NoName, walk)

MatchTunnel(walk, host) ==
  FoldLeft(LAMBDA m, id : IF IsStrictPrefix(id, host) \/ id = host THEN id ELSE m,
           NoName, walk)

\* handle_request() up to the call of the agent.  found: the tunnels that are
\* still there when the matched one is fetched
HandleRequest(req, walk, found, connected) ==
  LET id == MatchTunnel(walk, req.host)
  IN  CASE req.path = "/health" -> "health"
        [] req.path # "/health" /\ id = NoName -> "404"
        [] req.path # "/health" /\ id # NoName ->
             IF id \notin DOMAIN found THEN "500"
             ELSE IF ~ValidateIpAllowlist(found[id], req.client) THEN "403"
             ELSE IF id \notin connected THEN "503"
             ELSE "agent"

-----------------------------------------------------------------------------
\* TLSManager: [certs, default], certs a function from the domains it knows to
\* versions of their certificate.  A domain is [wild, name].

NoCertificates(own) == [certs |-> << >>, default |-> own]

\* create_context(): Missing stands for a certificate that the vault does not
\* have, or has without a key that fits.
Missing == 0
CreatesContext(version) == version # Missing

\* load_certificate()
\* Faulty: a domain keeps the certificate it has
FaultyLoadCertificate(m, domain, version) ==
  IF ~CreatesContext(version) THEN m
  ELSE LET certs == [d \in DOMAIN m.certs \cup {domain} |->
                        IF d \in DOMAIN m.certs THEN m.certs[d] ELSE version]
       IN  [certs |-> certs,
            default |-> IF Cardinality(DOMAIN certs) = 1 THEN version ELSE m.default]

LoadCertificate(m, domain, version) ==
  IF ~CreatesContext(version) THEN m
  ELSE LET certs == [d \in DOMAIN m.certs \cup {domain} |->
                        IF d = domain THEN version ELSE m.certs[d]]
       IN  [certs |-> certs,
            default |-> IF Cardinality(DOMAIN certs) = 1 THEN version ELSE m.default]

\* reload_certificate() and reload_all_certificates(): only domains it knows
ReloadCertificate(m, domain, version) ==
  IF domain \in DOMAIN m.certs THEN LoadCertificate(m, domain, version) ELSE m

ReloadAllCertificates(m, version) ==
  FoldLeft(LAMBDA n, domain : ReloadCertificate(n, domain, version),
           m, SetToSeq(DOMAIN m.certs))

\* match_certificate(): the domain itself, else the first wildcard walked that
\* stands for the first label
NoDomain == [wild |-> FALSE, name |-> NoName]
Exactly(host) == [wild |-> FALSE, name |-> host]

MatchCertificate(walk, host) ==
  LET covers(d) == d.wild /\ Len(host) > 1 /\ IsSuffix(d.name, host) /\ Tail(host) = d.name
      hits == {i \in DOMAIN walk : covers(walk[i])}
  IN  IF Contains(walk, Exactly(host)) THEN Exactly(host)
      ELSE IF hits = {} THEN NoDomain ELSE walk[CHOOSE i \in hits : \A k \in hits : i <= k]

HasCertificateForDomain(walk, host) == MatchCertificate(walk, host) # NoDomain

\* get_client_context(): a context made for this call, or the default one
GetClientContext(m, walk, sni) ==
  LET domain == MatchCertificate(walk, sni)
  IN  IF sni = NoName \/ domain = NoDomain THEN m.default ELSE m.certs[domain]
=============================================================================
