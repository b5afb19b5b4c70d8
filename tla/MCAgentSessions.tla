--------------------------- MODULE MCAgentSessions ---------------------------
\* Model values for the runs of AgentSessions.
EXTENDS AgentSessions

CONSTANTS t1, t2, c1, c2

OneTunnel == {t1}
TwoTunnels == {t1, t2}
OneConn == {c1}
TwoConns == {c1, c2}
=============================================================================
