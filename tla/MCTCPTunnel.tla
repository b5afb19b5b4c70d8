------------------------------ MODULE MCTCPTunnel ------------------------------
\* Instances of TCPTunnel for TLC.
EXTENDS TCPTunnel
=============================================================================
