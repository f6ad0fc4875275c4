---- MODULE MCDhcpServer ----
\* Three phones and a pool of two addresses (10.10.100.254 serves .1 and .2).
EXTENDS DhcpServer
====
