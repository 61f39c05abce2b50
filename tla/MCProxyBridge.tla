--------------------------- MODULE MCProxyBridge ---------------------------
EXTENDS ProxyBridge, TLC

CONSTANTS t1, t2

MCTunnels == {t1, t2}
MCSettings == {[mode |-> "socks5", credentials |-> TRUE]}
=============================================================================
