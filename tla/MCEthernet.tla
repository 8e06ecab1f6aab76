----------------------------- MODULE MCEthernet -----------------------------
(* Two slots, and two peers besides 0.0.0.0 that hash to the first one:    *)
(* the second one is reached by probing, and 0.0.0.0 evicts from a full    *)
(* table.  Only m is learnt as an Ethernet address.                        *)
EXTENDS Ethernet, TLC

CONSTANTS zero, p, q, m, n, t1, t2, other
MCAddr == {zero, p, q, m, n}
MCIp == {zero, p, q}
MCMac == {m, n}
MCPeer == {p}
MCHighBit == {n}
MCHome == zero :> 0 @@ p :> 0 @@ q :> 0 @@ m :> 0 @@ n :> 1
MCTask == {t1, t2}
MCOneTask == {t1}
=============================================================================
