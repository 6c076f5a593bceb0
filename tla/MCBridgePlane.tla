---------------------------- MODULE MCBridgePlane ----------------------------
(* Instances of BridgePlane for TLC. *)
EXTENDS BridgePlane, TLC

CONSTANTS n1, n2, ip1, ip2, name1

NoPreference == <<>>
PreferFirst == <<n1, n2>>

MCPeerHost == (n1 :> ip1) @@ (n2 :> ip2)

Addr(scheme, host) == [scheme |-> scheme, host |-> host, port |-> TRUE]

\* One target with a scheme and one without, and one with a host name.
AddressTargets == (n1 :> Addr(TRUE, ip1)) @@ (n2 :> Addr(FALSE, ip2))
NamedTargets == (n1 :> Addr(TRUE, name1)) @@ (n2 :> Addr(TRUE, ip2))
==============================================================================
