--------------------------- MODULE MCGatewayClient ---------------------------
(***************************************************************************)
(* GatewayClient on a gateway with a dotted name and on one with a         *)
(* single-label name, with the addresses that tell the rules apart.        *)
(***************************************************************************)
EXTENDS GatewayClient

Address(written, fetched, https) == [written |-> written, fetched |-> fetched, https |-> https]

gw       == <<"gw", "test">>
below    == <<"eu", "gw", "test">>
other    == <<"evilgw", "test">>
label    == <<"st-gateway">>
subLabel == <<"x", "st-gateway">>

MCHomes == {Address(gw, gw, TRUE), Address(label, label, FALSE)}

MCTargets ==
    MCHomes \cup
    { Address(gw, gw, FALSE),          \* the gateway, without TLS
      Address(below, below, TRUE),     \* a real subdomain
      Address(gw, other, TRUE),        \* written like the gateway, fetched elsewhere
      Address(other, gw, TRUE),        \* written like another host, fetched from the gateway
      Address(subLabel, subLabel, FALSE) }
=============================================================================
