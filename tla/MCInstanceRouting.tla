-------------------------- MODULE MCInstanceRouting --------------------------
(***************************************************************************)
(* The two ways to an instance, through the sandbox router and through the *)
(* FunctionProxy client, in one run. They share no variable: part says     *)
(* which of them moves, the other stays in its initial state.              *)
(***************************************************************************)
EXTENDS SandboxRoutes, ProxyClient

VARIABLE part

MCTenant == [g \in Gens |-> IF g = 1 THEN "ann" ELSE "bob"]

Entry(token, host, container) == [token |-> token, host |-> host, container |-> container]

\* A control port, a service port, an entry that does not parse.
MCPortForward ==
    [g \in Gens |-> <<Entry("direct+http", 31, 50090), Entry("gopher", 32, 81),
                      Entry("public+https", 33, 80)>>]

Ask(port, source, tenant) == [port |-> port, source |-> source, tenant |-> tenant]

MCAsks == {Ask(50090, "frontend", "bob"), Ask(80, "router", None)}

------------------------------------------------------------------------------
RoutingInit == part \in {"router", "proxy"} /\ RoutesInit /\ ProxyInit

RoutingNext ==
    \/ part = "router" /\ RoutesNext /\ UNCHANGED <<part, proxyVars>>
    \/ part = "proxy" /\ ProxyNext /\ UNCHANGED <<part, routingVars>>

RoutingSpec == RoutingInit /\ [][RoutingNext]_<<part, routingVars, proxyVars>>
==============================================================================
