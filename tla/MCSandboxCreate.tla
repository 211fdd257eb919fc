-------------------------- MODULE MCSandboxCreate --------------------------
EXTENDS SandboxCreate, TLC

CONSTANTS c1, c2, c3, t1, t2, n1

\* c1 and c2 are a request and its retry; c3 is another tenant's call for
\* the same name, by chance under the same request ID.
MCTenant == (c1 :> t1) @@ (c2 :> t1) @@ (c3 :> t2)
MCRequestIDs == {(c1 :> 1) @@ (c2 :> 1) @@ (c3 :> 1)}
MCName == (c1 :> n1) @@ (c2 :> n1) @@ (c3 :> n1)
============================================================================
