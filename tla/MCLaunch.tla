------------------------------ MODULE MCLaunch ------------------------------
EXTENDS Launch

L(by, platform, ns) == [by |-> by, platform |-> platform, netns |-> ns]

\* antler launches a and b, a launches c, and c launches d; platforms and
\* namespaces as they come.
MCNodes == {"a", "b", "c", "d"}
MCPlatforms == {"p", "q"}
Launcher(m) == IF m = "d" THEN "c" ELSE IF m = "c" THEN "a" ELSE Antler
MCPlans ==
    {[m \in nodes |-> L(Launcher(m), pf[m], m = "a" /\ ns)] :
        nodes \in {{"a", "b", "c"}, {"a", "c", "d"}},
        pf \in [MCNodes -> MCPlatforms], ns \in BOOLEAN}
=============================================================================
