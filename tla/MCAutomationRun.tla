--------------------------- MODULE MCAutomationRun ---------------------------
(* Every graph of four nodes behind a trigger whose other nodes are agents, *)
(* users' answers and conditions, and some with a tool, a switch and a stop, *)
(* with every way to connect them. *)
EXTENDS AutomationRun

MCNodes == 1..4
MCKinds == {<<"trigger", a, b, c>> : a, b, c \in {"condition", "human", "agent"}}
           \union {<<"trigger", "switch", "agent", "stop">>, <<"trigger", "tool", "agent", "stop">>}

\* Each node but the trigger has one or two predecessors; a condition leads to its
\* first successor when true and to the others when false, a switch to its
\* first successor by its value and to the others by default.
MCPreds == {<<{}, {1}, p, q>> : p \in (SUBSET {1, 2}) \ {{}}, q \in {{1}, {2}, {3}, {1, 3}, {2, 3}}}

Handle(k, p, m, n) ==
    LET first == \A i \in MCNodes : m \in p[i] => n <= i IN
    CASE k[m] = "condition" -> IF first THEN "true" ELSE "false"
      [] k[m] = "switch" -> IF first THEN "true" ELSE "default"
      [] OTHER -> "any"

MCEdges(k, p) ==
    {[from |-> e[1], to |-> e[2], handle |-> Handle(k, p, e[1], e[2])] :
       e \in {x \in MCNodes \X MCNodes : x[1] \in p[x[2]]}}

MCGraph(k, p, b) == [kind |-> k, edges |-> MCEdges(k, p), busy |-> b]

MCBusyKinds == {<<"trigger", "agent", "agent", "human">>, <<"trigger", "human", "agent", "agent">>,
                <<"trigger", "agent", "condition", "agent">>}

MCGraphs == {MCGraph(k, p, FALSE) : k \in MCKinds, p \in MCPreds}
            \union {MCGraph(k, p, TRUE) : k \in MCBusyKinds, p \in MCPreds}
=============================================================================
