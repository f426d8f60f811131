----------------------------- MODULE Namespace -----------------------------
(***************************************************************************)
(* The names under which the gateway offers the tools of its servers       *)
(* (src/router/namespace.ts).  A name is <<server, tool>> under the        *)
(* strategy "prefix" and <<tool>> under "none"; what a server offers is    *)
(* tools[s], a set.  A route is the entry of the name map.                 *)
(***************************************************************************)
EXTENDS Naturals, Sequences, FiniteSets

Strategies == {"prefix", "none"}

Named(server, tool, strategy) ==
    IF strategy = "prefix" THEN <<server, tool>> ELSE <<tool>>

\* detectConflicts: the tools that more than one server offers.
Conflicts(tools) ==
    {t \in UNION {tools[s] : s \in DOMAIN tools} :
        \E r, s \in DOMAIN tools : r # s /\ t \in tools[r] \cap tools[s]}

\* buildNamespaceMap throws on a conflict under "none".
CanMap(tools, strategy) == strategy = "none" => Conflicts(tools) = {}

RoutesOf(tools, strategy) ==
    UNION {{[name |-> Named(s, t, strategy), server |-> s, tool |-> t] :
               t \in tools[s]} : s \in DOMAIN tools}

\* resolveTool: where a name leads: the set of the map's route for it (one at
\* most), or, under "prefix", of the one its parts spell, known or not.
Resolved(name, routes, strategy) ==
    LET direct == {r \in routes : r.name = name}
    IN  IF direct = {} /\ strategy = "prefix" /\ Len(name) = 2
        THEN {[name |-> name, server |-> name[1], tool |-> name[2]]}
        ELSE direct
=============================================================================
