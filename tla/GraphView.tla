----------------------------- MODULE GraphView -----------------------------
(***************************************************************************)
(* The topology graph of the control plane: the first request that finds   *)
(* no node rows puts them together from several reads of the entity tables *)
(* and commits them; a neighbourhood request searches the stored graph     *)
(* breadth first.  Two kinds of database: Postgres enforces the foreign    *)
(* keys of the edges and SQLite, the default, does not.                    *)
(*                                                                         *)
(* Dataset nodes have no edges and are left out; so are labels, groups and *)
(* the mock topology, which a setting for tests asks for.                  *)
(***************************************************************************)
EXTENDS Naturals, FiniteSets, Sequences, SequencesExt

CONSTANTS
    Callers,        \* requests that seed at the same time
    GraphModels,    \* model configs that come
    GraphStrategies,
    NoModel,
    RunIds,         \* sequence of the ids backtest runs will get: their bound
    MaxDepth        \* bound on the depth of a neighbourhood

ASSUME GraphAssumption == MaxDepth \in Nat

VARIABLES
    models,      \* rows of model_configs
    backtests,   \* rows of backtest_runs, in order: their strategy and model
    nodes,       \* rows of graph_nodes
    links,       \* rows of graph_edges
    enforced,    \* whether the database enforces foreign keys
    seeding      \* caller -> what it read, and the rows it will insert

graphVars == <<models, backtests, nodes, links, enforced, seeding>>

Model(m) == <<"model", m>>
Strategy(s) == <<"strategy", s>>
RunNode(n) == <<"run", RunIds[n]>>

\* Mutant: strategies get nodes only where a run names a model config.
NodesOfModels(ms, bs) ==
    {Model(m) : m \in ms} \cup {RunNode(n) : n \in DOMAIN bs}
        \cup {Strategy(bs[n].strategy) : n \in {k \in DOMAIN bs : bs[k].model # NoModel}}

\* What the rows a request has read amount to.
NodesOf(ms, bs) ==
    {Model(m) : m \in ms} \cup {RunNode(n) : n \in DOMAIN bs}
        \cup {Strategy(bs[n].strategy) : n \in DOMAIN bs}

\* Edges carry a stable id made of their ends.
Executes(bs) == {<<RunNode(n), Strategy(bs[n].strategy)>> : n \in DOMAIN bs}
Uses(bs) ==
    {<<Strategy(bs[n].strategy), Model(bs[n].model)>> :
        n \in {k \in DOMAIN bs : bs[k].model # NoModel}}
LinksOf(bs) == Executes(bs) \cup Uses(bs)

\* Two runs give one edge twice; the session does not flush in between
\* (autoflush is off), so both become inserts of one key.
Repeats(bs) ==
    \E n, k \in DOMAIN bs : n # k /\ bs[n] = bs[k] /\ bs[n].model # NoModel

Idle == [at |-> "idle", models |-> {}, backtests |-> <<>>, nodes |-> {}, links |-> {}]

GraphInit ==
    /\ models = {} /\ backtests = <<>>
    /\ nodes = {} /\ links = {} /\ enforced \in BOOLEAN
    /\ seeding = [c \in Callers |-> Idle]
-----------------------------------------------------------------------------
AddModel(m) ==
    /\ m \notin models
    /\ models' = models \cup {m}
    /\ UNCHANGED <<backtests, nodes, links, enforced, seeding>>

\* The router accepts a backtest only for a model config that exists.
AddBacktest(s, m) ==
    /\ Len(backtests) < Len(RunIds)
    /\ backtests' = Append(backtests, [strategy |-> s, model |-> m])
    /\ UNCHANGED <<models, nodes, links, enforced, seeding>>

SeedStep(c, here, r) ==
    /\ seeding[c].at = here
    /\ seeding' = [seeding EXCEPT ![c] = r]
    /\ UNCHANGED <<models, backtests, enforced>>

\* Nodes that are there end the seeding for good.
CountNodes(c) ==
    /\ SeedStep(c, "idle", IF nodes # {} THEN Idle ELSE [Idle EXCEPT !.at = "models"])
    /\ UNCHANGED <<nodes, links>>

\* Every SELECT sees what is committed when it runs.
ReadModels(c) ==
    /\ SeedStep(c, "models", [seeding[c] EXCEPT !.at = "runs", !.models = models])
    /\ UNCHANGED <<nodes, links>>

ReadBacktests(c) ==
    /\ SeedStep(c, "runs", [seeding[c] EXCEPT !.at = "merge", !.backtests = backtests])
    /\ UNCHANGED <<nodes, links>>

\* merge looks each row up: those it does not find will be inserted.
Merge(c) ==
    /\ SeedStep(c, "merge",
         [seeding[c] EXCEPT !.at = "commit",
            !.nodes = NodesOf(seeding[c].models, seeding[c].backtests) \ nodes,
            !.links = LinksOf(seeding[c].backtests) \ links])
    /\ UNCHANGED <<nodes, links>>

\* One transaction: no key twice, and no edge without its nodes where foreign
\* keys are enforced.
Commits(c) ==
    LET mine == seeding[c] IN
    /\ mine.nodes \cap nodes = {} /\ mine.links \cap links = {}
    /\ Repeats(mine.backtests) => mine.links \cap Uses(mine.backtests) = {}
    /\ enforced => \A e \in mine.links : {e[1], e[2]} \subseteq nodes \cup mine.nodes

CommitSeed(c) ==
    /\ SeedStep(c, "commit", Idle)
    /\ Commits(c)
    /\ nodes' = nodes \cup seeding[c].nodes
    /\ links' = links \cup seeding[c].links

\* The request answers an error, and the next one begins anew.
CommitFails(c) ==
    /\ SeedStep(c, "commit", Idle)
    /\ ~Commits(c)
    /\ UNCHANGED <<nodes, links>>
-----------------------------------------------------------------------------
Ends(es) == UNION {{e[1], e[2]} : e \in es}

Neighbours(n, es) ==
    {m \in Ends(es) : <<n, m>> \in es \/ <<m, n>> \in es}

\* Mutant: nodes at the requested depth still give their neighbours.
NewFrontierTooFar(here, dist, es, depth) ==
    IF dist[here] > depth THEN {} ELSE Neighbours(here, es) \ DOMAIN dist

\* What a node taken from the queue puts into it.
NewFrontier(here, dist, es, depth) ==
    IF dist[here] >= depth THEN {} ELSE Neighbours(here, es) \ DOMAIN dist

\* A turn of the loop of POST /graph/neighborhood; the loop ends when nothing is queued.
Visit(search, es, depth) ==
    IF search.queue = <<>> THEN search
    ELSE LET here == Head(search.queue)
             new == NewFrontier(here, search.dist, es, depth)
         IN  [queue |-> Tail(search.queue) \o SetToSeq(new),
              dist |-> [x \in DOMAIN search.dist \cup new |->
                          IF x \in new THEN search.dist[here] + 1 ELSE search.dist[x]]]

\* The search after each turn, of which there are no more than nodes.
Search(n, es, depth) ==
    LET after[k \in 0..Cardinality({n} \cup Ends(es))] ==
            IF k = 0 THEN [queue |-> <<n>>, dist |-> [x \in {n} |-> 0]]
            ELSE Visit(after[k - 1], es, depth)
    IN  after

\* The request reads the stored graph once; a seed without a row is a 404.
Answered(n, depth) == Search(n, links, depth)[Cardinality({n} \cup Ends(links))]
-----------------------------------------------------------------------------
Seed(c) ==
    \/ CountNodes(c) \/ ReadModels(c) \/ ReadBacktests(c) \/ Merge(c)
    \/ CommitSeed(c) \/ CommitFails(c)

GraphNext ==
    \/ \E m \in GraphModels : AddModel(m)
    \/ \E s \in GraphStrategies, m \in models \cup {NoModel} : AddBacktest(s, m)
    \/ \E c \in Callers : Seed(c)

GraphFairness == \A c \in Callers : WF_graphVars(Seed(c))
GraphSpec == GraphInit /\ [][GraphNext]_graphVars
GraphLiveSpec == GraphSpec /\ GraphFairness
-----------------------------------------------------------------------------
(* Properties                                                              *)

\* An edge without a node row is one to a model config that was created between
\* the two reads of a seeding, in a database without foreign keys: neither a
\* strategy nor a run is ever lost from the graph (repositories.py:413-447).
LinksAnchored ==
    \A e \in links :
        /\ e[1] \in nodes
        /\ e[2] \in nodes \/ (~enforced /\ \E m \in models : e[2] = Model(m))

\* The nodes within k steps of one, by definition.
Reached(n, es, depth) ==
    LET near[k \in 0..depth] ==
            IF k = 0 THEN {n}
            ELSE near[k - 1] \cup UNION {Neighbours(x, es) : x \in near[k - 1]}
    IN  near

\* The search ends and gives every node within the depth, none beyond it, and each its
\* shortest distance; a node that is only the end of an edge, for which the
\* answer fails, is visited like the others (graph.py:138-152).
NeighborhoodExact ==
    \A n \in nodes, depth \in 1..MaxDepth :
        LET dist == Answered(n, depth).dist
            near == Reached(n, links, depth)
        IN  /\ Answered(n, depth).queue = <<>>
            /\ DOMAIN dist = near[depth]
            /\ \A x \in DOMAIN dist, k \in 0..depth : dist[x] <= k <=> x \in near[k]

\* The graph holds what the tables hold and a search in it is exact
\* (seed_topology and neighborhood).
GraphExact ==
    /\ LinksAnchored
    /\ NeighborhoodExact

\* Where the runs never give an edge twice, the requests that come again and again
\* end up with a graph, however they overtake each other (repositories.py:407-447).
TopologyServed ==
    <>[](models # {} /\ ~Repeats(backtests)) => <>(nodes # {})
=============================================================================
