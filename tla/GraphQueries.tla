---------------------------- MODULE GraphQueries ----------------------------
(***************************************************************************)
(* What is asked of the graph: the attack path between two entities, the    *)
(* distance to the nearest known bad one, the neighbourhood of one, and the *)
(* graph of a case, put together from neighbourhoods.                       *)
(*                                                                         *)
(* InMemoryGraphStore searches a copy of its file, an edge per step here;   *)
(* Neo4jGraphStore asks in Cypher, which is one step.  A search works on    *)
(* what it read, so the file stands still meanwhile.  The edges of a node   *)
(* come in the order of their insertion, which can be any: here in none.    *)
(* What is asked for are nodes of the graph.  An edge is its record here:   *)
(* the file keys edges by source, type and target, and gives each one an id *)
(* of its own, its edge_id.                                                 *)
(***************************************************************************)
EXTENDS Integers, Sequences, FiniteSets, SequencesExt

CONSTANTS
  Nodes,
  LinkChoices,    \* the edges a graph may have
  Depths,         \* hops asked for; both backends are asked for one at least
  Limits,         \* edges asked for
  BadSets,        \* known bad entities
  EntityLists     \* the entities of a case

Link(src, type, dst) == [src |-> src, type |-> type, dst |-> dst]

ASSUME QueriesAssumption ==
  /\ \A link \in LinkChoices : link.src \in Nodes /\ link.dst \in Nodes
  /\ Depths \subseteq Nat \ {0} /\ Limits \subseteq Nat \ {0}
  /\ BadSets \subseteq SUBSET Nodes /\ EntityLists \subseteq Seq(Nodes)

VARIABLES
  links,          \* data["edges"].values()
  asked,          \* the question, see Question
  stage,          \* "idle", "searching", "expanding", "between" or "answered"
  queue,          \* entries: a node and the path that leads to it
  visited,        \* of either search: visited, visited_nodes
  current,        \* the entry whose edges are gone through,
  hopsLeft,       \*   and those of them still to come
  rounds,         \* neighborhood: rounds completed,
  frontier,       \*   frontier, but for the nodes taken from it,
  nextFrontier,   \*   next_frontier,
  collected,      \*   visited_edges,
  shown,          \*   those of them within the limit,
  latest,         \*   and of these the last one of each edge_id
  entitiesLeft,   \* get_case_graph: entities still to come,
  merged,         \*   nodes_by_id and edges_by_id
  answer

searchVars == <<queue, visited, current, hopsLeft>>
roundVars == <<rounds, frontier, nextFrontier, collected, shown, latest>>
caseVars == <<entitiesLeft, merged>>
queryVars == <<links, asked, stage, searchVars, roundVars, caseVars, answer>>

-----------------------------------------------------------------------------
(* _adjacency: from each node its edges, those that end there as a copy with*)
(* source and target exchanged, and still with the edge_id of their edge.   *)
Hop(link, from, to) == [link |-> link, from |-> from, to |-> to]
Adjacency(edges, n) ==
  {Hop(link, n, link.dst) : link \in {link \in edges : link.src = n}} \cup
  {Hop(link, n, link.src) : link \in {link \in edges : link.dst = n}}

(* What tells copies apart in one neighbourhood (ek): two edges of a type   *)
(* that run opposite ways have their copies in common.                      *)
EdgeKey(hop) == <<hop.from, hop.link.type, hop.to>>

(* A dict of edges by edge_id: what is put in last stays.                   *)
Overwrite(edges, newer) == {g \in edges : \A hop \in newer : hop.link # g.link} \cup newer

Entry(n, path) == [node |-> n, path |-> path]
Question(backend, kind, from, targets, depth, limit) ==
  [backend |-> backend, kind |-> kind, from |-> from, targets |-> targets,
   depth |-> depth, limit |-> limit]
NoQuestion == [backend |-> "none"]

(* A search that finds nothing answers -1, or None; one that raises, -2.    *)
NoPath == -1
Raised == -2
Length(n, path) == [length |-> n, path |-> path]
Graph(nodes, edges, cut) == [nodes |-> nodes, edges |-> edges, cut |-> cut]
NoGraph == Graph({}, {}, FALSE)

Answer(a) == stage' = "answered" /\ answer' = a

LinksInit ==
  /\ links = {} /\ asked = NoQuestion /\ stage = "idle"
  /\ queue = << >> /\ visited = {} /\ current = Entry("none", << >>) /\ hopsLeft = {}
  /\ rounds = 0 /\ frontier = {} /\ nextFrontier = {} /\ collected = {} /\ shown = {} /\ latest = {}
  /\ entitiesLeft = << >> /\ merged = NoGraph
  /\ answer = NoGraph

(* upsert_edge of an edge that is not there yet, between two searches.      *)
AddLink ==
  /\ stage \in {"idle", "between"}
  /\ \E link \in LinkChoices \ links : links' = links \cup {link}
  /\ UNCHANGED <<asked, stage, searchVars, roundVars, caseVars, answer>>

Ask(backend, kind, from, targets, depth, limit) ==
  /\ stage = "idle"
  /\ asked' = Question(backend, kind, from, targets, depth, limit)
  /\ UNCHANGED <<links, roundVars>>

StartSearch(n) ==
  /\ stage' = "searching"
  /\ queue' = <<Entry(n, << >>)>> /\ visited' = {n}
  /\ UNCHANGED <<current, hopsLeft, caseVars, answer>>

(* A node for whose edges there is no depth left is passed over.            *)
Explore(entry) ==
  IF Len(entry.path) >= asked.depth
  THEN UNCHANGED <<current, hopsLeft>>
  ELSE current' = entry /\ hopsLeft' = Adjacency(links, entry.node)

Visit(hop) ==
  /\ hopsLeft' = hopsLeft \ {hop}
  /\ visited' = visited \cup {hop.to}
  /\ queue' = IF hop.to \in visited THEN queue
              ELSE Append(queue, Entry(hop.to, Append(current.path, hop)))

-----------------------------------------------------------------------------
(* attack_path                                                              *)
AskPath(src, dst, max_depth) ==
  Ask("memory", "path", src, {dst}, max_depth, 1) /\ StartSearch(src)

Dequeuing(kind) == stage = "searching" /\ asked.kind = kind /\ hopsLeft = {}
Searching(kind) == stage = "searching" /\ asked.kind = kind /\ hopsLeft # {}

DequeueForPath ==
  /\ Dequeuing("path") /\ queue # << >>
  /\ queue' = Tail(queue)
  /\ IF Head(queue).node \in asked.targets
     THEN /\ Answer(Length(Len(Head(queue).path), Head(queue).path))
          /\ UNCHANGED <<current, hopsLeft>>
     ELSE Explore(Head(queue)) /\ UNCHANGED <<stage, answer>>
  /\ UNCHANGED <<links, asked, visited, roundVars, caseVars>>

VisitForPath ==
  /\ Searching("path")
  /\ \E hop \in hopsLeft : Visit(hop)
  /\ UNCHANGED <<links, asked, stage, current, roundVars, caseVars, answer>>

Exhausted ==
  /\ stage = "searching" /\ hopsLeft = {} /\ queue = << >>
  /\ Answer(Length(NoPath, << >>))
  /\ UNCHANGED <<links, asked, searchVars, roundVars, caseVars>>

-----------------------------------------------------------------------------
(* path_length_to_known_bad: its queue has the lengths of the paths only,   *)
(* and it stops at the edge that leads to a known bad entity.               *)
AskBad(n, bad, max_depth) ==
  /\ Ask("memory", "bad", n, bad, max_depth, 1)
  /\ IF bad = {} \/ n \in bad
     THEN /\ Answer(Length(IF bad = {} THEN NoPath ELSE 0, << >>))
          /\ UNCHANGED <<searchVars, caseVars>>
     ELSE StartSearch(n)

DequeueForBad ==
  /\ Dequeuing("bad") /\ queue # << >>
  /\ queue' = Tail(queue)
  /\ Explore(Head(queue))
  /\ UNCHANGED <<links, asked, stage, visited, roundVars, caseVars, answer>>

(* Mutant of VisitForBad: the edge that leads there is not counted.         *)
VisitForBadUncounted ==
  /\ Searching("bad")
  /\ \E hop \in hopsLeft :
       IF hop.to \in asked.targets
       THEN Answer(Length(Len(current.path), << >>)) /\ UNCHANGED <<queue, visited, hopsLeft>>
       ELSE Visit(hop) /\ UNCHANGED <<stage, answer>>
  /\ UNCHANGED <<links, asked, current, roundVars, caseVars>>

VisitForBad ==
  /\ Searching("bad")
  /\ \E hop \in hopsLeft :
       IF hop.to \in asked.targets
       THEN Answer(Length(Len(current.path) + 1, << >>)) /\ UNCHANGED <<queue, visited, hopsLeft>>
       ELSE Visit(hop) /\ UNCHANGED <<stage, answer>>
  /\ UNCHANGED <<links, asked, current, roundVars, caseVars>>

-----------------------------------------------------------------------------
(* neighborhood, round by round over a frontier.                            *)
MaxHops == 4    \* the depth the API lets through at most

ExpandFrom(n) ==
  /\ stage' = "expanding"
  /\ rounds' = 0 /\ frontier' = {n} /\ visited' = {} /\ nextFrontier' = {}
  /\ collected' = {} /\ shown' = {} /\ latest' = {}
  /\ UNCHANGED <<links, queue, current, hopsLeft, answer>>

AskNeighborhood(n, depth, limit) ==
  /\ stage = "idle" /\ depth <= MaxHops
  /\ asked' = Question("memory", "around", n, {n}, depth, limit)
  /\ ExpandFrom(n)
  /\ UNCHANGED caseVars

TakeNode ==
  /\ stage = "expanding" /\ hopsLeft = {}
  /\ \E nid \in frontier :
       /\ frontier' = frontier \ {nid}
       /\ visited' = visited \cup {nid}
       /\ hopsLeft' = Adjacency(links, nid) /\ current' = Entry(nid, << >>)
  /\ UNCHANGED <<links, asked, stage, queue, rounds, nextFrontier, collected, shown, latest,
                 caseVars, answer>>

(* A new edge that reaches the limit ends the node before its other end is  *)
(* noted; the nodes left in the frontier may still add one each.            *)
Known(hop) == \E g \in collected : EdgeKey(g) = EdgeKey(hop)
CollectHop ==
  /\ stage = "expanding"
  /\ \E hop \in hopsLeft :
       LET now == IF Known(hop) THEN collected ELSE collected \cup {hop}
       IN /\ collected' = now
          /\ IF ~Known(hop) /\ Cardinality(now) <= asked.limit
             THEN shown' = now /\ latest' = Overwrite(latest, {hop})
             ELSE UNCHANGED <<shown, latest>>
          /\ IF ~Known(hop) /\ Cardinality(now) >= asked.limit
             THEN hopsLeft' = {} /\ UNCHANGED nextFrontier
             ELSE hopsLeft' = hopsLeft \ {hop} /\ nextFrontier' = nextFrontier \cup {hop.to}
  /\ UNCHANGED <<links, asked, stage, queue, visited, current, rounds, frontier, caseVars, answer>>

RoundOver == stage = "expanding" /\ hopsLeft = {} /\ frontier = {}
LimitReached == Cardinality(collected) >= asked.limit

NextRound ==
  /\ RoundOver /\ ~LimitReached /\ rounds + 1 < asked.depth
  /\ rounds' = rounds + 1
  /\ frontier' = nextFrontier \ visited /\ nextFrontier' = {}
  /\ UNCHANGED <<links, asked, stage, searchVars, collected, shown, latest, caseVars, answer>>

(* What is answered; the limit cuts it short without a word of it.          *)
Neighborhood == Graph(visited \cup nextFrontier \cup {asked.from}, shown, LimitReached)
Finished == RoundOver /\ (LimitReached \/ rounds + 1 >= asked.depth)

AnswerNeighborhood ==
  /\ Finished /\ asked.kind = "around"
  /\ Answer(Neighborhood)
  /\ UNCHANGED <<links, asked, searchVars, roundVars, caseVars>>

-----------------------------------------------------------------------------
(* get_case_graph: one neighbourhood after the other, each of the graph as  *)
(* it has become, put together by edge_id (_edge_key): of the copies of an  *)
(* edge the one met last is shown, in whichever direction it leads.         *)
EntitiesShown == 10
NeighborhoodLimit == 100   \* the default of neighborhood

AskCaseGraph(entities, depth) ==
  /\ stage = "idle" /\ depth <= MaxHops
  /\ LET n == IF Len(entities) < EntitiesShown THEN Len(entities) ELSE EntitiesShown
         entity_ids == SubSeq(entities, 1, n)
     IN /\ asked' = Question("memory", "case", "none", ToSet(entity_ids), depth, NeighborhoodLimit)
        /\ entitiesLeft' = entity_ids
  /\ stage' = "between" /\ merged' = NoGraph
  /\ UNCHANGED <<links, searchVars, roundVars, answer>>

NextEntity ==
  /\ stage = "between" /\ entitiesLeft # << >>
  /\ asked' = [asked EXCEPT !.from = Head(entitiesLeft)]
  /\ entitiesLeft' = Tail(entitiesLeft)
  /\ ExpandFrom(Head(entitiesLeft))
  /\ UNCHANGED merged

MergeNeighborhood ==
  /\ Finished /\ asked.kind = "case"
  /\ merged' = Graph(merged.nodes \cup Neighborhood.nodes, Overwrite(merged.edges, latest),
                     merged.cut \/ Neighborhood.cut)
  /\ stage' = "between"
  /\ UNCHANGED <<links, asked, searchVars, roundVars, entitiesLeft, answer>>

AnswerCaseGraph ==
  /\ stage = "between" /\ entitiesLeft = << >>
  /\ Answer(merged)
  /\ UNCHANGED <<links, asked, searchVars, roundVars, caseVars>>

-----------------------------------------------------------------------------
(* Neo4jGraphStore: -[*1..k]- matches the trails, walks that use no         *)
(* relationship twice.                                                      *)
Strides(edges) ==
  {Hop(link, link.src, link.dst) : link \in edges} \cup
  {Hop(link, link.dst, link.src) : link \in edges}
Trails(edges, n, k) ==
  {t \in [1..k -> Strides(edges)] :
     /\ t[1].from = n
     /\ \A i \in 1..(k - 1) : t[i].to = t[i + 1].from
     /\ \A i, j \in 1..k : t[i].link = t[j].link => i = j}

(* What the searches leave behind from before does not concern a query.     *)
Neo4jAnswers(a) == Answer(a) /\ UNCHANGED <<searchVars, caseVars>>

(* The graph, each relationship once and as it is stored; that the list is  *)
(* cut at the limit, in no order, is not modelled.                          *)
Neo4jNeighborhood(n, depth) ==
  /\ depth <= MaxHops
  /\ Ask("neo4j", "around", n, {n}, depth, 1)
  /\ LET ends == UNION {{t[k].to : t \in Trails(links, n, k)} : k \in 1..depth}
         used == UNION {UNION {{t[i].link : i \in 1..k} : t \in Trails(links, n, k)} : k \in 1..depth}
     IN Neo4jAnswers(Graph({n} \cup ends, used, FALSE))

(* shortestPath between a node and one of several others.  From a node to   *)
(* itself there is none: the statement raises, and so does the question.    *)
(* The path comes as properties of its relationships, without their ends.   *)
Shortest(edges, n, targets, depth) ==
  {k \in 1..depth : /\ \E t \in Trails(edges, n, k) : t[k].to \in targets
                    /\ \A j \in 1..(k - 1) : \A t \in Trails(edges, n, j) : t[j].to \notin targets}

Neo4jLength(kind, n, targets, depth) ==
  /\ Ask("neo4j", kind, n, targets, depth, 1)
  /\ LET found == Shortest(links, n, targets, depth)
         lengths == IF n \in targets THEN {Raised} ELSE IF found = {} THEN {NoPath} ELSE found
     IN \E length \in lengths : Neo4jAnswers(Length(length, << >>))

-----------------------------------------------------------------------------
(* The answer is given, and nothing is kept of the search.                  *)
Close ==
  /\ stage = "answered"
  /\ asked' = NoQuestion /\ stage' = "idle"
  /\ queue' = << >> /\ visited' = {} /\ current' = Entry("none", << >>) /\ hopsLeft' = {}
  /\ rounds' = 0 /\ frontier' = {} /\ nextFrontier' = {} /\ collected' = {} /\ shown' = {} /\ latest' = {}
  /\ entitiesLeft' = << >> /\ merged' = NoGraph /\ answer' = NoGraph
  /\ UNCHANGED links

QueriesNext ==
  \/ AddLink
  \/ \E n \in Nodes, depth \in Depths :
       \/ \E dst \in Nodes : AskPath(n, dst, depth) \/ Neo4jLength("path", n, {dst}, depth)
       \/ \E bad \in BadSets : AskBad(n, bad, depth) \/ Neo4jLength("bad", n, bad, depth)
       \/ \E limit \in Limits : AskNeighborhood(n, depth, limit)
       \/ Neo4jNeighborhood(n, depth)
  \/ \E entities \in EntityLists, depth \in Depths : AskCaseGraph(entities, depth)
  \/ DequeueForPath \/ VisitForPath \/ DequeueForBad \/ VisitForBad \/ Exhausted
  \/ TakeNode \/ CollectHop \/ NextRound \/ AnswerNeighborhood
  \/ NextEntity \/ MergeNeighborhood \/ AnswerCaseGraph
  \/ Close

QueriesSpec == LinksInit /\ [][QueriesNext]_queryVars

-----------------------------------------------------------------------------
(* What to find, by definition: the nodes a walk of at most k edges leads   *)
(* to, in either direction of each edge.                                    *)
Adjacent(edges, a, b) == \E link \in edges : <<link.src, link.dst>> \in {<<a, b>>, <<b, a>>}
Walks(edges, a, b, k) ==
  {w \in [0..k -> Nodes] : w[0] = a /\ w[k] = b /\ \A i \in 1..k : Adjacent(edges, w[i - 1], w[i])}
Ball(edges, n, k) == {b \in Nodes : \E i \in 0..k : Walks(edges, n, b, i) # {}}

(* The length of the shortest walk to one of the targets, up to the depth.  *)
IsDistance(edges, d, n, targets, depth) ==
  IF d = NoPath THEN Ball(edges, n, depth) \cap targets = {}
  ELSE /\ d \in 0..depth /\ Ball(edges, n, d) \cap targets # {}
       /\ \A j \in 0..(d - 1) : Ball(edges, n, j) \cap targets = {}

Leads(edges, path, from, targets) ==
  /\ path[1].from = from /\ path[Len(path)].to \in targets
  /\ \A i \in 1..Len(path) : path[i] \in Adjacency(edges, path[i].from)
  /\ \A i \in 2..Len(path) : path[i].from = path[i - 1].to

(* The distance of a node from itself is 0 to the file and an error to the  *)
(* database, which answers every other question.                            *)
PathIsShortest ==
  IF asked.backend = "neo4j" /\ asked.from \in asked.targets
  THEN answer.length = Raised
  ELSE /\ IsDistance(links, answer.length, asked.from, asked.targets, asked.depth)
       /\ asked.backend = "memory" /\ asked.kind = "path" /\ answer.length > 0 =>
            Len(answer.path) = answer.length /\ Leads(links, answer.path, asked.from, asked.targets)

(* A neighbourhood that is not cut short by its limit is the ball of its    *)
(* depth with every edge that touches a node nearer than that: in Neo4j the *)
(* edge itself, in the file one copy for each direction in which an edge of *)
(* the type leads from such a node.  One that is cut short stays within     *)
(* both, and within its limit.  No edge is listed twice.                    *)
NeighborhoodIsBall ==
  LET inner == Ball(links, asked.from, asked.depth - 1)
      hops == UNION {Adjacency(links, n) : n \in inner}
  IN /\ answer.nodes \subseteq Ball(links, asked.from, asked.depth)
     /\ ~answer.cut => answer.nodes = Ball(links, asked.from, asked.depth)
     /\ answer.cut => Cardinality(answer.edges) = asked.limit
     /\ IF asked.backend = "memory"
        THEN /\ answer.edges \subseteq hops
             /\ \A g, h \in answer.edges : EdgeKey(g) = EdgeKey(h) => g = h
             /\ ~answer.cut => \A hop \in hops : \E g \in answer.edges : EdgeKey(g) = EdgeKey(hop)
        ELSE answer.edges = {link \in links : link.src \in inner \/ link.dst \in inner}

(* The graph of a case, from the file: each of its nodes is within the depth*)
(* asked for of an entity of the case, each of which it shows.  Its edges   *)
(* are edges of the graph, none of them twice, in one direction or the      *)
(* other, and none leads out of its nodes, although the graph may grow      *)
(* between two neighbourhoods and copies of an edge overwrite each other.   *)
CaseGraphIsClosed ==
  /\ asked.targets \subseteq answer.nodes
  /\ \A m \in answer.nodes : \E n \in asked.targets : m \in Ball(links, n, asked.depth)
  /\ \A hop \in answer.edges : hop \in Adjacency(links, hop.from)
  /\ \A g, h \in answer.edges : g.link = h.link => g = h
  /\ ~answer.cut => \A hop \in answer.edges : hop.from \in answer.nodes /\ hop.to \in answer.nodes

(* A path of the graph is found exactly when there is one of at most        *)
(* max_depth edges, and is a shortest one; a neighbourhood that its limit   *)
(* does not cut short is exact; the graph of a case has no edge that leads  *)
(* out of it and none twice.  So the order in which edges were stored       *)
(* changes no distance the risk score uses.  The direction of an arrow      *)
(* analysts see in the graph of a case does depend on that order, and which *)
(* of two opposite edges of a type the file shows.                          *)
SearchesAreExact ==
  stage = "answered" =>
    CASE asked.kind \in {"path", "bad"} -> PathIsShortest
      [] asked.kind = "around" -> NeighborhoodIsBall
      [] asked.kind = "case" -> CaseGraphIsClosed
=============================================================================
