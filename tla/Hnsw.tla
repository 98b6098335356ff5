---------------------------------- MODULE Hnsw ----------------------------------
(***************************************************************************)
(* The index of VectorStore: class HNSWIndex (src/daemon/vector_store.cpp).*)
(* A graph with layers: every point is on layer 0 and on those up to its   *)
(* random level, where it links to near points. Points are never taken     *)
(* out: a deleted one is a tombstone that traversals still pass.           *)
(*                                                                         *)
(* A graph is a record: the vector and the level of point i, links[i][lc]  *)
(* the points it links to on layer lc, the tombstones, the entry point and *)
(* the top layer. Points are numbered from 1. A candidate is <<d, i>>, d   *)
(* the distance of point i from the query.                                 *)
(***************************************************************************)
EXTENDS Integers, Sequences, FiniteSets, Functions

CONSTANTS
  Embedding,      \* vectors
  Dist,           \* Dist[v][w]: distance of v and w
  M,              \* links of a new point per layer
  EfConstruction, \* candidates considered when a point is added
  EfSearch,       \* candidates considered by a search, at least
  MaxLevel,       \* bound: level of a point
  MaxPoints,      \* bound: points
  MaxDeleted      \* bound: tombstones

ASSUME HnswAssumption ==
  /\ Dist \in [Embedding -> [Embedding -> Nat]]
  /\ M \in Nat \ {0, 1} /\ EfConstruction \in Nat /\ EfConstruction >= M
  /\ {EfSearch, MaxLevel, MaxPoints, MaxDeleted} \subseteq Nat

VARIABLE graph

EmptyGraph ==
  [vec |-> <<>>, level |-> <<>>, links |-> <<>>, deleted |-> {}, entry |-> 0, top |-> 0]

Point(g) == 1 .. Len(g.vec)
LivePoint(g) == Point(g) \ g.deleted

--------------------------------------------------------------------------------
\* The loop over seq: s is what its turns carry along.
Each(Turn(_, _), s, seq) ==
  LET after[n \in 0 .. Len(seq)] == IF n = 0 THEN s ELSE Turn(after[n - 1], seq[n])
  IN  after[Len(seq)]

\* From top downto bottom, both included.
Down(top, bottom) ==
  IF top < bottom THEN <<>> ELSE [n \in 1 .. top - bottom + 1 |-> top - n + 1]

Repeat(Turn(_), s, n) == Each(LAMBDA r, m : Turn(r), s, Down(n, 1))

--------------------------------------------------------------------------------
(* Candidates, as in the priority queues: by distance, then by number.     *)

Nearer(c, d) == c[1] < d[1] \/ (c[1] = d[1] /\ c[2] < d[2])

Closest(cands)  == CHOOSE c \in cands : \A d \in cands \ {c} : Nearer(c, d)
Farthest(cands) == CHOOSE c \in cands : \A d \in cands \ {c} : Nearer(d, c)

Ranked(cands) ==
  [n \in 1 .. Cardinality(cands) |->
     CHOOSE c \in cands : Cardinality({d \in cands : Nearer(d, c)}) = n - 1]

\* take_nearest: the numbers of the m nearest candidates, nearest first.
TakeNearest(cands, m) ==
  LET ranked == Ranked(cands)
  IN  [n \in 1 .. (IF Len(ranked) < m THEN Len(ranked) ELSE m) |-> ranked[n][2]]

Cand(g, q, i) == <<Dist[q][g.vec[i]], i>>

\* The links of point i on layer lc.
Linked(g, i, lc) == g.links[i][lc]

--------------------------------------------------------------------------------
\* One pass of greedy_descend over the links of e: the nearest of them and e.
NearestLinked(g, q, e, lc) ==
  Each(LAMBDA best, i : IF Dist[q][g.vec[i]] < Dist[q][g.vec[best]] THEN i ELSE best,
       e, Linked(g, e, lc))

\* greedy_descend: passes until one stays where it is. The others get nearer, so there
\* are fewer of them than points.
GreedyDescend(g, q, start, lc) ==
  Repeat(LAMBDA e : NearestLinked(g, q, e, lc), start, Len(g.vec))

\* Down the layers from the entry, to the one above layer lc.
DescendTo(g, q, lc) ==
  Each(LAMBDA e, l : GreedyDescend(g, q, e, l), g.entry, Down(g.top, lc + 1))

\* Fault: a candidate is looked at only if it is nearer than all found so far.
Greedily(found, c, ef) == \A d \in found : c[1] < d[1]

\* A candidate is kept if there is room, or if it is nearer than the farthest.
Admits(found, c, ef) == Cardinality(found) < ef \/ c[1] < Farthest(found)[1]

\* search_layer looks at point i, with room for ef in what it has found.
Visit(g, q, ef, skip, s, i) ==
  LET c     == Cand(g, q, i)
      found == s.found \cup {c}
  IN  IF i = skip \/ i \in s.visited THEN s
      ELSE IF ~ Admits(s.found, c, ef) THEN [s EXCEPT !.visited = @ \cup {i}]
      ELSE [visited  |-> s.visited \cup {i},
            to_visit |-> s.to_visit \cup {c},
            found    |-> IF Cardinality(found) > ef THEN found \ {Farthest(found)} ELSE found]

\* The search is over when nothing is left to visit, or only what is farther than all found.
Over(s) == s.to_visit = {} \/ Closest(s.to_visit)[1] > Farthest(s.found)[1]

\* One turn of search_layer: the links of the nearest point left to visit.
SearchOn(g, q, ef, lc, skip, s) ==
  LET cur == Closest(s.to_visit)
  IN  IF Over(s) THEN s
      ELSE Each(LAMBDA r, i : Visit(g, q, ef, skip, r, i),
                [s EXCEPT !.to_visit = @ \ {cur}], Linked(g, cur[2], lc))

\* search_layer: the ef nearest points that can be reached from start. A turn takes a point
\* that none has taken before, so there are no more turns than points.
SearchLayer(g, q, start, ef, lc, skip) ==
  LET c0 == Cand(g, q, start)
  IN  Repeat(LAMBDA s : SearchOn(g, q, ef, lc, skip, s),
             [visited |-> {start}, to_visit |-> {c0}, found |-> {c0}], Len(g.vec)).found

--------------------------------------------------------------------------------
Cap(lc) == IF lc = 0 THEN 2 * M ELSE M

\* Fault: links are never cut.
KeepAllLinks(g, owner, links, lc) == links

\* shrink_links: of too many links the nearest remain.
ShrinkLinks(g, owner, links, lc) ==
  IF Len(links) <= Cap(lc) THEN links
  ELSE TakeNearest({Cand(g, g.vec[owner], i) : i \in Range(links)}, Cap(lc))

LinkBack(g, i, nb, lc) ==
  [g EXCEPT !.links[nb][lc] = ShrinkLinks(g, nb, Append(@, i), lc)]

\* One layer of add_point: s holds the graph and the point the search starts at.
LinkOnLayer(s, i, lc) ==
  LET found      == SearchLayer(s.graph, s.graph.vec[i], s.start, EfConstruction, lc, i)
      neighbours == TakeNearest(found, M)
      linked     == [s.graph EXCEPT !.links[i][lc] = neighbours]
  IN  [graph |-> Each(LAMBDA g, nb : LinkBack(g, i, nb, lc), linked, neighbours),
       start |-> Closest(found)[2]]

RaiseEntry(g, i, level) ==
  IF level > g.top THEN [g EXCEPT !.top = level, !.entry = i] ELSE g

\* add_point
AddPoint(g, v, level) ==
  LET i     == Len(g.vec) + 1
      new   == [g EXCEPT !.vec   = Append(@, v),
                         !.level = Append(@, level),
                         !.links = Append(@, [lc \in 0 .. level |-> <<>>])]
      first == IF level < g.top THEN level ELSE g.top
      done  == Each(LAMBDA s, lc : LinkOnLayer(s, i, lc),
                    [graph |-> new, start |-> DescendTo(new, v, level)], Down(first, 0))
  IN  IF i = 1 THEN [new EXCEPT !.entry = i, !.top = level]
      ELSE RaiseEntry(done.graph, i, level)

MarkDeleted(g, i) == [g EXCEPT !.deleted = @ \cup {i}]

\* Tombstones are passed but not answered.
WithoutTombstones(g, cands) == {c \in cands : c[2] \notin g.deleted}

\* search_knn: the points that are answered, nearest first.
SearchKnn(g, q, k) ==
  LET pool == IF EfSearch < k THEN k ELSE EfSearch
  IN  IF Len(g.vec) = 0 \/ k = 0 THEN <<>>
      ELSE TakeNearest(WithoutTombstones(g, SearchLayer(g, q, DescendTo(g, q, 0), pool, 0, 0)), k)

--------------------------------------------------------------------------------
IndexInit == graph = EmptyGraph

InsertPoint(v, level) ==
  /\ Len(graph.vec) < MaxPoints
  /\ graph' = AddPoint(graph, v, level)

DeletePoint(i) ==
  /\ i \in LivePoint(graph)
  /\ Cardinality(graph.deleted) < MaxDeleted
  /\ graph' = MarkDeleted(graph, i)

IndexNext ==
  \/ \E v \in Embedding, level \in 0 .. MaxLevel : InsertPoint(v, level)
  \/ \E i \in Point(graph) : DeletePoint(i)

IndexSpec == IndexInit /\ [][IndexNext]_graph

--------------------------------------------------------------------------------
IndexTypeOK ==
  /\ graph.vec \in Seq(Embedding) /\ graph.level \in Seq(0 .. MaxLevel)
  /\ graph.deleted \subseteq Point(graph)
  /\ graph.entry \in Point(graph) \cup {0} /\ graph.top \in 0 .. MaxLevel

\* A link on a layer leads to another point of that layer, and no two lead to
\* the same one: traversals index links by layer without a check.
LinksInRange ==
  \A i \in Point(graph) :
    /\ DOMAIN graph.links[i] = 0 .. graph.level[i]
    /\ \A lc \in 0 .. graph.level[i] :
         /\ IsInjective(Linked(graph, i, lc))
         /\ \A nb \in Range(Linked(graph, i, lc)) :
              nb \in Point(graph) \ {i} /\ graph.level[nb] >= lc

\* Memory per point is bounded: no layer has more links than its cap, although
\* links are added to a point whenever another one picks it.
DegreeIsBounded ==
  \A i \in Point(graph) :
    \A lc \in 0 .. graph.level[i] : Len(Linked(graph, i, lc)) <= Cap(lc)

\* Searches start at a point of the top layer.
EntryIsTop ==
  Point(graph) # {} =>
    /\ graph.entry \in Point(graph) /\ graph.level[graph.entry] = graph.top
    /\ \A i \in Point(graph) : graph.level[i] <= graph.top

\* The graph can be traversed from its entry without a check of layers, and stays
\* within its bounds, whatever lists were cut.
GraphIsSound == IndexTypeOK /\ LinksInRange /\ DegreeIsBounded /\ EntryIsTop

\* All lists on layer 0 are still complete.
NothingCut == Len(graph.vec) <= Cap(0) + 1

\* The k nearest live points, by definition.
Nearest(q, k) == TakeNearest({Cand(graph, q, i) : i \in LivePoint(graph)}, k)

\* Live points, nearest first, without repetition, no more than asked for.
IsSound(ans, q, k) ==
  /\ Len(ans) <= k /\ Range(ans) \subseteq LivePoint(graph)
  /\ \A m, n \in DOMAIN ans :
       m < n => Nearer(Cand(graph, q, ans[m]), Cand(graph, q, ans[n]))

\* Every search is answered soundly. Until lists of layer 0 are cut, and with a pool
\* as large as the index, it is answered exactly as a scan of the live points would
\* answer it: no point is lost, tombstones and layers notwithstanding.
SearchIsRight ==
  \A q \in Embedding, k \in 1 .. 3 :
    LET ans == SearchKnn(graph, q, k)
    IN  /\ IsSound(ans, q, k)
        /\ NothingCut /\ EfSearch >= Len(graph.vec) => ans = Nearest(q, k)
================================================================================
