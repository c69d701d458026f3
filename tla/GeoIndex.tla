------------------------------ MODULE GeoIndex ------------------------------
(***************************************************************************)
(* The geo subsystem (internal/geo): the "geo" bucket, the R-tree and the  *)
(* geohash slice, which every write of a document brings in step one after *)
(* the other and without a common lock, the rebuild of both indexes from   *)
(* the bucket at start and by geo-reindex, and the geometry of a search.   *)
(*                                                                         *)
(* A place is a point <<lng, lat>> of a grid of Side by Side cells.  The   *)
(* globe is the cylinder over that grid, so the effects of the poles are   *)
(* left out and those of the antimeridian are kept; a geohash character is *)
(* two bits, one for each axis, instead of five.                           *)
(***************************************************************************)
EXTENDS Integers, Sequences, FiniteSets, SequencesExt

CONSTANTS
  GDocs, GClients, \* documents of the collection, concurrent requests
  GLoader,         \* the goroutine that loads the indexes at start
  GPlaces,         \* places a document's metadata may give
  Postcode,        \* metadata with a postcode only, and where that is
  PostcodeAt,
  NoPlace, NoGDoc, \* a document without coordinates, no document
  Precision,       \* characters of a geohash
  GCorners,        \* corners of the polygons asked for
  MaxGRequests, MaxGRestarts

\* Powers of two; a cell is Doubled[Precision - n] wide after n halvings.
Doubled[n \in 0..Precision] == IF n = 0 THEN 1 ELSE 2 * Doubled[n - 1]
Side == Doubled[Precision]
Grid == (0..Side - 1) \X (0..Side - 1)
GProcs == GClients \cup {GLoader}

ASSUME GeoAssumption ==
  /\ Precision \in Nat \ {0} /\ GPlaces \cup GCorners \subseteq Grid /\ PostcodeAt \in Grid
  /\ {MaxGRequests, MaxGRestarts} \subseteq Nat
  /\ NoGDoc \notin GDocs /\ GLoader \notin GClients
  /\ {NoPlace, NoGDoc, Postcode} \cap Grid = {} /\ NoPlace # NoGDoc /\ Postcode \notin {NoPlace, NoGDoc}

VARIABLES
  gdocs,         \* what is stored of each document: its place, NoPlace, Postcode or NoGDoc
  bucket,        \* the "geo" bucket
  points, tree,  \* collectionGeoIndex: the map and the R-tree's entries <<place, document>>
  sorted, byDoc, \* collectionGeoHashIndex: the slice of [hash, doc, at] and the positions
  zips,          \* whether the postcode table was loaded
  gpc,           \* what every request and the loader are doing
  adrift,        \* documents whose last changes overlapped, or were not passed on
  budget,        \* requests and restarts so far
  look           \* a question asked of the geometry
geoVars == <<gdocs, bucket, points, tree, sorted, byDoc, zips, gpc, adrift, budget, look>>

-----------------------------------------------------------------------------
(* geo_hash.go: the bits of both axes in turn, longitude first.            *)

\* The cells <<from, to>> of one axis after each halving towards v.
Halved(v) ==
  LET cell[n \in 0..Precision] ==
        IF n = 0 THEN <<0, Side>>
        ELSE LET of == cell[n - 1]
                 mid == (of[1] + of[2]) \div 2
             IN IF v >= mid THEN <<mid, of[2]>> ELSE <<of[1], mid>>
  IN cell
BitAt(v, n) == LET cell == Halved(v)[n - 1] IN IF v >= (cell[1] + cell[2]) \div 2 THEN 1 ELSE 0
GeohashEncode(p, n) == [i \in 1..n |-> 2 * BitAt(p[1], i) + BitAt(p[2], i)]
\* The cell of a hash, <<lng from, lng to, lat from, lat to>>; GeohashDecode gives its centre.
GeohashBBox(h) ==
  LET box[n \in 0..Len(h)] ==
        IF n = 0 THEN <<0, Side, 0, Side>>
        ELSE LET b == box[n - 1]
                 x == (b[1] + b[2]) \div 2
                 y == (b[3] + b[4]) \div 2
                 east == h[n] \div 2 = 1
                 north == h[n] % 2 = 1
             IN <<IF east THEN x ELSE b[1], IF east THEN b[2] ELSE x,
                  IF north THEN y ELSE b[3], IF north THEN b[4] ELSE y>>
  IN box[Len(h)]
\* Strings compare by their first difference.
HashLess(g, h) ==
  \E i \in DOMAIN h : /\ \A j \in 1..i - 1 : j \in DOMAIN g /\ g[j] = h[j]
                      /\ i \notin DOMAIN g \/ g[i] < h[i]

-----------------------------------------------------------------------------
(* The two indexes.  Each call holds the index's own lock, so it is one    *)
(* step.                                                                   *)

TreeAdd(d, p) ==
  /\ tree' = (tree \ {<<points[d], d>>}) \cup {<<p, d>>}
  /\ points' = [points EXCEPT ![d] = p]
TreeRemove(d) ==
  /\ tree' = tree \ {<<points[d], d>>}
  /\ points' = [points EXCEPT ![d] = NoPlace]

\* Mutant: the positions behind the removed entry stay.
CutOnly(i) == [s |-> RemoveAt(sorted, i), at |-> [d \in DOMAIN byDoc \ {sorted[i].doc} |-> byDoc[d]]]
\* removeLocked: the entry is cut out and the positions behind it move down.
Cut(i) == [s |-> RemoveAt(sorted, i),
           at |-> [d \in DOMAIN byDoc \ {sorted[i].doc} |->
                     IF byDoc[d] > i THEN byDoc[d] - 1 ELSE byDoc[d]]]
removeLocked(d) ==
  IF d \in DOMAIN byDoc THEN Cut(byDoc[d]) ELSE [s |-> sorted, at |-> byDoc]
\* Nothing before it has the greater hash.
Ordered(s) == \A i, j \in DOMAIN s : i < j => ~HashLess(s[j].hash, s[i].hash)
\* The slice is sorted again, equal hashes in any order, and the positions are taken anew.
HashAdd(d, p) ==
  LET new == [hash |-> GeohashEncode(p, Precision), doc |-> d, at |-> p]
  IN /\ sorted' \in {s \in SetToSeqs(Range(removeLocked(d).s) \cup {new}) : Ordered(s)}
     /\ byDoc' = [e \in {x.doc : x \in Range(sorted')} |->
                    CHOOSE k \in DOMAIN sorted' : sorted'[k].doc = e]
HashRemove(d) == sorted' = removeLocked(d).s /\ byDoc' = removeLocked(d).at

HashedAt(d) == IF d \in DOMAIN byDoc THEN sorted[byDoc[d]].at ELSE NoPlace
Cleared == [d \in GDocs |-> NoPlace]

-----------------------------------------------------------------------------
(* The requests.                                                           *)

GIdle == [pc |-> "idle", doc |-> NoGDoc, meta |-> NoPlace, new |-> FALSE, at |-> NoPlace,
         left |-> {}, snap |-> Cleared, hash |-> FALSE, on |-> {}, alone |-> {}]

\* The coordinates AddFromMeta finds: given, of the geohash, or of the postcode.
Resolved(m) == IF m # Postcode THEN m ELSE IF zips THEN PostcodeAt ELSE NoPlace

TreeUnchanged == UNCHANGED <<points, tree>>
HashUnchanged == UNCHANGED <<sorted, byDoc>>

GeoInit ==
  /\ gdocs \in [GDocs -> GPlaces] /\ bucket = gdocs
  /\ points = Cleared /\ tree = {} /\ sorted = <<>> /\ byDoc = <<>>
  /\ zips = FALSE /\ adrift = {} /\ budget = [requests |-> 0, restarts |-> 0]
  /\ gpc = [p \in GProcs |-> IF p = GLoader THEN [GIdle EXCEPT !.pc = "viewtree", !.hash = TRUE, !.on = GDocs]
                             ELSE GIdle]
  /\ look = <<>>

\* A request that will touch docs begins; where it meets another one, the order of their
\* steps decides what is left, and neither can vouch for the document any more.
GBegin(c, docs, rec) ==
  /\ gpc[c].pc = "idle" /\ budget.requests < MaxGRequests
  /\ budget' = [budget EXCEPT !.requests = @ + 1]
  /\ LET shared == {d \in docs : \E p \in GProcs \ {c} : d \in gpc[p].on}
     IN /\ adrift' = adrift \cup shared
        /\ gpc' = [p \in GProcs |->
                     IF p = c THEN [rec EXCEPT !.on = docs, !.alone = docs \ shared]
                     ELSE [gpc[p] EXCEPT !.alone = @ \ docs]]
  /\ UNCHANGED look
At(c, pc) == gpc[c].pc = pc
GGoto(c, pc) == gpc' = [gpc EXCEPT ![c].pc = pc] /\ UNCHANGED <<adrift, budget, look>>
\* It ends; a document it changed alone and everywhere is in step again.
End(c, everywhere) ==
  /\ gpc' = [gpc EXCEPT ![c] = GIdle]
  /\ adrift' = adrift \ (IF everywhere THEN gpc[c].alone ELSE {})
  /\ UNCHANGED <<budget, look>>

\* addDocument, handleUpdate or a batch commits, and its hook follows.
GWrite(c, d, m) ==
  /\ GBegin(c, {d}, [GIdle EXCEPT !.pc = "meta", !.doc = d, !.meta = m, !.new = gdocs[d] = NoGDoc])
  /\ gdocs' = [gdocs EXCEPT ![d] = m]
  /\ TreeUnchanged /\ HashUnchanged /\ UNCHANGED <<bucket, zips>>
\* The paths without a geo hook: gRPC's and MCP's updates, batch deletions and deletions of
\* a collection.
GWriteUnhooked(c, d, m) ==
  /\ gpc[c].pc = "idle" /\ budget.requests < MaxGRequests
  /\ gdocs[d] # NoGDoc
  /\ gdocs' = [gdocs EXCEPT ![d] = m]
  /\ adrift' = adrift \cup {d}
  /\ budget' = [budget EXCEPT !.requests = @ + 1]
  /\ gpc' = [p \in GProcs |-> [gpc[p] EXCEPT !.alone = @ \ {d}]]
  /\ TreeUnchanged /\ HashUnchanged /\ UNCHANGED <<bucket, zips, look>>
GDelete(c, d) ==
  /\ gdocs[d] # NoGDoc
  /\ GBegin(c, {d}, [GIdle EXCEPT !.pc = "untree", !.doc = d])
  /\ gdocs' = [gdocs EXCEPT ![d] = NoGDoc]
  /\ TreeUnchanged /\ HashUnchanged /\ UNCHANGED <<bucket, zips>>
\* handleDeleteCollection
GDeleteCollection(c) ==
  /\ GBegin(c, GDocs, [GIdle EXCEPT !.pc = "droptree"])
  /\ gdocs' = [d \in GDocs |-> NoGDoc]
  /\ TreeUnchanged /\ HashUnchanged /\ UNCHANGED <<bucket, zips>>
\* handleGeoReindex of a collection, and GeoReindex, which leaves the geohash index alone.
GReindex(c, hash, load) ==
  /\ GBegin(c, GDocs, [GIdle EXCEPT !.pc = "cleartree", !.hash = hash])
  /\ zips' = (zips \/ load)
  /\ TreeUnchanged /\ HashUnchanged /\ UNCHANGED <<gdocs, bucket>>

-----------------------------------------------------------------------------
(* The hooks of a write: the tree, the bucket, the slice; of a deletion    *)
(* and of an update that lost its coordinates: the tree, the slice, the    *)
(* bucket.                                                                 *)

AddFromMeta(c) ==
  /\ At(c, "meta")
  /\ LET p == Resolved(gpc[c].meta)
     IN \/ /\ p # NoPlace /\ TreeAdd(gpc[c].doc, p)
           /\ gpc' = [gpc EXCEPT ![c].pc = "put", ![c].at = p] /\ UNCHANGED <<adrift, budget, look>>
        \/ p = NoPlace /\ ~gpc[c].new /\ GGoto(c, "untree") /\ TreeUnchanged
        \/ p = NoPlace /\ gpc[c].new /\ End(c, FALSE) /\ TreeUnchanged
  /\ HashUnchanged /\ UNCHANGED <<gdocs, bucket, zips>>
PutPoint(c) ==
  /\ At(c, "put") /\ GGoto(c, "hash")
  /\ bucket' = [bucket EXCEPT ![gpc[c].doc] = gpc[c].at]
  /\ TreeUnchanged /\ HashUnchanged /\ UNCHANGED <<gdocs, zips>>
AddHash(c) ==
  /\ At(c, "hash") /\ End(c, TRUE)
  /\ HashAdd(gpc[c].doc, gpc[c].at)
  /\ TreeUnchanged /\ UNCHANGED <<gdocs, bucket, zips>>
RemoveTree(c) ==
  /\ At(c, "untree") /\ GGoto(c, "unhash")
  /\ TreeRemove(gpc[c].doc)
  /\ HashUnchanged /\ UNCHANGED <<gdocs, bucket, zips>>
RemoveHash(c) ==
  /\ At(c, "unhash") /\ GGoto(c, "unput")
  /\ HashRemove(gpc[c].doc)
  /\ TreeUnchanged /\ UNCHANGED <<gdocs, bucket, zips>>
DeletePoint(c) ==
  /\ At(c, "unput") /\ End(c, TRUE)
  /\ bucket' = [bucket EXCEPT ![gpc[c].doc] = NoPlace]
  /\ TreeUnchanged /\ HashUnchanged /\ UNCHANGED <<gdocs, zips>>

\* Clear of both indexes, and DeleteCollection of the store.
ClearTree(c) ==
  /\ \/ At(c, "droptree") /\ GGoto(c, "drophash")
     \/ At(c, "cleartree") /\ GGoto(c, "viewtree")
  /\ points' = Cleared /\ tree' = {}
  /\ HashUnchanged /\ UNCHANGED <<gdocs, bucket, zips>>
ClearHash(c) ==
  /\ \/ At(c, "drophash") /\ GGoto(c, "dropput")
     \/ At(c, "clearhash") /\ GGoto(c, "viewhash")
  /\ sorted' = <<>> /\ byDoc' = <<>>
  /\ TreeUnchanged /\ UNCHANGED <<gdocs, bucket, zips>>
DeletePoints(c) ==
  /\ At(c, "dropput") /\ End(c, TRUE)
  /\ bucket' = Cleared
  /\ TreeUnchanged /\ HashUnchanged /\ UNCHANGED <<gdocs, zips>>

\* Rebuild and RebuildHash: one read transaction, whose view of the bucket is added point by
\* point while requests go on.
RebuildView(c) ==
  /\ At(c, "viewtree") \/ At(c, "viewhash")
  /\ gpc' = [gpc EXCEPT ![c].pc = IF @ = "viewtree" THEN "addtree" ELSE "addhash",
                        ![c].snap = bucket, ![c].left = {d \in GDocs : bucket[d] # NoPlace}]
  /\ TreeUnchanged /\ HashUnchanged /\ UNCHANGED <<gdocs, bucket, zips, adrift, budget, look>>
RebuildAdd(c) ==
  /\ At(c, "addtree") \/ At(c, "addhash")
  /\ gpc[c].left # {}
  /\ LET d == CHOOSE x \in gpc[c].left : TRUE
     IN /\ gpc' = [gpc EXCEPT ![c].left = @ \ {d}]
        /\ IF At(c, "addtree") THEN TreeAdd(d, gpc[c].snap[d]) /\ HashUnchanged
           ELSE HashAdd(d, gpc[c].snap[d]) /\ TreeUnchanged
  /\ UNCHANGED <<gdocs, bucket, zips, adrift, budget, look>>
RebuildDone(c) ==
  /\ gpc[c].left = {}
  /\ \/ /\ At(c, "addtree") /\ gpc[c].hash
        /\ GGoto(c, IF c = GLoader THEN "viewhash" ELSE "clearhash")
     \/ At(c, "addtree") /\ ~gpc[c].hash /\ End(c, FALSE)
     \/ At(c, "addhash") /\ End(c, FALSE)
  /\ TreeUnchanged /\ HashUnchanged /\ UNCHANGED <<gdocs, bucket, zips>>

Rebuilding(p) == gpc[p].pc \in {"cleartree", "viewtree", "addtree", "clearhash", "viewhash", "addhash"}
\* The process ends: the indexes, the postcodes and the requests are gone, and the loader
\* starts again.  A write that did not come to its end is not made good.
GRestart ==
  /\ budget.restarts < MaxGRestarts
  /\ budget' = [budget EXCEPT !.restarts = @ + 1]
  /\ points' = Cleared /\ tree' = {} /\ sorted' = <<>> /\ byDoc' = <<>> /\ zips' = FALSE
  /\ adrift' = adrift \cup UNION {gpc[c].on : c \in {p \in GClients : ~Rebuilding(p)}}
  /\ gpc' = [p \in GProcs |-> IF p = GLoader THEN [GIdle EXCEPT !.pc = "viewtree", !.hash = TRUE, !.on = GDocs]
                              ELSE GIdle]
  /\ UNCHANGED <<gdocs, bucket, look>>

-----------------------------------------------------------------------------
(* The geometry, asked of a collection that holds every point of the grid. *)

Abs(n) == IF n < 0 THEN -n ELSE n
\* The squared distance, the short way round the globe.
Distance(p, q) ==
  LET x == Abs(p[1] - q[1])
      across == IF 2 * x > Side THEN Side - x ELSE x
  IN across * across + (p[2] - q[2]) * (p[2] - q[2])
InBox(p, box) == p[1] >= box[1] /\ p[1] <= box[2] /\ p[2] >= box[3] /\ p[2] <= box[4]
\* GeoIndex.Search: the box around the circle, which does not go round the antimeridian.
TreeSearch(P, q, r) ==
  {p \in P : InBox(p, <<q[1] - r, q[1] + r, q[2] - r, q[2] + r>>) /\ Distance(p, q) <= r * r}
Within(P, box) == {p \in P : InBox(p, box)}
\* GeoHashIndex.Search: the cell is widened until half of it is more than twice the radius.
CoarseLen(r) ==
  CHOOSE n \in 1..Precision : /\ n = 1 \/ Doubled[Precision - n] > 4 * r
                              /\ \A m \in n + 1..Precision : Doubled[Precision - m] <= 4 * r
\* searchPrefixLocked: a binary search for the prefix and one for the string after it.
SearchPrefix(P, prefix, q, r) ==
  LET after == [prefix EXCEPT ![Len(prefix)] = @ + 1]
      h(p) == GeohashEncode(p, Precision)
  IN {p \in P : ~HashLess(h(p), prefix) /\ HashLess(h(p), after) /\ Distance(p, q) <= r * r}
HashSearch(P, q, r) == SearchPrefix(P, GeohashEncode(q, CoarseLen(r)), q, r)

\* The ray from p to the east crosses the edge from a to b; the division is multiplied out.
Crosses(p, a, b) ==
  /\ (a[2] > p[2]) # (b[2] > p[2])
  /\ LET lhs == (p[1] - a[1]) * (b[2] - a[2])
         rhs == (b[1] - a[1]) * (p[2] - a[2])
     IN IF b[2] > a[2] THEN lhs < rhs ELSE lhs > rhs
PointInRing(p, ring) ==
  LET n == Len(ring)
      edges == {i \in 1..n : Crosses(p, ring[i], ring[IF i = 1 THEN n ELSE i - 1])}
  IN n >= 3 /\ Cardinality(edges) % 2 = 1
PointInPolygon(p, rings) ==
  /\ rings # <<>> /\ PointInRing(p, rings[1])
  /\ \A i \in 2..Len(rings) : ~PointInRing(p, rings[i])
PolygonBounds(rings) ==
  LET corners == UNION {Range(rings[i]) : i \in DOMAIN rings}
      lng == {v[1] : v \in corners}
      lat == {v[2] : v \in corners}
      least(S) == CHOOSE x \in S : \A y \in S : x <= y
      most(S) == CHOOSE x \in S : \A y \in S : x >= y
  IN <<least(lng), most(lng), least(lat), most(lat)>>
SearchPolygon(P, rings) == {p \in Within(P, PolygonBounds(rings)) : PointInPolygon(p, rings)}
SearchMultiPolygon(P, polys) ==
  LET boxes == {PolygonBounds(polys[i]) : i \in DOMAIN polys}
      least(k) == CHOOSE x \in {b[k] : b \in boxes} : \A b \in boxes : x <= b[k]
      most(k) == CHOOSE x \in {b[k] : b \in boxes} : \A b \in boxes : x >= b[k]
  IN {p \in Within(P, <<least(1), most(2), least(3), most(4)>>) :
        \E i \in DOMAIN polys : PointInPolygon(p, polys[i])}

\* The questions: a circle, or a ring of four corners.
GAsk ==
  /\ look = <<>> /\ budget.requests = 0 /\ gpc[GLoader].pc = "viewtree"
  /\ \/ \E q \in Grid, r \in 1..Side : look' = <<"circle", q, r>>
     \/ \E ring \in [1..4 -> GCorners] : look' = <<"ring", ring>>
  /\ UNCHANGED <<gdocs, bucket, points, tree, sorted, byDoc, zips, gpc, adrift, budget>>

-----------------------------------------------------------------------------
Hook(c) ==
  \/ AddFromMeta(c) \/ PutPoint(c) \/ AddHash(c) \/ RemoveTree(c) \/ RemoveHash(c) \/ DeletePoint(c)
  \/ ClearTree(c) \/ ClearHash(c) \/ DeletePoints(c)
Rebuild(c) == RebuildView(c) \/ RebuildAdd(c) \/ RebuildDone(c)

GeoNext ==
  \/ GAsk
  \/ /\ look = <<>>
     /\ \/ GRestart
        \/ \E c \in GProcs : Rebuild(c)
        \/ \E c \in GClients :
             \/ Hook(c)
             \/ \E d \in GDocs, m \in GPlaces \cup {Postcode, NoPlace} : GWrite(c, d, m)
             \/ \E d \in GDocs, m \in {NoPlace, NoGDoc} : GWriteUnhooked(c, d, m)
             \/ \E d \in GDocs : GDelete(c, d)
             \/ GDeleteCollection(c)
             \/ \E hash, load \in BOOLEAN : GReindex(c, hash, load)

GeoSpec == GeoInit /\ [][GeoNext]_geoVars

-----------------------------------------------------------------------------
\* The R-tree deletes by coordinates, so a point whose old coordinates were forgotten could
\* never be removed again (GeoIndex.Add, Remove): the tree holds each document once, where the
\* map says.
TreeExact == tree = {<<points[d], d>> : d \in {e \in GDocs : points[e] # NoPlace}}

\* The slice is sorted and the positions are those of its entries, whatever was cut out of it
\* (GeoHashIndex.Add, removeLocked).
SliceExact ==
  /\ Ordered(sorted)
  /\ DOMAIN byDoc = {sorted[i].doc : i \in DOMAIN sorted}
  /\ \A i \in DOMAIN sorted : byDoc[sorted[i].doc] = i
  /\ \A i \in DOMAIN sorted : sorted[i].hash = GeohashEncode(sorted[i].at, Precision)

\* A document that nothing is working on, and whose last change ran alone and to its end, is at
\* its place in the bucket and in both indexes, through deletions, reindexing and restarts.
PlacesSettled ==
  \A d \in GDocs \ adrift :
    (\A p \in GProcs : d \notin gpc[p].on) =>
      /\ points[d] = bucket[d] /\ HashedAt(d) = bucket[d]
      /\ bucket[d] \in CASE gdocs[d] = NoGDoc -> {NoPlace}
                         [] gdocs[d] = Postcode -> {PostcodeAt, NoPlace}
                         [] OTHER -> {gdocs[d]}

\* A circle is answered by all points in it that the antimeridian does not separate from its
\* centre; the geohash index gives no others, and all of them when the circle lies in one cell
\* of the width it looks at.
CircleAnswered ==
  look # <<>> /\ look[1] = "circle" =>
    LET q == look[2]
        r == look[3]
        inside == {p \in Grid : Distance(p, q) <= r * r}
        cell == GeohashBBox(GeohashEncode(q, CoarseLen(r)))
    IN /\ TreeSearch(Grid, q, r) = {p \in inside : Abs(p[1] - q[1]) <= r}
       /\ HashSearch(Grid, q, r) \subseteq inside
       /\ \A p \in inside : InBox(p, <<cell[1], cell[2] - 1, cell[3], cell[4] - 1>>) =>
            p \in HashSearch(Grid, q, r)
       /\ \A n \in 1..Precision :
            LET b == GeohashBBox(GeohashEncode(q, n))
            IN InBox(q, <<b[1], b[2] - 1, b[3], b[4] - 1>>) /\ b[2] - b[1] = Doubled[Precision - n]

\* A ring of four corners holds a point exactly when one of the two triangles it is cut into
\* does, so the points on the cut belong to one of them; a triangle holds what is inside and
\* nothing that is outside, and the box in front of the test loses nothing.
RingAnswered ==
  look # <<>> /\ look[1] = "ring" =>
    LET v == look[2]
        one == <<v[1], v[2], v[3]>>
        two == <<v[1], v[3], v[4]>>
        side(p, a, b) == (b[1] - a[1]) * (p[2] - a[2]) - (b[2] - a[2]) * (p[1] - a[1])
        sides(p) == {side(p, v[1], v[2]), side(p, v[2], v[3]), side(p, v[3], v[1])}
    IN /\ \A p \in Grid :
            /\ PointInRing(p, v) = (PointInRing(p, one) # PointInRing(p, two))
            /\ ((\A s \in sides(p) : s > 0) \/ (\A s \in sides(p) : s < 0)) => PointInRing(p, one)
            /\ ((\E s \in sides(p) : s > 0) /\ (\E s \in sides(p) : s < 0)) => ~PointInRing(p, one)
       /\ SearchPolygon(Grid, <<v, two>>) = {p \in Grid : PointInPolygon(p, <<v, two>>)}
       /\ SearchMultiPolygon(Grid, << <<one>>, <<two>> >>)
            = SearchPolygon(Grid, <<one>>) \cup SearchPolygon(Grid, <<two>>)

\* The geo indexes are sound, agree with what is stored, and answer the searches.
GeoSound == TreeExact /\ SliceExact /\ PlacesSettled /\ CircleAnswered /\ RingAnswered
=============================================================================
