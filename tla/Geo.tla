--------------------------------- MODULE Geo ---------------------------------
(* The geometry the server judges places by: zones, encoded routes, and what  *)
(* is left of a route, each against what it is by definition.                 *)
(* Sources: src/server/src/domain/geo.ts (decodePolyline6 also in             *)
(* src/web/src/shared/format.ts) and, for viewers' routes, domain/privacy.ts. *)
(*                                                                            *)
(* There is no state in this code: path, which grows point by point, is its   *)
(* input, taken as the ring of a zone, as a route to be sent, and as a route  *)
(* to be walked when its pieces run along the axes.  A position is between    *)
(* the points too.  Plane and integers stand for degrees: rounding, and the   *)
(* compression of longitudes, are left out; a delta in millionths of a degree *)
(* doubled is below 2^31, where the shifts of the code would overflow.        *)
EXTENDS Integers, Sequences, SequencesExt

CONSTANTS
  Side,       \* points have even coordinates up to it, positions all
  Micros,     \* the longitude and latitude in millionths that a coordinate stands for
  MaxPoints

VARIABLE path

Coordinates == {2 * n : n \in 0..(Side \div 2)}
Positions == (0..Side) \X (0..Side)

Init == path = <<>>
Extend(point) == Len(path) < MaxPoints /\ path' = Append(path, point)
Next == \E x, y \in Coordinates : Extend(<<x, y>>)
Spec == Init /\ [][Next]_path

-----------------------------------------------------------------------------
(* pointInPolygon: whether a ray to the right of p crosses the edge a-b.    *)
(* An end of the edge on the ray counts as below it.                        *)
Above(point, p) == point[2] > p[2]
Crosses(p, a, b) ==
  /\ Above(a, p) # Above(b, p)
  /\ LET up == b[2] - a[2]
         left == (p[1] - a[1]) * up
         right == (b[1] - a[1]) * (p[2] - a[2])
     IN IF up > 0 THEN left < right ELSE left > right

Before(ring, k) == ring[IF k = 1 THEN Len(ring) ELSE k - 1]
PointInPolygon(p, ring) ==
  /\ Len(ring) >= 3
  /\ LET Toggle(inside, k) == IF Crosses(p, ring[k], Before(ring, k)) THEN ~inside ELSE inside
     IN FoldLeft(Toggle, FALSE, [k \in DOMAIN ring |-> k])

(* The first of the zones, which the refusal names; 0 for none.             *)
FindRestrictedZone(p, zones) ==
  SelectInSeq(zones, LAMBDA zone : PointInPolygon(p, zone))

-----------------------------------------------------------------------------
(* encodePolyline6: the differences, doubled, those below zero made odd, in *)
(* chunks of five bits, all but the last with a sixth bit.                  *)
Zigzag(n) == IF n < 0 THEN -2 * n - 1 ELSE 2 * n
Chunks[v \in Nat] == IF v < 32 THEN <<v>> ELSE <<32 + (v % 32)>> \o Chunks[v \div 32]

Encode(coords) ==
  LET Write(done, c) == [out |-> done.out \o Chunks[Zigzag(c[2] - done.at[2])]
                                          \o Chunks[Zigzag(c[1] - done.at[1])],
                         at |-> c]
  IN FoldLeft(Write, [out |-> <<>>, at |-> <<0, 0>>], coords).out

(* decodePolyline6: latitude and longitude take turns.                      *)
Unzigzag(v) == IF v % 2 = 1 THEN -(v \div 2) - 1 ELSE v \div 2
Started == [value |-> 0, weight |-> 1]

ReadByte(read, byte) ==
  LET value == read.value + (byte % 32) * read.weight
      lng == read.at[1] + Unzigzag(value)
  IN IF byte >= 32 THEN [read EXCEPT !.value = value, !.weight = 32 * @]
     ELSE IF ~read.lngIsNext
     THEN Started @@ [read EXCEPT !.at[2] = @ + Unzigzag(value), !.lngIsNext = TRUE]
     ELSE Started @@ [read EXCEPT !.at[1] = lng, !.lngIsNext = FALSE,
                                  !.coords = Append(@, <<lng, read.at[2]>>)]
Decode(bytes) ==
  FoldLeft(ReadByte, Started @@ [at |-> <<0, 0>>, lngIsNext |-> FALSE, coords |-> <<>>], bytes).coords

-----------------------------------------------------------------------------
(* Routes along the axes.                                                   *)
Abs(n) == IF n < 0 THEN -n ELSE n
Distance(a, b) == Abs(a[1] - b[1]) + Abs(a[2] - b[2])
Apart(a, b) == (a[1] - b[1]) * (a[1] - b[1]) + (a[2] - b[2]) * (a[2] - b[2])
PathLength(route) ==
  FoldLeft(LAMBDA total, k : total + Distance(route[k], route[k + 1]), 0,
           [k \in 1..Len(route) - 1 |-> k])

(* advanceAlongPath: where a walk of so many meters comes to, and the rest. *)
Clamp(n, a, b) == IF a <= b THEN (IF n < a THEN a ELSE IF n > b THEN b ELSE n)
                  ELSE (IF n < b THEN b ELSE IF n > a THEN a ELSE n)
Walked(a, b, m) ==
  LET Toward(s, t) == IF t > s THEN s + m ELSE IF t < s THEN s - m ELSE s
  IN <<Toward(a[1], b[1]), Toward(a[2], b[2])>>

AdvanceAlongPath(route, meters) ==
  LET before(k) == PathLength(SubSeq(route, 1, k))
      ends == {k \in 1..Len(route) - 1 : before(k + 1) >= meters}
      last == route[Len(route)]
  IN IF meters <= 0 THEN [position |-> route[1], remaining |-> route]
     ELSE IF ends = {} THEN [position |-> last, remaining |-> <<last>>]
     ELSE LET k == CHOOSE k \in ends : \A l \in ends : k <= l
              position == Walked(route[k], route[k + 1], meters - before(k))
          IN [position |-> position, remaining |-> <<position>> \o SubSeq(route, k + 1, Len(route))]

(* remainingDistanceAlongPath: from the closest point of the first segment  *)
(* that comes closest.                                                      *)
Projected(p, a, b) == <<Clamp(p[1], a[1], b[1]), Clamp(p[2], a[2], b[2])>>
AsClose(off, best) == off <= best
Closer(off, best) == off < best
BestSegment(route, p) ==
  LET Off(k) == Apart(p, Projected(p, route[k], route[k + 1]))
      Take(best, k) == IF Closer(Off(k), Off(best)) THEN k ELSE best
  IN FoldLeft(Take, 1, [k \in 1..Len(route) - 1 |-> k])
RemainingDistanceAlongPath(route, p) ==
  IF Len(route) < 2 THEN 0
  ELSE LET k == BestSegment(route, p)
       IN Distance(Projected(p, route[k], route[k + 1]), route[k + 1])
            + PathLength(SubSeq(route, k + 1, Len(route)))

(* sanitizeRouteGeometry: the head of a viewer's route is cut off, up to the*)
(* first point that is so far along it, unless that is the last point or    *)
(* there is none.                                                           *)
PublicRoute(route, trim) ==
  LET along(k) == PathLength(SubSeq(route, 1, k))
      cuts == {k \in DOMAIN route : along(k) >= trim}
  IN IF trim <= 0 \/ cuts = {} THEN route
     ELSE LET cut == CHOOSE k \in cuts : \A l \in cuts : k <= l
          IN IF cut < Len(route) THEN SubSeq(route, cut, Len(route)) ELSE route

-----------------------------------------------------------------------------
TypeOK == \A k \in DOMAIN path : path[k] \in Coordinates \X Coordinates

(* What is inside is inside by definition, for a triangle; it is the same   *)
(* whichever way a ring is drawn and whether or not its first point is      *)
(* repeated; and two zones that share an edge leave no gap between them.    *)
Turn(a, b, p) == (b[1] - a[1]) * (p[2] - a[2]) - (b[2] - a[2]) * (p[1] - a[1])
Sides(ring, p) == {Turn(Before(ring, k), ring[k], p) : k \in DOMAIN ring}
IsConvex(ring) ==
  LET turns == {Turn(Before(ring, k), ring[k], ring[IF k = Len(ring) THEN 1 ELSE k + 1])
                : k \in DOMAIN ring}
  IN (\A t \in turns : t > 0) \/ (\A t \in turns : t < 0)
Within(ring, p) == (\A s \in Sides(ring, p) : s > 0) \/ (\A s \in Sides(ring, p) : s < 0)
Touches(ring, p) == (\A s \in Sides(ring, p) : s >= 0) \/ (\A s \in Sides(ring, p) : s <= 0)

ZonesAreRight ==
  Len(path) >= 3 => \A p \in Positions :
    LET inside == PointInPolygon(p, path) IN
    /\ IsConvex(path) => (Within(path, p) => inside) /\ (inside => Touches(path, p))
    /\ inside = PointInPolygon(p, Reverse(path))
    /\ inside = PointInPolygon(p, Append(path, path[1]))
    /\ Len(path) = 4 /\ IsConvex(path) =>
         (FindRestrictedZone(p, <<SubSeq(path, 1, 3), <<path[1], path[3], path[4]>>>>) # 0) = inside

(* A route that is sent is the route that is read.                          *)
RouteIsRead ==
  LET coords == [k \in DOMAIN path |-> <<Micros[path[k][1]], Micros[path[k][2]]>>]
  IN Decode(Encode(coords)) = coords

(* What is left is counted from the first place of the route that is        *)
(* nearest, also where the route comes by again, so that it is never too    *)
(* short; and after a walk what is left is the rest.                        *)
AlongAxes == \A k \in 1..Len(path) - 1 : path[k][1] = path[k + 1][1] \/ path[k][2] = path[k + 1][2]
RoutesAreRight ==
  Len(path) >= 2 /\ AlongAxes =>
    LET place == [s \in 0..PathLength(path) |-> AdvanceAlongPath(path, s).position] IN
    /\ \A s \in 0..PathLength(path) + 1 :
         PathLength(AdvanceAlongPath(path, s).remaining) =
           (IF s > PathLength(path) THEN 0 ELSE PathLength(path) - s)
    /\ \A p \in Positions : \E s \in 0..PathLength(path) :
         /\ RemainingDistanceAlongPath(path, p) = PathLength(path) - s
         /\ \A t \in DOMAIN place :
              Apart(p, place[t]) >= Apart(p, place[s]) + (IF t < s THEN 1 ELSE 0)

(* A viewer's copy of a route that is to be cut begins no nearer to the     *)
(* streamer than the trim, and still leads to the destination; it is whole  *)
(* only when the destination alone is that far along it.                    *)
PublicRouteIsCut ==
  Len(path) >= 2 /\ AlongAxes =>
    \A trim \in 1..PathLength(path) + 1 :
      LET seen == PublicRoute(path, trim)
          cut  == Len(path) - Len(seen) IN
      /\ Len(seen) >= 2 /\ seen = SubSeq(path, cut + 1, Len(path))
      /\ IF cut = 0 THEN \A k \in 1..Len(path) - 1 : PathLength(SubSeq(path, 1, k)) < trim
         ELSE PathLength(path) - PathLength(seen) >= trim

GeometryIsRight == ZonesAreRight /\ RouteIsRead /\ RoutesAreRight /\ PublicRouteIsCut
=============================================================================
