-------------------------------- MODULE Maps --------------------------------
(***************************************************************************)
(* The three maps of the Lab3 battlefield (world/world.go) and where a new *)
(* unit or chest may stand on them.                                        *)
(*                                                                         *)
(* A grid of runes is the set of its wall cells here.  A builder draws all *)
(* its walls before it carves, so that a map is what is left of its walls. *)
(***************************************************************************)
EXTENDS Integers, FiniteSets, FiniteSetsExt

\* protocol/message.go
MapWidth  == 56
MapHeight == 24

Grid == (0 .. MapWidth - 1) \X (0 .. MapHeight - 1)

\* fillRect; drawH and drawV fill a rectangle of one row or one column.
fillRect(x, y, width, height) ==
  {c \in Grid : c[1] \in x .. x + width - 1 /\ c[2] \in y .. y + height - 1}
drawH(y, fromX, toX) == fillRect(fromX, y, toX - fromX + 1, 1)
drawV(x, fromY, toY) == fillRect(x, fromY, 1, toY - fromY + 1)

drawBorder == {c \in Grid : c[1] \in {0, MapWidth - 1} \/ c[2] \in {0, MapHeight - 1}}

\* A MapConfig; its layout is the set of the open cells.
Config(walls, carved, spawn, boss) ==
  [open |-> Grid \ ((drawBorder \cup walls) \ carved), spawn |-> spawn, boss |-> boss]

GreenMap ==
  Config(fillRect(8, 3, 14, 5) \cup fillRect(33, 14, 14, 4)
           \cup drawV(26, 1, 21) \cup drawV(45, 2, 13)
           \cup drawH(9, 1, 20) \cup drawH(7, 30, 54),
         {<<26, 5>>, <<26, 12>>, <<26, 18>>, <<45, 5>>, <<45, 10>>, <<6, 9>>,
          <<12, 9>>, <<18, 9>>, <<37, 7>>, <<44, 7>>, <<50, 7>>},
         <<4, 4>>, <<50, 20>>)

CaveMap ==
  Config(fillRect(5, 5, 10, 9) \cup fillRect(36, 12, 12, 7)
           \cup drawV(28, 1, 22) \cup drawV(18, 10, 20)
           \cup drawH(4, 18, 51) \cup drawH(18, 2, 25),
         {<<28, 4>>, <<28, 11>>, <<28, 18>>, <<22, 4>>, <<34, 4>>, <<45, 4>>,
          <<9, 18>>, <<14, 18>>, <<18, 15>>},
         <<4, 20>>, <<49, 20>>)

RuinsMap ==
  Config(drawV(12, 2, 20) \cup drawV(24, 1, 18) \cup drawV(37, 5, 22)
           \cup drawH(6, 2, 22) \cup drawH(13, 15, 40)
           \cup fillRect(42, 3, 8, 5) \cup fillRect(6, 15, 8, 4),
         {<<12, 5>>, <<12, 11>>, <<12, 17>>, <<24, 4>>, <<24, 10>>, <<24, 16>>,
          <<37, 9>>, <<37, 17>>, <<8, 6>>, <<18, 6>>, <<19, 13>>, <<29, 13>>, <<44, 13>>},
         <<50, 4>>, <<50, 20>>)

\* FindConfig looks an identifier up among them.
AvailableMaps == [green |-> GreenMap, cave |-> CaveMap, ruins |-> RuinsMap]

\* Where newBossState puts the boss, until buildBossSites puts it elsewhere.
BossSites == [green |-> <<50, 20>>, cave |-> <<49, 20>>, ruins |-> <<50, 20>>]

\* Where a player can walk to from cell c: MovePlayer takes one step in four directions.
Steps(c) == {<<c[1] + 1, c[2]>>, <<c[1] - 1, c[2]>>, <<c[1], c[2] + 1>>, <<c[1], c[2] - 1>>}

WalkFrom(cfg, c) ==
  LET walk[S \in SUBSET cfg.open] ==
        LET next == S \cup (cfg.open \cap UNION {Steps(d) : d \in S})
        IN  IF next = S THEN S ELSE walk[next]
  IN  walk[{c}]

-----------------------------------------------------------------------------
Abs(n) == IF n < 0 THEN -n ELSE n

distance(a, b) == Abs(a[1] - b[1]) + Abs(a[2] - b[2])

\* How far from c the nearest of S is; none is as far as a map is long and wide.
Nearest(c, S) == Min({distance(c, s) : s \in S} \cup {MapWidth + MapHeight})

\* spawnScoreLocked: far from NPCs, players and chests, and from the edge.
SpawnScore(cfg, npcs, players, treasures, preferNPC, c) ==
  LET edgeMargin == Min({c[1], MapWidth - 1 - c[1], c[2], MapHeight - 1 - c[2]})
      centre     == <<MapWidth \div 2, MapHeight \div 2>>
  IN  120 * Nearest(c, npcs) + 20 * Nearest(c, players) + 15 * Nearest(c, treasures)
        + 30 * edgeMargin - 3 * distance(c, centre)
        + IF preferNPC THEN 2 * distance(c, cfg.spawn) ELSE 0

(* bestSpawnCellLocked sorts the walkable cells, equal scores by rows, and *)
(* draws from the first twelve.                                            *)
BestSpawnCells(cfg, npcs, players, treasures, preferNPC) ==
  LET walkable == cfg.open \ (npcs \cup players)
      rank(c)  ==
        MapWidth * MapHeight * SpawnScore(cfg, npcs, players, treasures, preferNPC, c)
          - MapWidth * c[2] - c[1]
      ranked   == {<<rank(c), c>> : c \in walkable}
      best     == {r \in ranked : Cardinality({q \in ranked : q[1] > r[1]}) < 12}
  IN  {r[2] : r \in best}
=============================================================================
