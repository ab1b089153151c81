# A TLA+ model of the game servers

The repository is a course on game servers: three labs of growing ambition
(`Lab/Lab1` a duel, `Lab/Lab2` a shared map, `Lab/Lab3` a cluster of map nodes) and a
stand-alone shooter (`warzone_go`, and `warzone_c++` with the same rules). This directory
keeps TLA+ models of the parts where interleavings, faults and ordering decide what is
correct, TLC configurations that check them, and TLAPS proofs of what matters most.

## 1. Inventory

All paths are below `src/`. "Lab3" is `Lab/Lab3/complete`.

| Component | State | Operations | What is hard |
|---|---|---|---|
| Lab3 placement and failover, `cluster/cluster.go` | `owners`, `replicas`, per node `healthy`, `ln`, `maps`, `replicaSnapshots` | `heartbeatLoop`, `checkpointLoop`, `handleNodeFailure`, `failNode`, `recoverNode`, `NewCluster`, `Start` | four kinds of goroutine; routing tables copied under `c.mu` and used after it; ping against admin command; restart between two steps |
| Lab3 sessions, `cluster/cluster.go`, `cmd/server/main.go` | `sessions`, the event list of each | `Register`, `QuickEnter`, `Login`, `Logout`, `SwitchMap`, `Move`, `Attack`, `Heal`, `BuyItem`, `SnapshotFor`, `persistSessionState`, `flushLoop` | session table, world and user file have different locks, and every operation visits all three |
| Lab3 world boss, `cluster/cluster.go` | `boss` | `AttackBoss`, `respawnBossAfterCooldown` | rewards planned under the lock, paid after it; a cooldown goroutine per kill |
| Lab3 world, `world/world.go` | players, NPCs, treasures, version of one map | `AddOrRestorePlayer`, `RemovePlayer`, moves, fights, shop, `BackgroundStep`, `CaptureCheckpoint`, `RestoreCheckpoint` | what a checkpoint and a profile leave out; identifiers after a restore |
| Lab3 storage, `storage/store.go` | user file, hot sessions, checkpoint files | save and load of each | a missing file counts as loaded; errors of a write are dropped by the callers |
| Lab1 duel, `Lab/Lab1/complete` | connections that wait, the two players, whose turn it is | accept, Join, move, attack, heal, the end; clients dial, type ahead, quit | only the player to move is read: that the other leaves is noticed later, and what he typed before comes first |
| Lab2 open world, `Lab/Lab2/complete` | players of one map by identifier, one goroutine per client and per kill | Join, move, attack, heal, respawn, leave, broadcast | a respawn outlives its player; a client that does not read stops whoever sends to him |
| Warzone server, `warzone_go/internal/server`, `database` | entries of connections, seats, round, weapons, statistics | accept, REGISTER, LOGIN, JOIN, READY, ACTION, cleanup, `weaponWorker`, `heartbeatWatcher` | joins and leaves in the middle of a round; entries and seats that are used again; a watcher that acts after it has unlocked |
| Warzone in C++, `warzone_c++/server.cpp` | the same, with threads and file descriptors | the same | sends with the mutex held, descriptors that are closed without it, a watcher without any lock |
| Warzone clients | - | what they send, and when they stop reading | part of the modules of the servers; the terminal and the drawing are left out |
| Lab3 client and admin tool, protocols, test runners, student templates | - | - | no logic of their own: terminal, printing, JSON tags, exercises |

How the parts of Lab3 interact. A connection has one goroutine for its commands and one
that pushes a snapshot every 400 ms; both may log the user out (`sync.Once`). A command
looks up the session under `c.mu`, calls the `NodeService` it names (which looks up the
world under `n.mu` and works under the world's lock), then saves the profile and persists
the session. Behind them run `backgroundLoop`, `flushLoop`, `checkpointLoop` and
`heartbeatLoop`. A failover changes owner, replica, worlds and sessions under `c.mu`;
nothing else waits for it unless it takes `c.mu` itself.

The other servers are one process each. Lab1 has one goroutine that reads from one
connection at a time. Lab2 has a goroutine per client and one per kill, a lock for the
world, and sends outside of it. The Warzone servers have a goroutine or thread per
connection, one that spawns weapons and one that looks for late heartbeats; one lock for
the room and, in Go, another for the connections.

What makes each part correct: a map has one host that routing leads to, and what was
checkpointed is not lost (placement); a user has one session, served by a connection,
routed to the owner of his map (sessions); damage and rewards are counted once and the boss
always comes back (boss); units and treasures never share a cell, who falls rises (world);
a duel is won by a blow or because the other has left, and ends (Lab1); who is killed rises
once, whoever else comes, goes or stops reading (Lab2); a room has rounds that two at least
begin and one wins, which is recorded once, everybody in it knows its state, and only who
is late is thrown out (Warzone). `PROJECT.json` lists under `hazards` where each of these
can go wrong, with the property that watches it.

## 2. Modules

### ClusterFailover and MapService

Variables are the fields of `Cluster` and `NodeService` named in the module. A world's
content, a replica snapshot and a checkpoint file are the same kind of thing: the set of
writes they contain. `issued` (the writes made on each map) and `unsaved` (the maps whose file
could once not be written) are history variables.

| Actions | Code |
|---|---|
| `Init`, `Restart` | `NewCluster` + `Start` over an empty and over a used data directory |
| `WorldWrite` | any `NodeService` operation or `BackgroundStep` that changes a world |
| `CkTick`, `Skip`, `Capture`, `Save`, `Store`, `CkEnd` | `checkpointLoop`; `failNode` shares the middle four |
| `SaveFails` | `SaveCheckpoint` returns an error, which both drop; the old file stays |
| `HbPing`, `HbTimeout`, `HbSet`, `HbEnd` | `heartbeatLoop`, `ping`, `SetHealthy`; `ListsNodes` is the list a round begins with, made under `c.mu` |
| `FoStart`, `FoSkip`, `FoPromote`, `FoReroute` | `handleNodeFailure`, `Promote`, `pickReplicaLocked`, `RemoveHostedMap` |
| `FailCopy` ... `FailEnd` | `failNode`, `View`, `Stop` |
| `RecoverStart`, `RecoverMark`, `RecoverReload` | `recoverNode`, `NodeService.Start` |
| `AdminTell` | `broadcastGlobalEvent`, the section of `c.mu` that ends `fail` and `recover` |

One action is one critical section. `handleNodeFailure` keeps `c.mu` for several actions:
`holder` is the goroutine inside, and every other section of `c.mu` asks for
`Unlocked`. The sections that take only `n.mu` or a world's lock do not, which is how a
handler can write to the failed node's world between `FoPromote` and `FoReroute`.
`recoverNode`'s loop under `c.mu` is one action because nothing it writes is read
without `c.mu` except snapshots of maps the node does not host. `checkpointLoop` asks for a
node's health and then captures the world: `Capture` is both. Two error paths of the admin
commands are left out: a listener that cannot be closed, after which `fail` returns without a
failover, and one that cannot be opened, after which `recover` returns.

`MapService` is what players may count on: a map is one copy at one node, a move may lose
writes and so may a restart (`Reboot`), and no map ever has a write that was not made on it.
`ImplementsMapService` maps `live` to the world at the owner, `file` to the checkpoint file
and `accepted` to `issued`. Nothing else in the cluster is to be seen from there: replication,
heartbeats, `recover` and the checkpoints of other nodes are stuttering steps.

### Sessions

The session table (`session`, `sMap`, `sNode`), the players in the worlds, the user file
and the hot session file; per connection the place of its main goroutine (`pc`) and of
its `Logout` (`stop`), which the ticker goroutine may run while the main one is in the
middle of a command. Session objects have addresses, since `SwitchMap` and `Logout` keep a
pointer across critical sections. A profile is the set of deeds that befell the player.
`QuickEnter` is a `Register` and a `Login`. A `Restart` is a new process on the old files:
worlds from the latest checkpoints, records from the user file, no sessions.
`Flusher` is `flushLoop`; `Rival` is a handler of somebody else that strikes or rewards
the player and saves what it saw. Placement is abstracted to `owner`, which a `Failover`
changes in one step for as many of the failed node's maps as `handleNodeFailure` gets to
move (no section under `c.mu` comes between the steps it has in
`ClusterFailover`, and `OwnerHosts` and `SingleWriter`, proved there, justify `Hosts`).
`done` and `raced` are history.

### WorldBoss and SharedBoss

`AttackBoss` is `Aim` (the unlocked reads), one of `StrikeRefused`, `StrikeHit` and
`StrikeKill` (the section under `c.mu`), then `Pay` for every planned reward and `PaidUp`,
which starts the respawn goroutine. `Enter`, `Leave`, `SwitchOut`, `SwitchIn` and
`Failover` move the players about in the meantime; the checkpoint that a failover restores may
lack players who have come since and bring back some who have left. Left out is a player whom
it brings back while he plays in another world: the second copy is where no session of his
leads, and a reward looks for him where his session does. `promised` and `paid` are history.
`SharedBoss` is what Lab3 promises: one boss, struck one blow at a time, that comes back
every time it dies; `ImplementsShared` is the refinement, with `hp` and `lastHit` mapped to
themselves. A restart of the server is the abstract `Reset`.

### World

One map (`world/world.go`). Every exported operation holds `w.mu` from beginning to end and
is one action; `BackgroundStep` is a loop over spawns and NPCs and is several, with
`phase` saying where the holder of the lock is and `todo` the NPCs it has still to move.
A knocked-down player has a deadline (`timer`, passed by `Tick`), and nothing happens when
it passes: the next operation that looks at him raises him. `Woken(U)` is that refresh, and
every action begins with it for the users the code refreshes there. The profile of a login
is an input out of `Profile`, alive or knocked down, as `Sessions` and the user file may
give it; `checkpoint` is what `CaptureCheckpoint` took last, if anything, and
`RestoreCheckpoint` may load it at any time, which covers failover, `recover` and a restart.
`reloaded` is history: who is down since he was loaded rather than since a blow.
`backgroundLoop` steps only nodes that are marked healthy, as they were when its round began:
`BackgroundRound` puts the map's node on the list of a round (`listed`) if it is, and
`BackgroundStart` takes it off. The mark changes with every ping and admin command and with
the node the map is moved to, which is `Mark`; players go on playing whatever it says.
Maps are small here, so that `bestSpawnCellLocked`, which draws one of the twelve best
cells, may draw any free cell.

### Maps

The three maps as `buildGreenMap`, `buildCaveMap` and `buildRuinsMap` draw them, a set of
open cells each, with `spawnScoreLocked` and `bestSpawnCellLocked`, which rank them. It is
what justifies the small maps of `MCWorld`, whose `ASSUME`s say of the real ones that a
player can walk from the spawn to every open cell but two, that there is room for 900
players, and that the boss stands where one can walk to, and where `newBossState` has it.
The two cells, (28, 4) of cave and (12, 17) of ruins, were carved for doors and have walls
on all four sides. `NicheIsGoodSpawn` shows that this is no matter of taste: the second is
among the twelve best cells when the NPCs stand in five places named there, so that a chest
may lie, or a player rise, where there is no way in or out. `MCWorld` has such a niche.

### Warzone and SharedRound

`Warzone` has the two layers of the Go server: the entries of connections (`conns`, under
`connMu`) and the seats (`slotConn` and `players`, under `gameMu`). A packet is handled in
one section of `gameMu`, which ends with `broadcastStateLocked`, and is one action:
`Join`, `JoinFull`, `Ready`, `Move`, `Wound` and `Kill` (one ACTION packet, by what it does);
likewise `SpawnWeapon` of the worker. `cleanup` is `Depart`, `DepartFight` or `DepartRoom`
(the section of `gameMu`, by what is left) and then `Release` of the entry. `Watch` and
`Kick` are the two halves of the watcher.
The client is `HangUp`, the packets it sends when it likes, and `GoSilent`, after which
the entry is late until the next `touchHB`.
JOIN may be sent again when the room was full; the clients of the repository do not do it.
`told` is what each connection has been sent last. `ledger` is history: who has fought
since the round began and whom he has felled, who was late and who was closed for it.
The statistics of a user are the sums that `stats.db` keeps; `Totals` has the sum that this
module and `WorldBoss` add up with. `Listed` and `Recorded` are the way through the two
files and back: `RegisterUser` accepts a name that begins with `#`, and the loaders skip
its lines as comments. Such a player (`Comment`) fights once, never logs in again, and may
register any number of times; what he wins is lost, which is the exception in
`RoundsWonOnce`. `Restart` is a new process on the same files, which the code reads for
every request.

`SharedRound` is what both servers promise of the room. `ImplementsRound` maps
`phase` from `GameStarted` and `GameOver`, `room` from the seats, `fighters` from the seats
whose player is alive; a restart of the Go server is `Reboot`. `Reopens` is the one difference between the two: in Go the last to
leave makes a lobby of the room again, in C++ only if the round was not over.

### Arena

The C++ server has no goroutines that a runtime protects, and the module is about that:
`file` is the operating system's table, in which `accept` takes the lowest free descriptor;
`Close` frees it before `Free` clears the entry that names it. A broadcast is not atomic:
`Tells` takes the mutex, each `Send` writes to the descriptor the entry of the next seat
holds at that time, `Unlock` comes last; a client that has stopped reading (`stuck`) blocks a
`Send` until it is closed. Heartbeats and requests for statistics are answered without the
mutex (`Answer`), by a thread that may stay in its send (`stalled`); a HEARTBEAT_ACK is only
noted (`NoteAck`). The last heartbeat of an entry is fresh, old or late (`Ages`, `Touch`):
only a connection of which nothing is noted for long enough is late. `WatchLook` and
`WatchKick` are `hb_watch_thread`, which takes no lock.

So the watcher ends a broadcast that is stuck on a client that has fallen silent. It cannot
help against one that reads nothing and goes on sending HEARTBEAT_ACK: its thread notes
every one of them, it is never late, and `send_packet` waits for it with the mutex held
(`server.cpp:140`). `SectionEnds` says that this is the only way: the mutex is released
again and again, or the broadcast waits again and again for somebody who does not read and
whose heartbeat is fresh (`HeldUpBy`). Positions, health, weapons, accounts
and statistics are the same as in Go and left to `Warzone`.

### Duel

`pc` is where the only goroutine of the server is. A connection keeps what a client has
typed (`typed`, a number: what a command says makes no difference until the server reads
it), also when he has left. `Drops` is a `Receive` that fails, which it does only when
everything typed before has been read: the player has left, or what comes next is no message
(`Garble`). `Reset` is the operating system: a process that exits
with unread input resets the connection, and the result on its way may be lost.

### OpenWorld

`handleClient` is `AddPlayer`, the broadcast, the loop of commands, the broadcast of the
farewell and `RemovePlayer`. A broadcast is `Collect`, which copies the connections under
the lock, and `Send`, which waits for everybody in the copy. `Respawn` is a goroutine that
`AttackPlayer` started: `respawns` counts those that sleep for an identifier. What a client sent
before he left is still done (`Acts`), and comes to an end. Left out are the
ticker that sends snapshots, which changes nothing, and connections that do not begin with
Join, which get no player.

## 3. Runs

| Run | What it shows |
|---|---|
| `failover_safety` | the safety properties of `ClusterFailover` and its refinement of `MapService` with two admin commands that overlap, ping timeouts, restarts and files that cannot be written |
| `failover_live` | `FailureDetected`, `AdminCommandReturns` under fair scheduling |
| `sessions_safety` | two connections of one user, `flushLoop`, an opponent and a failover or a restart |
| `online_has_connection` (violated) | a login that races a failover leaves a session that no connection owns: the user is locked out |
| `boss_fight` | the boss with three users, its accounting, its respawn and its refinement of `SharedBoss` |
| `world_fight` | two players and an NPC in a corridor with a closed niche: units and treasures never share a cell, no treasure is lost |
| `world_live` | as long as the map's node stays marked healthy, who was knocked down rises unless he was loaded so, and the NPCs come back to their number after the last restore, although identifiers are given out twice |
| `warzone` | rounds that are won and recorded once, a room that is told its state, statistics of the fighters, a watcher that closes only who was late, and the refinement of `SharedRound` |
| `arena` | the states of a broadcast go to who is seated, the mutex is released unless a client that does not read goes on acknowledging heartbeats, and the room refines `SharedRound` without reopening |
| `arena_kicked` (violated) | the watcher in C++ shuts down a connection that was on time |
| `duel` | a fair winner, and an end of the duel for who stays when the other leaves |
| `open_world` | one respawn for each death, everybody rises, leavers are removed |

Two runs end in a violation on purpose: each states a sentence of a message or a comment
of the code, quoted in `PROJECT.json` under `findings`, that the code does not keep. The
passing properties of the same modules say what is true instead: for example
`SessionServed` and `RoutedUnlessRaced` hold for every user whose login or switch did not
overlap a failover or another switch of his, and `KickedWasLate` holds of the watcher in
Go, which has the socket in its copy of the entry.

Bounds. Three nodes, as in `NewCluster`; the initial placements of its table. One map is
enough for everything that concerns a single map, since maps meet only in the loops, and
the theorems of section 4 hold for every set of maps. Two faults (restart, ping
timeout, admin command, failed write) in `failover_safety` allow fail and recover of one node, two
fails that leave a map without replica, or a fail that a restart interrupts. Writes are
unordered, so one or two of them tell an old copy from a new one. In `Sessions` one user
suffices, since users meet only through `Rival`; two connections, three session objects
(two held by connections, one in the table), four requests or background steps and one failover or restart. In
`WorldBoss` hit points 4 with blows of 1 and 3 allow a kill by one blow too many, three
users a killer, a contributor and a bystander; four attacks can kill twice. In `World` a
corridor of three cells is enough to meet, to be out of reach and to come back to a cell
that has been taken; behind a wall lies a niche that nobody can walk to, but where one may
rise or a chest may fall, and it makes room for the four cells `RoomAssumption` asks for.
Players have two hit points and blows cost one, so a blow wounds or knocks down; the NPC
has two and a kill takes two commands, after which its loot lies where a chest may fall as
well. `Moderate` stops chests at two coins on the map. `world_live` has one player, since what
raises him is the background loop and not another player, one command of his, no rewards and
a shop he cannot afford, but two NPCs in a corridor of four cells, a mark of the node that
changes at any time (`Marks`) and two steps of checkpoint and restore. It starts over from a
checkpoint that an earlier run left (`Saved`): in one the next identifier, the count plus one, is that
of an NPC which lives, so that the NPC spawned next replaces it; in the other the player was
saved knocked down. Further checkpoints are taken of a map without players that lacks an NPC
(`Lacking`), which are those that make identifiers clash. That the node stays marked healthy
is a condition of the properties, and so is an end of restores in `NPCsComeBack`: with a
restore every so often the NPCs need not be complete at any time. `world_fight` itself takes none: that units and treasures
stay apart across restores, which may give identifiers out twice, is left to the theorems.

In `Warzone` three entries and two seats: a full room, a newcomer who gets the entry or
the seat of one who has gone, and a third who watches. Four accepts, two hang-ups, two
moves or weapons, one restart and one fault (a failed login, a late heartbeat, a name that
is lost); `Budget` lets them trade, a fault for three moves. A
map of 6 by 6 has two spawn points four steps apart, outside of an attack range of 2: it
takes the moves to get near, and health 2 with blows of 1, or of 2 with the weapon, lets
one be wounded and killed. `arena` has three entries, two seats and three accepts with a
budget of four for what clients do: one may stop reading in the middle of a broadcast to
two seats while a third one's descriptor is used again. `arena_kicked` needs two entries.
In `Duel` three clients contend for two places on a strip of three cells, hit points 3
with blows of 2 and one potion of 2: two blows kill, a potion is cut off at the maximum,
two commands may be typed ahead, and one client at a time sends what is no message. In `OpenWorld` three clients join, two of them present at
a time, so that a respawn left over meets a newcomer; one may stop reading; 2 hit points
and blows of 1 on two cells at range 0 make a walk, a miss, a wound and a kill.
`CHECK_DEADLOCK FALSE` is set where these bounds end
all activity: a server without requests rests.

Fairness. `ClusterFailover!Fairness` is strong for each goroutine: it takes the steps it
has, and gets `c.mu` in the end though others take it again and again (Go's mutex goes to a
waiter that starves for more than a millisecond). Nothing obliges a fault or an admin command
to happen.
`WorldBoss!Fairness` says that handlers go on and that a sleeping goroutine wakes up.
`World!Fairness` says that `backgroundLoop` lists a node that stays marked healthy and steps
what it has listed, and that time passes; it says nothing of a node that is not, or not for
long enough, and no player has to do anything.
`Duel!Fairness` lets the server work, and has a player who is still there type something
in the end and read what he is sent; nobody has to join or quit. `OpenWorld!Fairness` is
that of goroutines: they go on and wake up, a client who has left has sent finitely many
commands, and no client has to do anything, least of all
read. `Arena!Fairness` lets the holder of the mutex send and unlock and the watcher shut
down what it has found. Time passes: who is never noted becomes old and then late, but one
heartbeat in time, again and again, is enough to stay on time for ever. The watcher sleeps
for two seconds between its rounds over all entries, and finds one that stays overdue
(`<>[]Overdue(c)`) whatever it does with the others: that is why fairness is strong for each.
`SectionEnds` would be false with a watcher that locks the mutex first, which is its mutant,
and without its second half.

Every property of a passing run has a mutant, an operator next to the original in the
module, that shows the property can fail.

## 4. Proofs

`ClusterFailover_proofs` proves, for every number of nodes, every set of maps, writes and
admin handlers and every initial placement with replica apart from owner:

| Theorem | Property |
|---|---|
| `TypeCorrect` | `TypeOK` |
| `OwnerAlwaysHosts` | `OwnerHosts` |
| `SingleWriterAlways` | `SingleWriter` |
| `ReplicaAlwaysElsewhere` | `ReplicaElsewhere` |
| `DurableAlwaysBeforeShared` | `DurableBeforeShared` |
| `NothingEverLeftBehind` | `NothingLeftBehind` |
| `RolledBackOnlyByFailoverAlways` | `RolledBackOnlyByFailover` (no run: it follows from the next) |
| `ImplementsTheMapService` | `ImplementsMapService` |

They rest on the named assumptions of the module only (`NAssumption`, `NoneAssumption`,
`ProcAssumption`, `PlacementAssumption`).

The first four are proved together. None is inductive alone: that the owner hosts its map
after `RemoveHostedMap` needs that the map being moved is hosted by its replica, that the
replica is not the failed node, and that no other goroutine is moving maps. The
invariant therefore adds where `holder` is (a goroutine is in `handleNodeFailure` exactly
if it holds `c.mu`), which maps it may still move, and what is hosted while one of them is
between `Promote` and its rerouting. `TypeStep` and `RoutingFrame` treat the actions that
touch no routing state together, `RoutingStep` the others one by one.

Files may fail to be written, so that both properties about them have the exception
`unsaved`. `DurableBeforeShared` needs that a goroutine about to store a snapshot has tried
to save the file (`Saved`, `Tried`). `NothingLeftBehind` needs a chain along `failNode`:
every map of the node is still to be visited by its loop, or was tried, or has moved, or
has no replica (`CoveredInv`), whatever other goroutines do between the steps. `RolledBackOnlyByFailover`
follows from the routing invariant step by step: the only worlds that are written over are
those of a replica, which is never the owner. The refinement of `MapService` needs in addition that
every copy of a map, in a world, a snapshot, a file or the hands of a goroutine, has only
writes made on that map (`Genuine`): a goroutine has one map in hand at a time.

`World_proofs` proves, for every set of users and cells, every profile and every number of
NPCs and treasures, and from the assumptions named in `World`:

| Theorem | Property |
|---|---|
| `WorldTypeCorrect` | `TypeOK` |
| `OneUnitPerCellAlways` | `OneUnitPerCell` |
| `OneTreasurePerCellAlways` | `OneTreasurePerCell` |
| `TreasureKeptAlways` | `TreasureKept` |
| `VitalsAlways` | `Vitals` (no run) |

The invariant, `WorldInv`, is `TypeOK` with two parts. `UnitInv` says that units stand
apart, on the map and in the checkpoint: without the second half a restore could bring two
of them onto one cell. That a restore may nevertheless drop everybody where he was needs
no look at the present map, because it replaces all of it. `HoardInv` says the same of
treasures, and that the next identifier is fresh as long as no checkpoint was taken; after
that it may not be, which is why `TreasureKept` has its exception. A lemma for each way of
changing a map (`PlaceApart`, `SpawnApart`, `StayApart`, `WokenApart`, `DropScattered` ...)
carries the argument, and the steps cite them. `Vitals` says that health, life and deadline
stay in step, which is what makes `reloaded` the only way to stay down; `VitalInv` adds that
a checkpoint, which forgets deadlines, holds nobody who lives without health. It is the
safety behind `GetsUpUnlessReloaded`, which TLC checks.

The proofs of the other modules are for every number of users, connections, seats,
clients and entries, every map and every strength of blows:

| Module | Theorem | Property |
|---|---|---|
| `Sessions_proofs` | `SessionsTypeCorrect` | `TypeOK` |
| | `RoutedUnlessRacedAlways` | `RoutedUnlessRaced` |
| | `SessionServedAlways` | `SessionServed` |
| | `RecordsAreTrueAlways` | `RecordsAreTrue` (no run) |
| `WorldBoss_proofs` | `BossTypeCorrect` | `TypeOK` |
| | `DamageAccountedAlways` | `DamageAccounted` |
| | `OneRespawnAlways` | `OneRespawn` |
| | `PaidAtMostOnceAlways` | `PaidAtMostOnce` |
| | `StepsOfSharedBoss` | the safety part of `ImplementsShared` |
| `Warzone_proofs` | `WarzoneTypeCorrect` | `TypeOK` |
| | `RoundsWonOnceAlways` | `RoundsWonOnce` |
| | `RoomInformedAlways` | `RoomInformed` |
| | `LedgerOfFightersAlways` | `LedgerOfFighters` |
| | `KickedWasLateAlways` | `KickedWasLate` |
| | `ImplementsSharedRound` | `ImplementsRound` |
| `Arena_proofs` | `ArenaTypeCorrect` | `TypeOK` |
| | `SentToTheSeatedAlways` | `SentToTheSeated` |
| | `ImplementsSharedRoundOnce` | `ImplementsRound` |
| `Duel_proofs` | `DuelTypeCorrect` | `TypeOK` |
| | `WonFairlyAlways` | `WonFairly` |
| `OpenWorld_proofs` | `OpenWorldTypeCorrect` | `TypeOK` |
| | `OneRespawnEachAlways` | `OneRespawnEach` |

Sessions. `SessionInv` adds what a goroutine knows while it works: whom it serves
(`Working`), that a session object belongs to one user wherever a pointer to it is kept
(`Objects`), and that what a login or a switch has read of the routing still holds unless
its user raced (`Routes`). Without `Objects`, a `Logout` could be cutting the session of
somebody else; without `Routes`, a login could insert a session that leads astray.
`RecordsAreTrue` bounds what stale profiles can do: saves may come in any order and lose the
latest deeds (section 5), but never invent one or give a user those of another. Its
invariant, `RecordInv`, adds `Hands`: the profile a goroutine or a `Logout` has in hand is
of the user it serves, and holds nothing that did not happen to him. The proof splits a
step by what it changes (`FilesFollow`, `WorldsFollow`, `HandsFollow`); `RecordsStep` puts
the three together.

Boss. At any moment there is a living boss, or one handler that settles its death, or one
goroutine that waits to bring it back (`OneSettler`): hence one respawn, and hence only
one plan of rewards at a time. What is in that plan has been announced and is not yet paid
(`Planned`), which makes every payment covered (`Solvent`). `Tally` says what
`DamageAccounted` says of a living boss, and that a dead one has nobody on record: so the
books begin at zero when it rises. The refinement follows from
`BossInv` step by step; the fairness of `SharedBoss` is left to TLC.

Warzone. `Seating` says that a connection has one seat at most, and only in its third
phase; that is what makes "the seat of c" and the conditions on counting right. `Lateness`
is about the copy of the watcher. `RunningHasTwo` is the counting argument on which the
refinement rests: a round that runs has two fighters, so that `Kill` and `DepartFight` end
it exactly when one is left (`SameNumber` carries it from seats to connections).
`Books` is about what is written down. That a round gives one win needs that its winner has
an account and that this account is one name: a thread past its first phase has one unless
its name is lost, and nobody without an account has ever won (`Accounts`), since a
registration begins a new record and would otherwise take wins away. A restart is the
initial state but for the accounts and what is on record of late connections. That attempts stay below `MaxTries` (`Entries`)
and weapons below `MaxWeapons` (`Field`) completes the types.

Duel and open world. That health stays a number needs that the turns begin only when two
have joined and that nobody is dead before the server is done (`Stages`). That one respawn
is enough needs that an identifier is never given out twice: no goroutine sleeps for one
that is still to come (`Unborn`), and there are as many as there are joins (`Numbered`).

Arena. `SentToTheSeated` needs both halves of `ArenaInv`. `ConnInv` says that the entry of a
thread names the thread's descriptor until the end, and that until the thread closes it
the descriptor stands for the thread's connection and no other's; that `accept` finds a
free descriptor at all is the count of `DescriptorLeft`. `RoomInv` says that who has a seat,
or is still to be told something, is a thread that has not closed yet: a seat is given up
with the mutex, and nobody can take the mutex while somebody is still to be told.

Totals. A sum over a set cannot be folded in a proof, since that is induction over data.
`Totals` counts instead: a user who has dealt `n` has `n` points, and the total is how many
points there are. `TotalAdd` (one number grows, the total grows by as much) then follows
from the cardinality of a disjoint union, and is all that the books of the two modules
that add up need.

Only TLC checks the liveness properties with the liveness half of `ImplementsShared`, and
the definitions of section 5, which do not hold.

## 5. Not modelled

Terminal interfaces, admin printing, JSON and hashing have no behaviour to check. The user
file and the hot session file are always written in `Sessions`; the callers that ignore
an error there would keep the old file. Event lists of a session are bounded text. Of the
cluster, the status text is left out. Of the Warzone servers, reading the statistics, and the bytes of a packet: in C++ the
header and the payload are sent apart, and a thread that answers a heartbeat without the
mutex may come between those of a broadcast (`protocol.h:145`). In the Go server a broadcast
is one step, since what a client that does not read can do to it is the question of
`Arena`. Its database writes without fail: that `saveUsersLocked` drops the error of
`Flush`, that a file which cannot be opened counts as empty, and that the process may die
between two seats of `saveStatsLocked` are left out. The student templates are the complete versions with pieces cut out.

Some promises do not hold and have no run of their own. Their definitions stay in the
modules; a `.cfg` that names one finds the violation.

| Definition | What happens |
|---|---|
| `ClusterFailover!PromotesHealthyNode` | a map is moved to a replica that is down |
| `ClusterFailover!PromotesLatestCheckpoint` | a replica is promoted from a snapshot older than the checkpoint file |
| `Sessions!OfflineFileKept` | a goroutine saves, after a `Logout`, the profile it had read before |
| `World!GetsUp` | a player who was saved while knocked down never rises again once he is loaded |
| `WorldBoss!AnnouncedIsPaid` | a reward is announced and never paid |

Others were seen on the way. In Lab3 a knocked-down player may strike the boss
(`AttackBoss` never asks for `Alive`); the boss is not saved although Lab3's README lists it
among the data to keep (its line 89); the second half of an old connection's `Logout`
removes the player that a new one has just added; a relogin fills up the potions of a
player who has none left (`valueOr`); and between `Promote` and `RemoveHostedMap` two nodes
accept writes of a map (the exception in `SingleWriter`); and two of the maps have an open
cell walled in on all sides, where chests and players may fall (see Maps). In the Warzone servers the winner
is kept as an entry, so a newcomer in that entry is shown as the winner (`game.go:353`);
who takes a seat in the middle of a round inherits its kills and its death; in C++ a client that reads nothing
and goes on sending HEARTBEAT_ACK stops the game for everybody (see Arena); a name that
begins with `#` is accepted by `RegisterUser` and never found again (`database.go:218`); when the only
player who is not ready leaves, the rest waits until one of them presses the key again; and
a client that was told the room is full never asks again, although the server waits for it
to (`conn.go:157`). In Lab1 an unknown command uses up the turn, and a first
connection that says nothing keeps everybody else out of the lobby (`main.go:54`). In Lab2
a respawn is announced although the player has left.

## 6. Plan

Done: `ClusterFailover`, `Sessions`, `WorldBoss` over `SharedBoss`, `World` and `Maps`, `Warzone` and
`Arena` over `SharedRound`, `Duel`, `OpenWorld`, and the theorems of section 4.

Left, in the order of what they would add: failures to write the user file and the hot
session file in `Sessions`; the header and the payload
of a packet as two sends in `Arena`; the uniqueness of identifiers under restores in
`World`, as what the code would need (the largest identifier instead of the count).
