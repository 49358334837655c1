# Gamebox in TLA+

Gamebox is a small game platform for a closed circle of players: a Go daemon
(`src/server`) over one SQLite file, a Flutter app (`src/app`) and Godot games
(`src/game_runtime`).  This directory holds the specifications of its core: the
durable match service, the WebSocket hub and the presence of players, sessions
and the move of an account between devices, the rules of the games, and the two
clients that have to survive all of it.  `PROJECT.json` maps every definition
to the lines it models, every run to its properties and every property to a
mutation of the code that breaks it.

Conventions.  A transaction that commits is one action; one that is rolled back
is none.  What a goroutine, a callback or an `await` separates are different
actions.  An operator written directly above another with the same parameters
and a comment "Mutant: ..." is a plausible bug: it is used nowhere, and takes
the place of its neighbour to see that a property would notice.

## 1. Inventory

| component (source) | state | operations | what is hard | what makes it correct | modules |
|---|---|---|---|---|---|
| match service (`matches/service.go`) | `matches`, `match_events`, `active_game_slots`, launch tickets, resume tokens, `flight_chess_limit_actions` | create, cancel, act, roll, presence writes, abandon, boot, ticket and resume | retries after anything, two choices against one revision, four history limits, a sweep that lists before it writes, terminal transitions over five tables | slots follow the lifecycle; all that is stored can be read; an ended match is frozen; retries are answered; nobody is abandoned early | MatchService, MatchServiceProofs |
| presence (`matches/presence.go`) | map of connections, reference-counted lock per match, chain of notifications | connect, touch, disconnect, sweep | goroutines between map, lock and durable write; writes that fail; order of deliveries | operations exclude each other; the timer runs iff nobody is there; everyone learns who is online | Presence, PresenceProofs |
| hub (`matches/hub.go`, `session_revocation.go`) | connections, send queues, watermark, out-of-order commits | handshake, publish, snapshot, stale answer, revoke, shutdown | commits published in any order, slow clients, handshakes racing all of it | unbroken streams; nobody left behind; nothing stray is left open | Hub, MatchFeed, HubProofs |
| sessions (`auth/*.go`) | users, invites, refresh tokens, epochs | register, refresh, authenticate, guard of writes | refresh tokens can be used again; requests are handled after they were authenticated | one session of one device; old sessions do not write | Sessions, SessionsProofs |
| device transfer (`auth/transfer.go`, `device_transfer.dart`) | codes, receipts, rate limits; journals, collection and token on the device | make, redeem, retry, cancel, import, clean up | lost answers, kills between any two durable steps | a code is redeemed once, a retry is answered, no ticket is lost, transfers settle | Sessions, SessionsProofs, DeviceTransfer, DeviceTransferProofs |
| rules of five games (`games/*`) and their registry | none (pure) | initial, apply, rebuild | incremental results against whole boards, strict replay, older generations of rules | a log replays to what was committed; results fit the board; choices stay secret | Gomoku, Reversi, Rps, ChineseCheckers, FlightChess, Games, GamesProofs |
| battleship (`battleship/*`) | tables of its own | create, place, ready, shoot, resign, rematch | two players over separate requests, versions, retries | turns alternate, fleets and outcomes stand, one rematch | Battleship, BattleshipProofs |
| match client (`match_client.gd`, `game_state.gd`) | connection state, one timer slot, board, pending action | attempt, retry, watchdogs, events, errors, resynchronise | late messages and timers of abandoned attempts | always driven by the right timer; ends up to date or gives up; no false alarm | MatchClient, MatchClientProofs |
| scratch, HTTP API, daemon, operator command, configuration | tables or none | handlers, boot, workers | mostly sequential | | partly, see section 8 |
| history, users, store, wire protocol, Godot games, Flutter features, packaging | | | | | not modelled, see section 8 |

How they interact.  An HTTP handler or the hub's `readLoop` authenticates,
calls the match service (one SQLite transaction) and hands the committed event
to `Hub.Publish`.  A WebSocket handshake spends a launch ticket or a resume
token in the service, registers with the hub and calls `Presence.Connect`,
which writes the durable timer through the service and notifies the hub.
Two workers run beside: one abandons matches whose timer is due (every
minute), one expires silent connections (every 15 s).  A redeemed transfer
code raises the account's epoch, which revokes tokens, tickets and - in the
hub - live transports.  `MatchClient` is the other end of the hub's
connection, `DeviceTransfer` the other end of the transfer endpoints.

## 2. Plan

The order of work was: match service (everything else hangs on what it
commits); presence and hub, the concurrent parts; sessions and transfers on
the server; then the rules, which the first module leaves abstract; then the
clients.  Of these,

* `Hub` was to be shown to implement an abstract feed (`MatchFeed`) - done by
  TLC and by proof;
* `Presence` composes the presence code with the row it writes, the handshake
  and close that call it, and the abandon worker; `Hub` composes hub,
  revocation, shutdown and clients; `Games` composes the five rule sets with
  the service around them;
* the theorems wanted were the types and the central safety property of the
  match service, the refinement of the hub, the timers of the client, mutual
  exclusion and the timer in presence, and the one session of an account; then
  the other half of the hub (streams are unbroken, nothing is held back, no
  stray transport), credentials, logs and retries in the match service, who
  hears what in presence, the rate limits, the tickets of a device on its way,
  battleship, the rules of the five games, and the conversation of client and
  hub - done: every safety property that a passing run checks is proved.

## 3. Modules

### MatchService

State: the tables, one variable each, plus `sweep` (the list `AbandonExpired`
holds in memory between its scan and its transactions), `issued` (opaque
credentials drawn so far) and the clock `now`.  A match row has the columns of
`matches` and `match_players`; an event has kind, actor, action id and payload.
Actions: `Create`, `Cancel`, `ApplyAction` (moves, rolls, resignations, locked
and revealed choices, retries, and the abandonment of flight chess at its
history limit), `SetPlayerOnline`, `SetPlayerOffline`, `Scan` and
`AbandonIfExpired`, `Restart` (which loses the sweep and starts missing
timers), `CreateLaunchTicket`, `ConnectLaunch`, `ConnectResume`,
`RevokeCredentials` (a transfer), and `Tick`.
The board is abstract: an accepted move leads to any outcome of the set
`Outcomes` the rules may give.  `Games` fills this in from the other side.
`Answers` is the look-up of a repeated action, the same operator that
`ApplyAction` uses, so `RetryAnswered` asks it about every committed event.

### Presence

One match (every match has its own lock, and shares nothing with others), two
players, any connections.  Each connection is a thread with a program counter
over `Connect`, the hub's handshake and close, `Disconnect`; the expiry worker
is another thread.  The operation lock is modelled as the code builds it: an
entry in a map, a reference count and a one-slot channel, made on first use
and dropped by the last user; the map holds one at a
time, and a second (`Entries`) is there so that a lock dropped too early could
be told from its successor.  Durable writes may fail (`StoreFails`), which
takes the branches that restore the map.  Notifications are delivered by
goroutines chained to each other; a delivery may close connections.  Times are
ages, which need no bound.

### Hub and MatchFeed

One match, any connection slots.  The handler goroutine is at one of `Stages`
(`serving` and authenticated, `registered`, `readying`, `refreshing`, `reading`,
`publishing`, `answering`, `ending`), `writeLoop` is `Write` and `Heartbeat`, `close()` is an
action that is due once the connection is `doomed`.  `Run`, `PutEvents`,
`Hold` and `Replay` are `flushPublishedLocked` and the replay of `markReady`:
which out-of-order commits become deliverable, who gets them, who holds them
back during a handshake.  Commits come from the hub's own clients, from an
HTTP cancellation and from the abandon worker, and are published later than
they commit.  The process may be killed in between (`Restart`).  Merged, because
nothing the properties see lies between: credential check, snapshot and first
message (`Greet`), and the snapshot of `markReady` with its enqueueing
(`Restate`).  A `notice` stands for every message without a revision; the
client's board is updated when the writer writes, and a closed connection's
queue is dropped.

`MatchFeed` is the abstract specification: a durable revision that grows by
one, and boards that follow it, never ahead and never back.

### Sessions

Accounts, invites, epochs, refresh and access tokens, transfer codes with
receipts, the two rate limits, grants (launch tickets and resume tokens), and
devices that hold a login, a journal and one request.  A request passes the
middleware in one action and is handled in a later one; `GuardTransaction` is
part of the handlers that call it and absent from those that do not.  A token
is its account and epoch, since tokens are random.  Refresh tokens can be used
again (`session.go`), although the transfer document says a consumed one is
not replayed (line 14): what keeps an old device out is the epoch, and that is
what `OneSession` states.  Recovery codes of the operator are here too.

### DeviceTransfer

The device's side, step by durable step: `generate`, `_cancelOutgoing`,
`redeem`, `importSession`, the credential cleanup, `restore` at start.  On
disk are the collection, the refresh token and two journals; in memory the
step, the login state and the answer being imported.  A kill may follow every
step, storage may refuse a write, an answer may be lost (all counted by
`trouble`).  A request and the server's transaction are one action with three
outcomes: not done, done and answered, done and not answered.

### MatchClient

The client and what it sees of the hub: handshake, greeting, snapshot, events,
rejections, pings, and a transport that fails, hangs or closes at any moment,
after which messages sent before can still be read.  The one slot of
`_PollingScheduler` carries retries and both watchdogs, as in the code.
`pending` is the pending action of the game state: an action is sent, may be
accepted, rejected as stale or lost with the transport, and is settled by
`apply_event`, `apply_error` or the next snapshot.

### The games

`Gomoku`, `Reversi`, `Rps`, `ChineseCheckers` and `FlightChess` are the rule
packages: snapshot, legality, effect, and what the package accepts when a
snapshot is read.  They are parameterised by board and limits and recursion
is replaced by sets (`CHOOSE` of a run length, reachability of hops).
`FlightChess` has every generation of the rules (`RollOptions`,
`MoveOptions`), since the replay tries them in turn.  `Games` is the service
around the rules: who may act, what is logged, `rebuildSnapshot`, and what all
games promise (`GamesReplay`, `GamesOutcomesFit`, `MovesAreFair`).  `Battleship` is a service of its own: rows, fleets,
shots, the ledger of actions and rematches.

### MC modules

`MCMatchService`, `MCPresence`, `MCHub`, `MCSessions` add symmetry sets.
`MCGames` extends Games and Battleship, fixes boards, and lets a behaviour be
one of the five games or battleship; `MCLive` extends Presence, MatchClient and
DeviceTransfer and lets a behaviour be a match's presence, a match client or an
account on its way.  That is why these modules name their specifications apart
(`PresenceInit`, `TransferNext`, `BattleSpec`).  The parts of these two share no variable, so nothing
is lost by checking them side by side, and each property is about its part.

## 4. Runs

| run | what it asks | properties |
|---|---|---|
| `match_lifecycle` | do slots, log and timers survive any interleaving of players, workers and restarts? | `TypeOK`, `SlotsMatchLifecycle`, `AlwaysReadable`, `EndedMatchesFrozen`, `AbandonJustified`, `OfflineMatchEnds` |
| `match_actions` | do retries, rounds, history limits and credentials hold in every game? | `RoomForTheEnd`, `RetryAnswered`, `CredentialsScoped`, `DeadCredentialsStayDead` |
| `presence_safety` | do lock, map and timer agree when writes fail? | `TypeOK`, `OperationsExclusive`, `TimerFollowsPlayers` |
| `live` | does everything that was begun come to an end? | `PeersSettle`, `ConnectReturns`, `LeftMatchesEnd` (presence); `Driven`, `Settles`, `NoFalseAlarm` (client); `NoDrawLost`, `TransfersSettle` (transfer) |
| `hub_feed` | are streams unbroken, and is the hub a feed? | `TypeOK`, `FeedUnbroken`, `NothingHeldBack`, `FeedSpec` |
| `hub_live` | does every connected player catch up? | `EveryoneCatchesUp` |
| `hub_closing` | is everything closed that must be, and does shutdown finish? | `NoStrayTransport`, `ClosingEnds` |
| `session_transfer` | one session per account, through moves, losses and retries? | `TypeOK`, `OneSession`, `CodesKept`, `GlobalCountsAdmitted`, `RedeemedOnce`, `OldSessionsDoNotWrite` |
| `games` | do the six games keep their promises? | `GamesReplay`, `GamesOutcomesFit`, `RevealedTogether`, `FleetTurnsKept`, `MovesAreFair`, `FleetHistoryStands` |
| `presence_observable`, `presence_created`, `session_fleet` | the three findings of section 7 | `OnlineIsDurable`; `LeftMatchEnds`; `OldFleetsDoNotWrite` |

All passing runs hold.  The properties are stated, with the code they are
about, at the end of each module.

### Bounds, and why they suffice

* **match_lifecycle**: three users, so that a player can be in two matches and
  a third can try to join; two matches; rps, the game whose players may both
  act against one revision; `MaxEvents` 4, small enough for the limit to be
  reached (226 in the code); an offline period of 1 and a clock to 2, so that a
  timer can be due, be restarted and be due again.
* **match_actions**: all five games; three action ids, so that a retry can name
  an id of this or another action; two payloads; three credentials, so that
  one is dead, one live and one fresh; boards full after 2 moves, 2 events of
  flight chess: all four limits are met.
* **presence_safety**: two connections for one player and one for the other, the
  smallest in which a superseded connection closes while its successor
  connects and the peer is there.  With failing writes.
* **hub_feed**: two players, two connection slots, two revisions, a queue of 2
  and a backlog of 1 (32 and 32 in the code): queues fill, backlogs overflow,
  revisions are published in the wrong order, a player reconnects, the
  process dies.  **hub_live**: the same without crashes, with players who act and
  a cancellation from outside.  **hub_closing**: a revocation, a presence change,
  a rejected message and a shutdown against two handshakes; revisions play no
  part in who is closed, so there are none.
* **session_transfer**: one account (accounts share only the rate limits), two
  devices, two moves (there and back), two codes, two peers; a scaled clock in
  which an access token and an unused code die after 1, a receipt after 2, and
  the run goes to 4.  One request per device is enough, since requests meet
  only in the database.
* **live**: one connection per player; `MaxFailures` 3 against 6 in the client
  is enough to fail, recover and give up; two revisions, three actions, three
  messages in flight; for transfers two devices, one drawn ticket, two codes
  and one kill, refused write or lost answer.  `NoDrawLost` has also been
  checked with two of each trouble and two tickets.
* **games**: Gomoku on ten cells with lines of three (a line of four exists);
  Reversi on 4 by 4, where passes and double passes occur; Chinese checkers on
  a star with camps of three and paths of up to three cells, in a band of the
  board that a piece crosses in a few hops; flight chess with one piece per
  colour on the full course, all generations of the rules; three rounds of
  rps; battleship on 2 by 2 with ships of 2 and 1, and a rematch.  The capture
  limit of flight chess (2048) cannot be reached with 512 events; the instance
  scales it down and `BelowLimit` keeps to the part the code can reach.

Deadlock is checked in `presence_safety` and in the two presence findings.
Elsewhere `CHECK_DEADLOCK FALSE` is needed because a behaviour really ends:
the clock or the revisions reach their bound, a match is over, a client has
given up.

### Fairness

Only what the code schedules: goroutines that can run do run; a due `close()`
happens; a write completes or fails (5 s write timeout) and the heartbeat
ticks (15 s); the abandon worker runs every minute and the expiry worker every
15 s; time passes; the game polls the client in every frame; a killed app is
started again and a pending transfer is tried again when it can be.  Nothing
obliges a player to connect, act or stay, and the network may break for ever -
then the client gives up after `MAX_FAILURES`, which `Settles` allows.
All fairness is weak.

## 5. Refinement

`FeedSpec` in `Hub` is `Feed!Spec` with `Feed == INSTANCE MatchFeed`, the
mapping being the identity on `head` and `view`.  Queues, watermarks,
backlogs, connections, restarts and closing disappear: each is a stutter.  The
run `hub_feed` checks it on the instance, `HubProofs!FeedImplemented` proves
it for all.

## 6. Proofs

Eight modules hold theorems; `tlapm` checks all of them.

| theorem | states | argument |
|---|---|---|
| `MatchServiceProofs!TypeCorrect` | `Spec => []TypeOK` | inductive as it stands; one lemma per operation |
| `MatchServiceProofs!SlotsCorrect` | `Spec => []SlotsMatchLifecycle` | `SlotInv`: with the types, slots are exactly the active matches; `Create` inserts for both players under a check, every terminal transition deletes by match |
| `MatchServiceProofs!EndedFrozen` | `Spec => EndedMatchesFrozen` | every writer reads `Active` in its own transaction, and touches one match (`Untouched`) |
| `MatchServiceProofs!AbandonCorrect` | `Spec => AbandonJustified` | needs `SweepIsOld`: the cutoff a sweep carries is at least a period old, since the clock only goes on |
| `MatchServiceProofs!ReadableCorrect` | `Spec => []AlwaysReadable` | `StoryInv`: see below |
| `MatchServiceProofs!RoomCorrect` | `Spec => []RoomForTheEnd` | read off `StoryInv` |
| `MatchServiceProofs!RetryCorrect` | `Spec => []RetryAnswered` | read off `StoryInv`: an action id is in one event of its actor, and the one the limit replaced is in none |
| `MatchServiceProofs!ScopedCorrect` | `Spec => []CredentialsScoped` | `CredentialInv`: with `IdsDrawnOnce`; what ends a match deletes its credentials |
| `MatchServiceProofs!DeadCredentialsCorrect` | `Spec => DeadCredentialsStayDead` | from `CredentialInv`: an id names one token, so nobody else's renewal touches it |
| `HubProofs!TypeCorrect` | `Spec => []TypeOK` | from `Bounds` and `Flags` |
| `HubProofs!FeedImplemented` | `Spec => FeedSpec` | from `Bounds`, step by step |
| `HubProofs!StrayCorrect` | `Spec => []NoStrayTransport` | inductive with `Slots`, what a slot is at each stage of its handler |
| `HubProofs!FeedCorrect` | `Spec => []FeedUnbroken` | `Together`: see below |
| `HubProofs!HeldBackCorrect` | `Spec => []NothingHeldBack` | `Accounting` and `Gap`: see below |
| `PresenceProofs!ExclusionCorrect` | `PresenceSpec => []OperationsExclusive` | `LockInv`: all references are to the lock in the map and are counted, so it stays there while anybody holds or awaits it, and the token of that one lock excludes |
| `PresenceProofs!TypeCorrect` | `PresenceSpec => []TypeOK` | from `LockInv` and `DataOK` |
| `PresenceProofs!TimerCorrect` | `PresenceSpec => []TimerFollowsPlayers` | `TimerInv`: map and row agree whenever no operation is between them, and the one that is owes exactly the write that restores it, or undoes its change of the map when the write fails |
| `PresenceProofs!PeersCorrect` | `~StoreFails`: `PresenceSpec => []PeersSettle` | `PeersInv`: see below |
| `SessionsProofs!TypeCorrect` | `Spec => []TypeOK` | part of `SessionInv` |
| `SessionsProofs!SessionCorrect` | `Spec => []OneSession` | `SessionInv`: see below |
| `SessionsProofs!CodesCorrect` | `Spec => []CodesKept` | `ReceiptsKept`: the receipt carries the moment the live token was issued, so one old enough to be deleted is too old to be asked for |
| `SessionsProofs!RedeemedCorrect` | `Spec => RedeemedOnce` | a new code takes a place nobody has (`CodesReached`) |
| `SessionsProofs!WritesCorrect` | `Spec => OldSessionsDoNotWrite` | `Written`: no row is of a later epoch than its account; the guard inside the transaction does the rest |
| `SessionsProofs!CountsCorrect` | `Spec => []GlobalCountsAdmitted` | the attempts admitted are a finite set that grows by one element with each (`Fair`), and is empty in a new window |
| `DeviceTransferProofs!NoDrawLostCorrect` | `TransferSpec => []NoDrawLost` | `AccountInv`: see below |
| `BattleshipProofs!FleetTurnsCorrect` | `BattleSpec => []FleetTurnsKept` | `FleetInv`: the row of a match follows from its shots (`RowInv`), a ledger entry is of a player, a sequel has one predecessor |
| `BattleshipProofs!FleetHistoryCorrect` | `BattleSpec => FleetHistoryStands` | from `FleetInv`, action by action |
| `GamesProofs!ReplayCorrect` | `Spec => []GamesReplay` | one invariant for each game: see below |
| `GamesProofs!OutcomesCorrect` | `Spec => []GamesOutcomesFit` | the same |
| `GamesProofs!RevealedCorrect` | `Spec => []RevealedTogether` | `RpsInv` |
| `GamesProofs!FairCorrect` | `Spec => MovesAreFair` | `ReversiSound`, `CheckersSound` and what a move does to the board |
| `MatchClientProofs!TypeCorrect` | types of client, transport and the hub's end of it | inductive, in four parts (`AttemptOK`, `GameOK`, `NetworkOK`, `MatchOK`), one lemma per handler |
| `MatchClientProofs!DrivenCorrect` | `Spec => []Driven` | `DrivenInv`: with the types and `BrokenOff`: an attempt that has been broken off waits for its retry and for nothing else |
| `MatchClientProofs!AlarmCorrect` | `Spec => NoFalseAlarm` | `AlarmInv`: see below |

*Why `Bounds`.*  That a board never runs ahead says nothing about the messages
on their way to it, so it is not inductive.  `Bounds` adds that everything the
hub holds for anybody - queue, backlog, the snapshot in a handler's hands, an
event that waits for its predecessor, the watermark - is at most the durable
revision, and that queues and backlogs keep to their limits.  The second half
of the argument, that a board does not go back, needs no invariant: a client
takes a revision only if it is above its own.

*Why `Together`.*  An unbroken queue is not enough to append to: the event that
arrives must be the next one after its end.  That holds because a ready
connection is never behind the watermark, an event is delivered only when it
follows the watermark, and during a handshake the snapshot in the handler's
hand ends where the queue ends, with all that is held back at or below the
watermark (`InStep`).  Every step of the hub then either continues a stream
(`Continues`) or begins one with a whole snapshot.  `EndsAt` is needed in the
induction as much as `Unbroken`: it says where to go on.

*Why `Accounting` and `Gap`.*  While somebody is ready, every durable revision
is published, waits, or is in the hand of the one who committed it
(`Accounted`); what waits is beyond a gap (`Gap`), so the revision in the gap
must be in a hand.  A handshake owes its client only what came after its
snapshot.

*Why `StoryInv`.*  What can be read, what has room and what a retry finds are
three readings of the same thing, that log and row tell one story: as many
events as the row's revision, the kinds the game has in the order it allows,
an end in the log exactly when the row has ended, rounds of rps in pairs, no
action id twice for one player, and the action replaced by the limit of flight
chess in no event.  Induction over the log is not needed: each action appends
one event, and `Chronicle` says of every position what it says.

*Why `PeersInv`.*  That everybody agrees when all is at rest says nothing while
something is on its way.  `Agreed` says it for any moment: unless an operation
still owes the news of a player, the last word on the way about that player is
true, and if there is none, every connection has the truth, be it shown or
retained for its handshake.  This is the theorem that needs writes that
succeed: with `StoreFails` a peer can be told what is then taken back, which is
finding 1 of section 7.

*Why `AccountInv`.*  The tickets of an account are on the device that holds its
session; or in the snapshot of the receipt this device can be given again; or
in the snapshot of an open code, whose device stays where it cannot draw
(`Safe`).  The places are told apart by `Shape` - what each durable step leaves
on disk - and there is one holder.  All of it is under `~lapsed`.

*Battleship* and the *games* have one invariant each of the form "the snapshot
is what the board says".

* Rock paper scissors: there is a history of rounds (`Rounds(n)`) of which
  scores, revision, locked choices and all that was shown are functions.
* Flight chess: `FlightSound` is `validState`, the cells of the two colours
  apart, and the types; the replay returns one state because options that
  write the same event lead to the same state, whichever generation of the
  rules is tried first.
* Gomoku: before the end no line is anywhere (`GomokuSound`), so a line goes
  through the new stone; the code's count in both directions finds it, because
  a run that is longer than the board would put two stones into one cell
  (`RunEnds`, a pigeonhole), and five cells of one run are a line.
* Chinese checkers: a path moves one piece, so the camps keep their number of
  pieces; the size of a camp is half of a rectangle, which gives the number of
  pieces the snapshot is checked against for any depth.
* Reversi: captures are exactly the brackets the definition of a move speaks
  of, each move adds one disc more than it turns, and white's seat is taken at
  the second move because white can answer every opening (`OpeningAnswer`) -
  otherwise black would be asked to move for a player who has no seat.

What is proved of the games holds for boards of any size and shape that
`BoardsAssumption` allows; the run has one board of each.

*Why `SessionInv`.*  That no two devices share a session depends on three
things the property does not mention.  A refresh gives the epoch *of the day*,
so it must not lift an old device into the new session: it does not, because
only the live token serves and the live token is of the account's epoch
(`Live`).  A receipt answers again and again, so it must be of the very device
that is signed in to its session (`ReceiptsMatch`), and there must not be two
of them (`OneReceipt`).  And the epoch a redemption starts must be one nobody
has (`Reached`).

*Why `AlarmInv`.*  What the client would break off on is a frame that does not
fit what it knows when it is *read*, long after it was sent.  So every frame in
flight has to fit already (`Fits`): its revision is between the board and what
the hub's end has streamed, revisions in the inbox do not go back, an event of
the waiting action is the revision that action would make, and a rejection of
it is past what it expected.  The last two hold because of what was asked and
what the hub is about to say (`Asked`): an action id stands for one expected
revision wherever it is - in the outbox, in the hub's answer, in the log.
`Dialogue` is the order of the conversation: while the client connects, the hub
has said nothing or has greeted it with the snapshot right behind, unless that
was lost with the transport, and a client that was greeted is never greeted
again.  That is why a snapshot may be compared with the greeting at all.

*Assumptions.*  Only the named `ASSUME`s: the games are registered ones,
limits are positive and the event limit is even and at least 4
(`LimitsAssumption`, of which 226 and 512 are instances), lifetimes are
positive, `None` is no value (`MatchService`); finitely many users, a queue of
at least 2, flags are Boolean (`Hub`); distinct players, finitely many
connections, ages that are natural numbers (`Presence`); positive
lifetimes, a code that does not outlive its receipt, `None` is no value
(`Sessions`); at least one attempt and an inbox of at
least two (`MatchClient`); two players, boards the rules can set up - a finite
set of cells, an even side of at least four, a camp of one piece at least -
and limits that are natural numbers (`Games`); `Nil` is no value and ships
have a length (`Battleship`); `Nobody` is no epoch and no journal
(`DeviceTransfer`).  TLC evaluates all of them in the runs.  `PeersCorrect`
assumes `~StoreFails` besides, as the run `live` does.

`Hub!After` counts instead of filtering with a recursive operator, and the
games' rules use `CHOOSE` over bounded sets: in modules with theorems nothing
is `RECURSIVE`.

*Only model-checked.*  Liveness (`OfflineMatchEnds`, `EveryoneCatchesUp`,
`ClosingEnds`, `ConnectReturns`, `LeftMatchesEnd`, `Settles`,
`TransfersSettle`) and anything with `ENABLED`: TLAPS does not reason about
fairness.  Every other property of a passing run is stated by a theorem.

## 7. What the models show

**Findings**, each a run in which TLC produces the counterexample:

1. `presence_observable` - `Presence.Connect` puts the connection into its map
   and releases `mu` before it writes the durable boundary
   (`presence.go:113-120`), while the comment at lines 77-78 promises the
   opposite.  A peer can be told "online" for a player whose offline timer still
   runs, and keeps believing it if the write then fails.
2. `presence_created` - a match nobody has connected to has no timer
   (`service.go:811`), so it is never abandoned and holds both slots until a
   restart; the design document promises 24 hours.
3. `session_fleet` - `battleship.Service.Act` commits without
   `auth.GuardTransaction` (`battleship/service.go:94`), so a request of the old
   device can be carried out after the new device has written; the transfer
   specification (line 17) says write transactions check again.

**Observations** that contradict no stated promise, and that the models
therefore allow:

* A device that was left behind in this run of the app (`migratedAway` still
  set) and receives the account again clears the collection it has just
  imported if deleting a journal fails after the token was written
  (`_performCredentialCleanup`).  The retry repairs it from the receipt; if the
  receipt's 24 hours pass first, the tickets are gone.  `NoDrawLost` excludes
  exactly the receipts that expire while they are needed (`lapsed`).
* Killing the old device between its credential cleanup and the deletion of
  the outgoing journal leaves it on the recovery page: `_cancelOutgoing` has no
  session to cancel with.
* A refused retry can leave an imported snapshot on disk with no account.
* In the client, a second snapshot, asked for after a stale answer, can clear
  `_pending_action` while a newer action is in flight; the event that follows
  puts the board right.  An `internal_error` that crosses an event costs an
  attempt.

**A hazard without a property**: the answer to a registration may be lost after
the commit (`auth/service.go:273`).  The invite is then spent and no device
holds a token; there is no receipt, and only a recovery code of the operator
reaches the account.  The models have this; there is no promise to check.

## 8. Not modelled, and why

* **Match history queries** (`matches/history.go`): read-only paging; no state.
* **Users**: lists and a nickname check; registration is in Sessions.
* **SQLite store and migrations** (`store/store.go`): opening, locking and
  migrating a file.  Its interleavings are with the file system and other
  processes; the models rely on what it provides, serialised immediate
  transactions.
* **Wire protocol**: strict decoding, pure functions without state.
* **Godot games** and **Flutter features**: presentation over the state modelled
  here; the Godot state modules repeat the server's rules.
* **Android host, deployment, tools, test utilities.**

Partly modelled: the **scratch collections** (whose session publishes is in
Sessions, a device's collection in DeviceTransfer; the merge of two
catalogues is a maximum of counts and is left out); the **HTTP API**
(authentication and publication, not routing and encoding); the **daemon** (boot,
both workers and the hub's shutdown; the order in which server, hub, workers
and store stop is left out); the **operator command** (recovery codes);
**configuration, clock and diagnostics** (the clock); the **Godot core** (not the
launch configuration and envelope decoding); the **Flutter session code** (not
registration on the device, tombstoned operations of a disposed controller and
the HTTP client).

## 9. Running

    tlc -workers 2 -config hub_feed.cfg MCHub
    tlapm HubProofs.tla

Each run takes less than about four minutes on two cores; the proofs take ten
to fifteen minutes from nothing, `HubProofs` about half of it.
