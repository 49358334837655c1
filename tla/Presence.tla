------------------------------ MODULE Presence ------------------------------
(***************************************************************************)
(* Who is connected to one match                                           *)
(* (src/server/internal/matches/presence.go), the row of the match it      *)
(* writes, and the handshakes and closes of hub.go that call it.  Presence *)
(* handles every match independently under that match's operation lock, so *)
(* one match is enough.                                                    *)
(*                                                                         *)
(* A goroutine is a thread with a label: one per connection, which first   *)
(* runs Presence.Connect, then serves and then runs Presence.Disconnect,   *)
(* and one for the expiry worker.  Times are kept as ages, so the clock    *)
(* needs no bound.                                                         *)
(***************************************************************************)
EXTENDS Integers, Sequences, FiniteSets

CONSTANTS
    Black, White,              \* the two players of the match
    BlackConns, WhiteConns,    \* connection ids each of them may use
    Timeout,                   \* presenceConnectionTimeout, 45 s
    OfflineAfter,              \* fullyOfflineAbandonAfter, 24 h
    StoreFails,                \* the durable write may return an error
    JustCreated,               \* nobody has connected to the match yet
    None

ASSUME PlayersAssumption ==
    /\ Black # White /\ BlackConns \cap WhiteConns = {}
    /\ None \notin BlackConns \cup WhiteConns
    /\ "sweeper" \notin BlackConns \cup WhiteConns \cup {None}
    /\ IsFiniteSet(BlackConns) /\ IsFiniteSet(WhiteConns)

ASSUME AgesAssumption == Timeout \in Nat /\ OfflineAfter \in Nat

ASSUME FlagsAssumption == StoreFails \in BOOLEAN /\ JustCreated \in BOOLEAN

VARIABLES
    keys,       \* Presence.connections: the connections it knows
    age,        \* time since a connection was last heard of
    pc,         \* where each thread stands
    operation,  \* Presence.operations[match]: the lock in the map, 0 if none
    refs,       \* its references
    token,      \* its channel: the thread holding it
    ptr,        \* the lock a thread has a pointer to
    swept,      \* connections the running sweep found or took out
    notes,      \* boundaries not yet delivered to the hub, in commit order
    notifying,  \* connections the delivery of the first one has to close
    told,       \* what each client has been told about both players
    late,       \* hubConnection.presence: retained until the client is ready
    status,     \* matches.status
    timer,      \* age of matches.both_offline_since
    visited     \* history: the row has been written by a connect or a boot

memory == <<keys, age>>
lock == <<operation, refs, token, ptr>>
queued == <<notes, notifying>>
clients == <<told, late>>
row == <<status, timer, visited>>
presenceVars == <<memory, pc, lock, swept, queued, clients, row>>

Players == {Black, White}
Conns == BlackConns \cup WhiteConns
Sweeper == "sweeper"
Threads == Conns \cup {Sweeper}
Owner(c) == IF c \in BlackConns THEN Black ELSE White
Never == -1

Entries == 1 .. 2    \* locks that can be told apart
Labels == {"none", "connect_wait", "connect_hold", "connect_store",
           "connect_told", "connected", "joined", "greeted", "up", "closing",
           "disconnect_wait", "disconnect_hold", "disconnect_store",
           "sweep_wait", "sweep_hold", "sweep_store", "failed"}
Critical == {"connect_hold", "connect_store", "disconnect_hold",
             "disconnect_store", "sweep_hold", "sweep_store"}
InHub == {"joined", "greeted", "up"}          \* hubMatch.connections
Leaving == {"closing", "disconnect_wait", "disconnect_hold", "disconnect_store"}

Known == {"online", "offline", "unknown"}
Untold == [u \in Players |-> "unknown"]

(* playerOnlineLocked, matchOnlineLocked *)
OnlineIn(set, u) == \E c \in set : Owner(c) = u
IsOnline(u) == OnlineIn(keys, u)
(* Mutant: players without a connection are left out of the handshake.     *)
ViewOnlineOnly == [u \in {p \in Players : IsOnline(p)} |-> "online"]

View == [u \in Players |-> IF IsOnline(u) THEN "online" ELSE "offline"]

Goto(t, label) == pc' = [pc EXCEPT ![t] = label]

PresenceInit ==
    /\ keys = {} /\ age = [c \in Conns |-> 0]
    /\ pc = [t \in Threads |-> "none"]
    /\ operation = 0
    /\ refs = [e \in Entries |-> 0]
    /\ token = [e \in Entries |-> None]
    /\ ptr = [t \in Threads |-> 0]
    /\ swept = {}
    /\ notes = <<>> /\ notifying = {}
    /\ told = [c \in Conns |-> Untold]
    /\ late = [c \in Conns |-> Untold]
    /\ status = "active"
    /\ timer = IF JustCreated THEN Never ELSE 0
    /\ visited = ~JustCreated

-----------------------------------------------------------------------------
(***************************************************************************)
(* acquireMatchOperation.  A thread takes a reference to the lock of the   *)
(* map, making one if there is none, then waits for its token.  Whoever    *)
(* gives back the last reference removes the lock from the map.            *)
(***************************************************************************)
Reference(t) ==
    LET e == IF operation = 0 THEN CHOOSE x \in Entries : refs[x] = 0 ELSE operation
    IN  /\ operation' = e
        /\ refs' = [refs EXCEPT ![e] = @ + 1]
        /\ ptr' = [ptr EXCEPT ![t] = e]
        /\ UNCHANGED token

Grant(t) ==
    /\ token[ptr[t]] = None
    /\ token' = [token EXCEPT ![ptr[t]] = t]
    /\ UNCHANGED <<operation, refs, ptr>>

(* Mutant: the lock is thrown away although others still wait for it.      *)
UnreferenceAlways(t) ==
    /\ refs' = [refs EXCEPT ![ptr[t]] = @ - 1]
    /\ operation' = IF operation = ptr[t] THEN 0 ELSE operation
    /\ ptr' = [ptr EXCEPT ![t] = 0]

Unreference(t) ==
    /\ refs' = [refs EXCEPT ![ptr[t]] = @ - 1]
    /\ operation' = IF refs[ptr[t]] = 1 /\ operation = ptr[t] THEN 0 ELSE operation
    /\ ptr' = [ptr EXCEPT ![t] = 0]

Release(t) ==
    /\ token' = [token EXCEPT ![ptr[t]] = None]
    /\ Unreference(t)

(* The context of the caller ends while it waits for the token.            *)
GiveUp(t) == Unreference(t) /\ UNCHANGED token

(* prepareNotification, called with the lock held *)
Boundary(u, online, by) == [user |-> u, online |-> online, by |-> by]
Announce(new) == notes' = notes \o new /\ UNCHANGED notifying

-----------------------------------------------------------------------------
(***************************************************************************)
(* Service.setPlayerPresence on the row of the match.                      *)
(***************************************************************************)
StoreOnline ==
    /\ timer' = IF status = "active" THEN Never ELSE timer
    /\ visited' = TRUE
    /\ UNCHANGED status

StoreOffline ==
    /\ timer' = IF status = "active" /\ timer = Never THEN 0 ELSE timer
    /\ UNCHANGED <<status, visited>>

-----------------------------------------------------------------------------
(***************************************************************************)
(* Presence.Connect, called by Hub.ServeHTTP with a new connection id.     *)
(***************************************************************************)
ConnectStart(c) ==
    /\ pc[c] = "none" /\ c \notin keys \cup swept \cup notifying
    /\ Reference(c)
    /\ Goto(c, "connect_wait")
    /\ UNCHANGED <<memory, swept, queued, clients, row>>

ConnectAcquire(c) ==
    /\ pc[c] = "connect_wait"
    /\ \/ Grant(c) /\ Goto(c, "connect_hold")
       \/ GiveUp(c) /\ Goto(c, "none")
    /\ UNCHANGED <<memory, swept, queued, clients, row>>

ConnectInsert(c) ==
    /\ pc[c] = "connect_hold"
    /\ keys' = keys \cup {c}
    /\ age' = [age EXCEPT ![c] = 0]
    /\ IF IsOnline(Owner(c))
       THEN Release(c) /\ Goto(c, "connected")
       ELSE Goto(c, "connect_store") /\ UNCHANGED lock
    /\ UNCHANGED <<swept, queued, clients, row>>

ConnectStore(c) ==
    /\ pc[c] = "connect_store"
    /\ StoreOnline
    /\ Announce(<<Boundary(Owner(c), "online", c)>>)
    /\ Release(c)
    /\ Goto(c, "connect_told")
    /\ UNCHANGED <<memory, swept, clients>>

ConnectFails(c) ==
    /\ pc[c] = "connect_store" /\ StoreFails
    /\ keys' = keys \ {c}
    /\ Release(c)
    /\ Goto(c, "none")
    /\ UNCHANGED <<age, swept, queued, clients, row>>

(* Connect returns once its own boundary has been delivered.               *)
ConnectReturn(c) ==
    /\ pc[c] = "connect_told"
    /\ \A i \in DOMAIN notes : notes[i].by # c
    /\ Goto(c, "connected")
    /\ UNCHANGED <<memory, lock, swept, queued, clients, row>>

(***************************************************************************)
(* Hub: register supersedes the older transports of the player, closes     *)
(* them and goes on when they are closed; the first messages carry the     *)
(* online states; markReady hands over what was retained meanwhile.        *)
(***************************************************************************)
Register(c) ==
    LET previous == {d \in Conns \ {c} : Owner(d) = Owner(c) /\ pc[d] \in InHub}
    IN  /\ pc[c] = "connected"
        /\ pc' = [t \in Threads |-> IF t = c THEN "joined"
                                    ELSE IF t \in previous THEN "closing" ELSE pc[t]]
        /\ told' = [d \in Conns |-> IF d \in previous \cup {c} THEN Untold ELSE told[d]]
        /\ late' = [d \in Conns |-> IF d \in previous \cup {c} THEN Untold ELSE late[d]]
        /\ UNCHANGED <<memory, lock, swept, queued, row>>

Greet(c) ==
    /\ pc[c] = "joined"
    /\ \A d \in Conns \ {c} : Owner(d) = Owner(c) => pc[d] \notin Leaving
    /\ told' = [told EXCEPT ![c] = View]
    /\ Goto(c, "greeted")
    /\ UNCHANGED <<memory, lock, swept, queued, late, row>>

(* Mutant: what happened during the handshake is not handed over.          *)
MarkReadyForgets(c) ==
    /\ pc[c] = "greeted"
    /\ late' = [late EXCEPT ![c] = Untold]
    /\ Goto(c, "up")
    /\ UNCHANGED <<memory, lock, swept, queued, told, row>>

MarkReady(c) ==
    /\ pc[c] = "greeted"
    /\ told' = [told EXCEPT ![c] = [u \in Players |->
          IF late[c][u] # "unknown" THEN late[c][u] ELSE told[c][u]]]
    /\ late' = [late EXCEPT ![c] = Untold]
    /\ Goto(c, "up")
    /\ UNCHANGED <<memory, lock, swept, queued, row>>

(* A valid message or pong of a connection that is still known.            *)
Touch(c) ==
    /\ pc[c] = "up" /\ c \in keys /\ age[c] # 0
    /\ age' = [age EXCEPT ![c] = 0]
    /\ swept' = swept \ {c}
    /\ UNCHANGED <<keys, pc, lock, queued, clients, row>>

(* hubConnection.close for any reason: client gone, deadline, revocation,  *)
(* swept away, slow.                                                       *)
ConnectionCloses(c) ==
    /\ pc[c] \in InHub
    /\ Goto(c, "closing")
    /\ told' = [told EXCEPT ![c] = Untold]
    /\ late' = [late EXCEPT ![c] = Untold]
    /\ UNCHANGED <<memory, lock, swept, queued, row>>

-----------------------------------------------------------------------------
(***************************************************************************)
(* Presence.Disconnect, called by hubConnection.close.                     *)
(***************************************************************************)
DisconnectStart(c) ==
    /\ pc[c] = "closing"
    /\ Reference(c)
    /\ Goto(c, "disconnect_wait")
    /\ UNCHANGED <<memory, swept, queued, clients, row>>

DisconnectAcquire(c) ==
    /\ pc[c] = "disconnect_wait"
    /\ \/ Grant(c) /\ Goto(c, "disconnect_hold")
       \/ GiveUp(c) /\ Goto(c, "none")
    /\ UNCHANGED <<memory, swept, queued, clients, row>>

(* Mutant: the timer is started when one player leaves, not both.          *)
DisconnectRemovePlayer(c) ==
    LET rest == keys \ {c}
    IN  /\ pc[c] = "disconnect_hold"
        /\ keys' = rest
        /\ IF c \in keys /\ ~OnlineIn(rest, Owner(c))
           THEN Goto(c, "disconnect_store") /\ UNCHANGED lock
           ELSE Release(c) /\ Goto(c, "none")
        /\ UNCHANGED <<age, swept, queued, clients, row>>

(* Mutant: earlier boundaries are waited for under the operation lock.     *)
DisconnectRemoveWaiting(c) ==
    LET rest == keys \ {c}
    IN  /\ pc[c] = "disconnect_hold"
        /\ keys' = rest
        /\ \/ /\ c \in keys /\ rest = {}
              /\ Goto(c, "disconnect_store")
              /\ UNCHANGED <<lock, queued>>
           \/ /\ c \in keys /\ rest # {} /\ ~OnlineIn(rest, Owner(c))
              /\ notes = <<>>
              /\ Announce(<<Boundary(Owner(c), "offline", None)>>)
              /\ Release(c) /\ Goto(c, "none")
           \/ /\ c \notin keys \/ OnlineIn(rest, Owner(c))
              /\ Release(c) /\ Goto(c, "none")
              /\ UNCHANGED queued
        /\ UNCHANGED <<age, swept, clients, row>>

DisconnectRemove(c) ==
    LET rest == keys \ {c}
    IN  /\ pc[c] = "disconnect_hold"
        /\ keys' = rest
        /\ \/ /\ c \in keys /\ rest = {}
              /\ Goto(c, "disconnect_store")
              /\ UNCHANGED <<lock, queued>>
           \/ /\ c \in keys /\ rest # {} /\ ~OnlineIn(rest, Owner(c))
              /\ Announce(<<Boundary(Owner(c), "offline", None)>>)
              /\ Release(c) /\ Goto(c, "none")
           \/ /\ c \notin keys \/ OnlineIn(rest, Owner(c))
              /\ Release(c) /\ Goto(c, "none")
              /\ UNCHANGED queued
        /\ UNCHANGED <<age, swept, clients, row>>

DisconnectStore(c) ==
    /\ pc[c] = "disconnect_store"
    /\ StoreOffline
    /\ Announce(<<Boundary(Owner(c), "offline", None)>>)
    /\ Release(c)
    /\ Goto(c, "none")
    /\ UNCHANGED <<memory, swept, clients>>

(* Mutant: a failed write does not bring the connection back.              *)
DisconnectFailsForgotten(c) ==
    /\ pc[c] = "disconnect_store" /\ StoreFails
    /\ Release(c)
    /\ Goto(c, "none")
    /\ UNCHANGED <<memory, swept, queued, clients, row>>

DisconnectFails(c) ==
    /\ pc[c] = "disconnect_store" /\ StoreFails
    /\ keys' = keys \cup {c}
    /\ Release(c)
    /\ Goto(c, "none")
    /\ UNCHANGED <<age, swept, queued, clients, row>>

-----------------------------------------------------------------------------
(***************************************************************************)
(* Presence.Sweep: the connections are listed and the time is taken before *)
(* the lock; a connection heard of since is not expired by that time.      *)
(***************************************************************************)
SweepStart ==
    /\ pc[Sweeper] = "none"
    /\ keys # {}
    /\ swept' = {c \in keys : age[c] > Timeout}
    /\ Reference(Sweeper)
    /\ Goto(Sweeper, "sweep_wait")
    /\ UNCHANGED <<memory, queued, clients, row>>

SweepAcquire ==
    /\ pc[Sweeper] = "sweep_wait"
    /\ Grant(Sweeper)
    /\ Goto(Sweeper, "sweep_hold")
    /\ UNCHANGED <<memory, swept, queued, clients, row>>

(* The boundaries of the players who have no connection left, by user id.  *)
Gone(expired, rest) ==
    LET gone(u) == IF OnlineIn(expired, u) /\ ~OnlineIn(rest, u)
                   THEN <<Boundary(u, "offline", None)>> ELSE <<>>
    IN  gone(Black) \o gone(White)

SweepRemove ==
    LET expired == swept \cap keys
        rest == keys \ expired
    IN  /\ pc[Sweeper] = "sweep_hold"
        /\ keys' = rest
        /\ IF expired # {} /\ rest = {}
           THEN /\ swept' = expired
                /\ Goto(Sweeper, "sweep_store")
                /\ UNCHANGED <<lock, queued>>
           ELSE /\ Announce(Gone(expired, rest))
                /\ swept' = {}
                /\ Release(Sweeper) /\ Goto(Sweeper, "none")
        /\ UNCHANGED <<age, clients, row>>

SweepStore ==
    /\ pc[Sweeper] = "sweep_store"
    /\ StoreOffline
    /\ Announce(Gone(swept, keys))
    /\ swept' = {}
    /\ Release(Sweeper)
    /\ Goto(Sweeper, "none")
    /\ UNCHANGED <<memory, clients>>

(* The worker returns the error, which shuts the daemon down.              *)
SweepFails ==
    /\ pc[Sweeper] = "sweep_store" /\ StoreFails
    /\ keys' = keys \cup swept
    /\ swept' = {}
    /\ Release(Sweeper)
    /\ Goto(Sweeper, "failed")
    /\ UNCHANGED <<age, queued, clients, row>>

-----------------------------------------------------------------------------
(***************************************************************************)
(* Delivery of the boundaries to Hub.playerPresenceChanged, one after the  *)
(* other.  A client whose queue is full is closed on the way, and the next *)
(* boundary waits for that close.                                          *)
(***************************************************************************)
Deliver ==
    LET note == Head(notes)
    IN  /\ notes # <<>> /\ notifying = {}
        /\ \E slow \in SUBSET {c \in Conns : pc[c] = "up"} :
             /\ told' = [c \in Conns |->
                   IF c \in slow THEN Untold
                   ELSE IF pc[c] = "up" THEN [told[c] EXCEPT ![note.user] = note.online]
                   ELSE told[c]]
             /\ pc' = [t \in Threads |-> IF t \in slow THEN "closing" ELSE pc[t]]
             /\ IF slow = {}
                THEN notes' = Tail(notes) /\ UNCHANGED notifying
                ELSE notifying' = slow /\ UNCHANGED notes
        /\ late' = [c \in Conns |->
              IF pc[c] \in {"joined", "greeted"}
              THEN [late[c] EXCEPT ![note.user] = note.online] ELSE late[c]]
        /\ UNCHANGED <<memory, lock, swept, row>>

Delivered ==
    /\ notifying # {}
    /\ \A c \in notifying : pc[c] \notin Leaving
    /\ notes' = Tail(notes) /\ notifying' = {}
    /\ UNCHANGED <<memory, pc, lock, swept, clients, row>>

-----------------------------------------------------------------------------
(***************************************************************************)
(* The rest of the service: the abandon worker, a match that ends for      *)
(* another reason, a restart of the process and the clock.                 *)
(***************************************************************************)
Abandon ==
    /\ status = "active" /\ timer # Never /\ timer >= OfflineAfter
    /\ status' = "ended" /\ timer' = Never
    /\ UNCHANGED <<memory, pc, lock, swept, queued, clients, visited>>

MatchEnds ==
    /\ status = "active"
    /\ status' = "ended" /\ timer' = Never
    /\ UNCHANGED <<memory, pc, lock, swept, queued, clients, visited>>

(* Mutant: the boot does not start the timers of active matches.           *)
RestartUntimed ==
    /\ keys' = {} /\ age' = [c \in Conns |-> 0]
    /\ pc' = [t \in Threads |-> "none"]
    /\ operation' = 0
    /\ refs' = [e \in Entries |-> 0]
    /\ token' = [e \in Entries |-> None]
    /\ ptr' = [t \in Threads |-> 0]
    /\ swept' = {} /\ notes' = <<>> /\ notifying' = {}
    /\ told' = [c \in Conns |-> Untold] /\ late' = [c \in Conns |-> Untold]
    /\ visited' = TRUE
    /\ UNCHANGED <<status, timer>>

Restart ==
    /\ keys' = {} /\ age' = [c \in Conns |-> 0]
    /\ pc' = [t \in Threads |-> "none"]
    /\ operation' = 0
    /\ refs' = [e \in Entries |-> 0]
    /\ token' = [e \in Entries |-> None]
    /\ ptr' = [t \in Threads |-> 0]
    /\ swept' = {} /\ notes' = <<>> /\ notifying' = {}
    /\ told' = [c \in Conns |-> Untold] /\ late' = [c \in Conns |-> Untold]
    /\ timer' = IF status = "active" /\ timer = Never THEN 0 ELSE timer
    /\ visited' = TRUE
    /\ UNCHANGED status

Older(n, limit) == IF n < limit THEN n + 1 ELSE n

TimePasses ==
    /\ age' = [c \in Conns |->
          IF c \in keys \cup swept \/ pc[c] = "disconnect_store"
          THEN Older(age[c], Timeout + 1) ELSE age[c]]
    /\ timer' = IF timer = Never THEN Never ELSE Older(timer, OfflineAfter)
    /\ UNCHANGED <<keys, pc, lock, swept, queued, clients, status, visited>>

-----------------------------------------------------------------------------
Connection(c) ==
    \/ ConnectAcquire(c) \/ ConnectInsert(c) \/ ConnectStore(c)
    \/ ConnectFails(c) \/ ConnectReturn(c)
    \/ Register(c) \/ Greet(c) \/ MarkReady(c)
    \/ DisconnectStart(c) \/ DisconnectAcquire(c) \/ DisconnectRemove(c)
    \/ DisconnectStore(c) \/ DisconnectFails(c)

Sweep ==
    SweepStart \/ SweepAcquire \/ SweepRemove \/ SweepStore \/ SweepFails

PresenceNext ==
    \/ \E c \in Conns : ConnectStart(c) \/ Connection(c) \/ Touch(c) \/ ConnectionCloses(c)
    \/ Sweep
    \/ Deliver \/ Delivered
    \/ Abandon \/ MatchEnds \/ Restart \/ TimePasses

PresenceSpec == PresenceInit /\ [][PresenceNext]_presenceVars

(* Goroutines and the clock go on, the two workers run periodically.       *)
Fairness ==
    /\ \A c \in Conns : WF_presenceVars(Connection(c))
    /\ WF_presenceVars(Sweep) /\ WF_presenceVars(Deliver) /\ WF_presenceVars(Delivered)
    /\ WF_presenceVars(Abandon) /\ WF_presenceVars(TimePasses)

PresenceFairSpec == PresenceSpec /\ Fairness

-----------------------------------------------------------------------------
(***************************************************************************)
(* Properties.                                                             *)
(***************************************************************************)
TypeOK ==
    /\ keys \subseteq Conns /\ swept \subseteq Conns /\ notifying \subseteq Conns
    /\ age \in [Conns -> 0 .. Timeout + 1]
    /\ pc \in [Threads -> Labels]
    /\ operation \in Entries \cup {0}
    /\ refs \in [Entries -> Nat]
    /\ token \in [Entries -> Threads \cup {None}]
    /\ ptr \in [Threads -> Entries \cup {0}]
    /\ notes \in Seq([user : Players, online : Known, by : Conns \cup {None}])
    /\ told \in [Conns -> [Players -> Known]]
    /\ late \in [Conns -> [Players -> Known]]
    /\ status \in {"active", "ended"}
    /\ timer \in {Never} \cup 0 .. OfflineAfter
    /\ visited \in BOOLEAN

(* Two operations of one match never overlap, although the lock they take  *)
(* is made, shared and thrown away on the fly (acquireMatchOperation and   *)
(* releaseMatchOperation).                                                 *)
OperationsExclusive ==
    \A s, t \in Threads : pc[s] \in Critical /\ pc[t] \in Critical => s = t

(* While a connection is known to presence and its Connect has returned,   *)
(* the offline timer of the match is stopped: a connected player is never  *)
(* abandoned, whatever other connections come, go, expire or fail to be    *)
(* written.                                                                *)
ConnectedStopsTimer ==
    \A c \in keys :
        pc[c] \in {"connected"} \cup InHub => status = "ended" \/ timer = Never

(* Once the match has been visited, it is never left with nobody connected *)
(* and no timer running, except inside an operation: such a match would    *)
(* keep both slots for ever (the order of the in-memory delete and the     *)
(* durable write, and the restores when the write fails).                  *)
EmptyMatchIsTimed ==
    (visited /\ status = "active" /\ keys = {}
       /\ \A t \in Threads : pc[t] \notin Critical) => timer # Never

(* The durable timer runs when, and only when, nobody is connected: both   *)
(* of the above (MarkPlayerOffline and MarkPlayerOnline against the map of *)
(* connections).                                                           *)
TimerFollowsPlayers == ConnectedStopsTimer /\ EmptyMatchIsTimed

(* When every operation and delivery has come to rest, each client has     *)
(* been told the truth about both players: boundaries are delivered in the *)
(* order they were committed, and the ones that fall into a handshake are  *)
(* retained (prepareNotification, playerPresenceChanged, markReady).       *)
PeersSettle ==
    ((\A c \in Conns : pc[c] \in {"none", "up"}) /\ pc[Sweeper] = "none"
       /\ notes = <<>>) =>
         \A c \in Conns : pc[c] = "up" => told[c] = View

(* "The durable online boundary is written before the connection becomes   *)
(* observable to other goroutines" (presence.go:77): whoever IsOnline      *)
(* reports as online in an active match, no offline timer runs.            *)
OnlineIsDurable ==
    \A u \in Players : IsOnline(u) => status = "ended" \/ timer = Never

(* Every boundary is delivered in the end and every Connect returns: the   *)
(* observer may close connections of the same match without waiting for    *)
(* itself (prepareNotification, Connect's wait for its own delivery).      *)
ConnectReturns ==
    \A c \in Conns :
        (pc[c] = "connect_told") ~> (pc[c] # "connect_told")

(* A match both players have left for good is ended: "both players offline *)
(* for 24 hours: the match becomes abandoned" (playable loop design, 60).  *)
LeftMatchEnds ==
    <>[](\A c \in Conns : pc[c] = "none") => <>(status = "ended")
=============================================================================
