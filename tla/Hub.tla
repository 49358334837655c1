-------------------------------- MODULE Hub --------------------------------
(***************************************************************************)
(* The WebSocket hub's fan-out for one match (matches/hub.go), with the    *)
(* revocation of sessions (matches/session_revocation.go), the shutdown of *)
(* the hub and the game client at the other end of each transport.         *)
(*                                                                         *)
(* A connection is a slot that ServeHTTP takes and gives back.  The        *)
(* handler's goroutine is at one of Stages; its writeLoop is the pair      *)
(* Write, Heartbeat; close() runs when it is due (doomed).  A message is   *)
(* its kind and its revision: what a revision contains is the business of  *)
(* MatchService.                                                           *)
(***************************************************************************)
EXTENDS Integers, Sequences, FiniteSets

CONSTANTS
  Users,            \* the two players of the match
  Conns,            \* connection slots
  None,             \* no connection, no user
  MaxRevision,      \* bound on the match's revisions
  QueueCap,         \* webSocketSendQueueSize
  PendingCap,       \* webSocketPendingLimit
  Roaming,          \* the players who may lose or give up a transport
  NoticeLimit,      \* bound on presence notifications
  RevokeLimit,      \* bound on revocations
  Outsiders,        \* who else commits: "cancel", "worker"
  ClientSends,      \* the kinds of message clients send
  Chatty,           \* the players whose presence changes and whose clients send
                    \* more than new actions
  Stoppable,        \* the daemon may shut the hub down
  Crashable         \* the daemon may be killed and started again

ASSUME HubAssumption ==
  /\ IsFiniteSet(Users)
  /\ MaxRevision \in Nat /\ QueueCap \in Nat /\ PendingCap \in Nat
  /\ Roaming \subseteq Users /\ Chatty \subseteq Users /\ NoticeLimit \in Nat /\ RevokeLimit \in Nat
  /\ QueueCap >= 2
  /\ Outsiders \subseteq {"cancel", "worker"}
  /\ ClientSends \subseteq {"action", "repeat", "invalid", "request"}
  /\ Stoppable \in BOOLEAN /\ Crashable \in BOOLEAN
  /\ None \notin Users \cup Conns

VARIABLES
  head,         \* the match's durable revision
  outside,      \* the revision a cancellation or the abandonment worker has
                \* committed and not yet published, or 0
  closed,       \* hub.closed
  stopped,      \* hub.shutdownDone is closed
  members,      \* match.connections; the hubMatch exists while it is not empty
  published,    \* match.publishedRevision
  events,       \* the revisions in match.pendingEvents
  conn,         \* the connections and their handlers
  link,         \* the transport each player's client listens to
  view,         \* the revision each player's client shows
  sweeping,     \* players whose revocation is committed and not swept
  notices,      \* presence notifications so far
  revocations   \* revocations so far

feed == <<head, outside>>
match == <<members, published, events>>
client == <<link, view>>
admin == <<closed, stopped, sweeping, notices, revocations>>
vars == <<head, outside, closed, stopped, members, published, events, conn,
          link, view, sweeping, notices, revocations>>

----------------------------------------------------------------------------
(* Connections and their outbound queues                                    *)

\* Where a handler is: before registering; in its handshake; in readLoop; in
\* an operation that readLoop calls; or about to return.
Stages == {"idle", "serving", "registered", "readying", "refreshing",
           "reading", "publishing", "answering", "ending"}

\* What a message does to the client's board.  A notice (connected, error,
\* presence_changed) leaves it alone; its revision is only a label.
Kinds == {"snapshot", "event", "notice"}
Messages == [kind : Kinds, rev : 0..MaxRevision]

Connection ==
  [user : Users \cup {None},
   at : Stages,
   held : 0..MaxRevision,        \* revision of the snapshot or event in hand
   valid : BOOLEAN,              \* its credential is of the user's current epoch
   ready : BOOLEAN,
   rev : 0..MaxRevision,         \* connection.revision
   queue : Seq(Messages),        \* connection.send
   pending : Seq(0..MaxRevision),\* connection.pending
   told : SUBSET Users,          \* connection.presence
   doomed : BOOLEAN,             \* a call of close() is due
   shut : BOOLEAN]               \* close() has run

Fresh == [user |-> None, at |-> "idle", held |-> 0, valid |-> FALSE,
          ready |-> FALSE, rev |-> 0, queue |-> <<>>, pending |-> <<>>,
          told |-> {}, doomed |-> FALSE, shut |-> FALSE]

Message(kind, r) == [kind |-> kind, rev |-> r]
Smaller(m, n) == IF m < n THEN m ELSE n
NoticeMessage == Message("notice", 0)
Room(k) == QueueCap - Len(k.queue)

\* enqueue: the messages that fit; a message that does not fit is the
\* caller's to handle.
Put(k, messages) ==
  [k EXCEPT !.queue = @ \o SubSeq(messages, 1, Smaller(Room(k), Len(messages)))]

\* What is after r in an ascending sequence of revisions.
After(revs, r) ==
  SubSeq(revs, 1 + Cardinality({i \in DOMAIN revs : revs[i] <= r}), Len(revs))

\* Mutant: a full queue is not noticed.
PutEventsUnbounded(k, run) ==
  LET news == After(run, k.rev)
  IN [k EXCEPT !.queue = @ \o [i \in 1..Len(news) |-> Message("event", news[i])],
               !.rev = IF news = <<>> THEN @ ELSE news[Len(news)]]
\* enqueueEvent, for a run of consecutive revisions: those already covered
\* are stale; a connection whose queue is full is slow.
PutEvents(k, run) ==
  LET news == After(run, k.rev)
      sent == SubSeq(news, 1, Smaller(Room(k), Len(news)))
  IN [k EXCEPT !.queue = @ \o [i \in 1..Len(sent) |-> Message("event", sent[i])],
               !.rev = IF sent = <<>> THEN @ ELSE sent[Len(sent)],
               !.doomed = @ \/ Len(news) > Room(k)]

\* The other half of flushPublishedLocked: a connection still in its
\* handshake keeps the events for later.
Hold(k, run) ==
  LET kept == Smaller(PendingCap - Len(k.pending), Len(run))
  IN [k EXCEPT !.pending = @ \o SubSeq(run, 1, kept),
               !.doomed = @ \/ kept < Len(run)]

\* Mutant: an overtaken snapshot is sent all the same.
StateStaleNever(k, s) == FALSE
\* enqueueState of a snapshot of revision s: refused when the connection has
\* been told more, or when the queue is full.
StateStale(k, s) == s < k.rev

StateFits(k, s) == ~StateStale(k, s) /\ Room(k) >= 1

PutState(k, s) == [k EXCEPT !.queue = Append(@, Message("snapshot", s)),
                            !.rev = s]

----------------------------------------------------------------------------
(* flushPublishedLocked                                                     *)

\* Mutant: one event at a time.
RunOnce(p, ev) == IF p + 1 \in ev THEN <<p + 1>> ELSE <<>>
\* The run of revisions that can be delivered after p, given the pending
\* events ev, and what is left of ev.
Run(p, ev) ==
  LET length == Cardinality({r \in ev : r > p /\ p+1..r \subseteq ev})
  IN [i \in 1..length |-> p + i]

\* A quantifier over one value, here and in MarkReady, is a local variable.
Flush(p, ev, cs) ==
  \E run \in {Run(p, ev)} :
     /\ published' = p + Len(run)
     /\ events' = {r \in ev : r > p + Len(run)}
     /\ conn' = [c \in Conns |->
                   CASE c \notin members -> cs[c]
                     [] c \in members /\ cs[c].ready -> PutEvents(cs[c], run)
                     [] OTHER -> Hold(cs[c], run)]

----------------------------------------------------------------------------
Init ==
  /\ head = 0 /\ outside = 0
  /\ closed = FALSE /\ stopped = FALSE
  /\ members = {} /\ published = 0 /\ events = {}
  /\ conn = [c \in Conns |-> Fresh]
  /\ link = [u \in Users |-> None]
  /\ view = [u \in Users |-> 0]
  /\ sweeping = {} /\ notices = 0 /\ revocations = 0

\* c's handler returns: its deferred close() is due, unless close() has run
\* already and the slot is free.
Returned(k) == IF k.shut THEN Fresh ELSE [k EXCEPT !.at = "ending", !.doomed = TRUE]
Returns(c) == conn' = [conn EXCEPT ![c] = Returned(conn[c])]

----------------------------------------------------------------------------
(* ServeHTTP                                                                *)

\* u's client dials, having let go of its last transport, and its credential
\* is accepted; presence.Connect is under way.
Accept(c, u) ==
  /\ conn[c].at = "idle" /\ link[u] = None
  /\ ~closed
  /\ conn' = [conn EXCEPT ![c] = [Fresh EXCEPT !.user = u, !.at = "serving",
                                               !.valid = TRUE]]
  /\ link' = [link EXCEPT ![u] = c]
  /\ UNCHANGED <<feed, match, view, admin>>

\* presence.Connect fails.
Refuse(c) ==
  /\ conn[c].at = "serving"
  /\ conn' = [conn EXCEPT ![c] = Fresh]
  /\ UNCHANGED <<feed, match, client, admin>>

\* Mutant: older transports of the player stay.
RegisterBeside(c) ==
  /\ conn[c].at = "serving"
  /\ IF closed
     THEN /\ conn' = [conn EXCEPT ![c] = Fresh]
          /\ UNCHANGED members
     ELSE /\ conn' = [conn EXCEPT ![c].at = "registered"]
          /\ members' = members \cup {c}
  /\ UNCHANGED <<feed, published, events, client, admin>>

\* Mutant: hub.closed is not looked at.
RegisterLate(c) ==
  /\ conn[c].at = "serving"
  /\ conn' = [d \in Conns |->
                CASE d = c -> [conn[c] EXCEPT !.at = "registered"]
                  [] d # c /\ d \in members /\ conn[d].user = conn[c].user
                       -> [conn[d] EXCEPT !.doomed = TRUE]
                  [] OTHER -> conn[d]]
  /\ members' = members \cup {c}
  /\ UNCHANGED <<feed, published, events, client, admin>>
\* register: the older transports of the same player are closed.  A hub that
\* is shutting down takes no more connections.
Register(c) ==
  /\ conn[c].at = "serving"
  /\ IF closed
     THEN /\ conn' = [conn EXCEPT ![c] = Fresh]
          /\ UNCHANGED members
     ELSE /\ conn' = [d \in Conns |->
                        CASE d = c -> [conn[c] EXCEPT !.at = "registered"]
                          [] d # c /\ d \in members /\ conn[d].user = conn[c].user
                               -> [conn[d] EXCEPT !.doomed = TRUE]
                          [] OTHER -> conn[d]]
          /\ members' = members \cup {c}
  /\ UNCHANGED <<feed, published, events, client, admin>>

\* Mutant: the credential is not checked again.
GreetTrusting(c) ==
  /\ conn[c].at = "registered"
  /\ LET k == conn[c]
         hello == <<NoticeMessage, Message("snapshot", head)>>
     IN IF k.shut \/ Room(k) < 2
        THEN Returns(c)
        ELSE conn' = [conn EXCEPT ![c] =
               [Put(k, hello) EXCEPT !.rev = head, !.held = head, !.at = "readying"]]
  /\ UNCHANGED <<feed, match, client, admin>>
\* The credential is checked again, now that a revocation can see c; then
\* service.Snapshot and enqueueInitial: both messages or none.
Greet(c) ==
  /\ conn[c].at = "registered"
  /\ LET k == conn[c]
         hello == <<NoticeMessage, Message("snapshot", head)>>
     IN IF k.shut \/ ~k.valid \/ Room(k) < 2
        THEN Returns(c)
        ELSE conn' = [conn EXCEPT ![c] =
               [Put(k, hello) EXCEPT !.rev = head, !.held = head, !.at = "readying"]]
  /\ UNCHANGED <<feed, match, client, admin>>

\* markReady has found the snapshot stale: service.Snapshot, which fails when
\* close() has cancelled the context, and enqueueState.
Restate(c) ==
  /\ conn[c].at = "refreshing"
  /\ LET k == conn[c] IN
     IF k.shut \/ ~StateFits(k, head)
     THEN Returns(c)
     ELSE conn' = [conn EXCEPT ![c] =
            [PutState(k, head) EXCEPT !.held = head, !.at = "readying"]]
  /\ UNCHANGED <<feed, match, client, admin>>

\* markReady, first part: a peer that is behind the snapshot gets it too.
Resnapshot(k, s) ==
  IF k.rev >= s THEN k
  ELSE IF StateFits(k, s) THEN PutState(k, s)
  ELSE [k EXCEPT !.ready = FALSE, !.doomed = TRUE]

\* Mutant: peers are left to the events.
ResnapshottedNobody(c, s) == conn
Resnapshotted(c, s) ==
  [d \in Conns |-> IF d # c /\ d \in members /\ conn[d].ready /\ s > published
                   THEN Resnapshot(conn[d], s) ELSE conn[d]]

\* markReady, last part: c's own backlog of events and presence changes.
Replay(k, s) ==
  LET caught == PutEvents(k, After(k.pending, s))
      full == caught.doomed /\ ~k.doomed
      notes == [i \in 1..Cardinality(k.told) |-> NoticeMessage]
      queued == ~full /\ Len(notes) <= Room(caught)
  IN [Put(caught, IF full THEN <<>> ELSE notes)
        EXCEPT !.pending = <<>>, !.told = {},
               !.ready = queued,
               !.at = "reading",
               !.doomed = @ \/ ~queued]

MarkReady(c) ==
  /\ conn[c].at = "readying"
  /\ LET s == conn[c].held IN
     \/ /\ members = {}
        /\ Returns(c)
        /\ UNCHANGED <<published, events>>
     \/ /\ members # {} /\ s < published
        /\ conn' = [conn EXCEPT ![c].at = "refreshing"]
        /\ UNCHANGED <<published, events>>
     \/ /\ members # {} /\ s >= published
        /\ \E cs \in {Resnapshotted(c, s)}, run \in {Run(s, {r \in events : r > s})} :
           \E held \in {IF c \in members THEN Hold(cs[c], run) ELSE cs[c]} :
           \E mine \in {Replay(held, s)} :
              /\ published' = s + Len(run)
              /\ events' = {r \in events : r > s + Len(run)}
              /\ conn' = [d \in Conns |->
                            CASE d = c -> IF mine.ready THEN mine ELSE Returned(mine)
                              [] d # c /\ d \in members /\ cs[d].ready
                                   -> PutEvents(cs[d], run)
                              [] d # c /\ d \in members /\ ~cs[d].ready
                                   -> Hold(cs[d], run)
                              [] OTHER -> cs[d]]
  /\ UNCHANGED <<feed, members, client, admin>>

----------------------------------------------------------------------------
(* readLoop                                                                 *)

\* A message of a kind that clients send, on a credential that still holds.
Reading(c, kind) ==
  /\ conn[c].at = "reading" /\ ~conn[c].shut /\ conn[c].valid
  /\ kind \in ClientSends
  /\ kind # "action" => conn[c].user \in Chatty

\* readLoop returns because the transport is gone.
ReadFails(c) ==
  /\ conn[c].at = "reading"
  /\ conn[c].shut \/ link[conn[c].user] # c
  /\ Returns(c)
  /\ UNCHANGED <<feed, match, client, admin>>

\* A message arrives on a revoked credential: readLoop returns.
Unauthorized(c) ==
  /\ conn[c].at = "reading" /\ ~conn[c].valid /\ ClientSends # {}
  /\ Returns(c)
  /\ UNCHANGED <<feed, match, client, admin>>

\* Mutant: the event is published although the transaction has not committed.
ActEarly(c) ==
  /\ Reading(c, "action")
  /\ head < MaxRevision
  /\ conn' = [conn EXCEPT ![c].at = "publishing", ![c].held = head + 1]
  /\ UNCHANGED <<feed, match, client, admin>>
\* applyAction commits an action on the revision the client named.  The
\* transaction checks the credential again.
Act(c) ==
  /\ Reading(c, "action")
  /\ head < MaxRevision
  /\ head' = head + 1
  /\ conn' = [conn EXCEPT ![c].at = "publishing", ![c].held = head + 1]
  /\ UNCHANGED <<outside, match, client, admin>>

\* applyAction finds the action already committed, as the event of revision r.
Repeat(c) ==
  /\ Reading(c, "repeat")
  /\ \E r \in 1..head :
       conn' = [conn EXCEPT ![c].at = "publishing", ![c].held = r]
  /\ UNCHANGED <<feed, match, client, admin>>

\* applyAction rejects the action, or a message is invalid: enqueueError.
Reject(c) ==
  /\ Reading(c, "invalid")
  /\ LET k == conn[c] IN
     conn' = [conn EXCEPT ![c] =
       IF Room(k) >= 1 THEN Put(k, <<NoticeMessage>>)
                       ELSE [k EXCEPT !.doomed = TRUE]]
  /\ UNCHANGED <<feed, match, client, admin>>

\* A snapshot request, or an action on a revision that is not current: both
\* are answered with the snapshot read now.
Request(c) ==
  /\ Reading(c, "request")
  /\ conn' = [conn EXCEPT ![c].at = "answering", ![c].held = head]
  /\ UNCHANGED <<feed, match, client, admin>>

\* sendLatestSnapshot, and sendStaleResponse with its error before the
\* snapshot: a snapshot that has been overtaken is read again, which fails
\* once close() has run; a full queue closes the connection.
Answer(c) ==
  /\ conn[c].at = "answering"
  /\ \E apology \in {<<>>, <<NoticeMessage>>} :
       LET k == conn[c] IN
       conn' = [conn EXCEPT ![c] =
         IF StateStale(k, k.held) /\ ~k.shut THEN [k EXCEPT !.held = head]
         ELSE IF StateStale(k, k.held) THEN [k EXCEPT !.at = "reading"]
         ELSE IF Room(k) < Len(apology) + 1 THEN [k EXCEPT !.doomed = TRUE, !.at = "reading"]
         ELSE [PutState(Put(k, apology), k.held) EXCEPT !.at = "reading"]]
  /\ UNCHANGED <<feed, match, client, admin>>

----------------------------------------------------------------------------
(* Publish                                                                  *)

\* Mutant: an event that comes early is dropped.
PublishEventInOrder(r, cs) ==
  IF closed \/ members = {} \/ r # published + 1
  THEN /\ conn' = cs
       /\ UNCHANGED <<published, events>>
  ELSE Flush(published, events \cup {r}, cs)
PublishEvent(r, cs) ==
  IF closed \/ members = {} \/ r <= published
  THEN /\ conn' = cs
       /\ UNCHANGED <<published, events>>
  ELSE Flush(published, events \cup {r}, cs)

\* The handler publishes the event of its action.
Publish(c) ==
  /\ conn[c].at = "publishing"
  /\ PublishEvent(conn[c].held, [conn EXCEPT ![c].at = "reading"])
  /\ UNCHANGED <<feed, members, client, admin>>

\* Commits from outside the hub: a player cancels over HTTP before the first
\* action, or the worker abandons a match nobody is connected to.
CancelCommit ==
  /\ "cancel" \in Outsiders /\ outside = 0 /\ head = 0 /\ head < MaxRevision
  /\ head' = 1 /\ outside' = 1
  /\ UNCHANGED <<match, conn, client, admin>>

AbandonCommit ==
  /\ "worker" \in Outsiders /\ outside = 0 /\ head < MaxRevision
  /\ \A c \in Conns : conn[c].at = "idle"
  /\ head' = head + 1 /\ outside' = head + 1
  /\ UNCHANGED <<match, conn, client, admin>>

\* Whoever committed publishes.
PublishOutside ==
  /\ outside # 0
  /\ PublishEvent(outside, conn)
  /\ outside' = 0
  /\ UNCHANGED <<head, members, client, admin>>

\* playerPresenceChanged(u): a ready connection is told; the others remember.
PresenceChanged(u) ==
  /\ u \in Chatty /\ notices < NoticeLimit /\ ~closed
  /\ notices' = notices + 1
  /\ conn' = [c \in Conns |->
       LET k == conn[c] IN
       CASE c \notin members -> k
         [] c \in members /\ ~k.ready -> [k EXCEPT !.told = @ \cup {u}]
         [] c \in members /\ k.ready /\ Room(k) >= 1 -> Put(k, <<NoticeMessage>>)
         [] OTHER -> [k EXCEPT !.ready = FALSE, !.doomed = TRUE]]
  /\ UNCHANGED <<feed, match, client, closed, stopped, sweeping, revocations>>

----------------------------------------------------------------------------
(* writeLoop and close                                                      *)

\* The stages at which the writer runs.
Writing(c) == conn[c].at \notin {"idle", "serving"} /\ ~conn[c].shut

\* The oldest queued message reaches the client.  Its board takes an event
\* that follows it and a snapshot that is not older; it drops the transport
\* on an older snapshot.  A client that has gone hears nothing.
Write(c) ==
  /\ Writing(c) /\ conn[c].queue # <<>>
  /\ LET k == conn[c]  u == k.user  m == Head(k.queue) IN
     /\ conn' = [conn EXCEPT ![c].queue = Tail(@)]
     /\ CASE link[u] = c /\ m.kind = "event" /\ m.rev = view[u] + 1
               -> view' = [view EXCEPT ![u] = m.rev] /\ UNCHANGED link
          [] link[u] = c /\ m.kind = "snapshot" /\ m.rev >= view[u]
               -> view' = [view EXCEPT ![u] = m.rev] /\ UNCHANGED link
          [] link[u] = c /\ m.kind = "snapshot" /\ m.rev < view[u]
               -> link' = [link EXCEPT ![u] = None] /\ UNCHANGED view
          [] OTHER -> UNCHANGED client
  /\ UNCHANGED <<feed, match, admin>>

\* Mutant: the tick only pings.
HeartbeatTrusting(c) == FALSE /\ UNCHANGED vars
\* The writer's tick finds the credential revoked.
Heartbeat(c) ==
  /\ Writing(c) /\ ~conn[c].valid /\ ~conn[c].doomed
  /\ conn' = [conn EXCEPT ![c].doomed = TRUE]
  /\ UNCHANGED <<feed, match, client, admin>>

\* A write fails, or nothing has been heard for the activity timeout.
TransportFails(c) ==
  /\ Writing(c) /\ ~conn[c].doomed
  /\ link[conn[c].user] # c
  /\ conn' = [conn EXCEPT ![c].doomed = TRUE]
  /\ UNCHANGED <<feed, match, client, admin>>

\* close(): the last connection takes the hubMatch with it, nobody reads c's
\* queue any more, and the slot is free if the handler has returned.
Close(c) ==
  /\ conn[c].doomed /\ ~conn[c].shut
  /\ members' = members \ {c}
  /\ published' = IF members' = {} THEN 0 ELSE published
  /\ events' = IF members' = {} THEN {} ELSE events
  /\ conn' = [conn EXCEPT ![c] =
       IF @.at = "ending" THEN Fresh ELSE [@ EXCEPT !.shut = TRUE, !.queue = <<>>]]
  /\ UNCHANGED <<feed, client, admin>>

----------------------------------------------------------------------------
(* The client's transport                                                   *)

\* The client gives its transport up, on its own account or the network's.
Hangup(u) ==
  /\ u \in Roaming /\ link[u] # None
  /\ link' = [link EXCEPT ![u] = None]
  /\ UNCHANGED <<feed, match, conn, view, admin>>

\* The client learns that the server has closed it.
Notice(u) ==
  /\ link[u] # None
  /\ conn[link[u]].shut \/ conn[link[u]].user # u
  /\ link' = [link EXCEPT ![u] = None]
  /\ UNCHANGED <<feed, match, conn, view, admin>>

----------------------------------------------------------------------------
(* Revocation, shutdown, restart                                            *)

\* A device transfer of u commits: the credentials in use are of an old epoch.
Revoke(u) ==
  /\ revocations < RevokeLimit
  /\ revocations' = revocations + 1
  /\ sweeping' = sweeping \cup {u}
  /\ conn' = [c \in Conns |-> IF conn[c].user = u THEN [conn[c] EXCEPT !.valid = FALSE]
                                                  ELSE conn[c]]
  /\ UNCHANGED <<feed, match, client, closed, stopped, notices>>

\* DisconnectRevokedUser.
Sweep(u) ==
  /\ u \in sweeping
  /\ sweeping' = sweeping \ {u}
  /\ conn' = [c \in Conns |->
                IF c \in members /\ conn[c].user = u /\ ~conn[c].valid
                THEN [conn[c] EXCEPT !.doomed = TRUE] ELSE conn[c]]
  /\ UNCHANGED <<feed, match, client, closed, stopped, notices, revocations>>

\* Mutant: registered connections are not closed.
ShutdownLazy ==
  /\ Stoppable /\ ~closed
  /\ closed' = TRUE
  /\ UNCHANGED <<feed, match, conn, client, stopped, sweeping, notices, revocations>>
\* Hub.Close marks the hub closed and closes what is registered.
Shutdown ==
  /\ Stoppable /\ ~closed
  /\ closed' = TRUE
  /\ conn' = [c \in Conns |-> IF c \in members THEN [conn[c] EXCEPT !.doomed = TRUE]
                                               ELSE conn[c]]
  /\ UNCHANGED <<feed, match, client, stopped, sweeping, notices, revocations>>

\* endServe of the last handler: handlersDone, then shutdownDone.
ShutdownDone ==
  /\ closed /\ ~stopped
  /\ \A c \in Conns : conn[c].at = "idle"
  /\ stopped' = TRUE
  /\ UNCHANGED <<feed, match, conn, client, closed, sweeping, notices, revocations>>

\* The process dies, with everything but the database, and starts again.
Restart ==
  /\ Crashable
  /\ outside' = 0 /\ closed' = FALSE /\ stopped' = FALSE
  /\ members' = {} /\ published' = 0 /\ events' = {}
  /\ conn' = [c \in Conns |-> Fresh]
  /\ link' = [u \in Users |-> None]
  /\ sweeping' = {}
  /\ UNCHANGED <<head, view, notices, revocations>>

----------------------------------------------------------------------------
Handshake(c) == Register(c) \/ Greet(c) \/ MarkReady(c) \/ Restate(c)

Handler(c) == Handshake(c) \/ ReadFails(c) \/ Answer(c) \/ Publish(c)

Incoming(c) == Unauthorized(c) \/ Act(c) \/ Repeat(c) \/ Reject(c) \/ Request(c)

Writer(c) == Write(c) \/ Heartbeat(c) \/ TransportFails(c)

Next ==
  \/ \E c \in Conns : \/ \E u \in Users : Accept(c, u)
                      \/ Refuse(c) \/ Handler(c) \/ Incoming(c)
                      \/ Writer(c) \/ Close(c)
  \/ \E u \in Users : \/ PresenceChanged(u) \/ Hangup(u) \/ Notice(u)
                      \/ Revoke(u) \/ Sweep(u)
  \/ CancelCommit \/ AbandonCommit \/ PublishOutside
  \/ Shutdown \/ ShutdownDone \/ Restart

Spec == Init /\ [][Next]_vars

\* The goroutines run, a due close() happens, writes complete or fail, the
\* heartbeat ticks and a client notices that its transport is closed.
\* Nothing obliges a client to dial, to act or to stay.
Fairness ==
  /\ \A c \in Conns : WF_vars(Handler(c)) /\ WF_vars(Writer(c)) /\ WF_vars(Close(c))
  /\ \A u \in Users : WF_vars(Notice(u))
  /\ WF_vars(PublishOutside) /\ WF_vars(ShutdownDone)

FairSpec == Spec /\ Fairness

----------------------------------------------------------------------------
(* Properties                                                               *)

TypeOK ==
  /\ head \in 0..MaxRevision /\ outside \in 0..MaxRevision
  /\ closed \in BOOLEAN /\ stopped \in BOOLEAN
  /\ members \subseteq Conns
  /\ published \in 0..MaxRevision /\ events \subseteq 1..MaxRevision
  /\ conn \in [Conns -> Connection]
  /\ \A c \in Conns : /\ Len(conn[c].queue) <= QueueCap
                      /\ Len(conn[c].pending) <= PendingCap
  /\ link \in [Users -> Conns \cup {None}]
  /\ view \in [Users -> 0..MaxRevision]
  /\ sweeping \subseteq Users
  /\ notices \in 0..NoticeLimit /\ revocations \in 0..RevokeLimit

\* The messages of s that change a board; i and j are two with none between.
IsState(m) == m.kind # "notice"
NoneBetween(s, i, j) == \A n \in i+1 .. j-1 : ~IsState(s[n])

\* A board that takes every state message of s in turn never misses an event
\* and never goes back ...
Unbroken(s) ==
  \A i, j \in DOMAIN s : i < j /\ IsState(s[i]) /\ IsState(s[j]) /\ NoneBetween(s, i, j) =>
    IF s[j].kind = "event" THEN s[j].rev = s[i].rev + 1 ELSE s[j].rev >= s[i].rev

\* ... and ends at revision r.
EndsAt(s, r) ==
  \A i \in DOMAIN s : IsState(s[i]) /\ NoneBetween(s, i, Len(s) + 1) => s[i].rev = r

\* What a client's board has shown and will: its revision v is a snapshot that
\* it has had.
Stream(v, q) == <<Message("snapshot", v)>> \o q

\* The stream of a connection that is not being closed has no gap and never
\* goes back, through handshakes, resnapshots of peers and repeated
\* publications, and connection.revision is what its client will show
\* (hub.go:708-808).
FeedUnbroken ==
  \A c \in members :
    LET k == conn[c] IN
    link[k.user] = c /\ ~k.doomed
      /\ k.at \notin {"registered", "ending"}
      => /\ Unbroken(Stream(view[k.user], k.queue))
         /\ EndsAt(Stream(view[k.user], k.queue), k.rev)

\* The publication watermark never advances past a ready connection
\* (the comment at hub.go:541-543).
NoOneLeftBehind ==
  \A c \in members : conn[c].ready /\ ~conn[c].doomed => conn[c].rev >= published

\* An event waits in pendingEvents only while the one before it is still in
\* its publisher's hands, or while nobody has finished a handshake
\* (hub.go:697-716).
InHand(r) == outside = r \/ \E c \in Conns : conn[c].at = "publishing" /\ conn[c].held = r
WaitingHasCause ==
  events # {} => \/ closed
                 \/ InHand(published + 1)
                 \/ \A c \in members : ~conn[c].ready

\* Neither a player nor an event is left behind: both of the above
\* (markReady and flushPublishedLocked).
NothingHeldBack == NoOneLeftBehind /\ WaitingHasCause

\* A player has at most one transport that is not being closed
\* (hub.go:416-428).
OneTransport ==
  \A c, d \in members : conn[c].user = conn[d].user /\ ~conn[c].doomed
                          /\ ~conn[d].doomed => c = d

\* Once a revocation has been swept, no connection authenticated before it
\* gets past the second credential check (hub.go:327-335,
\* session_revocation.go:21-41).
RevokedIsCutOff ==
  \A c \in members : ~conn[c].valid /\ conn[c].user \notin sweeping
                       /\ conn[c].at # "registered" => conn[c].doomed

\* No transport outlives the hub: none registers once it is closed, and none
\* is left when Close says it is done (hub.go:404-474, 495-521).
NothingOutlivesHub ==
  /\ closed => \A c \in members : conn[c].doomed
  /\ stopped => members = {} /\ \A c \in Conns : conn[c].at = "idle"

\* A transport that is superseded, revoked or of a closed hub is being closed,
\* wherever its handshake was: the three above (Hub.register, the second
\* credential check, Hub.Close).
NoStrayTransport == OneTransport /\ RevokedIsCutOff /\ NothingOutlivesHub

\* The hub implements the feed of MatchFeed: what a player sees is durable
\* and never goes back, over reconnections and restarts.
Feed == INSTANCE MatchFeed
          WITH Users <- Users, MaxRevision <- MaxRevision, head <- head, view <- view
FeedSpec == Feed!Spec

\* A player whose transport stays up sees every durable revision
\* (hub.go:1040-1043, 700-734).
EveryoneCatchesUp ==
  \A u \in Users, r \in 1..MaxRevision :
    head >= r /\ link[u] # None ~> view[u] >= r \/ link[u] = None

\* A connection authenticated before a revocation is closed, swept or not
\* (hub.go:884-888).
RevokedIsClosed ==
  \A c \in Conns : conn[c].at # "idle" /\ ~conn[c].valid ~> conn[c].at = "idle" \/ conn[c].valid

\* Hub.Close finishes (hub.go:461-474).
ShutdownEnds == closed ~> stopped \/ ~closed

\* What has to be closed is closed in the end, by the heartbeat or by
\* Hub.Close: both of the above.
ClosingEnds == RevokedIsClosed /\ ShutdownEnds
============================================================================
