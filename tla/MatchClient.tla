---------------------------- MODULE MatchClient ----------------------------
(***************************************************************************)
(* The client of one match (src/game_runtime/core/match_client.gd): it     *)
(* connects, tries again a bounded number of times, follows the stream of  *)
(* events, and asks for a snapshot when it cannot.  Retries, the handshake *)
(* watchdog and the inbound watchdog share the one slot of its scheduler.  *)
(* The network fails, hangs or closes at any moment; the hub is what the   *)
(* client sees of it, and what it sent before a close can still be read.   *)
(***************************************************************************)
EXTENDS Integers, Sequences

CONSTANTS MaxFailures,   \* MAX_FAILURES
          MaxRevision,   \* bound on the revisions a behaviour reaches
          MaxActions,    \* bound on the actions the player asks for
          InboxCap       \* bound on the messages in flight to the client

ASSUME ClientAssumption == /\ MaxFailures \in Nat \ {0}
                           /\ MaxRevision \in Nat /\ MaxActions \in Nat
                           /\ InboxCap \in Nat \ {0, 1}

VARIABLES
    state,      \* connection_state; "new" is closed and not started yet
    active,     \* _attempt_active
    sent,       \* _connect_sent
    awaiting,   \* _handshake_revision while _awaiting_initial_snapshot, or NoRevision
    requested,  \* _snapshot_requested
    failures,   \* _failure_count
    resume,     \* whether _resume_token is set; if not, the launch ticket is sent
    slot,       \* what _PollingScheduler will call, and whether it is due
    board,      \* the revision of _game_state
    pending,    \* its _pending_action: an action id and an expected_revision
    issued,     \* _issued_action_ids
    socket,     \* the transport as the client sees it
    inbox,      \* what the hub sent and the client has not read
    outbox,     \* what the client sent and the hub has not read
    link,       \* the hub's end of the transport
    answer,     \* what the hub is about to answer to an action
    head,       \* the durable revision of the match
    streamed,   \* the revision the hub's end has put on the stream
    own,        \* the client's last accepted action and the revision it made
    ticket      \* whether the launch ticket has not been used

attempt == <<state, active, sent, awaiting, requested, failures, resume, slot>>
game == <<board, pending, issued>>
network == <<socket, inbox, outbox, link, answer>>
match == <<head, streamed, own, ticket>>
vars == <<attempt, game, network, match>>

NoRevision == -1   \* as _handshake_revision and a missing expected_revision are
NoAction == [id |-> 0, expected |-> NoRevision]
Nothing == [kind |-> "none", due |-> FALSE]
NoAnswer == [id |-> 0, code |-> "none"]
Armed(kind) == [kind |-> kind, due |-> FALSE]

Over == state \in {"failed", "closed"}
Handshaking == state \in {"connecting", "reconnecting"} \/ awaiting # NoRevision
Settled == state = "connected" /\ awaiting = NoRevision

Init ==
    /\ state = "new" /\ active = FALSE /\ sent = FALSE
    /\ awaiting = NoRevision /\ requested = FALSE
    /\ failures = 0 /\ resume = FALSE /\ slot = Nothing
    /\ board = 0 /\ pending = NoAction /\ issued = 0
    /\ socket = "closed" /\ inbox = <<>> /\ outbox = <<>> /\ link = "broken" /\ answer = NoAnswer
    /\ head = 0 /\ streamed = 0 /\ own = [id |-> 0, revision |-> NoRevision] /\ ticket = TRUE

-----------------------------------------------------------------------------
(* Attempts. *)

\* _begin_attempt.
BeginAttempt(next) ==
    /\ state' = next /\ active' = TRUE /\ sent' = FALSE
    /\ awaiting' = NoRevision /\ requested' = FALSE /\ slot' = Armed("attempt")
    /\ socket' = "connecting" /\ inbox' = <<>> /\ outbox' = <<>>
    /\ link' = "broken" /\ answer' = NoAnswer
    /\ UNCHANGED <<failures, resume, game, match>>

\* _transport.close().
HangUp == /\ socket' = "closed" /\ inbox' = <<>> /\ outbox' = <<>>
          /\ link' = "broken" /\ answer' = NoAnswer

\* _fail.
Fail ==
    /\ state' = "failed" /\ active' = FALSE /\ awaiting' = NoRevision
    /\ resume' = FALSE /\ slot' = Nothing
    /\ HangUp

\* Mutant: the watchdog is cancelled last, and takes the retry with it.
AttemptFailedUnarmed ==
    /\ failures' = failures + 1 /\ sent' = FALSE
    /\ IF failures + 1 >= MaxFailures THEN Fail
       ELSE /\ state' = "reconnecting" /\ active' = FALSE /\ slot' = Nothing
            /\ HangUp
            /\ UNCHANGED <<awaiting, resume>>
    /\ UNCHANGED <<requested, match>>

\* _attempt_failed.
AttemptFailed ==
    /\ failures' = failures + 1 /\ sent' = FALSE
    /\ IF failures + 1 >= MaxFailures THEN Fail
       ELSE /\ state' = "reconnecting" /\ active' = FALSE /\ slot' = Armed("retry")
            /\ HangUp
            /\ UNCHANGED <<awaiting, resume>>
    /\ UNCHANGED <<requested, match>>

\* start; a client is started once.
Start == state = "new" /\ BeginAttempt("connecting")

\* _send_connect, from poll.
SendConnect ==
    /\ active /\ socket = "open" /\ ~sent
    /\ sent' = TRUE
    /\ outbox' = Append(outbox, [type |-> IF resume THEN "resume" ELSE "ticket"])
    /\ UNCHANGED <<state, active, awaiting, requested, failures, resume, slot,
                   game, socket, inbox, link, answer, match>>

\* _handle_transport_closed, once everything has been read.
TransportClosed ==
    /\ active /\ socket \in {"closed", "refused"} /\ inbox = <<>>
    /\ IF Handshaking /\ socket = "refused"
       THEN Fail /\ UNCHANGED <<sent, requested, failures, match>>
       ELSE AttemptFailed
    /\ UNCHANGED game

\* close.
Close ==
    /\ state # "new" /\ state # "closed"
    /\ state' = "closed" /\ active' = FALSE /\ sent' = FALSE /\ awaiting' = NoRevision
    /\ resume' = FALSE /\ slot' = Nothing
    /\ HangUp
    /\ UNCHANGED <<requested, failures, game, match>>

-----------------------------------------------------------------------------
(* The scheduler. *)

\* The delay of what is scheduled has passed.
Tick ==
    /\ slot # Nothing /\ ~slot.due
    /\ slot' = [slot EXCEPT !.due = TRUE]
    /\ UNCHANGED <<state, active, sent, awaiting, requested, failures, resume,
                   game, network, match>>

Elapsed ==
    /\ slot' = Nothing
    /\ UNCHANGED <<state, active, sent, awaiting, requested, failures, resume,
                   network, match>>

\* _run_retry and _on_watchdog.  Their generations move on whenever the slot
\* is cleared or filled, so what is still in it is of the current one.
Due ==
    /\ slot.due
    /\ CASE slot.kind = "retry" ->
              IF state = "reconnecting" THEN BeginAttempt("reconnecting") ELSE Elapsed
         [] slot.kind = "attempt" ->
              IF active /\ Handshaking THEN AttemptFailed ELSE Elapsed
         [] slot.kind = "inbound" ->
              IF active /\ Settled THEN AttemptFailed ELSE Elapsed
    /\ UNCHANGED game

-----------------------------------------------------------------------------
(* Messages. *)

\* _record_valid_inbound.
Recorded == slot' = IF Settled THEN Armed("inbound") ELSE slot

\* What a message leaves alone when it breaks nothing off.
GoesOn == UNCHANGED <<state, active, sent, awaiting, failures, resume, socket, link, answer, match>>

\* Mutant: a greeting is enough to have the whole budget again.
HandleConnectedAfresh(m) ==
    /\ IF state \in {"connecting", "reconnecting"}
       THEN /\ state' = "connected" /\ resume' = TRUE /\ awaiting' = m.revision
            /\ failures' = 0 /\ inbox' = Tail(inbox)
            /\ UNCHANGED <<active, sent, requested, slot, socket, outbox, link, answer, match>>
       ELSE AttemptFailed
    /\ UNCHANGED game

\* _handle_connected.
HandleConnected(m) ==
    /\ IF state \in {"connecting", "reconnecting"}
       THEN /\ state' = "connected" /\ resume' = TRUE /\ awaiting' = m.revision
            /\ inbox' = Tail(inbox)
            /\ UNCHANGED <<active, sent, requested, failures, slot,
                           socket, outbox, link, answer, match>>
       ELSE AttemptFailed
    /\ UNCHANGED game

\* _handle_snapshot and apply_snapshot.
HandleSnapshot(m) ==
    IF state = "connected" /\ awaiting \in {NoRevision, m.revision} /\ m.revision >= board
    THEN /\ board' = m.revision /\ pending' = NoAction
         /\ awaiting' = NoRevision /\ requested' = FALSE /\ failures' = 0
         /\ slot' = Armed("inbound")
         /\ inbox' = Tail(inbox)
         /\ UNCHANGED <<state, active, sent, resume, issued, socket, outbox, link, answer, match>>
    ELSE AttemptFailed /\ UNCHANGED game

\* _request_snapshot, which cannot send on a transport that has closed.
RequestSnapshot ==
    IF requested THEN Recorded /\ inbox' = Tail(inbox) /\ GoesOn /\ UNCHANGED <<requested, outbox>>
    ELSE IF socket = "open"
    THEN /\ requested' = TRUE
         /\ outbox' = Append(outbox, [type |-> "snapshot"])
         /\ Recorded /\ inbox' = Tail(inbox) /\ GoesOn
    ELSE AttemptFailed

\* Mutant: any action of the player's is taken for the one that is waiting.
MatchesAny(m) == m.id # 0

\* A message about the action that is waiting for its answer.
Matches(m) == m.id # 0 /\ m.id = pending.id

\* apply_event: an event of the past is skipped, one of the future asks for a
\* snapshot, and the next one settles the player's own action.
HandleEvent(m) ==
    IF ~Settled THEN AttemptFailed /\ UNCHANGED game
    ELSE IF m.revision <= board
    THEN Recorded /\ inbox' = Tail(inbox) /\ GoesOn /\ UNCHANGED <<game, requested, outbox>>
    ELSE IF m.revision # board + 1 THEN RequestSnapshot /\ UNCHANGED game
    ELSE IF Matches(m) /\ pending.expected # board THEN AttemptFailed /\ UNCHANGED game
    ELSE /\ board' = m.revision
         /\ pending' = IF Matches(m) THEN NoAction ELSE pending
         /\ Recorded /\ inbox' = Tail(inbox) /\ GoesOn /\ UNCHANGED <<issued, requested, outbox>>

\* _handle_ping, which answers.
HandlePing ==
    /\ IF state = "connected" /\ socket = "open"
       THEN Recorded /\ inbox' = Tail(inbox) /\ GoesOn /\ UNCHANGED <<requested, outbox>>
       ELSE AttemptFailed
    /\ UNCHANGED game

\* _handle_error and apply_error, of an answer to the client's own action.
HandleError(m) ==
    LET settled == IF Matches(m) THEN NoAction ELSE pending IN
    IF ~Settled THEN AttemptFailed /\ UNCHANGED game
    ELSE IF m.code = "stale_revision"
    THEN IF m.revision < board \/ (Matches(m) /\ m.revision <= pending.expected)
         THEN AttemptFailed /\ UNCHANGED game
         ELSE pending' = settled /\ RequestSnapshot /\ UNCHANGED <<board, issued>>
    ELSE IF m.revision # board \/ (Matches(m) /\ m.revision # pending.expected)
         THEN AttemptFailed /\ UNCHANGED game
         ELSE /\ pending' = settled
              /\ Recorded /\ inbox' = Tail(inbox) /\ GoesOn
              /\ UNCHANGED <<board, issued, requested, outbox>>

\* _handle_error of a refusal before the handshake is done.
HandleRefusal(m) ==
    /\ IF state \in {"connecting", "reconnecting"} /\ m.terminal
       THEN Fail /\ UNCHANGED <<sent, requested, failures, match>>
       ELSE AttemptFailed
    /\ UNCHANGED game

\* poll and _handle_text.
Read ==
    /\ active /\ inbox # <<>> /\ socket \in {"open", "closed", "refused"}
    /\ LET m == Head(inbox) IN
       CASE m.type = "connected" -> HandleConnected(m)
         [] m.type = "snapshot" -> HandleSnapshot(m)
         [] m.type = "event" -> HandleEvent(m)
         [] m.type = "ping" -> HandlePing
         [] m.type = "error" -> HandleError(m)
         [] m.type = "refusal" -> HandleRefusal(m)

\* request_move and its siblings.
RequestAction ==
    /\ Settled /\ ~requested /\ pending = NoAction /\ issued < MaxActions
    /\ IF socket = "open"
       THEN /\ pending' = [id |-> issued + 1, expected |-> board] /\ issued' = issued + 1
            /\ outbox' = Append(outbox, [type |-> "action", id |-> issued + 1, expected |-> board])
            /\ UNCHANGED <<attempt, socket, inbox, link, answer, match>>
       ELSE AttemptFailed /\ issued' = issued + 1 /\ UNCHANGED pending
    /\ UNCHANGED board

-----------------------------------------------------------------------------
(* The network, and the hub. *)

Opens ==
    /\ socket = "connecting" /\ socket' = "open" /\ link' = "open"
    /\ UNCHANGED <<attempt, game, inbox, outbox, answer, match>>

\* The transport breaks; the client notices, or never hears of it again.
Breaks ==
    /\ socket \in {"connecting", "open"}
    /\ socket' \in {socket, "closed"}
    /\ \E n \in 0 .. Len(inbox) : inbox' = SubSeq(inbox, 1, n)
    /\ link' = "broken" /\ outbox' = <<>> /\ answer' = NoAnswer
    /\ UNCHANGED <<attempt, game, match>>

Sends(messages) ==
    /\ Len(inbox) + Len(messages) <= InboxCap
    /\ inbox' = inbox \o messages

Snapshot(r) == [type |-> "snapshot", revision |-> r]
Event(r) == [type |-> "event", revision |-> r, id |-> IF r = own.revision THEN own.id ELSE 0]
Error(code, id, r) == [type |-> "error", code |-> code, id |-> id, revision |-> r]

Greets ==
    /\ link' = "greeted" /\ streamed' = head
    /\ Sends(<<[type |-> "connected", revision |-> head], Snapshot(head)>>)
    /\ UNCHANGED socket

\* The credential has expired or been used, or the hub fails.
Refuses ==
    /\ link' = "broken"
    /\ \E terminal \in BOOLEAN :
         /\ Sends(<<[type |-> "refusal", terminal |-> terminal]>>)
         /\ socket' = IF terminal THEN "refused" ELSE "closed"
    /\ UNCHANGED streamed

\* The hub reads what the client sent.
HubReads ==
    /\ outbox # <<>> /\ link \in {"open", "greeted"} /\ answer = NoAnswer
    /\ outbox' = Tail(outbox)
    /\ LET m == Head(outbox) IN
       \/ /\ m.type \in {"ticket", "resume"}
          /\ \/ (m.type = "ticket" => ticket) /\ Greets
             \/ Refuses
          /\ ticket' = (ticket /\ m.type = "resume")
          /\ UNCHANGED <<answer, head, own>>
       \/ /\ m.type = "snapshot"
          /\ Sends(<<Snapshot(head)>>) /\ streamed' = head
          /\ UNCHANGED <<socket, link, answer, head, own, ticket>>
       \/ /\ m.type = "action" /\ m.expected = head /\ head < MaxRevision
          /\ head' = head + 1 /\ own' = [id |-> m.id, revision |-> head + 1]
          /\ UNCHANGED <<socket, inbox, link, answer, streamed, ticket>>
       \/ /\ m.type = "action"
          /\ answer' = [id |-> m.id, code |-> IF m.expected = head THEN "internal_error" ELSE "stale_revision"]
          /\ UNCHANGED <<socket, inbox, link, match>>
    /\ UNCHANGED <<attempt, game>>

\* sendStaleResponse, with a snapshot of its own, or enqueueError.
HubAnswers ==
    /\ answer # NoAnswer /\ answer' = NoAnswer
    /\ IF answer.code = "stale_revision"
       THEN Sends(<<Error(answer.code, answer.id, head), Snapshot(head)>>) /\ streamed' = head
       ELSE Sends(<<Error(answer.code, answer.id, streamed)>>) /\ UNCHANGED streamed
    /\ UNCHANGED <<attempt, game, socket, outbox, link, head, own, ticket>>

\* What has become durable goes on the stream, event by event or, when the
\* hub missed one, as a snapshot.
HubPublishes ==
    /\ link = "greeted" /\ streamed < head
    /\ \/ Sends(<<Event(streamed + 1)>>) /\ streamed' = streamed + 1
       \/ Sends(<<Snapshot(head)>>) /\ streamed' = head
    /\ UNCHANGED <<attempt, game, socket, outbox, link, answer, head, own, ticket>>

\* The opponent's action, or the end of the match.
Opponent ==
    /\ head < MaxRevision /\ head' = head + 1
    /\ UNCHANGED <<attempt, game, network, streamed, own, ticket>>

\* Heartbeats are far apart: the client has read what came before.
Ping ==
    /\ link = "greeted" /\ inbox = <<>> /\ Sends(<<[type |-> "ping"]>>)
    /\ UNCHANGED <<attempt, game, socket, outbox, link, answer, match>>

-----------------------------------------------------------------------------

Poll == SendConnect \/ Read \/ TransportClosed
Hub == HubReads \/ HubAnswers \/ HubPublishes

Next ==
    \/ Start \/ Poll \/ Close \/ Tick \/ Due \/ RequestAction
    \/ Opens \/ Breaks \/ Hub \/ Opponent \/ Ping

Spec == Init /\ [][Next]_vars

\* The game polls in every frame, time passes, and the hub reads.
FairSpec == Spec /\ WF_vars(Poll) /\ WF_vars(Tick) /\ WF_vars(Due) /\ WF_vars(Hub)

-----------------------------------------------------------------------------
(* Properties. *)

\* There is always something that moves the client on, whatever failed last:
\* the one slot holds the timer of the phase it is in, and not of another
\* (_schedule_watchdog, _cancel_watchdog and _attempt_failed share it).
Driven ==
    /\ state \notin {"new", "failed", "closed"} =>
         slot.kind = CASE ~active -> "retry"
                       [] active /\ Handshaking -> "attempt"
                       [] OTHER -> "inbound"
    /\ state \in {"new", "failed", "closed"} => slot = Nothing /\ ~active

\* A player is never left waiting: again and again the client is up to date
\* with nothing outstanding, or it has given up after MAX_FAILURES, although
\* every transport may break after its greeting; an action whose answer was
\* lost is settled by the next snapshot.
Settles == []<>(state = "new" \/ Over \/ (Settled /\ pending = NoAction /\ ~requested))

\* What the hub says when it could not do what it was asked.
Excused(m) == m.type = "refusal" \/ (m.type = "error" /\ m.code = "internal_error")

\* The client is strict, and nothing the hub says is taken for a breach: over
\* a transport that holds, events, rejections and the snapshots that follow
\* them never cost an attempt (apply_event, apply_error, _handle_snapshot).
NoFalseAlarm ==
    [][failures' > failures =>
          socket # "open" \/ slot.due \/ (inbox # <<>> /\ Excused(Head(inbox)))]_vars
=============================================================================
