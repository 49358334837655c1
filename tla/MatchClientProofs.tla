-------------------------- MODULE MatchClientProofs --------------------------
(***************************************************************************)
(* Theorems about MatchClient for every budget of attempts, every number   *)
(* of revisions and actions, and every amount of messages in flight.       *)
(***************************************************************************)
EXTENDS MatchClient, TLAPS

States == {"new", "connecting", "reconnecting", "connected", "failed", "closed"}
Slots == [kind : {"retry", "attempt", "inbound"}, due : BOOLEAN] \cup {Nothing}
Errors == {"internal_error", "stale_revision"}
Revisions == Nat \cup {NoRevision}

(* What the hub sends, and what the client sends.                          *)
Frames ==
    [type : {"connected", "snapshot"}, revision : Nat]
      \cup [type : {"event"}, revision : Nat, id : Nat]
      \cup [type : {"error"}, code : Errors, id : Nat, revision : Nat]
      \cup [type : {"refusal"}, terminal : BOOLEAN]
      \cup [type : {"ping"}]

Requests == [type : {"ticket", "resume", "snapshot"}]
              \cup [type : {"action"}, id : Nat, expected : Nat]

AttemptOK ==
    /\ state \in States /\ active \in BOOLEAN /\ sent \in BOOLEAN
    /\ awaiting \in Revisions /\ requested \in BOOLEAN
    /\ failures \in Nat /\ resume \in BOOLEAN /\ slot \in Slots

GameOK ==
    /\ board \in Nat /\ issued \in Nat
    /\ pending \in [id : Nat, expected : Revisions]

NetworkOK ==
    /\ socket \in {"closed", "connecting", "open", "refused"}
    /\ inbox \in Seq(Frames) /\ outbox \in Seq(Requests)
    /\ link \in {"broken", "open", "greeted"}
    /\ answer \in [id : Nat, code : Errors] \cup {NoAnswer}

MatchOK ==
    /\ head \in Nat /\ streamed \in Nat /\ ticket \in BOOLEAN
    /\ own \in [id : Nat, revision : Revisions]

TypeOK == AttemptOK /\ GameOK /\ NetworkOK /\ MatchOK

(* Besides Driven: an attempt that has been broken off waits for its retry *)
(* and for nothing else, so the timer in the slot is never one the client  *)
(* would ignore when it goes off.                                          *)
BrokenOff == state \in {"connecting", "connected"} => active

DrivenInv == TypeOK /\ Driven /\ BrokenOff

-----------------------------------------------------------------------------
(* What the steps of the client are made of keeps the types.               *)

LEMMA HangUpType == ASSUME HangUp PROVE NetworkOK'
BY DEF HangUp, NetworkOK, NoAnswer, Frames, Requests, Errors

LEMMA FailType ==
    ASSUME AttemptOK, Fail, sent' \in BOOLEAN, requested' \in BOOLEAN, failures' \in Nat
    PROVE  AttemptOK' /\ NetworkOK'
<1>1. AttemptOK'
  BY DEF Fail, AttemptOK, Slots, States, Nothing, Revisions
<1>2. NetworkOK'
  BY HangUpType DEF Fail
<1> QED BY <1>1, <1>2

LEMMA AttemptFailedType ==
    ASSUME AttemptOK, AttemptFailed
    PROVE  AttemptOK' /\ NetworkOK' /\ UNCHANGED match
<1>1. failures' \in Nat /\ sent' \in BOOLEAN /\ requested' \in BOOLEAN
  <2>1. failures' = failures + 1 /\ sent' = FALSE
    BY DEF AttemptFailed
  <2>2. requested' = requested
    BY DEF AttemptFailed
  <2>3. failures' \in Nat
    BY <2>1 DEF AttemptOK
  <2>4. sent' \in BOOLEAN /\ requested' \in BOOLEAN
    BY <2>1, <2>2, Zenon DEF AttemptOK
  <2> QED BY <2>3, <2>4
<1>2. CASE failures + 1 >= MaxFailures
  BY <1>1, <1>2, FailType DEF AttemptFailed
<1>3. CASE ~(failures + 1 >= MaxFailures)
  <2>1. NetworkOK'
    BY <1>3, HangUpType DEF AttemptFailed
  <2>2. AttemptOK'
    <3>1. /\ state' = "reconnecting" /\ active' = FALSE /\ slot' = Armed("retry")
          /\ awaiting' = awaiting /\ resume' = resume
      BY <1>3 DEF AttemptFailed
    <3>2. Armed("retry") \in Slots /\ "reconnecting" \in States
      BY DEF Armed, Slots, States
    <3> QED BY <1>1, <3>1, <3>2 DEF AttemptOK
  <2> QED BY <2>1, <2>2 DEF AttemptFailed
<1> QED BY <1>2, <1>3 DEF AttemptFailed

LEMMA BeginAttemptType ==
    ASSUME AttemptOK, NEW next \in States, BeginAttempt(next)
    PROVE  AttemptOK' /\ NetworkOK'
<1>1. AttemptOK'
  BY DEF BeginAttempt, AttemptOK, Slots, Armed, Revisions
<1>2. NetworkOK'
  BY DEF BeginAttempt, NetworkOK, NoAnswer, Frames, Requests, Errors
<1> QED BY <1>1, <1>2

(* Reading on takes one message from the inbox and keeps the rest.         *)
LEMMA InboxType ==
    ASSUME NetworkOK, inbox # <<>>
    PROVE  Head(inbox) \in Frames /\ Tail(inbox) \in Seq(Frames)
BY DEF NetworkOK

LEMMA RecordedType ==
    ASSUME AttemptOK, NetworkOK, inbox # <<>>, Recorded, inbox' = Tail(inbox), GoesOn,
           requested' \in BOOLEAN, outbox' \in Seq(Requests)
    PROVE  AttemptOK' /\ NetworkOK' /\ UNCHANGED match
<1>1. slot' \in Slots
  BY DEF Recorded, Armed, Slots, AttemptOK
<1>2. AttemptOK'
  BY <1>1 DEF GoesOn, AttemptOK
<1>3. NetworkOK'
  BY InboxType DEF GoesOn, NetworkOK
<1> QED BY <1>2, <1>3 DEF GoesOn

LEMMA RequestSnapshotType ==
    ASSUME AttemptOK, NetworkOK, inbox # <<>>, RequestSnapshot
    PROVE  AttemptOK' /\ NetworkOK' /\ UNCHANGED match
<1>1. CASE requested
  <2>1. requested' \in BOOLEAN /\ outbox' \in Seq(Requests)
    BY <1>1 DEF RequestSnapshot, AttemptOK, NetworkOK
  <2> QED BY <1>1, <2>1, RecordedType DEF RequestSnapshot
<1>2. CASE ~requested /\ socket = "open"
  <2>1. [type |-> "snapshot"] \in Requests
    BY DEF Requests
  <2>2. requested' = TRUE /\ outbox' = Append(outbox, [type |-> "snapshot"])
    BY <1>2 DEF RequestSnapshot
  <2>3. outbox' \in Seq(Requests)
    BY <2>1, <2>2 DEF NetworkOK
  <2> QED BY <1>2, <2>2, <2>3, RecordedType DEF RequestSnapshot
<1>3. CASE ~requested /\ socket # "open"
  BY <1>3, AttemptFailedType DEF RequestSnapshot
<1> QED BY <1>1, <1>2, <1>3

(* What the hub puts on the stream is a frame.                             *)
LEMMA SendsType ==
    ASSUME NetworkOK, NEW f \in Frames, NEW g \in Frames,
           Sends(<<f>>) \/ Sends(<<f, g>>)
    PROVE  inbox' \in Seq(Frames)
<1>1. inbox \in Seq(Frames) /\ <<f>> \in Seq(Frames) /\ <<f, g>> \in Seq(Frames)
  BY DEF NetworkOK
<1>2. inbox' = inbox \o <<f>> \/ inbox' = inbox \o <<f, g>>
  BY DEF Sends
<1>3. \A s, t \in Seq(Frames) : s \o t \in Seq(Frames)
  OBVIOUS
<1> HIDE DEF Frames
<1> QED BY <1>1, <1>2, <1>3, Zenon

LEMMA FramesSent ==
    ASSUME MatchOK, NEW r \in Nat
    PROVE  /\ [type |-> "connected", revision |-> r] \in Frames
           /\ Snapshot(r) \in Frames /\ Event(r) \in Frames
           /\ [type |-> "ping"] \in Frames
           /\ \A code \in Errors, id \in Nat : Error(code, id, r) \in Frames
           /\ \A terminal \in BOOLEAN : [type |-> "refusal", terminal |-> terminal] \in Frames
<1>1. Snapshot(r) \in Frames /\ [type |-> "connected", revision |-> r] \in Frames
  BY DEF Snapshot, Frames
<1>2. Event(r) \in Frames
  <2> DEFINE id == IF r = own.revision THEN own.id ELSE 0
  <2>1. id \in Nat
    BY DEF MatchOK
  <2> HIDE DEF id
  <2>2. [type |-> "event", revision |-> r, id |-> id] \in Frames
    BY <2>1 DEF Frames
  <2> QED BY <2>2 DEF Event, id
<1>3. \A code \in Errors, id \in Nat : Error(code, id, r) \in Frames
  BY DEF Error, Frames
<1>4. /\ [type |-> "ping"] \in Frames
      /\ \A terminal \in BOOLEAN : [type |-> "refusal", terminal |-> terminal] \in Frames
  BY DEF Frames
<1> QED BY <1>1, <1>2, <1>3, <1>4

-----------------------------------------------------------------------------
(* Type correctness.                                                       *)

LEMMA ReadType == ASSUME TypeOK, Read PROVE TypeOK'
<1> USE DEF TypeOK
<1>1. inbox # <<>> /\ Head(inbox) \in Frames
  BY InboxType DEF Read
<1> DEFINE m == Head(inbox)
<1>2. CASE m.type = "connected" /\ HandleConnected(m)
  <2>1. m.revision \in Nat
    BY <1>1, <1>2 DEF Frames
  <2>2. CASE state \in {"connecting", "reconnecting"}
    <3>1. AttemptOK'
      BY <1>2, <2>1, <2>2, Zenon DEF HandleConnected, AttemptOK, States, Revisions
    <3>2. NetworkOK'
      BY <1>1, <1>2, <2>2, InboxType DEF HandleConnected, NetworkOK
    <3> QED BY <1>2, <2>2, <3>1, <3>2 DEF HandleConnected, GameOK, MatchOK, game, match
  <2>3. CASE state \notin {"connecting", "reconnecting"}
    BY <1>2, <2>3, AttemptFailedType DEF HandleConnected, GameOK, MatchOK, game, match
  <2> QED BY <2>2, <2>3
<1>3. CASE m.type = "snapshot" /\ HandleSnapshot(m)
  <2> DEFINE fits == state = "connected" /\ awaiting \in {NoRevision, m.revision} /\ m.revision >= board
  <2>1. m.revision \in Nat
    BY <1>1, <1>3 DEF Frames
  <2>2. CASE fits
    <3>1. AttemptOK'
      <4>1. /\ slot' = Armed("inbound") /\ awaiting' = NoRevision /\ failures' = 0
            /\ state' = state /\ active' = active /\ sent' = sent /\ resume' = resume
            /\ requested' = FALSE
        BY <1>3, <2>2 DEF HandleSnapshot
      <4>2. Armed("inbound") \in Slots /\ NoRevision \in Revisions /\ 0 \in Nat
        BY DEF Armed, Slots, Revisions
      <4> QED BY <4>1, <4>2, Zenon DEF AttemptOK
    <3>2. NetworkOK'
      BY <1>1, <1>3, <2>2, InboxType DEF HandleSnapshot, NetworkOK
    <3>3. GameOK'
      BY <1>3, <2>1, <2>2 DEF HandleSnapshot, GameOK, NoAction, Revisions
    <3> QED BY <1>3, <2>2, <3>1, <3>2, <3>3 DEF HandleSnapshot, MatchOK, match
  <2>3. CASE ~fits
    BY <1>3, <2>3, AttemptFailedType DEF HandleSnapshot, GameOK, MatchOK, game, match
  <2> QED BY <2>2, <2>3
<1>4. CASE m.type = "event" /\ HandleEvent(m)
  <2>1. m.revision \in Nat
    BY <1>1, <1>4 DEF Frames
  <2>2. CASE AttemptFailed /\ UNCHANGED game
    BY <2>2, AttemptFailedType DEF GameOK, MatchOK, game, match
  <2>3. CASE RequestSnapshot /\ UNCHANGED game
    BY <1>1, <2>3, RequestSnapshotType DEF GameOK, MatchOK, game, match
  <2>4. CASE Recorded /\ inbox' = Tail(inbox) /\ GoesOn /\ UNCHANGED <<game, requested, outbox>>
    <3>1. requested' \in BOOLEAN /\ outbox' \in Seq(Requests)
      BY <2>4, Zenon DEF AttemptOK, NetworkOK
    <3> QED BY <1>1, <2>4, <3>1, RecordedType DEF GameOK, MatchOK, game, match
  <2>5. CASE /\ board' = m.revision
             /\ pending' = IF Matches(m) THEN NoAction ELSE pending
             /\ Recorded /\ inbox' = Tail(inbox) /\ GoesOn
             /\ UNCHANGED <<issued, requested, outbox>>
    <3>1. requested' \in BOOLEAN /\ outbox' \in Seq(Requests)
      BY <2>5, Zenon DEF AttemptOK, NetworkOK
    <3>2. GameOK'
      BY <2>1, <2>5 DEF GameOK, NoAction, Revisions
    <3> QED BY <1>1, <2>5, <3>1, <3>2, RecordedType DEF MatchOK, match
  <2> QED BY <1>4, <2>2, <2>3, <2>4, <2>5 DEF HandleEvent
<1>5. CASE m.type = "ping" /\ HandlePing
  <2>1. CASE AttemptFailed
    BY <1>5, <2>1, AttemptFailedType DEF HandlePing, GameOK, MatchOK, game, match
  <2>2. CASE Recorded /\ inbox' = Tail(inbox) /\ GoesOn /\ UNCHANGED <<requested, outbox>>
    <3>1. requested' \in BOOLEAN /\ outbox' \in Seq(Requests)
      BY <2>2, Zenon DEF AttemptOK, NetworkOK
    <3> QED BY <1>1, <1>5, <2>2, <3>1, RecordedType DEF HandlePing, GameOK, MatchOK, game, match
  <2> QED BY <1>5, <2>1, <2>2 DEF HandlePing
<1>6. CASE m.type = "error" /\ HandleError(m)
  <2>1. CASE AttemptFailed /\ UNCHANGED game
    BY <2>1, AttemptFailedType DEF GameOK, MatchOK, game, match
  <2>2. CASE /\ pending' = IF Matches(m) THEN NoAction ELSE pending
             /\ RequestSnapshot /\ UNCHANGED <<board, issued>>
    <3>1. GameOK'
      BY <2>2 DEF GameOK, NoAction, Revisions
    <3> QED BY <1>1, <2>2, <3>1, RequestSnapshotType DEF MatchOK, match
  <2>3. CASE /\ pending' = IF Matches(m) THEN NoAction ELSE pending
             /\ Recorded /\ inbox' = Tail(inbox) /\ GoesOn
             /\ UNCHANGED <<board, issued, requested, outbox>>
    <3>1. requested' \in BOOLEAN /\ outbox' \in Seq(Requests)
      BY <2>3, Zenon DEF AttemptOK, NetworkOK
    <3>2. GameOK'
      BY <2>3 DEF GameOK, NoAction, Revisions
    <3> QED BY <1>1, <2>3, <3>1, <3>2, RecordedType DEF MatchOK, match
  <2> QED BY <1>6, <2>1, <2>2, <2>3 DEF HandleError
<1>7. CASE m.type = "refusal" /\ HandleRefusal(m)
  <2>1. CASE AttemptFailed
    BY <1>7, <2>1, AttemptFailedType DEF HandleRefusal, GameOK, MatchOK, game, match
  <2>2. CASE Fail /\ UNCHANGED <<sent, requested, failures, match>>
    <3>1. sent' \in BOOLEAN /\ requested' \in BOOLEAN /\ failures' \in Nat
      BY <2>2, Zenon DEF AttemptOK
    <3> QED BY <1>7, <2>2, <3>1, FailType DEF HandleRefusal, GameOK, MatchOK, game, match
  <2> QED BY <1>7, <2>1, <2>2 DEF HandleRefusal
<1> QED BY <1>1, <1>2, <1>3, <1>4, <1>5, <1>6, <1>7 DEF Read, Frames

LEMMA DueType == ASSUME TypeOK, Due PROVE TypeOK'
<1> USE DEF TypeOK
<1>1. CASE AttemptFailed
  BY <1>1, AttemptFailedType DEF Due, GameOK, MatchOK, game, match
<1>2. CASE BeginAttempt("reconnecting")
  <2>1. "reconnecting" \in States
    BY DEF States
  <2>2. UNCHANGED match
    BY <1>2 DEF BeginAttempt
  <2> QED BY <1>2, <2>1, <2>2, BeginAttemptType DEF Due, GameOK, MatchOK, game, match
<1>3. CASE Elapsed
  <2>1. slot' \in Slots
    BY <1>3 DEF Elapsed, Nothing, Slots
  <2>2. AttemptOK'
    BY <1>3, <2>1, Zenon DEF Elapsed, AttemptOK
  <2> QED BY <1>3, <2>2 DEF Due, Elapsed, GameOK, NetworkOK, MatchOK, game, network, match
<1>4. slot.kind \in {"retry", "attempt", "inbound"}
  BY DEF AttemptOK, Slots, Nothing, Due
<1> QED BY <1>1, <1>2, <1>3, <1>4 DEF Due

LEMMA ClientType ==
    ASSUME TypeOK, Start \/ SendConnect \/ TransportClosed \/ Close \/ Tick \/ RequestAction
    PROVE  TypeOK'
<1> USE DEF TypeOK
<1>1. CASE Start
  <2>1. "connecting" \in States
    BY DEF States
  <2>2. BeginAttempt("connecting")
    BY <1>1 DEF Start
  <2>3. UNCHANGED <<game, match>>
    BY <2>2 DEF BeginAttempt
  <2> QED BY <2>1, <2>2, <2>3, BeginAttemptType DEF GameOK, MatchOK, game, match
<1>2. CASE SendConnect
  <2>1. outbox' \in Seq(Requests)
    <3> DEFINE r == [type |-> IF resume THEN "resume" ELSE "ticket"]
    <3>1. r \in Requests
      BY DEF Requests
    <3>2. outbox' = Append(outbox, r)
      BY <1>2 DEF SendConnect
    <3> HIDE DEF r
    <3> QED BY <3>1, <3>2 DEF NetworkOK
  <2>2. AttemptOK'
    BY <1>2, Zenon DEF SendConnect, AttemptOK
  <2> QED BY <1>2, <2>1, <2>2 DEF SendConnect, GameOK, NetworkOK, MatchOK, game, match
<1>3. CASE TransportClosed
  <2>1. CASE AttemptFailed
    BY <1>3, <2>1, AttemptFailedType DEF TransportClosed, GameOK, MatchOK, game, match
  <2>2. CASE Fail /\ UNCHANGED <<sent, requested, failures, match>>
    <3>1. sent' \in BOOLEAN /\ requested' \in BOOLEAN /\ failures' \in Nat
      BY <2>2, Zenon DEF AttemptOK
    <3> QED BY <1>3, <2>2, <3>1, FailType DEF TransportClosed, GameOK, MatchOK, game, match
  <2> QED BY <1>3, <2>1, <2>2 DEF TransportClosed
<1>4. CASE Close
  <2>1. "closed" \in States /\ Nothing \in Slots /\ NoRevision \in Revisions
    BY DEF States, Nothing, Slots, Revisions
  <2>2. AttemptOK'
    BY <1>4, <2>1, Zenon DEF Close, AttemptOK
  <2>3. NetworkOK'
    BY <1>4, HangUpType DEF Close
  <2> QED BY <1>4, <2>2, <2>3 DEF Close, GameOK, MatchOK, game, match
<1>5. CASE Tick
  <2>1. slot' \in Slots
    BY <1>5 DEF Tick, Slots, AttemptOK
  <2>2. AttemptOK'
    BY <1>5, <2>1, Zenon DEF Tick, AttemptOK
  <2> QED BY <1>5, <2>2 DEF Tick, GameOK, NetworkOK, MatchOK, game, network, match
<1>6. CASE RequestAction
  <2>1. CASE socket = "open"
    <3> DEFINE r == [type |-> "action", id |-> issued + 1, expected |-> board]
    <3>1. r \in Requests
      BY DEF Requests, GameOK
    <3>2. outbox' = Append(outbox, r) /\ UNCHANGED <<attempt, socket, inbox, link, answer, match>>
      BY <1>6, <2>1 DEF RequestAction
    <3>3. outbox' \in Seq(Requests)
      BY <3>1, <3>2 DEF NetworkOK
    <3>4. AttemptOK'
      BY <3>2, Zenon DEF attempt, AttemptOK
    <3>5. GameOK'
      BY <1>6, <2>1 DEF RequestAction, GameOK, Revisions
    <3> QED BY <3>2, <3>3, <3>4, <3>5 DEF NetworkOK, MatchOK, match
  <2>2. CASE socket # "open"
    <3>1. AttemptFailed /\ issued' = issued + 1 /\ UNCHANGED <<pending, board>>
      BY <1>6, <2>2 DEF RequestAction
    <3>2. GameOK'
      BY <3>1 DEF GameOK
    <3> QED BY <3>1, <3>2, AttemptFailedType DEF MatchOK, match
  <2> QED BY <2>1, <2>2
<1> QED BY <1>1, <1>2, <1>3, <1>4, <1>5, <1>6

(* The network and the hub leave the attempt and the game alone.           *)
LEMMA OutsideType ==
    ASSUME AttemptOK, GameOK, UNCHANGED <<attempt, game>>
    PROVE  AttemptOK' /\ GameOK'
<1>1. AttemptOK'
  BY Zenon DEF AttemptOK, attempt
<1>2. GameOK'
  BY DEF GameOK, game
<1> QED BY <1>1, <1>2

LEMMA HubReadsType == ASSUME TypeOK, HubReads PROVE TypeOK'
<1> USE DEF TypeOK
<1>1. AttemptOK' /\ GameOK'
  BY OutsideType DEF HubReads
<1> DEFINE m == Head(outbox)
<1>2. m \in Requests /\ outbox' \in Seq(Requests)
  BY DEF HubReads, NetworkOK
<1>3. CASE m.type \in {"ticket", "resume"}
  <2>1. CASE Greets
    <3>1. [type |-> "connected", revision |-> head] \in Frames /\ Snapshot(head) \in Frames
      BY FramesSent DEF MatchOK
    <3>2. inbox' \in Seq(Frames)
      BY <2>1, <3>1, SendsType DEF Greets
    <3>3. NetworkOK'
      BY <1>2, <1>3, <2>1, <3>2 DEF HubReads, Greets, NetworkOK, Requests
    <3>4. ticket' \in BOOLEAN
      BY <1>2, <1>3 DEF HubReads, Requests
    <3> QED BY <1>1, <1>2, <1>3, <2>1, <3>3, <3>4 DEF HubReads, Greets, MatchOK, Requests
  <2>2. CASE Refuses
    <3>1. PICK terminal \in BOOLEAN :
            /\ Sends(<<[type |-> "refusal", terminal |-> terminal]>>)
            /\ socket' = IF terminal THEN "refused" ELSE "closed"
      BY <2>2 DEF Refuses
    <3>2. inbox' \in Seq(Frames)
      <4>1. [type |-> "refusal", terminal |-> terminal] \in Frames
        BY FramesSent DEF MatchOK
      <4> QED BY <3>1, <4>1, SendsType
    <3>3. NetworkOK'
      BY <1>2, <1>3, <2>2, <3>1, <3>2 DEF HubReads, Refuses, NetworkOK, Requests
    <3>4. ticket' \in BOOLEAN
      BY <1>2, <1>3 DEF HubReads, Requests
    <3> QED BY <1>1, <1>2, <1>3, <2>2, <3>3, <3>4 DEF HubReads, Refuses, MatchOK, Requests
  <2> QED BY <1>2, <1>3, <2>1, <2>2 DEF HubReads, Requests
<1>4. CASE m.type = "snapshot"
  <2>1. /\ Sends(<<Snapshot(head)>>) /\ streamed' = head
        /\ UNCHANGED <<socket, link, answer, head, own, ticket>>
    BY <1>4 DEF HubReads
  <2>2. inbox' \in Seq(Frames)
    <3>1. Snapshot(head) \in Frames
      BY FramesSent DEF MatchOK
    <3> QED BY <2>1, <3>1, SendsType
  <2> QED BY <1>1, <1>2, <2>1, <2>2 DEF NetworkOK, MatchOK
<1>5. CASE m.type = "action"
  <2>1. m.id \in Nat /\ m.expected \in Nat
    BY <1>2, <1>5 DEF Requests
  <2>2. CASE /\ head' = head + 1 /\ own' = [id |-> m.id, revision |-> head + 1]
             /\ UNCHANGED <<socket, inbox, link, answer, streamed, ticket>>
    BY <1>1, <1>2, <2>1, <2>2 DEF NetworkOK, MatchOK, Revisions
  <2>3. CASE /\ answer' = [id |-> m.id, code |-> IF m.expected = head THEN "internal_error"
                                                ELSE "stale_revision"]
             /\ UNCHANGED <<socket, inbox, link, match>>
    BY <1>1, <1>2, <2>1, <2>3 DEF NetworkOK, MatchOK, match, Errors
  <2> QED BY <1>5, <2>2, <2>3 DEF HubReads
<1> QED BY <1>2, <1>3, <1>4, <1>5 DEF Requests

LEMMA HubType ==
    ASSUME TypeOK, HubAnswers \/ HubPublishes \/ Opponent \/ Ping \/ Opens \/ Breaks
    PROVE  TypeOK'
<1> USE DEF TypeOK
<1>1. AttemptOK' /\ GameOK'
  BY OutsideType DEF HubAnswers, HubPublishes, Opponent, Ping, Opens, Breaks
<1>2. CASE HubAnswers
  <2>1. answer.id \in Nat /\ answer.code \in Errors
    BY <1>2 DEF HubAnswers, NetworkOK
  <2>2. CASE answer.code = "stale_revision"
    <3>1. Error(answer.code, answer.id, head) \in Frames /\ Snapshot(head) \in Frames
      BY <2>1, <2>2, FramesSent DEF MatchOK, Errors
    <3>2. inbox' \in Seq(Frames)
      BY <1>2, <2>2, <3>1, SendsType DEF HubAnswers
    <3> QED BY <1>1, <1>2, <2>2, <3>2 DEF HubAnswers, NetworkOK, MatchOK, NoAnswer
  <2>3. CASE answer.code = "internal_error"
    <3>1. Error(answer.code, answer.id, streamed) \in Frames
      BY <2>1, <2>3, FramesSent DEF MatchOK, Errors
    <3>2. inbox' \in Seq(Frames)
      BY <1>2, <2>3, <3>1, SendsType DEF HubAnswers
    <3> QED BY <1>1, <1>2, <2>3, <3>2 DEF HubAnswers, NetworkOK, MatchOK, NoAnswer
  <2> QED BY <2>1, <2>2, <2>3 DEF Errors
<1>3. CASE HubPublishes
  <2>1. Event(streamed + 1) \in Frames /\ Snapshot(head) \in Frames
    <3>1. streamed + 1 \in Nat /\ head \in Nat
      BY DEF MatchOK
    <3> QED BY <3>1, FramesSent
  <2>2. inbox' \in Seq(Frames)
    BY <1>3, <2>1, SendsType DEF HubPublishes
  <2> QED BY <1>1, <1>3, <2>2 DEF HubPublishes, NetworkOK, MatchOK
<1>4. CASE Opponent
  BY <1>1, <1>4 DEF Opponent, NetworkOK, MatchOK, network
<1>5. CASE Ping
  <2>1. inbox' \in Seq(Frames)
    <3>1. [type |-> "ping"] \in Frames
      BY FramesSent DEF MatchOK
    <3> QED BY <1>5, <3>1, SendsType DEF Ping
  <2> QED BY <1>1, <1>5, <2>1 DEF Ping, NetworkOK, MatchOK, match
<1>6. CASE Opens
  BY <1>1, <1>6 DEF Opens, NetworkOK, MatchOK, match
<1>7. CASE Breaks
  <2>1. PICK n \in 0 .. Len(inbox) : inbox' = SubSeq(inbox, 1, n)
    BY <1>7 DEF Breaks
  <2>2. inbox' \in Seq(Frames)
    BY <2>1 DEF NetworkOK
  <2> QED BY <1>1, <1>7, <2>2 DEF Breaks, NetworkOK, MatchOK, match, NoAnswer
<1> QED BY <1>2, <1>3, <1>4, <1>5, <1>6, <1>7

LEMMA InitType == Init => TypeOK
<1> SUFFICES ASSUME Init PROVE TypeOK
  OBVIOUS
<1>1. AttemptOK
  <2>1. "new" \in States /\ NoRevision \in Revisions /\ 0 \in Nat /\ Nothing \in Slots
    BY DEF States, Revisions, Slots
  <2> QED BY <2>1, Zenon DEF Init, AttemptOK
<1>2. GameOK
  BY DEF Init, GameOK, NoAction, Revisions
<1>3. NetworkOK
  BY DEF Init, NetworkOK
<1>4. MatchOK
  BY DEF Init, MatchOK, Revisions
<1> QED BY <1>1, <1>2, <1>3, <1>4 DEF TypeOK

(* Every variable keeps to its values: what the client sends is a request  *)
(* of the protocol and what it reads is a frame of it.                     *)
THEOREM TypeCorrect == Spec => []TypeOK
<1>1. Init => TypeOK
  BY InitType
<1>2. TypeOK /\ [Next]_vars => TypeOK'
  <2> SUFFICES ASSUME TypeOK, [Next]_vars PROVE TypeOK'
    OBVIOUS
  <2>1. CASE Start \/ SendConnect \/ TransportClosed \/ Close \/ Tick \/ RequestAction
    BY <2>1, ClientType
  <2>2. CASE Read
    BY <2>2, ReadType
  <2>3. CASE Due
    BY <2>3, DueType
  <2>4. CASE HubReads
    BY <2>4, HubReadsType
  <2>5. CASE HubAnswers \/ HubPublishes \/ Opponent \/ Ping \/ Opens \/ Breaks
    BY <2>5, HubType
  <2>6. CASE UNCHANGED vars
    <3>1. AttemptOK' /\ GameOK'
      BY <2>6, OutsideType DEF vars, TypeOK
    <3> QED BY <2>6, <3>1 DEF vars, network, match, TypeOK, NetworkOK, MatchOK
  <2> QED BY <2>1, <2>2, <2>3, <2>4, <2>5, <2>6 DEF Next, Poll, Hub
<1> QED BY <1>1, <1>2, PTL DEF Spec

-----------------------------------------------------------------------------
(* The timer in the slot is always the one that moves the client on.       *)

(* What breaks an attempt off, or gives up, fills the slot for itself.     *)
LEMMA AttemptFailedDriven ==
    ASSUME AttemptFailed
    PROVE  Driven' /\ BrokenOff'
<1>1. CASE failures + 1 >= MaxFailures
  BY <1>1 DEF AttemptFailed, Fail, Driven, BrokenOff
<1>2. CASE ~(failures + 1 >= MaxFailures)
  BY <1>2 DEF AttemptFailed, Driven, BrokenOff, Armed
<1> QED BY <1>1, <1>2

LEMMA FailDriven == ASSUME Fail PROVE Driven' /\ BrokenOff'
BY DEF Fail, Driven, BrokenOff

LEMMA BeginAttemptDriven ==
    ASSUME NEW next \in {"connecting", "reconnecting"}, BeginAttempt(next)
    PROVE  Driven' /\ BrokenOff'
BY DEF BeginAttempt, Driven, BrokenOff, Armed, Handshaking

(* A message that breaks nothing off restarts the inbound watchdog, and    *)
(* only where no handshake is going on.                                    *)
LEMMA RecordedDriven ==
    ASSUME DrivenInv, active, state = "connected", Recorded, GoesOn
    PROVE  Driven' /\ BrokenOff'
<1>1. state' = state /\ active' = active /\ awaiting' = awaiting
  BY DEF GoesOn
<1>2. CASE Settled
  <2>1. slot'.kind = "inbound"
    BY <1>2 DEF Recorded, Armed
  <2>2. ~Handshaking'
    BY <1>1, <1>2 DEF Settled, Handshaking
  <2> QED BY <1>1, <2>1, <2>2 DEF Driven, BrokenOff
<1>3. CASE ~Settled
  <2>1. slot' = slot /\ Handshaking /\ Handshaking'
    BY <1>1, <1>3 DEF Recorded, Settled, Handshaking
  <2> QED BY <1>1, <2>1 DEF DrivenInv, Driven, BrokenOff
<1> QED BY <1>2, <1>3

LEMMA RequestSnapshotDriven ==
    ASSUME DrivenInv, active, state = "connected", RequestSnapshot
    PROVE  Driven' /\ BrokenOff'
BY RecordedDriven, AttemptFailedDriven DEF RequestSnapshot

LEMMA ReadDriven ==
    ASSUME DrivenInv, Read
    PROVE  Driven' /\ BrokenOff'
<1> DEFINE m == Head(inbox)
<1>1. active /\ inbox # <<>> /\ m \in Frames
  BY InboxType DEF Read, DrivenInv, TypeOK
<1>2. CASE m.type = "connected" /\ HandleConnected(m)
  <2>1. CASE state \in {"connecting", "reconnecting"}
    <3>1. m.revision \in Nat
      BY <1>1, <1>2 DEF Frames
    <3>2. /\ state' = "connected" /\ awaiting' = m.revision
          /\ active' = active /\ slot' = slot
      BY <1>2, <2>1 DEF HandleConnected
    <3>3. Handshaking /\ Handshaking'
      BY <2>1, <3>1, <3>2 DEF Handshaking, NoRevision
    <3>4. slot.kind = "attempt"
      BY <1>1, <2>1, <3>3 DEF DrivenInv, Driven
    <3> QED BY <1>1, <3>2, <3>3, <3>4 DEF Driven, BrokenOff
  <2>2. CASE state \notin {"connecting", "reconnecting"}
    BY <1>2, <2>2, AttemptFailedDriven DEF HandleConnected
  <2> QED BY <2>1, <2>2
<1>3. CASE m.type = "snapshot" /\ HandleSnapshot(m)
  <2>1. CASE AttemptFailed
    BY <2>1, AttemptFailedDriven
  <2>2. CASE /\ state = "connected" /\ awaiting' = NoRevision /\ slot' = Armed("inbound")
             /\ state' = state /\ active' = active
    BY <1>1, <2>2 DEF Driven, BrokenOff, Handshaking, Armed
  <2> QED BY <1>3, <2>1, <2>2 DEF HandleSnapshot
<1>4. CASE m.type = "event" /\ HandleEvent(m)
  BY <1>1, <1>4, AttemptFailedDriven, RequestSnapshotDriven, RecordedDriven
     DEF HandleEvent, Settled
<1>5. CASE m.type = "ping" /\ HandlePing
  BY <1>1, <1>5, AttemptFailedDriven, RecordedDriven DEF HandlePing
<1>6. CASE m.type = "error" /\ HandleError(m)
  BY <1>1, <1>6, AttemptFailedDriven, RequestSnapshotDriven, RecordedDriven
     DEF HandleError, Settled
<1>7. CASE m.type = "refusal" /\ HandleRefusal(m)
  BY <1>7, AttemptFailedDriven, FailDriven DEF HandleRefusal
<1> QED BY <1>1, <1>2, <1>3, <1>4, <1>5, <1>6, <1>7 DEF Read, Frames

(* A timer that goes off is the one of the phase the client is in, so it   *)
(* is never ignored.                                                       *)
LEMMA DueDriven ==
    ASSUME DrivenInv, Due
    PROVE  ~Elapsed /\ Driven' /\ BrokenOff'
<1>1. slot # Nothing /\ slot \in Slots
  BY DEF Due, DrivenInv, TypeOK, AttemptOK, Nothing
<1>2. state \notin {"new", "failed", "closed"}
  BY <1>1 DEF DrivenInv, Driven
<1>3. CASE slot.kind = "retry"
  <2>1. ~active
    BY <1>2, <1>3 DEF DrivenInv, Driven
  <2>2. state = "reconnecting"
    BY <1>2, <2>1 DEF DrivenInv, BrokenOff, TypeOK, AttemptOK, States
  <2>3. BeginAttempt("reconnecting")
    BY <1>3, <2>2 DEF Due
  <2>4. slot' # Nothing
    BY <2>3 DEF BeginAttempt, Armed, Nothing
  <2> QED BY <2>3, <2>4, BeginAttemptDriven DEF Elapsed
<1>4. CASE slot.kind = "attempt"
  <2>1. active /\ Handshaking
    BY <1>2, <1>4 DEF DrivenInv, Driven
  <2>2. AttemptFailed
    BY <1>4, <2>1 DEF Due
  <2>3. failures' # failures
    BY <2>2 DEF AttemptFailed, DrivenInv, TypeOK, AttemptOK
  <2> QED BY <2>2, <2>3, AttemptFailedDriven DEF Elapsed
<1>5. CASE slot.kind = "inbound"
  <2>1. active /\ ~Handshaking
    BY <1>2, <1>5 DEF DrivenInv, Driven
  <2>2. Settled
    BY <1>2, <2>1 DEF Handshaking, Settled, DrivenInv, TypeOK, AttemptOK, States
  <2>3. AttemptFailed
    BY <1>5, <2>1, <2>2 DEF Due
  <2>4. failures' # failures
    BY <2>3 DEF AttemptFailed, DrivenInv, TypeOK, AttemptOK
  <2> QED BY <2>3, <2>4, AttemptFailedDriven DEF Elapsed
<1> QED BY <1>1, <1>3, <1>4, <1>5 DEF Slots

LEMMA ClientDriven ==
    ASSUME DrivenInv, SendConnect \/ TransportClosed \/ Close \/ Tick \/ RequestAction \/ Start
    PROVE  Driven' /\ BrokenOff'
<1>1. CASE SendConnect
  <2>1. UNCHANGED <<state, active, awaiting, slot>>
    BY <1>1 DEF SendConnect
  <2> QED BY <2>1, Zenon DEF DrivenInv, Driven, BrokenOff, Handshaking
<1>2. CASE TransportClosed
  BY <1>2, AttemptFailedDriven, FailDriven DEF TransportClosed
<1>3. CASE Close
  BY <1>3 DEF Close, Driven, BrokenOff
<1>4. CASE Tick
  <2>1. UNCHANGED <<state, active, awaiting>> /\ slot'.kind = slot.kind /\ slot # Nothing
    BY <1>4 DEF Tick, DrivenInv, TypeOK, AttemptOK, Slots
  <2> QED BY <2>1, Zenon DEF DrivenInv, Driven, BrokenOff, Handshaking
<1>5. CASE RequestAction
  <2>1. CASE AttemptFailed
    BY <2>1, AttemptFailedDriven
  <2>2. CASE UNCHANGED attempt
    BY <2>2, Zenon DEF attempt, DrivenInv, Driven, BrokenOff, Handshaking
  <2> QED BY <1>5, <2>1, <2>2 DEF RequestAction
<1>6. CASE Start
  BY <1>6, BeginAttemptDriven DEF Start
<1> QED BY <1>1, <1>2, <1>3, <1>4, <1>5, <1>6

(* Whatever failed last, something moves the client on: it waits for a     *)
(* retry if its attempt was broken off, for the handshake watchdog while   *)
(* it is connecting, and for the inbound watchdog afterwards.              *)
THEOREM DrivenCorrect == Spec => []Driven
<1>1. Init => DrivenInv
  <2>1. Init => Driven /\ BrokenOff
    BY DEF Init, Driven, BrokenOff
  <2>2. Init => TypeOK
    BY InitType
  <2> QED BY <2>1, <2>2 DEF DrivenInv
<1>2. DrivenInv /\ TypeOK' /\ [Next]_vars => DrivenInv'
  <2> SUFFICES ASSUME DrivenInv, TypeOK', [Next]_vars PROVE Driven' /\ BrokenOff'
    BY DEF DrivenInv
  <2>1. CASE SendConnect \/ TransportClosed \/ Close \/ Tick \/ RequestAction \/ Start
    BY <2>1, ClientDriven
  <2>2. CASE Read
    BY <2>2, ReadDriven
  <2>3. CASE Due
    BY <2>3, DueDriven
  <2>4. CASE UNCHANGED attempt
    BY <2>4, Zenon DEF attempt, DrivenInv, Driven, BrokenOff, Handshaking
  <2>5. HubReads \/ HubAnswers \/ HubPublishes \/ Opponent \/ Ping \/ Opens \/ Breaks
          \/ UNCHANGED vars => UNCHANGED attempt
    BY DEF HubReads, HubAnswers, HubPublishes, Opponent, Ping, Opens, Breaks, vars
  <2> QED BY <2>1, <2>2, <2>3, <2>4, <2>5 DEF Next, Poll, Hub
<1>3. DrivenInv => Driven
  BY DEF DrivenInv
<1> QED BY <1>1, <1>2, <1>3, TypeCorrect, PTL DEF Spec

-----------------------------------------------------------------------------
(* Nothing the hub says is taken for a breach.                             *)

(* A frame in flight fits what the client knows and what the hub's end has *)
(* put on the stream: its revision lies between them, it is about an       *)
(* action that was asked for, and if that action is the one that waits, an *)
(* event is the one the action would make and a rejection is past it.      *)
Numbered(m) == m.type \in {"connected", "snapshot", "event", "error"}
About(m, p) == m.id # 0 /\ m.id = p.id

Fits(m, known, told, asked, p) ==
    /\ Numbered(m) => known <= m.revision /\ m.revision <= told
    /\ m.type \in {"event", "error"} => m.id <= asked
    /\ m.type = "event" /\ About(m, p) => m.revision = p.expected + 1
    /\ m.type = "error" /\ About(m, p) /\ m.code = "stale_revision" => p.expected < m.revision

InOrder ==
    /\ board <= streamed /\ streamed <= head
    /\ \A i \in DOMAIN inbox : Fits(inbox[i], board, streamed, issued, pending)
    /\ \A i, j \in DOMAIN inbox : i < j /\ Numbered(inbox[i]) /\ Numbered(inbox[j]) =>
         inbox[i].revision <= inbox[j].revision

(* What the client asks for expects a revision that was durable, and what  *)
(* the hub makes of it, or is about to say of it, fits what was asked.     *)
Asks(m, durable, asked, p) ==
    m.type = "action" =>
      /\ 0 < m.id /\ m.id <= asked /\ m.expected <= durable
      /\ m.id = p.id => m.expected = p.expected

Asked ==
    /\ pending.id <= issued /\ own.id <= issued /\ answer.id <= issued
    /\ \A i \in DOMAIN outbox : Asks(outbox[i], head, issued, pending)
    /\ answer.code = "stale_revision" /\ answer.id = pending.id => pending.expected < head
    /\ own.id # 0 /\ own.id = pending.id => own.revision = pending.expected + 1

(* While the client connects, the hub has said nothing yet, or it has      *)
(* greeted the client with a snapshot right behind, unless that was lost.  *)
(* A client that was greeted waits for that snapshot and is never greeted  *)
(* again.                                                                  *)
Opening == state \in {"connecting", "reconnecting"}
Later == {"snapshot", "event", "error", "ping"}
Connects(m) == m.type \in {"ticket", "resume"}

Unanswered ==
    /\ inbox = <<>> /\ link # "greeted" /\ answer = NoAnswer
    /\ outbox = <<>> \/ (sent /\ Len(outbox) = 1 /\ Connects(outbox[1]))

Greeted ==
    /\ sent /\ outbox = <<>> /\ answer = NoAnswer /\ link # "open"
    /\ inbox # <<>> /\ inbox[1].type = "connected"
    /\ IF Len(inbox) = 1 THEN link = "broken" ELSE inbox[2] = Snapshot(inbox[1].revision)
    /\ \A i \in DOMAIN inbox : i # 1 => inbox[i].type \in Later

Following ==
    /\ sent /\ link # "open" /\ (answer # NoAnswer => link = "greeted")
    /\ \A i \in DOMAIN outbox : ~Connects(outbox[i])
    /\ \A i \in DOMAIN inbox : inbox[i].type \in Later
    /\ awaiting # NoRevision =>
         IF inbox = <<>> THEN link = "broken" ELSE inbox[1] = Snapshot(awaiting)

Dialogue ==
    /\ socket = "connecting" => /\ Opening /\ inbox = <<>> /\ outbox = <<>> /\ ~sent
                                /\ link = "broken" /\ answer = NoAnswer
    /\ socket = "open" /\ Opening => Unanswered \/ Greeted
    /\ socket = "open" /\ ~Opening => state = "connected" /\ Following

AlarmInv == TypeOK /\ InOrder /\ Asked /\ Dialogue

(* Frames, for what is said about their revisions and action ids.          *)
LEMMA FrameFacts ==
    ASSUME NEW m \in Frames
    PROVE  /\ Numbered(m) => m.revision \in Nat
           /\ m.type \in {"event", "error"} => m.id \in Nat
           /\ m.type \in {"connected", "snapshot", "event", "error", "refusal", "ping"}
           /\ m.type = "error" => m.code \in Errors
BY DEF Frames, Numbered, Errors

(* A frame still fits when the client has caught up with what came before  *)
(* it, when the hub has said more, and when the action that waited is      *)
(* settled or a new one is asked for.                                      *)
LEMMA FitsOn ==
    ASSUME NEW m \in Frames, NEW k \in Nat, NEW l \in Nat, NEW s \in Nat, NEW t \in Nat,
           NEW n \in Nat, NEW o \in Nat, NEW p, NEW q,
           Fits(m, k, s, n, p), Numbered(m) => l <= m.revision, s <= t, n <= o,
           q = p \/ q = NoAction \/ (q.id \in Nat /\ n < q.id)
    PROVE  Fits(m, l, t, o, q)
<1>1. Numbered(m) => m.revision \in Nat
  BY FrameFacts
<1>2. m.type \in {"event", "error"} => m.id \in Nat /\ m.id <= n
  BY FrameFacts DEF Fits
<1>3. Numbered(m) => l <= m.revision /\ m.revision <= t
  BY <1>1 DEF Fits
<1>4. m.type \in {"event", "error"} => m.id <= o
  BY <1>2
<1>5. m.type \in {"event", "error"} /\ About(m, q) => q = p
  BY <1>2 DEF About, NoAction
<1> QED BY <1>3, <1>4, <1>5 DEF Fits

(* An action that was sent is still what was asked for when its answer has *)
(* come another way, and when the match has moved on.                      *)
LEMMA AsksOn ==
    ASSUME NEW m \in Requests, NEW h \in Nat, NEW d \in Nat, NEW n \in Nat, NEW o \in Nat,
           NEW p, NEW q, Asks(m, h, n, p), h <= d, n <= o,
           q = p \/ q = NoAction \/ (q.id \in Nat /\ n < q.id)
    PROVE  Asks(m, d, o, q)
<1>1. m.type = "action" => m.id \in Nat /\ m.expected \in Nat
  BY DEF Requests
<1>2. m.type = "action" => m.id <= o /\ m.expected <= d
  BY <1>1 DEF Asks
<1>3. m.type = "action" /\ m.id = q.id => q = p
  BY <1>1 DEF Asks, NoAction
<1> QED BY <1>2, <1>3 DEF Asks

(* What the client knows, in the terms the invariants use.                 *)
LEMMA Terms ==
    ASSUME TypeOK
    PROVE  /\ board \in Nat /\ streamed \in Nat /\ head \in Nat /\ issued \in Nat
           /\ pending.id \in Nat /\ pending.expected \in Revisions
           /\ own.id \in Nat /\ own.revision \in Revisions /\ answer.id \in Nat
           /\ inbox \in Seq(Frames) /\ outbox \in Seq(Requests)
           /\ \A i \in DOMAIN inbox : inbox[i] \in Frames
           /\ \A i \in DOMAIN outbox : outbox[i] \in Requests
<1>1. /\ board \in Nat /\ issued \in Nat
      /\ pending.id \in Nat /\ pending.expected \in Revisions
  BY DEF TypeOK, GameOK
<1>2. streamed \in Nat /\ head \in Nat /\ own.id \in Nat /\ own.revision \in Revisions
  BY DEF TypeOK, MatchOK
<1>3. inbox \in Seq(Frames) /\ outbox \in Seq(Requests) /\ answer.id \in Nat
  BY DEF TypeOK, NetworkOK, NoAnswer
<1>4. \A S : \A s \in Seq(S) : \A i \in DOMAIN s : s[i] \in S
  OBVIOUS
<1>5. /\ \A i \in DOMAIN inbox : inbox[i] \in Frames
      /\ \A i \in DOMAIN outbox : outbox[i] \in Requests
  BY <1>3, <1>4
<1> QED BY <1>1, <1>2, <1>3, <1>5

(* Whatever ends an attempt loses what was in flight; what was asked and   *)
(* what is durable agree as before.                                        *)
LEMMA Dropped ==
    ASSUME AlarmInv, TypeOK', inbox' = <<>>, outbox' = <<>>, answer' = NoAnswer,
           board' = board, issued' \in Nat, issued <= issued', pending' \in {pending, NoAction},
           UNCHANGED match
    PROVE  InOrder' /\ Asked'
<1>1. InOrder'
  BY DEF AlarmInv, InOrder, match
<1>2. pending'.id <= issued' /\ own'.id <= issued' /\ answer'.id <= issued'
  <2>1. pending.id <= issued' /\ own.id <= issued'
    BY Terms DEF AlarmInv, Asked
  <2> QED BY <2>1 DEF NoAction, NoAnswer, match
<1>3. own'.id # 0 /\ own'.id = pending'.id => own'.revision = pending'.expected + 1
  BY DEF AlarmInv, Asked, match, NoAction
<1>4. answer'.code # "stale_revision"
  BY DEF NoAnswer
<1> QED BY <1>1, <1>2, <1>3, <1>4 DEF Asked

(* Reading one message the client does not break off on: it is dropped     *)
(* from the inbox, the board may move on to its revision, and the action   *)
(* that waits may be settled.                                              *)
LEMMA ReadOn ==
    ASSUME AlarmInv, TypeOK', inbox # <<>>, inbox' = Tail(inbox),
           UNCHANGED <<issued, answer, match>>, pending' \in {pending, NoAction},
           board' = board \/ (Numbered(inbox[1]) /\ board' = inbox[1].revision),
           outbox' \in {outbox, Append(outbox, [type |-> "snapshot"])}
    PROVE  InOrder' /\ Asked'
<1>0. /\ board \in Nat /\ streamed \in Nat /\ head \in Nat /\ issued \in Nat
      /\ inbox \in Seq(Frames) /\ outbox \in Seq(Requests)
      /\ \A i \in DOMAIN inbox : inbox[i] \in Frames
      /\ \A i \in DOMAIN outbox : outbox[i] \in Requests
  BY Terms DEF AlarmInv
<1>a. InOrder /\ Asked
  BY DEF AlarmInv
<1>b. streamed' = streamed /\ head' = head /\ own' = own
  BY DEF match
<1>1. /\ 1 \in DOMAIN inbox
      /\ \A i \in DOMAIN inbox' : i \in Nat /\ i + 1 \in DOMAIN inbox /\ inbox'[i] = inbox[i + 1] /\ 1 < i + 1
  BY <1>0
<1>2. board' \in Nat /\ board <= board' /\ board' <= streamed
  <2>1. Fits(inbox[1], board, streamed, issued, pending)
    BY <1>a, <1>1 DEF InOrder
  <2>2. board <= streamed
    BY <1>a DEF InOrder
  <2> QED BY <2>1, <2>2, <1>0, <1>1, FrameFacts DEF Fits
<1>3. \A i \in DOMAIN inbox' : Fits(inbox'[i], board', streamed', issued', pending')
  <2> TAKE i \in DOMAIN inbox'
  <2>1. inbox[i + 1] \in Frames /\ inbox'[i] = inbox[i + 1]
    BY <1>0, <1>1
  <2>2. Fits(inbox[i + 1], board, streamed, issued, pending)
    BY <1>a, <1>1 DEF InOrder
  <2>3. Numbered(inbox[i + 1]) => board' <= inbox[i + 1].revision
    <3>1. CASE board' = board
      BY <2>2, <3>1 DEF Fits
    <3>2. CASE Numbered(inbox[1]) /\ board' = inbox[1].revision
      BY <1>a, <1>1, <2>2, <3>2, FrameFacts DEF InOrder, Fits
    <3> QED BY <3>1, <3>2
  <2>4. pending' = pending \/ pending' = NoAction
    OBVIOUS
  <2>5. streamed <= streamed /\ issued <= issued
    BY <1>0
  <2>6. Fits(inbox[i + 1], board', streamed, issued, pending')
    BY <1>0, <1>2, <2>1, <2>2, <2>3, <2>4, <2>5, FitsOn
  <2> QED BY <1>b, <2>1, <2>6
<1>4. \A i, j \in DOMAIN inbox' : i < j /\ Numbered(inbox'[i]) /\ Numbered(inbox'[j]) =>
        inbox'[i].revision <= inbox'[j].revision
  <2> TAKE i, j \in DOMAIN inbox'
  <2>1. i < j => i + 1 < j + 1
    BY <1>1
  <2> QED BY <1>a, <1>1, <2>1 DEF InOrder
<1>5. \A i \in DOMAIN outbox' : Asks(outbox'[i], head', issued', pending')
  <2>1. \A i \in DOMAIN outbox : Asks(outbox[i], head, issued, pending')
    <3> TAKE i \in DOMAIN outbox
    <3>1. outbox[i] \in Requests /\ Asks(outbox[i], head, issued, pending)
      BY <1>0, <1>a DEF Asked
    <3>2. head <= head /\ issued <= issued
      BY <1>0
    <3>3. pending' = pending \/ pending' = NoAction
      OBVIOUS
    <3> QED BY <1>0, <3>1, <3>2, <3>3, AsksOn
  <2>2. \A i \in DOMAIN outbox' : outbox'[i].type = "snapshot" \/ (i \in DOMAIN outbox /\ outbox'[i] = outbox[i])
    <3> DEFINE r == [type |-> "snapshot"]
    <3>1. r.type = "snapshot"
      OBVIOUS
    <3>2. outbox' = outbox \/ outbox' = Append(outbox, r)
      OBVIOUS
    <3> HIDE DEF r
    <3>3. \A i \in DOMAIN Append(outbox, r) :
            Append(outbox, r)[i] = r \/ (i \in DOMAIN outbox /\ Append(outbox, r)[i] = outbox[i])
      BY <1>0
    <3> QED BY <3>1, <3>2, <3>3
  <2> QED BY <1>b, <2>1, <2>2 DEF Asks
<1>6. (pending'.id = 0 /\ pending'.expected < head) \/ pending' = pending
  BY <1>0 DEF NoAction, NoRevision
<1>7. own.id # 0 /\ own.id = pending'.id => own.revision = pending'.expected + 1
  BY <1>a DEF Asked, NoAction
<1>8. InOrder'
  BY <1>a, <1>b, <1>2, <1>3, <1>4 DEF InOrder
<1>9. Asked'
  BY <1>0, <1>a, <1>b, <1>5, <1>6, <1>7 DEF Asked
<1> QED BY <1>8, <1>9

(* What the hub adds to the stream fits when it is at least as late as     *)
(* what it said before, and follows from what was asked.                   *)
LEMMA Added ==
    ASSUME AlarmInv, TypeOK', NEW f \in Frames, NEW g \in Frames,
           Sends(<<f>>) \/ Sends(<<f, g>>),
           UNCHANGED <<board, issued, pending>>, streamed <= streamed', streamed' <= head',
           Fits(f, streamed, streamed', issued, pending),
           Fits(g, streamed, streamed', issued, pending),
           Numbered(f) /\ Numbered(g) => f.revision <= g.revision
    PROVE  InOrder'
<1>1. /\ board \in Nat /\ streamed \in Nat /\ streamed' \in Nat /\ issued \in Nat
      /\ inbox \in Seq(Frames) /\ \A i \in DOMAIN inbox : inbox[i] \in Frames
  BY Terms DEF AlarmInv, TypeOK, MatchOK
<1>2. InOrder
  BY DEF AlarmInv
<1>3. board <= streamed
  BY <1>2 DEF InOrder
<1> DEFINE n == Len(inbox)
<1>4. /\ n \in Nat /\ DOMAIN inbox = 1 .. n
      /\ \A i \in DOMAIN inbox' : i \in Nat /\ 1 <= i /\ i <= n + 2
      /\ \A i \in DOMAIN inbox' : i <= n => i \in DOMAIN inbox /\ inbox'[i] = inbox[i]
      /\ \A i \in DOMAIN inbox' : i = n + 1 => inbox'[i] = f
      /\ \A i \in DOMAIN inbox' : i = n + 2 => inbox'[i] = g
  <2>1. inbox' = inbox \o <<f>> \/ inbox' = inbox \o <<f, g>>
    BY DEF Sends
  <2>2. CASE inbox' = inbox \o <<f>>
    BY <1>1, <2>2
  <2>3. CASE inbox' = inbox \o <<f, g>>
    <3>1. <<f, g>> \in Seq(Frames) /\ Len(<<f, g>>) = 2 /\ <<f, g>>[1] = f /\ <<f, g>>[2] = g
      OBVIOUS
    <3>2. DOMAIN inbox' = 1 .. n + 2 /\ \A i \in 1 .. n : inbox'[i] = inbox[i]
      BY <1>1, <2>3, <3>1
    <3>3. inbox'[n + 1] = f /\ inbox'[n + 2] = g
      BY <1>1, <2>3, <3>1
    <3>4. n \in Nat /\ DOMAIN inbox = 1 .. n
      BY <1>1
    <3> HIDE DEF n
    <3> QED BY <3>2, <3>3, <3>4
  <2> QED BY <2>1, <2>2, <2>3
<1> HIDE DEF n
<1>5. \A i \in DOMAIN inbox : Fits(inbox[i], board, streamed', issued, pending)
  <2> TAKE i \in DOMAIN inbox
  <2>1. inbox[i] \in Frames /\ Fits(inbox[i], board, streamed, issued, pending)
    BY <1>1, <1>2 DEF InOrder
  <2>2. Numbered(inbox[i]) => board <= inbox[i].revision
    BY <2>1 DEF Fits
  <2>3. issued <= issued
    BY <1>1
  <2> QED BY <1>1, <2>1, <2>2, <2>3, FitsOn
<1>6. Fits(f, board, streamed', issued, pending) /\ Fits(g, board, streamed', issued, pending)
  BY <1>1, <1>3, FrameFacts DEF Fits
<1>7. \A i \in DOMAIN inbox' : i <= n \/ i = n + 1 \/ i = n + 2
  BY <1>4
<1>8. \A i \in DOMAIN inbox' : Fits(inbox'[i], board', streamed', issued', pending')
  BY <1>4, <1>5, <1>6, <1>7
<1>9. \A i \in DOMAIN inbox : Numbered(inbox[i]) =>
         /\ inbox[i].revision \in Nat /\ inbox[i].revision <= streamed
  BY <1>1, <1>2, FrameFacts DEF InOrder, Fits
<1>10. /\ Numbered(f) => f.revision \in Nat /\ streamed <= f.revision
       /\ Numbered(g) => g.revision \in Nat /\ streamed <= g.revision
  BY FrameFacts DEF Fits
<1>11. \A i, j \in DOMAIN inbox' : i < j /\ Numbered(inbox'[i]) /\ Numbered(inbox'[j]) =>
         inbox'[i].revision <= inbox'[j].revision
  <2> SUFFICES ASSUME NEW i \in DOMAIN inbox', NEW j \in DOMAIN inbox', i < j,
                      Numbered(inbox'[i]), Numbered(inbox'[j])
               PROVE  inbox'[i].revision <= inbox'[j].revision
    OBVIOUS
  <2>1. CASE j <= n
    <3>1. i \in DOMAIN inbox /\ j \in DOMAIN inbox /\ inbox'[i] = inbox[i] /\ inbox'[j] = inbox[j]
      BY <1>4, <2>1
    <3> QED BY <1>2, <3>1 DEF InOrder
  <2>2. CASE i <= n /\ n < j
    <3>1. i \in DOMAIN inbox /\ inbox'[i] = inbox[i] /\ inbox'[j] \in {f, g}
      BY <1>4, <1>7, <2>2
    <3> QED BY <1>1, <1>9, <1>10, <3>1
  <2>3. CASE i = n + 1 /\ j = n + 2
    BY <1>4, <2>3
  <2>4. \/ j <= n \/ (i <= n /\ n < j) \/ (i = n + 1 /\ j = n + 2)
    BY <1>4, <1>7
  <2> QED BY <2>1, <2>2, <2>3, <2>4
<1>12. board' <= streamed'
  BY <1>1, <1>3
<1> QED BY <1>8, <1>11, <1>12 DEF InOrder

(* The same for the conversation, once the client has been greeted: only   *)
(* what may follow a greeting is added, and only behind what is there.     *)
LEMMA FollowingAdded ==
    ASSUME AlarmInv, Following, link = "greeted", NEW f \in Frames, NEW g \in Frames,
           Sends(<<f>>) \/ Sends(<<f, g>>), f.type \in Later, g.type \in Later,
           UNCHANGED <<sent, awaiting, link>>, answer' \in {answer, NoAnswer},
           outbox' = outbox \/ (outbox # <<>> /\ outbox' = Tail(outbox))
    PROVE  Following'
<1>1. inbox \in Seq(Frames) /\ outbox \in Seq(Requests)
  BY Terms DEF AlarmInv
<1>2. \A i \in DOMAIN outbox' : ~Connects(outbox'[i])
  <2>1. CASE outbox' = outbox
    BY <2>1 DEF Following
  <2>2. CASE outbox' = Tail(outbox) /\ outbox # <<>>
    <3>1. \A i \in DOMAIN outbox' : i + 1 \in DOMAIN outbox /\ outbox'[i] = outbox[i + 1]
      BY <1>1, <2>2
    <3> QED BY <3>1 DEF Following
  <2> QED BY <2>1, <2>2
<1>3. inbox' = inbox \o <<f>> \/ inbox' = inbox \o <<f, g>>
  BY DEF Sends
<1>4. \A i \in DOMAIN inbox' : inbox'[i] \in {f, g} \/ (i \in DOMAIN inbox /\ inbox'[i] = inbox[i])
  <2>2. CASE inbox' = inbox \o <<f>>
    BY <1>1, <2>2
  <2>3. CASE inbox' = inbox \o <<f, g>>
    BY <1>1, <2>3
  <2> QED BY <1>3, <2>2, <2>3
<1>5. inbox # <<>> => inbox' # <<>> /\ inbox'[1] = inbox[1]
  BY <1>1, <1>3
<1>6. awaiting # NoRevision => inbox # <<>> /\ inbox[1] = Snapshot(awaiting)
  BY DEF Following
<1> QED BY <1>2, <1>4, <1>5, <1>6 DEF Following

(* The steps of the client.                                                *)
LEMMA AttemptFailedAlarm ==
    ASSUME AlarmInv, TypeOK', AttemptFailed \/ Fail, UNCHANGED match, board' = board,
           issued' \in Nat, issued <= issued', pending' \in {pending, NoAction}
    PROVE  InOrder' /\ Asked' /\ Dialogue'
<1>1. HangUp
  BY DEF AttemptFailed, Fail
<1>2. InOrder' /\ Asked'
  BY <1>1, Dropped DEF HangUp
<1>3. Dialogue'
  BY <1>1 DEF HangUp, Dialogue
<1> QED BY <1>2, <1>3

LEMMA BeginAttemptAlarm ==
    ASSUME AlarmInv, TypeOK', NEW next \in {"connecting", "reconnecting"}, BeginAttempt(next)
    PROVE  InOrder' /\ Asked' /\ Dialogue'
<1>1. /\ inbox' = <<>> /\ outbox' = <<>> /\ answer' = NoAnswer /\ link' = "broken"
      /\ socket' = "connecting" /\ state' = next /\ sent' = FALSE
      /\ board' = board /\ issued' = issued /\ pending' = pending /\ UNCHANGED match
  BY DEF BeginAttempt, game
<1>2. issued \in Nat /\ issued <= issued
  BY Terms DEF AlarmInv
<1>3. InOrder' /\ Asked'
  BY <1>1, <1>2, Dropped
<1>4. Dialogue'
  BY <1>1 DEF Dialogue, Opening
<1> QED BY <1>3, <1>4

(* A step that touches neither the conversation nor what it is about.      *)
LEMMA Quiet ==
    ASSUME AlarmInv, UNCHANGED <<state, sent, awaiting, game, network, match>>
    PROVE  InOrder' /\ Asked' /\ Dialogue'
<1>1. InOrder'
  BY DEF AlarmInv, InOrder, game, network, match
<1>2. Asked'
  BY DEF AlarmInv, Asked, game, network, match
<1>3. Dialogue'
  BY DEF AlarmInv, Dialogue, Opening, Unanswered, Greeted, Following, network
<1> QED BY <1>1, <1>2, <1>3

LEMMA SendConnectAlarm ==
    ASSUME AlarmInv, TypeOK', SendConnect
    PROVE  InOrder' /\ Asked' /\ Dialogue'
<1> DEFINE r == [type |-> IF resume THEN "resume" ELSE "ticket"]
<1>1. /\ socket = "open" /\ ~sent /\ sent' = TRUE /\ outbox' = Append(outbox, r)
      /\ UNCHANGED <<state, awaiting, game, socket, inbox, link, answer, match>>
  BY DEF SendConnect
<1>2. Opening /\ Unanswered /\ outbox = <<>>
  BY <1>1 DEF AlarmInv, Dialogue, Unanswered, Greeted, Following
<1>3. r.type # "action" /\ Connects(r)
  BY DEF Connects
<1> HIDE DEF r
<1>4. Len(outbox') = 1 /\ outbox'[1] = r /\ \A i \in DOMAIN outbox' : outbox'[i] = r
  BY <1>1, <1>2
<1>5. InOrder'
  BY <1>1 DEF AlarmInv, InOrder, game, match
<1>6. Asked'
  BY <1>1, <1>3, <1>4 DEF AlarmInv, Asked, Asks, game, match
<1>7. Unanswered'
  BY <1>1, <1>2, <1>3, <1>4 DEF Unanswered
<1>8. Dialogue'
  BY <1>1, <1>2, <1>7 DEF Dialogue, Opening
<1> QED BY <1>5, <1>6, <1>8

LEMMA RequestActionAlarm ==
    ASSUME AlarmInv, TypeOK', RequestAction
    PROVE  /\ InOrder' /\ Asked' /\ Dialogue'
           /\ failures' > failures => socket # "open"
<1>0. /\ board \in Nat /\ streamed \in Nat /\ head \in Nat /\ issued \in Nat
      /\ own.id \in Nat /\ answer.id \in Nat /\ failures \in Nat
      /\ outbox \in Seq(Requests)
      /\ \A i \in DOMAIN inbox : inbox[i] \in Frames
      /\ \A i \in DOMAIN outbox : outbox[i] \in Requests
  BY Terms DEF AlarmInv, TypeOK, AttemptOK
<1>1. CASE socket # "open"
  <2>1. AttemptFailed /\ issued' = issued + 1 /\ UNCHANGED <<pending, board>>
    BY <1>1 DEF RequestAction
  <2>2. issued' \in Nat /\ issued <= issued'
    BY <1>0, <2>1
  <2>3. UNCHANGED match
    BY <2>1 DEF AttemptFailed
  <2> QED BY <1>1, <2>1, <2>2, <2>3, AttemptFailedAlarm
<1>2. CASE socket = "open"
  <2> DEFINE p == [id |-> issued + 1, expected |-> board]
             r == [type |-> "action", id |-> issued + 1, expected |-> board]
  <2>1. /\ Settled /\ pending' = p /\ issued' = issued + 1 /\ outbox' = Append(outbox, r)
        /\ UNCHANGED <<board, attempt, socket, inbox, link, answer, match>>
    BY <1>2 DEF RequestAction
  <2>2. /\ p.id = issued + 1 /\ p.expected = board
        /\ r.type = "action" /\ r.id = issued + 1 /\ r.expected = board
    OBVIOUS
  <2> HIDE DEF p, r
  <2>3. InOrder /\ Asked /\ Dialogue
    BY DEF AlarmInv
  <2>4. /\ UNCHANGED <<state, sent, awaiting, failures>>
        /\ streamed' = streamed /\ head' = head /\ own' = own
    BY <2>1 DEF attempt, match
  <2>5. issued + 1 \in Nat /\ issued < issued + 1 /\ issued <= issued + 1
    BY <1>0
  <2>6. \A i \in DOMAIN inbox : Fits(inbox[i], board, streamed, issued + 1, p)
    <3> TAKE i \in DOMAIN inbox
    <3>1. inbox[i] \in Frames /\ Fits(inbox[i], board, streamed, issued, pending)
      BY <1>0, <2>3 DEF InOrder
    <3>2. Numbered(inbox[i]) => board <= inbox[i].revision
      BY <3>1 DEF Fits
    <3>3. streamed <= streamed /\ (p.id \in Nat /\ issued < p.id)
      BY <1>0, <2>2, <2>5
    <3> QED BY <1>0, <2>5, <3>1, <3>2, <3>3, FitsOn
  <2>7. InOrder'
    BY <2>1, <2>3, <2>4, <2>6 DEF InOrder
  <2>8. \A i \in DOMAIN outbox : Asks(outbox[i], head, issued + 1, p)
    <3> TAKE i \in DOMAIN outbox
    <3>1. outbox[i] \in Requests /\ Asks(outbox[i], head, issued, pending)
      BY <1>0, <2>3 DEF Asked
    <3>2. head <= head /\ (p.id \in Nat /\ issued < p.id)
      BY <1>0, <2>2, <2>5
    <3> QED BY <1>0, <2>5, <3>1, <3>2, AsksOn
  <2>9. Asks(r, head, issued + 1, p)
    BY <1>0, <2>2, <2>3 DEF Asks, InOrder
  <2>10. \A i \in DOMAIN outbox' : outbox'[i] = r \/ (i \in DOMAIN outbox /\ outbox'[i] = outbox[i])
    BY <1>0, <2>1
  <2>11. own.id <= issued /\ answer.id <= issued
    BY <2>3 DEF Asked
  <2>12. Asked'
    BY <1>0, <2>1, <2>2, <2>4, <2>8, <2>9, <2>10, <2>11 DEF Asked
  <2>13. ~Opening /\ Following
    BY <1>2, <2>1, <2>3 DEF Dialogue, Opening, Settled
  <2>14. Following'
    BY <2>1, <2>2, <2>4, <2>10, <2>13 DEF Following, Connects
  <2>15. Dialogue'
    BY <1>2, <2>1, <2>3, <2>4, <2>13, <2>14 DEF Dialogue, Opening
  <2> QED BY <1>0, <2>4, <2>7, <2>12, <2>15
<1> QED BY <1>1, <1>2

(* The conversation goes on behind a message of it that the client has     *)
(* read: it waits for no snapshot any more.                                *)
LEMMA DialogueOn ==
    ASSUME AlarmInv, inbox # <<>>, inbox' = Tail(inbox),
           socket = "open" => ~Opening /\ Following,
           socket # "connecting", awaiting' = NoRevision,
           UNCHANGED <<state, sent, socket, link, answer>>,
           outbox' \in {outbox, Append(outbox, [type |-> "snapshot"])}
    PROVE  Dialogue'
<1>1. CASE socket # "open"
  BY <1>1 DEF Dialogue
<1>2. CASE socket = "open"
  <2>1. state = "connected" /\ Following /\ ~Opening
    BY <1>2 DEF AlarmInv, Dialogue
  <2>2. inbox \in Seq(Frames) /\ outbox \in Seq(Requests)
    BY Terms DEF AlarmInv
  <2>3. \A i \in DOMAIN inbox' : i + 1 \in DOMAIN inbox /\ inbox'[i] = inbox[i + 1]
    BY <2>2
  <2> DEFINE r == [type |-> "snapshot"]
  <2>4. ~Connects(r)
    BY DEF Connects
  <2>5. outbox' = outbox \/ outbox' = Append(outbox, r)
    OBVIOUS
  <2> HIDE DEF r
  <2>6. \A i \in DOMAIN Append(outbox, r) :
          Append(outbox, r)[i] = r \/ (i \in DOMAIN outbox /\ Append(outbox, r)[i] = outbox[i])
    BY <2>2
  <2>7. \A i \in DOMAIN outbox' : ~Connects(outbox'[i])
    BY <2>1, <2>4, <2>5, <2>6 DEF Following
  <2>8. Following'
    BY <2>1, <2>3, <2>7 DEF Following
  <2> QED BY <1>2, <2>1, <2>8 DEF Dialogue, Opening
<1> QED BY <1>1, <1>2

(* What is at the head of the inbox when the client reads: a greeting if   *)
(* it is still connecting, unless it is refused, and afterwards the        *)
(* snapshot it waits for, or else whatever may follow.                     *)
LEMMA AtTheHead ==
    ASSUME AlarmInv, inbox # <<>>
    PROVE  /\ Head(inbox) = inbox[1] /\ inbox[1] \in Frames
           /\ Fits(inbox[1], board, streamed, issued, pending)
           /\ socket # "connecting"
           /\ socket = "open" /\ Opening => Greeted
           /\ socket = "open" /\ ~Opening =>
                /\ state = "connected" /\ Following /\ inbox[1].type \in Later
                /\ awaiting # NoRevision => inbox[1] = Snapshot(awaiting)
<1>1. Head(inbox) = inbox[1] /\ 1 \in DOMAIN inbox
  <2>1. inbox \in Seq(Frames)
    BY Terms DEF AlarmInv
  <2> QED BY <2>1
<1>2. inbox[1] \in Frames
  BY <1>1, Terms DEF AlarmInv
<1>3. Fits(inbox[1], board, streamed, issued, pending)
  BY <1>1 DEF AlarmInv, InOrder
<1> QED BY <1>1, <1>2, <1>3 DEF AlarmInv, Dialogue, Unanswered, Following

(* A client that follows has settled, unless the snapshot it waits for is  *)
(* the message it reads.                                                   *)
LEMMA SettledToRead ==
    ASSUME AlarmInv, inbox # <<>>, inbox[1].type \in {"event", "error", "ping"}, socket = "open"
    PROVE  Settled /\ ~Opening /\ Following
<1>1. ~Opening
  BY AtTheHead DEF Greeted
<1>2. awaiting = NoRevision
  BY <1>1, AtTheHead DEF Snapshot
<1> QED BY <1>1, <1>2, AtTheHead DEF Settled

LEMMA RequestSnapshotAlarm ==
    ASSUME AlarmInv, TypeOK', inbox # <<>>, Settled, RequestSnapshot, socket # "connecting",
           socket = "open" => ~Opening /\ Following,
           UNCHANGED <<board, issued>>, pending' \in {pending, NoAction}
    PROVE  /\ InOrder' /\ Asked' /\ Dialogue'
           /\ failures' > failures => socket # "open"
<1>1. failures \in Nat /\ issued \in Nat /\ issued <= issued
  BY Terms DEF AlarmInv, TypeOK, AttemptOK
<1>2. CASE AttemptFailed /\ socket # "open"
  <2>1. UNCHANGED match
    BY <1>2 DEF AttemptFailed
  <2> QED BY <1>1, <1>2, <2>1, AttemptFailedAlarm
<1>3. CASE /\ inbox' = Tail(inbox) /\ GoesOn
           /\ outbox' \in {outbox, Append(outbox, [type |-> "snapshot"])}
  <2>1. UNCHANGED <<state, sent, awaiting, failures, socket, link, answer, match>>
    BY <1>3 DEF GoesOn
  <2>2. awaiting' = NoRevision
    BY <2>1 DEF Settled
  <2>3. InOrder' /\ Asked'
    BY <1>3, <2>1, ReadOn
  <2>4. Dialogue'
    BY <1>3, <2>1, <2>2, DialogueOn
  <2> QED BY <1>1, <2>1, <2>3, <2>4
<1> QED BY <1>2, <1>3 DEF RequestSnapshot

LEMMA ReadAlarm ==
    ASSUME AlarmInv, TypeOK', Read
    PROVE  /\ InOrder' /\ Asked' /\ Dialogue'
           /\ failures' > failures => socket # "open" \/ Excused(Head(inbox))
<1> DEFINE m == inbox[1]
           Holds == /\ InOrder' /\ Asked' /\ Dialogue'
                    /\ failures' > failures => socket # "open" \/ Excused(Head(inbox))
<1>1. inbox # <<>> /\ active
  BY DEF Read
<1>2. /\ Head(inbox) = m /\ m \in Frames /\ socket # "connecting"
      /\ Fits(m, board, streamed, issued, pending)
  BY <1>1, AtTheHead
<1>3. /\ failures \in Nat /\ board \in Nat /\ issued \in Nat /\ issued <= issued
      /\ pending.expected \in Revisions
  BY Terms DEF AlarmInv, TypeOK, AttemptOK
(* Breaking off is for a transport that has closed.                        *)
<1>4. ASSUME AttemptFailed \/ (Fail /\ UNCHANGED <<failures, match>>),
             UNCHANGED <<board, issued>>, pending' \in {pending, NoAction},
             socket # "open" \/ Excused(m)
      PROVE  Holds
  <2>1. UNCHANGED match
    BY <1>4 DEF AttemptFailed
  <2> QED BY <1>2, <1>3, <1>4, <2>1, AttemptFailedAlarm
(* Reading on is for a client that has settled.                            *)
<1>5. ASSUME inbox' = Tail(inbox), GoesOn, UNCHANGED <<issued, outbox>>, Settled,
             socket = "open" => ~Opening /\ Following, pending' \in {pending, NoAction},
             board' = board \/ (Numbered(m) /\ board' = m.revision)
      PROVE  Holds
  <2>1. UNCHANGED <<state, sent, awaiting, failures, socket, link, answer, match>>
    BY <1>5 DEF GoesOn
  <2>2. awaiting' = NoRevision
    BY <1>5, <2>1 DEF Settled
  <2>3. InOrder' /\ Asked'
    BY <1>1, <1>5, <2>1, ReadOn
  <2>4. Dialogue'
    BY <1>1, <1>2, <1>5, <2>1, <2>2, DialogueOn
  <2> QED BY <1>3, <2>1, <2>3, <2>4
<1>6. CASE m.type = "connected" /\ HandleConnected(m)
  <2>1. UNCHANGED game /\ pending' = pending /\ board' = board /\ issued' = issued
    BY <1>6 DEF HandleConnected, game
  <2>2. CASE ~Opening
    <3>1. AttemptFailed
      BY <1>6, <2>2 DEF HandleConnected, Opening
    <3>2. socket # "open"
      BY <1>1, <1>6, <2>2, AtTheHead DEF Later
    <3> QED BY <1>4, <2>1, <3>1, <3>2
  <2>3. CASE Opening
    <3>1. /\ state' = "connected" /\ awaiting' = m.revision /\ inbox' = Tail(inbox)
          /\ UNCHANGED <<sent, failures, socket, outbox, link, answer, match>>
      BY <1>6, <2>3 DEF HandleConnected, Opening
    <3>2. InOrder' /\ Asked'
      BY <1>1, <2>1, <3>1, ReadOn
    <3>3. Dialogue'
      <4>1. CASE socket # "open"
        BY <1>2, <3>1, <4>1 DEF Dialogue
      <4>2. CASE socket = "open"
        <5>1. Greeted
          BY <1>1, <2>3, <4>2, AtTheHead
        <5>2. inbox \in Seq(Frames)
          BY Terms DEF AlarmInv
        <5>3. /\ \A i \in DOMAIN inbox' : i + 1 \in DOMAIN inbox /\ i + 1 # 1 /\ inbox'[i] = inbox[i + 1]
              /\ inbox' = <<>> <=> Len(inbox) = 1
              /\ inbox' # <<>> => inbox'[1] = inbox[2]
          <6>1. Len(inbox) \in Nat /\ Len(inbox) # 0 /\ Len(inbox') = Len(inbox) - 1
            BY <1>1, <3>1, <5>2
          <6>2. inbox' \in Seq(Frames)
            BY <1>1, <3>1, <5>2
          <6>3. \A i \in DOMAIN inbox' : i \in Nat \ {0} /\ i + 1 \in DOMAIN inbox /\ inbox'[i] = inbox[i + 1]
            BY <1>1, <3>1, <5>2
          <6>4. inbox' = <<>> <=> Len(inbox') = 0
            BY <6>2
          <6>5. inbox' # <<>> => 1 \in DOMAIN inbox'
            BY <6>2
          <6> QED BY <6>1, <6>3, <6>4, <6>5
        <5>4. Following'
          BY <3>1, <5>1, <5>3 DEF Greeted, Following
        <5> QED BY <3>1, <4>2, <5>4 DEF Dialogue, Opening
      <4> QED BY <4>1, <4>2
    <3> QED BY <1>3, <3>1, <3>2, <3>3
  <2> QED BY <2>2, <2>3
<1>7. CASE m.type = "snapshot" /\ HandleSnapshot(m)
  <2> DEFINE fits == state = "connected" /\ awaiting \in {NoRevision, m.revision} /\ m.revision >= board
  <2>1. socket = "open" => fits /\ ~Opening /\ Following
    <3>1. m.revision \in Nat /\ board <= m.revision
      BY <1>2, <1>7, FrameFacts DEF Fits, Numbered
    <3>2. socket = "open" => ~Opening
      BY <1>1, <1>7, AtTheHead DEF Greeted
    <3>3. socket = "open" => state = "connected" /\ Following /\ awaiting \in {NoRevision, m.revision}
      BY <1>1, <3>2, AtTheHead DEF Snapshot
    <3> QED BY <1>3, <3>1, <3>2, <3>3
  <2>2. CASE ~fits
    <3>1. AttemptFailed /\ UNCHANGED game
      BY <1>7, <2>2 DEF HandleSnapshot
    <3>2. pending' = pending /\ board' = board /\ issued' = issued
      BY <3>1 DEF game
    <3> QED BY <1>4, <2>1, <2>2, <3>1, <3>2
  <2>3. CASE fits
    <3>1. /\ board' = m.revision /\ pending' = NoAction /\ awaiting' = NoRevision /\ failures' = 0
          /\ inbox' = Tail(inbox)
          /\ UNCHANGED <<state, sent, issued, socket, outbox, link, answer, match>>
      BY <1>7, <2>3 DEF HandleSnapshot
    <3>2. InOrder' /\ Asked'
      BY <1>1, <1>7, <3>1, ReadOn DEF Numbered
    <3>3. Dialogue'
      BY <1>1, <1>2, <2>1, <3>1, DialogueOn
    <3> QED BY <1>3, <3>1, <3>2, <3>3
  <2> QED BY <2>2, <2>3
<1>8. CASE m.type = "event" /\ HandleEvent(m)
  <2>1. socket = "open" => Settled /\ ~Opening /\ Following
    BY <1>1, <1>8, SettledToRead
  <2>2. m.revision \in Nat
    BY <1>2, <1>8, FrameFacts DEF Numbered
  <2>3. CASE AttemptFailed /\ UNCHANGED game /\ ~Settled
    BY <1>4, <2>1, <2>3 DEF game
  <2>4. CASE /\ Recorded /\ inbox' = Tail(inbox) /\ GoesOn /\ Settled
             /\ UNCHANGED <<game, requested, outbox>>
    BY <1>5, <2>1, <2>4 DEF game
  <2>5. CASE RequestSnapshot /\ UNCHANGED game /\ Settled
    BY <1>1, <1>2, <2>1, <2>5, RequestSnapshotAlarm DEF game
  <2>6. CASE /\ AttemptFailed /\ UNCHANGED game
             /\ m.revision = board + 1 /\ Matches(m) /\ pending.expected # board
    <3>1. m.revision = pending.expected + 1
      BY <1>2, <1>8, <2>6 DEF Fits, Matches, About
    <3>2. pending.expected \in Int
      BY <1>3 DEF Revisions, NoRevision
    <3> QED BY <1>3, <2>6, <3>1, <3>2
  <2>7. CASE /\ board' = m.revision /\ Settled
             /\ pending' = IF Matches(m) THEN NoAction ELSE pending
             /\ Recorded /\ inbox' = Tail(inbox) /\ GoesOn
             /\ UNCHANGED <<issued, requested, outbox>>
    BY <1>5, <1>8, <2>1, <2>7 DEF Numbered
  <2> QED BY <1>8, <2>3, <2>4, <2>5, <2>6, <2>7 DEF HandleEvent
<1>9. CASE m.type = "ping" /\ HandlePing
  <2>1. socket = "open" => Settled /\ ~Opening /\ Following
    BY <1>1, <1>9, SettledToRead
  <2>2. UNCHANGED game /\ pending' = pending /\ board' = board /\ issued' = issued
    BY <1>9 DEF HandlePing, game
  <2>3. CASE state = "connected" /\ socket = "open"
    <3>1. inbox' = Tail(inbox) /\ GoesOn /\ UNCHANGED outbox
      BY <1>9, <2>3 DEF HandlePing
    <3> QED BY <1>5, <2>1, <2>2, <2>3, <3>1
  <2>4. CASE ~(state = "connected" /\ socket = "open")
    <3>1. AttemptFailed
      BY <1>9, <2>4 DEF HandlePing
    <3>2. socket # "open"
      BY <2>1, <2>4 DEF Settled
    <3> QED BY <1>4, <2>2, <3>1, <3>2
  <2> QED BY <2>3, <2>4
<1>10. CASE m.type = "error" /\ HandleError(m)
  <2>1. socket = "open" => Settled /\ ~Opening /\ Following
    BY <1>1, <1>10, SettledToRead
  <2>2. m.revision \in Nat /\ board <= m.revision /\ m.code \in Errors
    BY <1>2, <1>10, FrameFacts DEF Numbered, Fits
  <2>3. m.code = "stale_revision" /\ Matches(m) => pending.expected < m.revision
    BY <1>2, <1>10 DEF Fits, Matches, About
  <2>4. pending.expected \in Int
    BY <1>3 DEF Revisions, NoRevision
  <2>5. CASE AttemptFailed /\ UNCHANGED game /\ ~Settled
    BY <1>4, <2>1, <2>5 DEF game
  <2>6. CASE /\ AttemptFailed /\ UNCHANGED game /\ m.code = "stale_revision"
             /\ m.revision < board \/ (Matches(m) /\ m.revision <= pending.expected)
    BY <1>3, <2>2, <2>3, <2>4, <2>6
  <2>7. CASE /\ AttemptFailed /\ UNCHANGED game /\ m.code # "stale_revision"
    BY <1>4, <1>10, <2>2, <2>7 DEF game, Excused, Errors
  <2>8. CASE /\ pending' = IF Matches(m) THEN NoAction ELSE pending
             /\ RequestSnapshot /\ Settled /\ UNCHANGED <<board, issued>>
    BY <1>1, <1>2, <2>1, <2>8, RequestSnapshotAlarm
  <2>9. CASE /\ pending' = IF Matches(m) THEN NoAction ELSE pending
             /\ Recorded /\ inbox' = Tail(inbox) /\ GoesOn /\ Settled
             /\ UNCHANGED <<board, issued, requested, outbox>>
    BY <1>5, <2>1, <2>9
  <2> QED BY <1>10, <2>5, <2>6, <2>7, <2>8, <2>9 DEF HandleError
<1>11. CASE m.type = "refusal" /\ HandleRefusal(m)
  <2>1. UNCHANGED game /\ pending' = pending /\ board' = board /\ issued' = issued
    BY <1>11 DEF HandleRefusal, game
  <2>2. AttemptFailed \/ (Fail /\ UNCHANGED <<failures, match>>)
    BY <1>11 DEF HandleRefusal
  <2> QED BY <1>4, <1>11, <2>1, <2>2 DEF Excused
<1> QED BY <1>2, <1>6, <1>7, <1>8, <1>9, <1>10, <1>11, FrameFacts DEF Read

(* The other steps of the client: its timers, the end of its transport,    *)
(* and its own end.                                                        *)
LEMMA ClientAlarm ==
    ASSUME AlarmInv, TypeOK', Start \/ TransportClosed \/ Close \/ Tick \/ Due
    PROVE  /\ InOrder' /\ Asked' /\ Dialogue'
           /\ failures' > failures => socket # "open" \/ slot.due
<1>1. issued \in Nat /\ issued <= issued /\ failures \in Nat
  BY Terms DEF AlarmInv, TypeOK, AttemptOK
<1>2. CASE Start
  <2>1. BeginAttempt("connecting") /\ failures' = failures
    BY <1>2 DEF Start, BeginAttempt
  <2> QED BY <1>1, <2>1, BeginAttemptAlarm
<1>3. CASE TransportClosed
  <2>1. socket # "open" /\ (AttemptFailed \/ (Fail /\ UNCHANGED match)) /\ UNCHANGED game
    BY <1>3 DEF TransportClosed
  <2>2. UNCHANGED match
    BY <2>1 DEF AttemptFailed
  <2>3. board' = board /\ issued' = issued /\ pending' = pending
    BY <2>1 DEF game
  <2> QED BY <1>1, <2>1, <2>2, <2>3, AttemptFailedAlarm
<1>4. CASE Close
  <2>1. HangUp /\ UNCHANGED <<failures, game, match>>
    BY <1>4 DEF Close
  <2>2. board' = board /\ issued' = issued /\ pending' = pending
    BY <2>1 DEF game
  <2>3. InOrder' /\ Asked'
    BY <1>1, <2>1, <2>2, Dropped DEF HangUp
  <2>4. Dialogue'
    BY <2>1 DEF HangUp, Dialogue
  <2> QED BY <1>1, <2>1, <2>3, <2>4
<1>5. CASE Tick
  <2>1. UNCHANGED <<state, sent, awaiting, failures, game, network, match>>
    BY <1>5 DEF Tick
  <2> QED BY <1>1, <2>1, Quiet
<1>6. CASE Due
  <2>1. slot.due /\ UNCHANGED game
    BY <1>6 DEF Due
  <2>2. board' = board /\ issued' = issued /\ pending' = pending
    BY <2>1 DEF game
  <2>3. slot.kind \in {"retry", "attempt", "inbound"}
    BY <2>1 DEF AlarmInv, TypeOK, AttemptOK, Slots, Nothing
  <2>4. AttemptFailed \/ BeginAttempt("reconnecting") \/ Elapsed
    BY <1>6, <2>3 DEF Due
  <2>5. CASE AttemptFailed
    <3>1. UNCHANGED match
      BY <2>5 DEF AttemptFailed
    <3> QED BY <1>1, <2>1, <2>2, <2>5, <3>1, AttemptFailedAlarm
  <2>6. CASE BeginAttempt("reconnecting")
    BY <2>1, <2>6, BeginAttemptAlarm
  <2>7. CASE Elapsed
    <3>1. UNCHANGED <<state, sent, awaiting, game, network, match>>
      BY <2>1, <2>7 DEF Elapsed
    <3> QED BY <2>1, <3>1, Quiet
  <2> QED BY <2>4, <2>5, <2>6, <2>7
<1> QED BY <1>2, <1>3, <1>4, <1>5, <1>6

(* The steps of the network and of the hub.                                *)
LEMMA NetworkAlarm ==
    ASSUME AlarmInv, TypeOK', Opens \/ Breaks \/ Opponent
    PROVE  InOrder' /\ Asked' /\ Dialogue'
<1>0. /\ board \in Nat /\ streamed \in Nat /\ head \in Nat /\ issued \in Nat
      /\ inbox \in Seq(Frames) /\ outbox \in Seq(Requests)
      /\ \A i \in DOMAIN outbox : outbox[i] \in Requests
      /\ pending.expected \in Revisions
  BY Terms DEF AlarmInv
<1>1. InOrder /\ Asked /\ Dialogue
  BY DEF AlarmInv
<1>2. CASE Opens
  <2>1. /\ socket = "connecting" /\ socket' = "open" /\ link' = "open"
        /\ UNCHANGED <<state, sent, awaiting, board, pending, issued, inbox, outbox, answer, match>>
    BY <1>2 DEF Opens, attempt, game
  <2>2. Opening' /\ Unanswered'
    BY <1>1, <2>1 DEF Dialogue, Opening, Unanswered
  <2>3. Dialogue'
    BY <2>1, <2>2 DEF Dialogue
  <2>4. InOrder' /\ Asked'
    BY <1>1, <2>1 DEF InOrder, Asked, match
  <2> QED BY <2>3, <2>4
<1>3. CASE Breaks
  <2>1. /\ socket' \in {socket, "closed"} /\ link' = "broken" /\ outbox' = <<>> /\ answer' = NoAnswer
        /\ UNCHANGED <<state, sent, awaiting, board, pending, issued, match>>
    BY <1>3 DEF Breaks, attempt, game
  <2>2. PICK n \in 0 .. Len(inbox) : inbox' = SubSeq(inbox, 1, n)
    BY <1>3 DEF Breaks
  <2>3. /\ \A i \in DOMAIN inbox' : i \in DOMAIN inbox /\ inbox'[i] = inbox[i]
        /\ Len(inbox') = n /\ (inbox' = <<>> <=> n = 0)
        /\ n > 0 => 1 \in DOMAIN inbox'
        /\ n > 1 => 2 \in DOMAIN inbox'
        /\ n \in Nat /\ n <= Len(inbox)
    <3>1. /\ \A i \in DOMAIN inbox' : i \in DOMAIN inbox /\ inbox'[i] = inbox[i]
          /\ Len(inbox') = n /\ n \in Nat /\ n <= Len(inbox)
      BY <1>0, <2>2
    <3>2. inbox' \in Seq(Frames)
      BY <1>0, <2>2
    <3> QED BY <3>1, <3>2
  <2>4. InOrder'
    BY <1>1, <2>1, <2>3 DEF InOrder, match
  <2>5. Asked'
    <3>1. answer'.code # "stale_revision" /\ answer'.id = 0
      BY <2>1 DEF NoAnswer
    <3> QED BY <1>0, <1>1, <2>1, <3>1 DEF Asked, match
  <2>6. Dialogue'
    <3>1. state' = state /\ (Opening' <=> Opening)
      BY <2>1 DEF Opening
    <3>2. CASE socket' # "open"
      <4>1. CASE socket' = "connecting"
        <5>1. Opening /\ inbox = <<>> /\ ~sent
          BY <1>1, <2>1, <4>1 DEF Dialogue
        <5>2. inbox' = <<>> /\ ~sent'
          BY <2>1, <2>3, <5>1
        <5> QED BY <2>1, <3>2, <3>1, <5>1, <5>2 DEF Dialogue
      <4>2. CASE socket' # "connecting"
        BY <3>2, <4>2 DEF Dialogue
      <4> QED BY <4>1, <4>2
    <3>3. CASE socket' = "open" /\ Opening
      <4>1. inbox' = <<>> => Unanswered'
        BY <2>1 DEF Unanswered
      <4>2. inbox' # <<>> => Greeted'
        <5> SUFFICES ASSUME inbox' # <<>> PROVE Greeted'
          OBVIOUS
        <5>1. inbox # <<>> /\ 1 \in DOMAIN inbox' /\ inbox'[1] = inbox[1] /\ n > 0
          BY <2>3
        <5>2. Greeted
          BY <1>1, <2>1, <3>3, <5>1 DEF Dialogue, Unanswered
        <5>3. n # 1 => Len(inbox) # 1 /\ inbox'[2] = inbox[2]
          BY <1>0, <2>3, <5>1
        <5>4. /\ inbox'[1].type = "connected"
              /\ \A i \in DOMAIN inbox' : i # 1 => inbox'[i].type \in Later
          BY <2>3, <5>1, <5>2 DEF Greeted
        <5>5. IF Len(inbox') = 1 THEN link' = "broken" ELSE inbox'[2] = Snapshot(inbox'[1].revision)
          BY <2>1, <2>3, <5>1, <5>2, <5>3 DEF Greeted
        <5>6. sent' /\ outbox' = <<>> /\ answer' = NoAnswer /\ link' # "open"
          BY <2>1, <5>2 DEF Greeted
        <5> QED BY <5>4, <5>5, <5>6 DEF Greeted
      <4>3. socket' # "connecting"
        BY <3>3
      <4> QED BY <3>3, <3>1, <4>1, <4>2, <4>3 DEF Dialogue
    <3>4. CASE socket' = "open" /\ ~Opening
      <4>1. state = "connected" /\ Following
        BY <1>1, <2>1, <3>4 DEF Dialogue
      <4>2. inbox' # <<>> => inbox # <<>> /\ inbox'[1] = inbox[1]
        BY <2>3
      <4>3. Following'
        BY <2>1, <2>3, <4>1, <4>2 DEF Following
      <4>4. socket' # "connecting"
        BY <3>4
      <4> QED BY <3>4, <3>1, <4>1, <4>3, <4>4 DEF Dialogue
    <3> QED BY <3>2, <3>3, <3>4
  <2> QED BY <2>4, <2>5, <2>6
<1>4. CASE Opponent
  <2>1. /\ head' = head + 1 /\ head <= head + 1
        /\ UNCHANGED <<state, sent, awaiting, board, pending, issued, network, streamed, own>>
    BY <1>0, <1>4 DEF Opponent, attempt, game
  <2>2. /\ UNCHANGED <<inbox, outbox, answer, socket, link>>
    BY <2>1 DEF network
  <2>3. InOrder'
    BY <1>0, <1>1, <2>1, <2>2 DEF InOrder
  <2>4. \A i \in DOMAIN outbox : Asks(outbox[i], head + 1, issued, pending)
    <3> TAKE i \in DOMAIN outbox
    <3>1. outbox[i] \in Requests /\ Asks(outbox[i], head, issued, pending)
      BY <1>0, <1>1 DEF Asked
    <3>2. head + 1 \in Nat /\ issued <= issued
      BY <1>0
    <3> QED BY <1>0, <2>1, <3>1, <3>2, AsksOn
  <2>5. pending.expected < head => pending.expected < head + 1
    BY <1>0 DEF Revisions, NoRevision
  <2>6. Asked'
    BY <1>1, <2>1, <2>2, <2>4, <2>5 DEF Asked
  <2>7. Dialogue'
    BY <1>1, <2>1, <2>2 DEF Dialogue, Opening, Unanswered, Greeted, Following
  <2> QED BY <2>3, <2>6, <2>7
<1> QED BY <1>2, <1>3, <1>4

(* What the hub sends fits what was asked of it.                           *)
LEMMA SnapshotFits ==
    ASSUME AlarmInv, NEW r \in Nat, NEW s \in Nat, s <= r
    PROVE  /\ Snapshot(r) \in Frames /\ Snapshot(r).type = "snapshot" /\ Snapshot(r).revision = r
           /\ Fits(Snapshot(r), s, r, issued, pending)
<1>1. Snapshot(r) \in Frames
  BY FramesSent DEF AlarmInv, TypeOK
<1>2. Snapshot(r).type = "snapshot" /\ Snapshot(r).revision = r
  BY DEF Snapshot
<1> QED BY <1>1, <1>2 DEF Fits

(* The conversation with a client that was greeted goes on.                *)
LEMMA DialogueAdded ==
    ASSUME AlarmInv, socket = "open" => link = "greeted", NEW f \in Frames, NEW g \in Frames,
           Sends(<<f>>) \/ Sends(<<f, g>>), f.type \in Later, g.type \in Later,
           UNCHANGED <<state, sent, awaiting, socket, link>>, answer' \in {answer, NoAnswer},
           outbox' = outbox \/ (outbox # <<>> /\ outbox' = Tail(outbox)),
           answer # NoAnswer \/ outbox # <<>>
    PROVE  Dialogue'
<1>1. socket # "connecting"
  BY DEF AlarmInv, Dialogue
<1>2. socket = "open" => ~Opening /\ Following
  BY DEF AlarmInv, Dialogue, Unanswered, Greeted
<1>3. socket = "open" => Following'
  BY <1>2, FollowingAdded
<1>4. state' = state /\ socket' = socket /\ (Opening' <=> Opening)
  BY DEF Opening
<1>5. socket = "open" => state = "connected"
  BY <1>2 DEF AlarmInv, Dialogue
<1> QED BY <1>1, <1>2, <1>3, <1>4, <1>5, Zenon DEF Dialogue

LEMMA HubAnswersAlarm ==
    ASSUME AlarmInv, TypeOK', HubAnswers
    PROVE  InOrder' /\ Asked' /\ Dialogue'
<1>0. /\ board \in Nat /\ streamed \in Nat /\ head \in Nat /\ issued \in Nat
      /\ answer.id \in Nat /\ answer.code \in Errors
      /\ pending.expected \in Revisions
  <2>1. answer.code \in Errors
    BY DEF HubAnswers, AlarmInv, TypeOK, NetworkOK
  <2> QED BY <2>1, Terms DEF AlarmInv
<1>1. InOrder /\ Asked /\ Dialogue /\ TypeOK
  BY DEF AlarmInv
<1>2. /\ answer # NoAnswer /\ answer' = NoAnswer
      /\ UNCHANGED <<state, sent, awaiting, board, pending, issued, socket, outbox, link, head, own>>
  BY DEF HubAnswers, attempt, game
<1>3. socket = "open" => ~Opening /\ Following /\ link = "greeted"
  BY <1>1, <1>2 DEF Dialogue, Unanswered, Greeted, Following
<1>4. streamed <= head /\ streamed <= streamed /\ head <= head
  BY <1>0, <1>1 DEF InOrder
<1>5. Asked'
  <2>1. answer'.code # "stale_revision" /\ answer'.id = 0
    BY <1>2 DEF NoAnswer
  <2> QED BY <1>0, <1>1, <1>2, <2>1 DEF Asked
<1>6. CASE answer.code = "stale_revision"
  <2> DEFINE f == Error(answer.code, answer.id, head)
             g == Snapshot(head)
  <2>1. Sends(<<f, g>>) /\ streamed' = head
    BY <1>6 DEF HubAnswers
  <2>2. f \in Frames /\ f.type = "error" /\ f.code = answer.code /\ f.id = answer.id /\ f.revision = head
    <3>1. f \in Frames
      BY <1>0, <1>1, FramesSent DEF TypeOK
    <3> QED BY <3>1 DEF Error
  <2>3. /\ g \in Frames /\ g.type = "snapshot" /\ g.revision = head
        /\ Fits(g, streamed, head, issued, pending)
    BY <1>0, <1>4, SnapshotFits
  <2>4. Fits(f, streamed, head, issued, pending)
    BY <1>0, <1>1, <1>4, <1>6, <2>2 DEF Fits, Asked, About
  <2>5. streamed <= streamed' /\ streamed' <= head' /\ f.revision <= g.revision
    BY <1>2, <1>4, <2>1, <2>2, <2>3
  <2>6. f.type \in Later /\ g.type \in Later
    BY <2>2, <2>3 DEF Later
  <2> HIDE DEF f, g
  <2>7. InOrder'
    BY <1>2, <2>1, <2>2, <2>3, <2>4, <2>5, Added
  <2>8. Dialogue'
    BY <1>2, <1>3, <2>1, <2>2, <2>3, <2>6, DialogueAdded
  <2> QED BY <1>5, <2>7, <2>8
<1>7. CASE answer.code # "stale_revision"
  <2> DEFINE f == Error(answer.code, answer.id, streamed)
  <2>1. Sends(<<f>>) /\ streamed' = streamed
    BY <1>7 DEF HubAnswers
  <2>2. f \in Frames /\ f.type = "error" /\ f.code = answer.code /\ f.id = answer.id /\ f.revision = streamed
    <3>1. f \in Frames
      BY <1>0, <1>1, FramesSent DEF TypeOK
    <3> QED BY <3>1 DEF Error
  <2>3. Fits(f, streamed, streamed, issued, pending)
    BY <1>0, <1>1, <1>4, <1>7, <2>2 DEF Fits, Asked
  <2>4. streamed <= streamed' /\ streamed' <= head' /\ f.revision <= f.revision
    BY <1>2, <1>4, <2>1, <2>2
  <2>5. f.type \in Later
    BY <2>2 DEF Later
  <2> HIDE DEF f
  <2>6. InOrder'
    BY <1>2, <2>1, <2>2, <2>3, <2>4, Added
  <2>7. Dialogue'
    BY <1>2, <1>3, <2>1, <2>2, <2>5, DialogueAdded
  <2> QED BY <1>5, <2>6, <2>7
<1> QED BY <1>6, <1>7

LEMMA HubPublishesAlarm ==
    ASSUME AlarmInv, TypeOK', HubPublishes
    PROVE  InOrder' /\ Asked' /\ Dialogue'
<1>0. /\ board \in Nat /\ streamed \in Nat /\ head \in Nat /\ issued \in Nat
      /\ own.id \in Nat /\ inbox \in Seq(Frames)
      /\ InOrder /\ Asked /\ Dialogue /\ TypeOK
  BY Terms DEF AlarmInv
<1>1. /\ link = "greeted" /\ streamed < head
      /\ UNCHANGED <<state, sent, awaiting, board, pending, issued, socket, outbox, link, answer, head, own>>
  BY DEF HubPublishes, attempt, game
<1>2. Asked'
  BY <1>0, <1>1 DEF Asked
<1>3. ASSUME NEW f \in Frames, f.type \in {"event", "snapshot"}, Sends(<<f>>),
             streamed <= streamed', streamed' <= head,
             f.revision \in Nat, Fits(f, streamed, streamed', issued, pending)
      PROVE  InOrder' /\ Dialogue'
  <2>1. InOrder'
    <3>1. f.revision <= f.revision
      BY <1>3
    <3> QED BY <1>1, <1>3, <3>1, Added
  <2>2. socket # "connecting" /\ (socket = "open" /\ Opening => Greeted)
    BY <1>0, <1>1 DEF Dialogue, Unanswered
  <2>3. f.type \in Later
    BY <1>3 DEF Later
  <2>4. inbox' = inbox \o <<f>>
    BY <1>3 DEF Sends
  <2>5. Greeted => Greeted'
    <3> SUFFICES ASSUME Greeted PROVE Greeted'
      OBVIOUS
    <3>1. Len(inbox) \in Nat /\ Len(inbox) # 0 /\ Len(inbox) # 1
      BY <1>0, <1>1 DEF Greeted
    <3>2. \A i \in DOMAIN inbox' : inbox'[i] = f \/ (i \in DOMAIN inbox /\ inbox'[i] = inbox[i])
      BY <1>0, <2>4
    <3>3. inbox'[1] = inbox[1] /\ inbox'[2] = inbox[2] /\ Len(inbox') # 1 /\ inbox' # <<>>
      BY <1>0, <2>4, <3>1
    <3>4. inbox[2] = Snapshot(inbox[1].revision)
      BY <3>1 DEF Greeted
    <3>5. \A i \in DOMAIN inbox' : i # 1 => inbox'[i].type \in Later
      BY <2>3, <3>2 DEF Greeted
    <3> QED BY <1>1, <3>3, <3>4, <3>5 DEF Greeted
  <2>6. Following => Following'
    BY <1>1, <1>3, <2>3, FollowingAdded
  <2>7. state' = state /\ socket' = socket /\ (Opening' <=> Opening)
    BY <1>1 DEF Opening
  <2>8. Dialogue'
    BY <1>0, <2>2, <2>5, <2>6, <2>7 DEF Dialogue
  <2> QED BY <2>1, <2>8
<1>4. CASE Sends(<<Snapshot(head)>>) /\ streamed' = head
  <2>1. streamed <= head /\ head <= head
    BY <1>0, <1>1
  <2>2. /\ Snapshot(head) \in Frames /\ Snapshot(head).type = "snapshot" /\ Snapshot(head).revision = head
        /\ Fits(Snapshot(head), streamed, head, issued, pending)
    BY <1>0, <2>1, SnapshotFits
  <2> QED BY <1>0, <1>2, <1>3, <1>4, <2>1, <2>2
<1>5. CASE Sends(<<Event(streamed + 1)>>) /\ streamed' = streamed + 1
  <2>1. streamed + 1 \in Nat /\ streamed <= streamed + 1 /\ streamed + 1 <= head
    BY <1>0, <1>1
  <2> DEFINE f == Event(streamed + 1)
  <2>2. f \in Frames
    BY <1>0, <2>1, FramesSent DEF TypeOK
  <2>3. /\ f.type = "event" /\ f.revision = streamed + 1
        /\ f.id = IF streamed + 1 = own.revision THEN own.id ELSE 0
    BY DEF Event
  <2> HIDE DEF f
  <2>4. f.id <= issued
    BY <1>0, <2>3 DEF Asked
  <2>5. About(f, pending) => f.revision = pending.expected + 1
    BY <1>0, <2>3 DEF About, Asked
  <2>6. Fits(f, streamed, streamed + 1, issued, pending)
    BY <1>0, <2>1, <2>3, <2>4, <2>5 DEF Fits
  <2>7. Sends(<<f>>)
    BY <1>5 DEF f
  <2> QED BY <1>2, <1>3, <1>5, <2>1, <2>2, <2>3, <2>6, <2>7
<1> QED BY <1>4, <1>5 DEF HubPublishes

LEMMA PingAlarm ==
    ASSUME AlarmInv, TypeOK', Ping
    PROVE  InOrder' /\ Asked' /\ Dialogue'
<1> DEFINE f == [type |-> "ping"]
<1>0. /\ streamed \in Nat /\ inbox \in Seq(Frames) /\ outbox \in Seq(Requests)
      /\ InOrder /\ Asked /\ Dialogue /\ TypeOK
  BY Terms DEF AlarmInv
<1>1. /\ link = "greeted" /\ inbox = <<>> /\ Sends(<<f>>)
      /\ UNCHANGED <<state, sent, awaiting, board, pending, issued, socket, outbox, link, answer,
                     streamed, head, own>>
  BY DEF Ping, attempt, game, match
<1>2. f \in Frames /\ f.type = "ping"
  BY <1>0, FramesSent DEF TypeOK
<1> HIDE DEF f
<1>3. Fits(f, streamed, streamed, issued, pending) /\ ~Numbered(f) /\ f.type \in Later
  BY <1>2 DEF Fits, Numbered, Later
<1>4. InOrder'
  <2>1. streamed <= streamed' /\ streamed' <= head'
    BY <1>0, <1>1 DEF InOrder
  <2> QED BY <1>1, <1>2, <1>3, <2>1, Added
<1>5. Asked'
  BY <1>0, <1>1 DEF Asked
<1>6. socket # "connecting" /\ (socket = "open" => ~Opening /\ Following)
  BY <1>0, <1>1 DEF Dialogue, Unanswered, Greeted
<1>7. Following => Following'
  BY <1>1, <1>2, <1>3, FollowingAdded
<1>8. state' = state /\ socket' = socket /\ (Opening' <=> Opening)
  BY <1>1 DEF Opening
<1>9. Dialogue'
  BY <1>0, <1>6, <1>7, <1>8 DEF Dialogue
<1> QED BY <1>4, <1>5, <1>9

(* What the hub has read is gone; what it has not keeps fitting.           *)
LEMMA OutboxRead ==
    ASSUME AlarmInv, outbox # <<>>, outbox' = Tail(outbox), NEW d \in Nat, head <= d
    PROVE  /\ Head(outbox) = outbox[1] /\ outbox[1] \in Requests
           /\ Asks(outbox[1], head, issued, pending)
           /\ \A i \in DOMAIN outbox' : Asks(outbox'[i], d, issued, pending)
           /\ socket # "connecting"
           /\ socket = "open" /\ Opening => Unanswered /\ outbox' = <<>> /\ sent /\ Connects(outbox[1])
           /\ socket = "open" /\ ~Opening => state = "connected" /\ Following /\ ~Connects(outbox[1])
<1>1. /\ head \in Nat /\ issued \in Nat /\ issued <= issued /\ outbox \in Seq(Requests)
      /\ \A i \in DOMAIN outbox : outbox[i] \in Requests
      /\ InOrder /\ Asked /\ Dialogue
  BY Terms DEF AlarmInv
<1>2. /\ Head(outbox) = outbox[1] /\ 1 \in DOMAIN outbox
      /\ \A i \in DOMAIN outbox' : i + 1 \in DOMAIN outbox /\ outbox'[i] = outbox[i + 1]
  BY <1>1
<1>3. Len(outbox) = 1 => outbox' = <<>>
  BY <1>1
<1>4. \A i \in DOMAIN outbox : Asks(outbox[i], d, issued, pending)
  BY <1>1, AsksOn DEF Asked
<1>5. outbox[1] \in Requests /\ Asks(outbox[1], head, issued, pending)
  BY <1>1, <1>2 DEF Asked
<1>6. socket # "connecting"
  BY <1>1 DEF Dialogue
<1>7. socket = "open" /\ Opening => Unanswered /\ sent /\ Len(outbox) = 1 /\ Connects(outbox[1])
  BY <1>1 DEF Dialogue, Unanswered, Greeted
<1>8. socket = "open" /\ ~Opening => state = "connected" /\ Following /\ ~Connects(outbox[1])
  BY <1>1, <1>2 DEF Dialogue, Following
<1> QED BY <1>2, <1>3, <1>4, <1>5, <1>6, <1>7, <1>8

LEMMA HubReadsAlarm ==
    ASSUME AlarmInv, TypeOK', HubReads
    PROVE  InOrder' /\ Asked' /\ Dialogue'
<1> DEFINE m == outbox[1]
<1>0. /\ board \in Nat /\ streamed \in Nat /\ head \in Nat /\ issued \in Nat
      /\ own.id \in Nat /\ inbox \in Seq(Frames) /\ outbox \in Seq(Requests)
      /\ pending.id \in Nat /\ pending.expected \in Revisions
      /\ streamed <= head /\ head <= head
      /\ InOrder /\ Asked /\ Dialogue /\ TypeOK
  BY Terms DEF AlarmInv, InOrder
<1>1. /\ outbox # <<>> /\ link \in {"open", "greeted"} /\ answer = NoAnswer /\ outbox' = Tail(outbox)
      /\ UNCHANGED <<state, sent, awaiting, board, pending, issued>>
  BY DEF HubReads, attempt, game
<1>2. /\ Head(outbox) = m /\ m \in Requests
      /\ Asks(m, head, issued, pending)
      /\ \A i \in DOMAIN outbox' : Asks(outbox'[i], head, issued, pending)
      /\ socket # "connecting"
      /\ socket = "open" /\ Opening => Unanswered /\ outbox' = <<>> /\ sent /\ Connects(m)
      /\ socket = "open" /\ ~Opening => state = "connected" /\ Following /\ ~Connects(m)
  BY <1>0, <1>1, OutboxRead
<1> HIDE DEF m
<1>3. Opening' <=> Opening
  BY <1>1 DEF Opening
(* What was not a greeting is for a client that was greeted.               *)
<1>4. ASSUME ~Connects(m), socket' = socket, Following => Following'
      PROVE  Dialogue'
  BY <1>1, <1>2, <1>3, <1>4 DEF Dialogue
(* What is not an answer keeps what was asked.                             *)
<1>5. ASSUME head' = head, own' = own, answer' = answer
      PROVE  Asked'
  BY <1>0, <1>1, <1>2, <1>5 DEF Asked
<1>6. \A i \in DOMAIN outbox' : i + 1 \in DOMAIN outbox /\ outbox'[i] = outbox[i + 1]
  BY <1>0, <1>1
<1>7. CASE Connects(m) /\ Greets /\ UNCHANGED <<answer, head, own>>
  <2> DEFINE f == [type |-> "connected", revision |-> head]
             g == Snapshot(head)
  <2>1. link' = "greeted" /\ streamed' = head /\ Sends(<<f, g>>) /\ socket' = socket
    BY <1>7 DEF Greets
  <2>2. /\ f \in Frames /\ f.type = "connected" /\ f.revision = head
        /\ g \in Frames /\ g.type = "snapshot" /\ g.revision = head /\ g = Snapshot(head)
        /\ Fits(g, streamed, head, issued, pending)
    <3>1. f \in Frames
      BY <1>0, FramesSent DEF TypeOK
    <3> QED BY <1>0, <3>1, SnapshotFits
  <2> HIDE DEF f, g
  <2>3. Fits(f, streamed, head, issued, pending)
    BY <1>0, <2>2 DEF Fits
  <2>4. InOrder'
    <3>1. streamed <= streamed' /\ streamed' <= head' /\ f.revision <= g.revision
      BY <1>0, <1>7, <2>1, <2>2
    <3> QED BY <1>1, <2>1, <2>2, <2>3, <3>1, Added
  <2>5. socket = "open" => Opening
    BY <1>2, <1>7
  <2>6. socket = "open" => Greeted'
    <3> SUFFICES ASSUME socket = "open" PROVE Greeted'
      OBVIOUS
    <3>1. Unanswered /\ outbox' = <<>> /\ sent
      BY <1>2, <2>5
    <3>2. inbox' = <<f, g>>
      <4>1. inbox = <<>> /\ inbox' = inbox \o <<f, g>>
        BY <2>1, <3>1 DEF Sends, Unanswered
      <4>2. <<f, g>> \in Seq(Frames)
        BY <2>2
      <4>3. \A s \in Seq(Frames) : <<>> \o s = s
        OBVIOUS
      <4> QED BY <4>1, <4>2, <4>3
    <3>3. /\ inbox' # <<>> /\ Len(inbox') = 2 /\ inbox'[1] = f /\ inbox'[2] = g
          /\ \A i \in DOMAIN inbox' : i = 1 \/ i = 2
      BY <3>2
    <3>4. g.type \in Later
      BY <2>2 DEF Later
    <3> QED BY <1>1, <1>7, <2>1, <2>2, <3>1, <3>3, <3>4 DEF Greeted
  <2>7. Dialogue'
    BY <1>2, <1>3, <2>1, <2>5, <2>6 DEF Dialogue
  <2> QED BY <1>5, <1>7, <2>4, <2>7
<1>8. CASE Connects(m) /\ Refuses /\ UNCHANGED <<answer, head, own>>
  <2>1. PICK terminal \in BOOLEAN :
          /\ Sends(<<[type |-> "refusal", terminal |-> terminal]>>)
          /\ socket' = IF terminal THEN "refused" ELSE "closed"
    BY <1>8 DEF Refuses
  <2> DEFINE f == [type |-> "refusal", terminal |-> terminal]
  <2>2. f \in Frames /\ f.type = "refusal" /\ Sends(<<f>>)
    BY <1>0, <2>1, FramesSent DEF TypeOK
  <2> HIDE DEF f
  <2>3. Fits(f, streamed, streamed, issued, pending) /\ ~Numbered(f)
    BY <2>2 DEF Fits, Numbered
  <2>4. streamed' = streamed
    BY <1>8 DEF Refuses
  <2>5. InOrder'
    <3>1. streamed <= streamed' /\ streamed' <= head'
      BY <1>0, <1>8, <2>4
    <3> QED BY <1>1, <2>2, <2>3, <2>4, <3>1, Added
  <2>6. Dialogue'
    BY <2>1 DEF Dialogue
  <2> QED BY <1>5, <1>8, <2>5, <2>6
<1>9. CASE /\ m.type = "snapshot" /\ Sends(<<Snapshot(head)>>) /\ streamed' = head
           /\ UNCHANGED <<socket, link, answer, head, own>>
  <2>1. ~Connects(m)
    BY <1>9 DEF Connects
  <2> DEFINE f == Snapshot(head)
  <2>2. /\ f \in Frames /\ f.type = "snapshot" /\ f.revision = head
        /\ Fits(f, streamed, head, issued, pending)
    BY <1>0, SnapshotFits
  <2>3. Sends(<<f>>)
    BY <1>9
  <2>4. f.type \in Later
    BY <2>2 DEF Later
  <2> HIDE DEF f
  <2>5. InOrder'
    <3>1. streamed <= streamed' /\ streamed' <= head' /\ f.revision <= f.revision
      BY <1>0, <1>9, <2>2
    <3> QED BY <1>1, <1>9, <2>2, <2>3, <3>1, Added
  <2>6. Following => Following'
    <3> SUFFICES ASSUME Following PROVE Following'
      OBVIOUS
    <3>1. link = "greeted"
      BY <1>1 DEF Following
    <3> QED BY <1>1, <1>9, <2>2, <2>3, <2>4, <3>1, FollowingAdded
  <2> QED BY <1>4, <1>5, <1>9, <2>1, <2>5, <2>6
<1>10. CASE /\ m.type = "action" /\ m.expected = head
            /\ head' = head + 1 /\ own' = [id |-> m.id, revision |-> head + 1]
            /\ UNCHANGED <<socket, inbox, link, answer, streamed>>
  <2>1. ~Connects(m)
    BY <1>10 DEF Connects
  <2>2. head + 1 \in Nat /\ head <= head + 1 /\ streamed <= head + 1
    BY <1>0
  <2>3. \A i \in DOMAIN outbox' : Asks(outbox'[i], head + 1, issued, pending)
    BY <1>1, <2>2, OutboxRead
  <2>4. InOrder'
    BY <1>0, <1>1, <1>10, <2>2 DEF InOrder
  <2>5. m.id <= issued /\ (m.id = pending.id => pending.expected = head)
    BY <1>2, <1>10 DEF Asks
  <2>6. own'.id = m.id /\ own'.revision = head + 1
    BY <1>10
  <2>7. answer'.code # "stale_revision" /\ answer'.id = 0
    BY <1>1, <1>10 DEF NoAnswer
  <2>8. Asked'
    BY <1>0, <1>1, <1>10, <2>3, <2>5, <2>6, <2>7 DEF Asked
  <2>9. Following => Following'
    BY <1>1, <1>6, <1>10 DEF Following
  <2> QED BY <1>4, <1>10, <2>1, <2>4, <2>8, <2>9
<1>11. CASE /\ m.type = "action"
            /\ answer' = [id |-> m.id, code |-> IF m.expected = head THEN "internal_error"
                                               ELSE "stale_revision"]
            /\ UNCHANGED <<socket, inbox, link, match>>
  <2>1. ~Connects(m)
    BY <1>11 DEF Connects
  <2>2. streamed' = streamed /\ head' = head /\ own' = own
    BY <1>11 DEF match
  <2>3. InOrder'
    BY <1>0, <1>1, <1>11, <2>2 DEF InOrder
  <2>4. m.expected \in Nat /\ m.id <= issued /\ m.expected <= head
          /\ (m.id = pending.id => pending.expected = m.expected)
    BY <1>2, <1>11 DEF Asks, Requests
  <2>5. answer'.id = m.id /\ (answer'.code = "stale_revision" => m.expected # head)
    BY <1>11
  <2>6. answer'.code = "stale_revision" /\ answer'.id = pending.id => pending.expected < head
    BY <1>0, <2>4, <2>5
  <2>7. Asked'
    BY <1>0, <1>1, <1>2, <2>2, <2>4, <2>5, <2>6 DEF Asked
  <2>8. Following => Following'
    BY <1>1, <1>6, <1>11 DEF Following
  <2> QED BY <1>4, <1>11, <2>1, <2>3, <2>7, <2>8
<1> QED BY <1>2, <1>7, <1>8, <1>9, <1>10, <1>11 DEF HubReads, Connects

(* The client is strict and is never wrong to be: nothing the hub says     *)
(* over a transport that holds is taken for a breach, so an attempt is     *)
(* only ever lost to the network, to a timer, or to a hub that says it     *)
(* could not do what it was asked (apply_event, apply_error,               *)
(* _handle_snapshot).                                                      *)
THEOREM AlarmCorrect == Spec => NoFalseAlarm
<1>1. Init => InOrder /\ Asked /\ Dialogue
  BY DEF Init, InOrder, Asked, Dialogue, NoAnswer, NoAction
<1>2. Init => AlarmInv
  BY <1>1, InitType DEF AlarmInv
<1> DEFINE Alarm == failures' > failures =>
                      socket # "open" \/ slot.due \/ (inbox # <<>> /\ Excused(Head(inbox)))
<1>3. AlarmInv /\ TypeOK' /\ [Next]_vars => AlarmInv' /\ Alarm
  <2> SUFFICES ASSUME AlarmInv, TypeOK', [Next]_vars
               PROVE  InOrder' /\ Asked' /\ Dialogue' /\ Alarm
    BY DEF AlarmInv
  <2>1. CASE Read
    <3>1. inbox # <<>>
      BY <2>1 DEF Read
    <3> QED BY <2>1, <3>1, ReadAlarm
  <2>2. CASE Start \/ TransportClosed \/ Close \/ Tick \/ Due
    BY <2>2, ClientAlarm
  <2>3. CASE RequestAction
    BY <2>3, RequestActionAlarm
  <2>4. ASSUME UNCHANGED attempt PROVE Alarm
    <3>1. failures' = failures /\ failures \in Nat
      BY <2>4 DEF attempt, AlarmInv, TypeOK, AttemptOK
    <3> QED BY <3>1
  <2>5. CASE SendConnect
    <3>1. failures' = failures /\ failures \in Nat
      BY <2>5 DEF SendConnect, AlarmInv, TypeOK, AttemptOK
    <3> QED BY <2>5, <3>1, SendConnectAlarm
  <2>6. CASE HubReads \/ HubAnswers \/ HubPublishes \/ Opponent \/ Ping \/ Opens \/ Breaks
    <3>1. UNCHANGED attempt
      BY <2>6 DEF HubReads, HubAnswers, HubPublishes, Opponent, Ping, Opens, Breaks
    <3> QED BY <2>4, <2>6, <3>1, HubReadsAlarm, HubAnswersAlarm, HubPublishesAlarm,
               NetworkAlarm, PingAlarm
  <2>7. CASE UNCHANGED vars
    <3>1. UNCHANGED attempt /\ UNCHANGED <<state, sent, awaiting, game, network, match>>
      BY <2>7 DEF vars, attempt
    <3> QED BY <2>4, <3>1, Quiet
  <2> QED BY <2>1, <2>2, <2>3, <2>5, <2>6, <2>7 DEF Next, Poll, Hub
<1> QED BY <1>2, <1>3, TypeCorrect, PTL DEF Spec, NoFalseAlarm
=============================================================================
