---------------------------- MODULE MatchService ----------------------------
(***************************************************************************)
(* The durable match service (src/server/internal/matches/service.go).     *)
(*                                                                         *)
(* Every writer of the service runs in one IMMEDIATE SQLite transaction,   *)
(* so every committed operation is one action here and an operation that   *)
(* returns an error is rolled back and is no action at all.  The rules of  *)
(* a game are abstract: what an accepted move may lead to is the set       *)
(* Outcomes, the legality of a move on the board is left open.  Requests   *)
(* whose login epoch has been revoked are refused before they read         *)
(* anything and are therefore absent.                                      *)
(***************************************************************************)
EXTENDS Integers, Sequences, FiniteSets

CONSTANTS
    Users,            \* registered, enabled accounts
    Matches,          \* match ids the service may draw
    Games,            \* the registered games under study
    ActionIds,        \* action ids clients may draw
    Payloads,         \* contents of move requests that can be told apart
    Credentials,      \* opaque launch tickets and resume tokens
    MaxEvents,        \* maximumMatchEvents, 226
    MaxFlightEvents,  \* maximumFlightChessEvents, 512
    BoardCells,       \* moves after which a board game is full
    OfflineAfter,     \* fullyOfflineAbandonAfter, 24 h
    TicketLife,       \* launchTicketLifetime, 60 s
    ResumeLife,       \* resumeTokenLifetime, 30 min
    MaxTime,          \* bound of the clock
    None              \* SQL NULL

GameIds == {"gomoku", "reversi", "chinese_checkers", "flight_chess", "rps"}

ASSUME GamesAssumption == Games \subseteq GameIds

ASSUME LimitsAssumption ==
    /\ MaxEvents \in Nat /\ MaxEvents >= 4 /\ MaxEvents % 2 = 0
    /\ MaxFlightEvents \in Nat /\ MaxFlightEvents >= 2
    /\ BoardCells \in 1 .. (MaxEvents - 1)

ASSUME TimeAssumption ==
    /\ OfflineAfter \in Nat \ {0}
    /\ TicketLife \in Nat \ {0}
    /\ ResumeLife \in Nat \ {0}
    /\ MaxTime \in Nat

ASSUME NoneAssumption ==
    None \notin Users \cup Matches \cup ActionIds \cup Payloads \cup Credentials

VARIABLES
    matches,    \* rows of matches and match_players
    events,     \* match_events, in revision order
    slots,      \* active_game_slots
    limit,      \* flight_chess_limit_actions
    tickets,    \* launch_tickets
    resumes,    \* resume_tokens
    issued,     \* credentials drawn so far
    sweep,      \* progress of AbandonExpired, in memory
    now         \* service.clock

durable == <<matches, events, slots, limit>>
creds == <<tickets, resumes, issued>>
vars == <<durable, creds, sweep, now>>

(***************************************************************************)
(* Rows.                                                                   *)
(***************************************************************************)
Never == -1   \* both_offline_since IS NULL
Statuses == {"active", "cancelled", "finished", "abandoned"}
GameResults == {"five", "draw", "majority", "goal", "rounds"}
MoveKinds == {"move", "rolled", "locked", "revealed"}
EndKinds == {"resigned", "cancelled", "abandoned"}

Rows == [game : Games, status : Statuses, revision : Nat,
         seats : Users \X Users, turn : Users \cup {None},
         offlineSince : Nat \cup {Never},
         result : GameResults \cup {"resignation", None},
         winner : Users \cup {None}]

Events == [kind : MoveKinds \cup EndKinds, actor : Users \cup {None},
           action : ActionIds \cup {None}, payload : Payloads \cup {None}]

LimitActions == [actor : Users, action : ActionIds, kind : {"move", "roll"},
                 payload : Payloads \cup {None}]

Tickets == [id : Credentials, match : Matches, user : Users,
            expires : Nat, consumed : BOOLEAN]

Resumes == [id : Credentials, match : Matches, user : Users,
            expires : Nat, revoked : BOOLEAN]

ASSUME NullAssumption ==
    None \notin Rows \cup LimitActions \cup GameResults \cup {"resignation"}

Revisions == 0 .. (IF MaxEvents > MaxFlightEvents THEN MaxEvents ELSE MaxFlightEvents)

(* Only a move carries contents; a roll and a resignation are empty.       *)
Requests ==
    [match : Matches, actor : Users, action : ActionIds, expected : Revisions,
     kind : {"move"}, payload : Payloads]
    \cup
    [match : Matches, actor : Users, action : ActionIds, expected : Revisions,
     kind : {"roll", "resign"}, payload : {None}]

Exists(m) == matches[m] # None
Active(m) == Exists(m) /\ matches[m].status = "active"
Players(m) == {matches[m].seats[1], matches[m].seats[2]}
Opponent(m, u) ==
    IF matches[m].seats[1] = u THEN matches[m].seats[2] ELSE matches[m].seats[1]
EventLimit(g) == IF g = "flight_chess" THEN MaxFlightEvents ELSE MaxEvents
Last(s) == s[Len(s)]

(* validateCompleteActiveSlotSet for a game that is single-active          *)
SlotSetComplete(m) ==
    {s \in Games \X Users : slots[s] = m} = {matches[m].game} \X Players(m)

(* validateLifecycle: the row and the last event tell the same story       *)
LifecycleAgrees(m) ==
    LET row == matches[m]
        log == events[m]
        ended == log # <<>> /\ Last(log).kind \in EndKinds
    IN  /\ row.revision <= EventLimit(row.game)
        /\ row.status = "active" =>
              ~ended /\ row.result = None /\ row.winner = None
        /\ row.status = "finished" =>
              /\ log # <<>>
              /\ row.result = "resignation" <=> Last(log).kind = "resigned"
              /\ row.result # "resignation" => ~ended /\ row.result # None
              /\ row.winner = None <=> row.result = "draw"
              /\ row.result = "resignation" =>
                    row.winner = Opponent(m, Last(log).actor)
        /\ row.status \in {"cancelled", "abandoned"} =>
              /\ ended /\ Last(log).kind = row.status
              /\ row.result = None /\ row.winner = None

(* rebuildSnapshot succeeds: the log replays to the row and the slots fit  *)
Readable(m) ==
    LET row == matches[m]
        log == events[m]
    IN  /\ Len(log) = row.revision
        /\ \A i \in DOMAIN log :
              /\ log[i].kind \in MoveKinds =>
                    log[i].actor \in Players(m) /\ log[i].action # None
              /\ log[i].kind \in EndKinds => i = Len(log)
              /\ log[i].kind = "cancelled" =>
                    i = 1 /\ log[i].action = None /\ log[i].actor \in Players(m)
              /\ log[i].kind = "abandoned" =>
                    log[i].action = None /\ log[i].actor = None
        /\ LifecycleAgrees(m)
        /\ IF row.status = "active"
           THEN SlotSetComplete(m)
           ELSE \A s \in Games \X Users : slots[s] # m

-----------------------------------------------------------------------------
(***************************************************************************)
(* Initial state: an empty, migrated database.                             *)
(***************************************************************************)
Init ==
    /\ matches = [m \in Matches |-> None]
    /\ events = [m \in Matches |-> <<>>]
    /\ slots = [s \in Games \X Users |-> None]
    /\ limit = [m \in Matches |-> None]
    /\ tickets = {}
    /\ resumes = {}
    /\ issued = {}
    /\ sweep = [pending |-> {}, cutoff |-> 0]
    /\ now = 0

(***************************************************************************)
(* CreateWithConfig: the match, its two seats and both slots in one        *)
(* transaction; a taken slot of either player rolls everything back.       *)
(***************************************************************************)
Create(m, g, initiator, opponent) ==
    /\ ~Exists(m)
    /\ initiator # opponent
    /\ slots[<<g, initiator>>] = None
    /\ slots[<<g, opponent>>] = None
    /\ \E black \in {initiator, opponent} :
          matches' = [matches EXCEPT ![m] =
              [game |-> g, status |-> "active", revision |-> 0,
               seats |-> <<initiator, opponent>>,
               turn |-> IF g = "rps" THEN None ELSE black,
               offlineSince |-> Never, result |-> None, winner |-> None]]
    /\ slots' = [slots EXCEPT ![<<g, initiator>>] = m,
                              ![<<g, opponent>>] = m]
    /\ UNCHANGED <<events, limit, creds, sweep, now>>

(* Mutant: only the initiator's slot is given back.                        *)
ReleaseInitiator(m) ==
    /\ slots' = [slots EXCEPT ![<<matches[m].game, matches[m].seats[1]>>] = None]
    /\ tickets' = {t \in tickets : t.match # m}
    /\ resumes' = {r \in resumes : r.match # m}
    /\ UNCHANGED issued

(* The slot and credential deletes every terminal transition performs.     *)
ReleaseMatch(m) ==
    /\ SlotSetComplete(m)
    /\ slots' = [s \in Games \X Users |->
          IF s \in {matches[m].game} \X Players(m) /\ slots[s] = m
          THEN None ELSE slots[s]]
    /\ tickets' = {t \in tickets : t.match # m}
    /\ resumes' = {r \in resumes : r.match # m}
    /\ UNCHANGED issued

Append1(m, event) == events' = [events EXCEPT ![m] = Append(@, event)]

(* Mutant: a match may be cancelled after moves have been made.            *)
CancelAnytime(m, actor) ==
    /\ Active(m)
    /\ actor \in Players(m)
    /\ Append1(m, [kind |-> "cancelled", actor |-> actor,
                   action |-> None, payload |-> None])
    /\ matches' = [matches EXCEPT
          ![m].status = "cancelled", ![m].revision = @ + 1]
    /\ ReleaseMatch(m)
    /\ UNCHANGED <<limit, sweep, now>>

(***************************************************************************)
(* Cancel: allowed while no gameplay event has been committed.  The        *)
(* offline timer of the row is left as it is.                              *)
(***************************************************************************)
Cancel(m, actor) ==
    /\ Active(m)
    /\ actor \in Players(m)
    /\ \A i \in DOMAIN events[m] : events[m][i].kind \notin MoveKinds
    /\ Append1(m, [kind |-> "cancelled", actor |-> actor,
                   action |-> None, payload |-> None])
    /\ matches' = [matches EXCEPT
          ![m].status = "cancelled", ![m].revision = @ + 1,
          ![m].winner = None, ![m].result = None]
    /\ ReleaseMatch(m)
    /\ UNCHANGED <<limit, sweep, now>>

-----------------------------------------------------------------------------
(***************************************************************************)
(* ApplyAction.  A request is first looked up among the committed actions  *)
(* (a retry is answered from there), then checked against the lifecycle    *)
(* and the revision, then given to the rules of its game.                  *)
(***************************************************************************)
Committed(q) ==
    {i \in DOMAIN events[q.match] :
        /\ events[q.match][i].actor = q.actor
        /\ events[q.match][i].action = q.action}

(* Mutant: the choice that revealed a round is not recognised on a retry.  *)
SameLockedAction(event, q) ==
    \/ q.kind = "resign" /\ event.kind = "resigned"
    \/ q.kind = "roll" /\ event.kind = "rolled"
    \/ /\ q.kind = "move"
       /\ event.kind \in {"move", "locked"}
       /\ event.payload = q.payload

(* committedActionMatches: the stored event answers this very request      *)
SameAction(event, q) ==
    \/ q.kind = "resign" /\ event.kind = "resigned"
    \/ q.kind = "roll" /\ event.kind = "rolled"
    \/ /\ q.kind = "move"
       /\ event.kind \in {"move", "locked", "revealed"}
       /\ event.payload = q.payload

(* readFlightChessLimitAction                                              *)
LimitHit(q) ==
    /\ matches[q.match].game = "flight_chess"
    /\ matches[q.match].status = "abandoned"
    /\ limit[q.match] # None
    /\ limit[q.match].actor = q.actor
    /\ limit[q.match].action = q.action

SameLimitAction(q) ==
    /\ limit[q.match].kind = q.kind
    /\ q.kind = "move" => limit[q.match].payload = q.payload

Found(q) == Committed(q) # {} \/ LimitHit(q)

(* The revision a retry is answered with, if it is answered at all.        *)
Answers(q) ==
    {i \in Committed(q) : SameAction(events[q.match][i], q)}
      \cup {i \in DOMAIN events[q.match] :
              /\ Committed(q) = {} /\ LimitHit(q) /\ SameLimitAction(q)
              /\ i = Len(events[q.match])}

(* acceptsPreviousRpsChoiceRevision: simultaneous choices of one round     *)
PreviousRpsRevision(q) ==
    LET row == matches[q.match]
    IN  /\ row.game = "rps" /\ q.kind = "move"
        /\ row.revision > 0 /\ q.expected = row.revision - 1
        /\ Last(events[q.match]).kind = "locked"
        /\ Last(events[q.match]).actor # q.actor

Admissible(q) ==
    /\ Exists(q.match)
    /\ ~Found(q)
    /\ Active(q.match)
    /\ q.actor \in Players(q.match)
    /\ \/ q.expected = matches[q.match].revision
       \/ PreviousRpsRevision(q)
    /\ Readable(q.match)

(* A non-terminal commit: one event, revision + 1.                         *)
Advance(q, kind, turn) ==
    /\ Append1(q.match, [kind |-> kind, actor |-> q.actor,
                         action |-> q.action, payload |-> q.payload])
    /\ matches' = [matches EXCEPT ![q.match].revision = @ + 1,
                                  ![q.match].turn = turn]
    /\ UNCHANGED <<slots, limit, creds, sweep, now>>

(* A terminal commit: event, lifecycle, slots and credentials together.    *)
Conclude(q, kind, result, winner) ==
    /\ Append1(q.match, [kind |-> kind, actor |-> q.actor,
                         action |-> q.action, payload |-> q.payload])
    /\ matches' = [matches EXCEPT
          ![q.match].status = "finished", ![q.match].revision = @ + 1,
          ![q.match].result = result, ![q.match].winner = winner,
          ![q.match].offlineSince = Never]
    /\ ReleaseMatch(q.match)
    /\ UNCHANGED <<limit, sweep, now>>

(* gomoku and reversi: the board bounds the number of moves.               *)
BoardMove(q) ==
    LET row == matches[q.match]
        full == row.revision + 1 = BoardCells
        other == Opponent(q.match, q.actor)
    IN  /\ Admissible(q) /\ q.kind = "move"
        /\ row.game \in {"gomoku", "reversi"}
        /\ row.turn = q.actor
        /\ \/ /\ ~full
              /\ \E next \in (IF row.game = "gomoku" THEN {other} ELSE Players(q.match)) :
                    Advance(q, "move", next)
           \/ row.game = "gomoku" /\ Conclude(q, "move", "five", q.actor)
           \/ /\ row.game = "reversi"
              /\ \E w \in Players(q.match) : Conclude(q, "move", "majority", w)
           \/ (full \/ row.game = "reversi") /\ Conclude(q, "move", "draw", None)

(* Mutant: moves may use up the whole history.                             *)
CheckersMoveToTheEnd(q) ==
    LET row == matches[q.match]
    IN  /\ Admissible(q) /\ q.kind = "move"
        /\ row.game = "chinese_checkers"
        /\ row.revision < MaxEvents
        /\ row.turn = q.actor
        /\ \/ Advance(q, "move", Opponent(q.match, q.actor))
           \/ Conclude(q, "move", "goal", q.actor)

(* chinese checkers: the last event of the history is kept for a           *)
(* resignation, because positions can repeat for ever.                     *)
CheckersMove(q) ==
    LET row == matches[q.match]
    IN  /\ Admissible(q) /\ q.kind = "move"
        /\ row.game = "chinese_checkers"
        /\ row.revision < MaxEvents - 1
        /\ row.turn = q.actor
        /\ \/ Advance(q, "move", Opponent(q.match, q.actor))
           \/ Conclude(q, "move", "goal", q.actor)

(* flight chess: a roll or move that would use the last event and does not *)
(* win is replaced by an abandonment that no client action names.          *)
FlightAction(q) ==
    LET row == matches[q.match]
        atLimit == row.revision + 1 = MaxFlightEvents
    IN  /\ Admissible(q) /\ q.kind \in {"move", "roll"}
        /\ row.game = "flight_chess"
        /\ row.turn = q.actor
        /\ \/ /\ ~atLimit
              /\ \E next \in Players(q.match) :
                    Advance(q, IF q.kind = "roll" THEN "rolled" ELSE "move", next)
           \/ q.kind = "move" /\ Conclude(q, "move", "goal", q.actor)
           \/ /\ atLimit
              /\ Append1(q.match, [kind |-> "abandoned", actor |-> None,
                                   action |-> None, payload |-> None])
              /\ limit' = [limit EXCEPT ![q.match] =
                    [actor |-> q.actor, action |-> q.action,
                     kind |-> q.kind, payload |-> q.payload]]
              /\ matches' = [matches EXCEPT
                    ![q.match].status = "abandoned", ![q.match].revision = @ + 1,
                    ![q.match].offlineSince = Never]
              /\ ReleaseMatch(q.match)
              /\ UNCHANGED <<sweep, now>>

(* Mutant: one event more is spent on choices, which splits the last round.*)
RpsChoiceOneMore(q) ==
    LET row == matches[q.match]
        log == events[q.match]
        locked == log # <<>> /\ Last(log).kind = "locked"
    IN  /\ Admissible(q) /\ q.kind = "move"
        /\ row.game = "rps"
        /\ row.revision < MaxEvents - 1
        /\ \/ ~locked /\ Advance(q, "locked", None)
           \/ /\ locked /\ Last(log).actor # q.actor
              /\ \/ Advance(q, "revealed", None)
                 \/ \E w \in Players(q.match) : Conclude(q, "revealed", "rounds", w)

(* rps: the first choice of a round locks, the second one reveals.         *)
RpsChoice(q) ==
    LET row == matches[q.match]
        log == events[q.match]
        locked == log # <<>> /\ Last(log).kind = "locked"
    IN  /\ Admissible(q) /\ q.kind = "move"
        /\ row.game = "rps"
        /\ row.revision < MaxEvents - 2
        /\ \/ ~locked /\ Advance(q, "locked", None)
           \/ /\ locked /\ Last(log).actor # q.actor
              /\ \/ Advance(q, "revealed", None)
                 \/ \E w \in Players(q.match) : Conclude(q, "revealed", "rounds", w)

(* Mutant: result and winner are written to each other's column.           *)
ResignSwapped(q) ==
    /\ Admissible(q) /\ q.kind = "resign"
    /\ matches[q.match].revision # 0
    /\ Conclude(q, "resigned", Opponent(q.match, q.actor), "resignation")

(* Resignation, the same for every game once a move has been committed.    *)
Resign(q) ==
    /\ Admissible(q) /\ q.kind = "resign"
    /\ matches[q.match].revision # 0
    /\ Conclude(q, "resigned", "resignation", Opponent(q.match, q.actor))

ApplyAction(q) ==
    \/ BoardMove(q)
    \/ CheckersMove(q)
    \/ FlightAction(q)
    \/ RpsChoice(q)
    \/ Resign(q)

-----------------------------------------------------------------------------
(***************************************************************************)
(* The offline timer.  Presence decides when to call these two; an         *)
(* inactive match is left alone.  Timers are started and cleared up to     *)
(* Horizon only, so that a timer the model starts can also run out.        *)
(***************************************************************************)
Horizon == MaxTime - OfflineAfter

SetPlayerOnline(m) ==
    /\ Active(m) /\ now <= Horizon
    /\ matches' = [matches EXCEPT ![m].offlineSince = Never]
    /\ UNCHANGED <<events, slots, limit, creds, sweep, now>>

(* Mutant: a late disconnect writes to a match that has ended.             *)
SetPlayerOfflineAlways(m) ==
    /\ Exists(m) /\ now <= Horizon
    /\ matches' = [matches EXCEPT ![m].offlineSince = IF @ = Never THEN now ELSE @]
    /\ UNCHANGED <<events, slots, limit, creds, sweep, now>>

SetPlayerOffline(m) ==
    /\ Active(m) /\ now <= Horizon
    /\ matches' = [matches EXCEPT ![m].offlineSince = IF @ = Never THEN now ELSE @]
    /\ UNCHANGED <<events, slots, limit, creds, sweep, now>>

(* Mutant: matches nobody has moved in are left to be cancelled by hand.   *)
ExpiredAfterMoves(m, cutoff) ==
    /\ Active(m)
    /\ matches[m].revision > 0
    /\ matches[m].offlineSince # Never
    /\ matches[m].offlineSince <= cutoff

(***************************************************************************)
(* AbandonExpired: an unlocked scan with one cutoff, then one transaction  *)
(* per candidate that looks at the row again.                              *)
(***************************************************************************)
Expired(m, cutoff) ==
    /\ Active(m)
    /\ matches[m].offlineSince # Never
    /\ matches[m].offlineSince <= cutoff

Scan ==
    LET cutoff == now - OfflineAfter
        found == {m \in Matches : Expired(m, cutoff)}
    IN  /\ sweep.pending = {}
        /\ found # {}
        /\ sweep' = [pending |-> found, cutoff |-> cutoff]
        /\ UNCHANGED <<durable, creds, now>>

(* Mutant: the transaction trusts the scan and does not look at the timer. *)
AbandonScanned(m) ==
    /\ m \in sweep.pending
    /\ sweep' = [sweep EXCEPT !.pending = @ \ {m}]
    /\ Active(m)
    /\ Append1(m, [kind |-> "abandoned", actor |-> None,
                   action |-> None, payload |-> None])
    /\ matches' = [matches EXCEPT
          ![m].status = "abandoned", ![m].revision = @ + 1,
          ![m].offlineSince = Never]
    /\ ReleaseMatch(m)
    /\ UNCHANGED <<limit, now>>

AbandonIfExpired(m) ==
    /\ m \in sweep.pending
    /\ sweep' = [sweep EXCEPT !.pending = @ \ {m}]
    /\ \/ /\ Expired(m, sweep.cutoff)
          /\ Readable(m)
          /\ Append1(m, [kind |-> "abandoned", actor |-> None,
                         action |-> None, payload |-> None])
          /\ matches' = [matches EXCEPT
                ![m].status = "abandoned", ![m].revision = @ + 1,
                ![m].winner = None, ![m].result = None,
                ![m].offlineSince = Never]
          /\ ReleaseMatch(m)
          /\ UNCHANGED <<limit, now>>
       \/ /\ ~Expired(m, sweep.cutoff)
          /\ UNCHANGED <<durable, creds, now>>

(***************************************************************************)
(* A stop of the process loses the running sweep; the next boot starts a   *)
(* timer for every active match that has none                              *)
(* (MarkActiveMatchesOfflineOnBoot).                                       *)
(***************************************************************************)
Restart ==
    /\ now <= Horizon
    /\ sweep' = [pending |-> {}, cutoff |-> 0]
    /\ matches' = [m \in Matches |->
          IF Active(m) /\ matches[m].offlineSince = Never
          THEN [matches[m] EXCEPT !.offlineSince = now] ELSE matches[m]]
    /\ UNCHANGED <<events, slots, limit, creds, now>>

-----------------------------------------------------------------------------
(* Mutant: an earlier ticket of the same player stays valid.               *)
CreateAnotherTicket(m, u, id) ==
    /\ Active(m) /\ u \in Players(m)
    /\ Readable(m)
    /\ id \notin issued
    /\ tickets' = tickets
          \cup {[id |-> id, match |-> m, user |-> u,
                 expires |-> now + TicketLife, consumed |-> FALSE]}
    /\ issued' = issued \cup {id}
    /\ UNCHANGED <<durable, resumes, sweep, now>>

(***************************************************************************)
(* Connection credentials.                                                 *)
(***************************************************************************)
CreateLaunchTicket(m, u, id) ==
    /\ Active(m) /\ u \in Players(m)
    /\ Readable(m)
    /\ id \notin issued
    /\ tickets' = {t \in tickets : t.match # m \/ t.user # u}
          \cup {[id |-> id, match |-> m, user |-> u,
                 expires |-> now + TicketLife, consumed |-> FALSE]}
    /\ issued' = issued \cup {id}
    /\ UNCHANGED <<durable, resumes, sweep, now>>

(* ConnectCredential with a launch ticket: it is used up and replaced by a *)
(* resume token, the only one of this player for this match.               *)
ConnectLaunch(t, id) ==
    /\ ~t.consumed /\ t.expires > now
    /\ Active(t.match) /\ t.user \in Players(t.match)
    /\ Readable(t.match)
    /\ id \notin issued
    /\ tickets' = (tickets \ {t}) \cup {[t EXCEPT !.consumed = TRUE]}
    /\ resumes' = {r \in resumes : r.match # t.match \/ r.user # t.user}
          \cup {[id |-> id, match |-> t.match, user |-> t.user,
                 expires |-> now + ResumeLife, revoked |-> FALSE]}
    /\ issued' = issued \cup {id}
    /\ UNCHANGED <<durable, sweep, now>>

(* Mutant: revocation is not looked at.                                    *)
ConnectRevoked(r) ==
    /\ r.expires > now
    /\ Active(r.match) /\ r.user \in Players(r.match)
    /\ Readable(r.match)
    /\ resumes' = (resumes \ {r}) \cup {[r EXCEPT !.expires = now + ResumeLife]}
    /\ UNCHANGED <<durable, tickets, issued, sweep, now>>

(* ConnectCredential with a resume token: its expiry slides.               *)
ConnectResume(r) ==
    /\ ~r.revoked /\ r.expires > now
    /\ Active(r.match) /\ r.user \in Players(r.match)
    /\ Readable(r.match)
    /\ resumes' = (resumes \ {r}) \cup {[r EXCEPT !.expires = now + ResumeLife]}
    /\ UNCHANGED <<durable, tickets, issued, sweep, now>>

(* The part of auth.RedeemTransfer that touches these tables: the account  *)
(* moves to another device.                                                *)
RevokeCredentials(u) ==
    /\ tickets' = {t \in tickets : t.user # u}
    /\ resumes' = {r \in resumes : r.user # u}
          \cup {[r EXCEPT !.revoked = TRUE] : r \in {x \in resumes : x.user = u}}
    /\ UNCHANGED <<durable, issued, sweep, now>>

Tick ==
    /\ now < MaxTime
    /\ now' = now + 1
    /\ UNCHANGED <<durable, creds, sweep>>

-----------------------------------------------------------------------------
Next ==
    \/ \E m \in Matches, g \in Games, u, v \in Users : Create(m, g, u, v)
    \/ \E m \in Matches, u \in Users : Cancel(m, u)
    \/ \E q \in Requests : ApplyAction(q)
    \/ \E m \in Matches : SetPlayerOnline(m) \/ SetPlayerOffline(m)
    \/ Scan
    \/ \E m \in Matches : AbandonIfExpired(m)
    \/ Restart
    \/ \E m \in Matches, u \in Users, id \in Credentials : CreateLaunchTicket(m, u, id)
    \/ \E t \in tickets, id \in Credentials : ConnectLaunch(t, id)
    \/ \E r \in resumes : ConnectResume(r)
    \/ \E u \in Users : RevokeCredentials(u)
    \/ Tick

Spec == Init /\ [][Next]_vars

(* The abandon worker runs every minute and the clock goes on.             *)
Fairness ==
    /\ WF_vars(Tick)
    /\ WF_vars(Scan)
    /\ \A m \in Matches : WF_vars(AbandonIfExpired(m))

FairSpec == Spec /\ Fairness
-----------------------------------------------------------------------------
(***************************************************************************)
(* Properties.                                                             *)
(***************************************************************************)
TypeOK ==
    /\ matches \in [Matches -> Rows \cup {None}]
    /\ events \in [Matches -> Seq(Events)]
    /\ slots \in [Games \X Users -> Matches \cup {None}]
    /\ limit \in [Matches -> LimitActions \cup {None}]
    /\ tickets \subseteq Tickets
    /\ resumes \subseteq Resumes
    /\ issued \subseteq Credentials
    /\ sweep \in [pending : SUBSET Matches, cutoff : Int]
    /\ now \in Nat

(* A player holds a slot of a game exactly while an active match of that   *)
(* game seats the player: nobody plays two matches of a game at once, and  *)
(* nobody stays locked out of a game by a match that has ended             *)
(* (active_game_slots against Create and every terminal transition).       *)
SlotsMatchLifecycle ==
    \A g \in Games, u \in Users, m \in Matches :
        slots[<<g, u>>] = m <=>
            Active(m) /\ matches[m].game = g /\ u \in Players(m)

(* Whatever has been committed can be read back: rebuildSnapshot accepts   *)
(* every stored match, so no match is wedged by ErrInternal.               *)
AlwaysReadable == \A m \in Matches : Exists(m) => Readable(m)

(* Every round of rps takes exactly one choice of each player, although    *)
(* the second player may send a choice against the previous revision, and  *)
(* a locked choice can always still be revealed before the history limit.  *)
RpsRoundsPaired ==
    \A m \in Matches :
        Exists(m) /\ matches[m].game = "rps" =>
          /\ \A i \in DOMAIN events[m] :
                /\ i % 2 = 1 => events[m][i].kind # "revealed"
                /\ i % 2 = 0 => events[m][i].kind # "locked"
                /\ events[m][i].kind = "revealed" =>
                      events[m][i].actor = Opponent(m, events[m][i - 1].actor)
          /\ Active(m) /\ events[m] # <<>> /\ Last(events[m]).kind = "locked" =>
                matches[m].revision < MaxEvents - 2

(* An active match always has room for one more event, so that it can be   *)
(* resigned, abandoned or won (the limits 226 and 512 are checked at four  *)
(* different places of ApplyAction); and rps gets there in whole rounds.   *)
RoomForTheEnd ==
    /\ \A m \in Matches :
          Active(m) => matches[m].revision < EventLimit(matches[m].game)
    /\ RpsRoundsPaired

(* A retried action is answered with the one event it was committed as,    *)
(* whatever revision it names and whatever has happened to the match since *)
(* - the flight chess action replaced by the limit abandonment included.   *)
RetryAnswered ==
    \A m \in Matches :
        /\ \A i \in DOMAIN events[m] :
              LET e == events[m][i]
                  kind == CASE e.kind = "resigned" -> "resign"
                            [] e.kind = "rolled" -> "roll"
                            [] OTHER -> "move"
              IN  e.action # None =>
                    \A r \in Revisions :
                      Answers([match |-> m, actor |-> e.actor, action |-> e.action,
                               expected |-> r, kind |-> kind,
                               payload |-> e.payload]) = {i}
        /\ limit[m] # None =>
              Answers([match |-> m, actor |-> limit[m].actor,
                       action |-> limit[m].action, expected |-> 0,
                       kind |-> limit[m].kind,
                       payload |-> limit[m].payload]) = {Len(events[m])}

(* Launch tickets and resume tokens exist only for players of matches that *)
(* are still active, and each player has at most one of each per match.    *)
CredentialsScoped ==
    /\ \A c \in tickets \cup resumes :
          Active(c.match) /\ c.user \in Players(c.match)
    /\ \A c, d \in tickets : c.match = d.match /\ c.user = d.user => c = d
    /\ \A c, d \in resumes : c.match = d.match /\ c.user = d.user => c = d

(* A match that has ended is never written again: not by a late presence   *)
(* update, a boot, a sweep that listed it while it was active, or a retry. *)
EndedMatchesFrozen ==
    [][\A m \in Matches :
          Exists(m) /\ ~Active(m) =>
            /\ matches'[m] = matches[m] /\ events'[m] = events[m]
            /\ limit'[m] = limit[m]]_vars

(* A match is abandoned for absence only if, at that very moment, its      *)
(* timer has been running for the whole period: a player who came back     *)
(* between the scan and the transaction keeps the match.                   *)
AbandonJustified ==
    [][\A m \in Matches :
          Active(m) /\ matches'[m].status = "abandoned" /\ limit'[m] = None =>
            /\ matches[m].offlineSince # Never
            /\ matches[m].offlineSince + OfflineAfter <= now]_vars

(* An expired or revoked resume token is never renewed, and a new resume   *)
(* token is only ever given for a live, unused launch ticket.              *)
DeadCredentialsStayDead ==
    [][/\ \A r \in resumes : r.revoked \/ r.expires <= now =>
             \A s \in resumes' : s.id = r.id => s.expires = r.expires
       /\ \A s \in resumes' : s.id \notin issued =>
             \E t \in tickets :
               /\ t.match = s.match /\ t.user = s.user
               /\ ~t.consumed /\ t.expires > now]_vars

(* A match whose timer runs is ended, or the timer is cleared: the sweep   *)
(* of the abandon worker misses none, restarts included.                   *)
OfflineMatchEnds ==
    \A m \in Matches :
        (Active(m) /\ matches[m].offlineSince # Never)
          ~> (~Active(m) \/ matches[m].offlineSince = Never)
=============================================================================
