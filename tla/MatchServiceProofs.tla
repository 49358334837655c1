------------------------- MODULE MatchServiceProofs -------------------------
(***************************************************************************)
(* Theorems about MatchService for every set of users, matches and games,  *)
(* every history limit and every lifetime.                                 *)
(***************************************************************************)
EXTENDS MatchService, TLAPS

(* Reading the row of a match that exists.                                 *)
LEMMA RowType ==
    ASSUME TypeOK, NEW m \in Matches, Exists(m)
    PROVE  /\ matches[m] \in Rows
           /\ Players(m) \subseteq Users
           /\ matches[m].game \in Games
BY DEF TypeOK, Exists, Rows, Players

(* A row is the record of its columns, and every update of a row that the  *)
(* service writes is a row again.                                          *)
LEMMA RowColumns ==
    ASSUME NEW r \in Rows
    PROVE  /\ r = [game |-> r.game, status |-> r.status, revision |-> r.revision,
                   seats |-> r.seats, turn |-> r.turn,
                   offlineSince |-> r.offlineSince,
                   result |-> r.result, winner |-> r.winner]
           /\ r.revision + 1 \in Nat
BY DEF Rows

LEMMA AdvancedRow ==
    ASSUME NEW r \in Rows, NEW turn \in Users \cup {None}
    PROVE  [r EXCEPT !.revision = @ + 1, !.turn = turn] \in Rows
BY RowColumns DEF Rows

LEMMA FinishedRow ==
    ASSUME NEW r \in Rows,
           NEW result \in GameResults \cup {"resignation"},
           NEW winner \in Users \cup {None}
    PROVE  [r EXCEPT !.status = "finished", !.revision = @ + 1,
                     !.result = result, !.winner = winner,
                     !.offlineSince = Never] \in Rows
BY RowColumns DEF Rows, Statuses, Never

LEMMA CancelledRow ==
    ASSUME NEW r \in Rows
    PROVE  [r EXCEPT !.status = "cancelled", !.revision = @ + 1,
                     !.winner = None, !.result = None] \in Rows
BY RowColumns DEF Rows, Statuses

LEMMA AbandonedRow ==
    ASSUME NEW r \in Rows
    PROVE  /\ [r EXCEPT !.status = "abandoned", !.revision = @ + 1,
                        !.offlineSince = Never] \in Rows
           /\ [r EXCEPT !.status = "abandoned", !.revision = @ + 1,
                        !.winner = None, !.result = None,
                        !.offlineSince = Never] \in Rows
<1>1. [r EXCEPT !.status = "abandoned", !.revision = @ + 1,
                !.offlineSince = Never] \in Rows
  BY RowColumns DEF Rows, Statuses, Never
<1>2. [r EXCEPT !.status = "abandoned", !.revision = @ + 1,
                !.winner = None, !.result = None,
                !.offlineSince = Never] \in Rows
  BY RowColumns DEF Rows, Statuses, Never
<1> QED BY <1>1, <1>2

LEMMA OfflineRow ==
    ASSUME NEW r \in Rows, NEW t \in Nat \cup {Never}
    PROVE  [r EXCEPT !.offlineSince = t] \in Rows
BY DEF Rows

(* The deletes of a terminal transition leave well-typed tables.           *)
LEMMA ReleaseType ==
    ASSUME TypeOK, NEW m \in Matches, ReleaseMatch(m)
    PROVE  /\ slots' \in [Games \X Users -> Matches \cup {None}]
           /\ tickets' \subseteq Tickets
           /\ resumes' \subseteq Resumes
           /\ issued' \subseteq Credentials
<1>1. slots' \in [Games \X Users -> Matches \cup {None}]
  <2> DEFINE S == Games \X Users
             Del(s) == s \in {matches[m].game} \X Players(m) /\ slots[s] = m
  <2>1. slots' = [s \in S |-> IF Del(s) THEN None ELSE slots[s]]
    BY DEF ReleaseMatch
  <2>2. slots \in [S -> Matches \cup {None}]
    BY DEF TypeOK
  <2> HIDE DEF S, Del
  <2> QED
    BY <2>1, <2>2 DEF S
<1>2. tickets' \subseteq Tickets /\ resumes' \subseteq Resumes /\ issued' \subseteq Credentials
  BY DEF ReleaseMatch, TypeOK
<1> QED BY <1>1, <1>2

LEMMA AppendType ==
    ASSUME TypeOK, NEW m \in Matches, NEW e \in Events, Append1(m, e)
    PROVE  events' \in [Matches -> Seq(Events)]
BY DEF TypeOK, Append1

LEMMA OpponentType ==
    ASSUME TypeOK, NEW m \in Matches, Exists(m), NEW u \in Players(m)
    PROVE  Opponent(m, u) \in Users
BY RowType DEF Opponent, Players

(* An accepted, non-terminal action keeps every table well typed.          *)
LEMMA AdvanceType ==
    ASSUME TypeOK, NEW q \in Requests, Exists(q.match),
           NEW kind \in MoveKinds, NEW turn \in Users \cup {None},
           Advance(q, kind, turn)
    PROVE  TypeOK'
<1> DEFINE e == [kind |-> kind, actor |-> q.actor,
                 action |-> q.action, payload |-> q.payload]
<1>1. q.match \in Matches /\ e \in Events
  BY DEF Requests, Events
<1>2. events' \in [Matches -> Seq(Events)]
  BY <1>1, AppendType DEF Advance
<1>3. matches' \in [Matches -> Rows \cup {None}]
  BY <1>1, RowType, AdvancedRow DEF Advance, TypeOK
<1> QED BY <1>2, <1>3 DEF Advance, TypeOK, creds

(* So does a terminal one.                                                 *)
LEMMA ConcludeType ==
    ASSUME TypeOK, NEW q \in Requests, Exists(q.match),
           NEW kind \in MoveKinds \cup {"resigned"},
           NEW result \in GameResults \cup {"resignation"},
           NEW winner \in Users \cup {None},
           Conclude(q, kind, result, winner)
    PROVE  TypeOK'
<1> DEFINE e == [kind |-> kind, actor |-> q.actor,
                 action |-> q.action, payload |-> q.payload]
<1>1. q.match \in Matches /\ e \in Events
  BY DEF Requests, Events, EndKinds
<1>2. events' \in [Matches -> Seq(Events)]
  BY <1>1, AppendType DEF Conclude
<1>3. matches' \in [Matches -> Rows \cup {None}]
  BY <1>1, RowType, FinishedRow DEF Conclude, TypeOK
<1>4. ReleaseMatch(q.match)
  BY DEF Conclude
<1> QED BY <1>1, <1>2, <1>3, <1>4, ReleaseType DEF Conclude, TypeOK

(* The abandonment event, whoever writes it.                               *)
LEMMA AbandonType ==
    ASSUME TypeOK, NEW m \in Matches, Exists(m),
           Append1(m, [kind |-> "abandoned", actor |-> None,
                       action |-> None, payload |-> None])
    PROVE  events' \in [Matches -> Seq(Events)]
<1>1. [kind |-> "abandoned", actor |-> None,
       action |-> None, payload |-> None] \in Events
  BY DEF Events, EndKinds
<1> QED BY <1>1, AppendType

-----------------------------------------------------------------------------
(* ApplyAction: every branch of the five games ends in Advance or Conclude *)
(* except the abandonment that replaces a flight chess action.             *)
LEMMA ApplyActionType ==
    ASSUME TypeOK, NEW q \in Requests, ApplyAction(q)
    PROVE  TypeOK'
<1>0. /\ Exists(q.match) /\ q.match \in Matches /\ q.actor \in Users
      /\ Players(q.match) \subseteq Users
      /\ Opponent(q.match, q.actor) \in Users
  <2>1. Exists(q.match) /\ q.actor \in Players(q.match)
    BY DEF ApplyAction, BoardMove, CheckersMove, FlightAction, RpsChoice,
           Resign, Admissible
  <2>2. q.match \in Matches /\ q.actor \in Users
    BY DEF Requests
  <2> QED BY <2>1, <2>2, RowType, OpponentType
<1>1. CASE BoardMove(q)
  <2>1. \/ \E next \in Users \cup {None} : Advance(q, "move", next)
        \/ \E result \in GameResults, w \in Users \cup {None} :
              Conclude(q, "move", result, w)
    BY <1>0, <1>1 DEF BoardMove, GameResults
  <2> QED BY <1>0, <2>1, AdvanceType, ConcludeType DEF MoveKinds
<1>2. CASE CheckersMove(q)
  <2>1. \/ \E next \in Users \cup {None} : Advance(q, "move", next)
        \/ \E result \in GameResults, w \in Users \cup {None} :
              Conclude(q, "move", result, w)
    BY <1>0, <1>2 DEF CheckersMove, GameResults
  <2> QED BY <1>0, <2>1, AdvanceType, ConcludeType DEF MoveKinds
<1>3. CASE RpsChoice(q)
  <2>1. \/ \E kind \in MoveKinds : Advance(q, kind, None)
        \/ \E w \in Users \cup {None} : Conclude(q, "revealed", "rounds", w)
    BY <1>0, <1>3 DEF RpsChoice, MoveKinds
  <2> QED BY <1>0, <2>1, AdvanceType, ConcludeType DEF MoveKinds, GameResults
<1>4. CASE Resign(q)
  BY <1>0, <1>4, ConcludeType DEF Resign
<1>5. CASE FlightAction(q)
  <2>1. CASE \E kind \in MoveKinds, next \in Users \cup {None} : Advance(q, kind, next)
    BY <1>0, <2>1, AdvanceType
  <2>2. CASE \E w \in Users \cup {None} : Conclude(q, "move", "goal", w)
    BY <1>0, <2>2, ConcludeType DEF MoveKinds, GameResults
  <2>3. CASE /\ q.kind \in {"move", "roll"}
             /\ Append1(q.match, [kind |-> "abandoned", actor |-> None,
                                  action |-> None, payload |-> None])
             /\ limit' = [limit EXCEPT ![q.match] =
                   [actor |-> q.actor, action |-> q.action,
                    kind |-> q.kind, payload |-> q.payload]]
             /\ matches' = [matches EXCEPT
                   ![q.match].status = "abandoned", ![q.match].revision = @ + 1,
                   ![q.match].offlineSince = Never]
             /\ ReleaseMatch(q.match)
             /\ UNCHANGED <<sweep, now>>
    <3>1. events' \in [Matches -> Seq(Events)]
      BY <1>0, <2>3, AbandonType
    <3>2. matches' \in [Matches -> Rows \cup {None}]
      BY <1>0, <2>3, RowType, AbandonedRow DEF TypeOK
    <3>3. limit' \in [Matches -> LimitActions \cup {None}]
      <4>1. [actor |-> q.actor, action |-> q.action,
             kind |-> q.kind, payload |-> q.payload] \in LimitActions
        BY <2>3 DEF Requests, LimitActions
      <4> QED BY <2>3, <4>1 DEF TypeOK
    <3> QED BY <1>0, <2>3, <3>1, <3>2, <3>3, ReleaseType DEF TypeOK
  <2>4. \/ \E kind \in MoveKinds, next \in Users \cup {None} : Advance(q, kind, next)
        \/ \E w \in Users \cup {None} : Conclude(q, "move", "goal", w)
        \/ /\ q.kind \in {"move", "roll"}
           /\ Append1(q.match, [kind |-> "abandoned", actor |-> None,
                                action |-> None, payload |-> None])
           /\ limit' = [limit EXCEPT ![q.match] =
                 [actor |-> q.actor, action |-> q.action,
                  kind |-> q.kind, payload |-> q.payload]]
           /\ matches' = [matches EXCEPT
                 ![q.match].status = "abandoned", ![q.match].revision = @ + 1,
                 ![q.match].offlineSince = Never]
           /\ ReleaseMatch(q.match)
           /\ UNCHANGED <<sweep, now>>
    <3>1. (IF q.kind = "roll" THEN "rolled" ELSE "move") \in MoveKinds
      BY DEF MoveKinds
    <3> QED BY <1>0, <1>5, <3>1 DEF FlightAction
  <2> QED BY <2>1, <2>2, <2>3, <2>4
<1> QED BY <1>1, <1>2, <1>3, <1>4, <1>5 DEF ApplyAction

(* The row, the log, the slots, the credentials and the sweep keep their   *)
(* types through every committed operation of the service.                 *)
THEOREM TypeCorrect == Spec => []TypeOK
<1>1. Init => TypeOK
  <2>1. 0 \in Nat /\ 0 \in Int /\ <<>> \in Seq(Events)
    OBVIOUS
  <2> QED BY <2>1 DEF Init, TypeOK
<1>2. TypeOK /\ [Next]_vars => TypeOK'
  <2> SUFFICES ASSUME TypeOK, [Next]_vars PROVE TypeOK'
    OBVIOUS
  <2>1. ASSUME NEW m \in Matches, NEW g \in Games, NEW u \in Users,
               NEW v \in Users, Create(m, g, u, v)
        PROVE  TypeOK'
    <3>1. PICK black \in {u, v} : matches' = [matches EXCEPT ![m] =
              [game |-> g, status |-> "active", revision |-> 0,
               seats |-> <<u, v>>,
               turn |-> IF g = "rps" THEN None ELSE black,
               offlineSince |-> Never, result |-> None, winner |-> None]]
      BY <2>1 DEF Create
    <3>2. [game |-> g, status |-> "active", revision |-> 0,
           seats |-> <<u, v>>,
           turn |-> IF g = "rps" THEN None ELSE black,
           offlineSince |-> Never, result |-> None, winner |-> None] \in Rows
      BY DEF Rows, Statuses
    <3>3. matches' \in [Matches -> Rows \cup {None}]
      BY <3>1, <3>2 DEF TypeOK
    <3>4. slots' \in [Games \X Users -> Matches \cup {None}]
      BY <2>1 DEF Create, TypeOK
    <3> QED BY <2>1, <3>3, <3>4 DEF Create, TypeOK, creds
  <2>2. ASSUME NEW m \in Matches, NEW u \in Users, Cancel(m, u)
        PROVE  TypeOK'
    <3>1. Exists(m) /\ ReleaseMatch(m)
      BY <2>2 DEF Cancel, Active
    <3>2. [kind |-> "cancelled", actor |-> u,
           action |-> None, payload |-> None] \in Events
      BY DEF Events, EndKinds
    <3>3. events' \in [Matches -> Seq(Events)]
      BY <2>2, <3>2, AppendType DEF Cancel
    <3>4. matches' \in [Matches -> Rows \cup {None}]
      BY <2>2, <3>1, RowType, CancelledRow DEF Cancel, TypeOK
    <3> QED BY <2>2, <3>1, <3>3, <3>4, ReleaseType DEF Cancel, TypeOK
  <2>3. ASSUME NEW q \in Requests, ApplyAction(q)
        PROVE  TypeOK'
    BY <2>3, ApplyActionType
  <2>4. ASSUME NEW m \in Matches, SetPlayerOnline(m) \/ SetPlayerOffline(m)
        PROVE  TypeOK'
    <3>1. PICK t \in Nat \cup {Never} :
             matches' = [matches EXCEPT ![m].offlineSince = t]
      <4>1. matches[m].offlineSince \in Nat \cup {Never} /\ now \in Nat
        BY <2>4, RowType DEF SetPlayerOnline, SetPlayerOffline, Active, Rows, TypeOK
      <4>2. CASE SetPlayerOnline(m)
        BY <4>2 DEF SetPlayerOnline
      <4>3. CASE SetPlayerOffline(m)
        BY <4>1, <4>3 DEF SetPlayerOffline
      <4> QED BY <2>4, <4>2, <4>3
    <3>2. matches' \in [Matches -> Rows \cup {None}]
      BY <2>4, <3>1, RowType, OfflineRow
         DEF SetPlayerOnline, SetPlayerOffline, Active, TypeOK
    <3> QED BY <2>4, <3>2 DEF SetPlayerOnline, SetPlayerOffline, TypeOK, creds
  <2>5. CASE Scan
    <3>1. now - OfflineAfter \in Int
      BY TimeAssumption DEF TypeOK
    <3> QED BY <2>5, <3>1 DEF Scan, TypeOK, durable, creds
  <2>6. ASSUME NEW m \in Matches, AbandonIfExpired(m)
        PROVE  TypeOK'
    <3>1. sweep' \in [pending : SUBSET Matches, cutoff : Int]
      BY <2>6 DEF AbandonIfExpired, TypeOK
    <3>2. CASE ~Expired(m, sweep.cutoff)
      BY <2>6, <3>1, <3>2 DEF AbandonIfExpired, TypeOK, durable, creds
    <3>3. CASE Expired(m, sweep.cutoff)
      <4>1. Exists(m) /\ ReleaseMatch(m)
        BY <2>6, <3>3 DEF AbandonIfExpired, Expired, Active
      <4>2. events' \in [Matches -> Seq(Events)]
        BY <2>6, <3>3, <4>1, AbandonType DEF AbandonIfExpired
      <4>3. matches' \in [Matches -> Rows \cup {None}]
        <5> DEFINE r == [matches[m] EXCEPT
                !.status = "abandoned", !.revision = @ + 1,
                !.winner = None, !.result = None, !.offlineSince = Never]
        <5>1. matches' = [matches EXCEPT ![m] = r]
          BY <2>6, <3>3 DEF AbandonIfExpired
        <5>2. r \in Rows
          BY <4>1, RowType, AbandonedRow
        <5> QED BY <5>1, <5>2 DEF TypeOK
      <4> QED BY <2>6, <3>1, <3>3, <4>1, <4>2, <4>3, ReleaseType
             DEF AbandonIfExpired, TypeOK
    <3> QED BY <3>2, <3>3
  <2>7. CASE Restart
    <3>1. ASSUME NEW m \in Matches, Exists(m)
          PROVE  [matches[m] EXCEPT !.offlineSince = now] \in Rows
      BY <3>1, RowType, OfflineRow DEF TypeOK
    <3>2. matches' \in [Matches -> Rows \cup {None}]
      BY <2>7, <3>1 DEF Restart, Active, TypeOK
    <3> QED BY <2>7, <3>2 DEF Restart, TypeOK, creds
  <2>8. ASSUME NEW m \in Matches, NEW u \in Users, NEW id \in Credentials,
               CreateLaunchTicket(m, u, id)
        PROVE  TypeOK'
    <3>1. [id |-> id, match |-> m, user |-> u,
           expires |-> now + TicketLife, consumed |-> FALSE] \in Tickets
      BY TimeAssumption DEF Tickets, TypeOK
    <3> QED BY <2>8, <3>1 DEF CreateLaunchTicket, TypeOK, durable
  <2>9. ASSUME NEW t \in tickets, NEW id \in Credentials, ConnectLaunch(t, id)
        PROVE  TypeOK'
    <3>1. t \in Tickets /\ [t EXCEPT !.consumed = TRUE] \in Tickets
      BY DEF TypeOK, Tickets
    <3>2. [id |-> id, match |-> t.match, user |-> t.user,
           expires |-> now + ResumeLife, revoked |-> FALSE] \in Resumes
      BY <3>1, TimeAssumption DEF Tickets, Resumes, TypeOK
    <3> QED BY <2>9, <3>1, <3>2 DEF ConnectLaunch, TypeOK, durable
  <2>10. ASSUME NEW r \in resumes, ConnectResume(r)
         PROVE  TypeOK'
    <3>1. r \in Resumes /\ now + ResumeLife \in Nat
      BY TimeAssumption DEF TypeOK
    <3>2. [r EXCEPT !.expires = now + ResumeLife] \in Resumes
      BY <3>1 DEF Resumes
    <3> QED BY <2>10, <3>2 DEF ConnectResume, TypeOK, durable
  <2>11. ASSUME NEW u \in Users, RevokeCredentials(u)
         PROVE  TypeOK'
    <3>1. \A r \in resumes : [r EXCEPT !.revoked = TRUE] \in Resumes
      BY DEF TypeOK, Resumes
    <3>2. resumes' \subseteq Resumes
      BY <2>11, <3>1 DEF RevokeCredentials, TypeOK
    <3> QED BY <2>11, <3>2 DEF RevokeCredentials, TypeOK, durable
  <2>12. CASE Tick
    BY <2>12 DEF Tick, TypeOK, durable, creds
  <2>13. CASE UNCHANGED vars
    BY <2>13 DEF vars, durable, creds, TypeOK
  <2> QED BY <2>1, <2>2, <2>3, <2>4, <2>5, <2>6, <2>7, <2>8, <2>9, <2>10,
             <2>11, <2>12, <2>13 DEF Next
<1> QED BY <1>1, <1>2, PTL DEF Spec

-----------------------------------------------------------------------------
(***************************************************************************)
(* Slots.  SlotsMatchLifecycle is inductive together with the types.       *)
(***************************************************************************)
SlotInv == TypeOK /\ SlotsMatchLifecycle

SameStanding(m) ==
    /\ Active(m)' <=> Active(m)
    /\ Active(m) => /\ matches'[m].game = matches[m].game
                    /\ matches'[m].seats = matches[m].seats

(* A step that leaves slots, statuses, games and seats alone.              *)
LEMMA SlotsKept ==
    ASSUME SlotInv, UNCHANGED slots, \A m \in Matches : SameStanding(m)
    PROVE  SlotsMatchLifecycle'
<1> SUFFICES ASSUME NEW g \in Games, NEW u \in Users, NEW m \in Matches
             PROVE  (slots[<<g, u>>] = m)'
                      <=> (Active(m) /\ matches[m].game = g /\ u \in Players(m))'
  BY DEF SlotsMatchLifecycle
<1>1. slots[<<g, u>>] = m <=> Active(m) /\ matches[m].game = g /\ u \in Players(m)
  BY DEF SlotInv, SlotsMatchLifecycle
<1>2. SameStanding(m)
  OBVIOUS
<1> QED BY <1>1, <1>2 DEF SameStanding, Players

(* Ending a match frees its two slots and no other.                        *)
LEMMA SlotsReleased ==
    ASSUME SlotInv, NEW m \in Matches, Active(m), ReleaseMatch(m),
           NEW r \in Rows, r.status # "active",
           matches' = [matches EXCEPT ![m] = r]
    PROVE  SlotsMatchLifecycle'
<1> SUFFICES ASSUME NEW g \in Games, NEW u \in Users, NEW n \in Matches
             PROVE  (slots[<<g, u>>] = n)'
                      <=> (Active(n) /\ matches[n].game = g /\ u \in Players(n))'
  BY DEF SlotsMatchLifecycle
<1>1. slots[<<g, u>>] = n <=> Active(n) /\ matches[n].game = g /\ u \in Players(n)
  BY DEF SlotInv, SlotsMatchLifecycle
<1>2. slots[<<g, u>>] = m <=> <<g, u>> \in {matches[m].game} \X Players(m)
  BY DEF SlotInv, SlotsMatchLifecycle
<1>3. slots'[<<g, u>>] = IF slots[<<g, u>>] = m THEN None ELSE slots[<<g, u>>]
  <2>1. <<g, u>> \in Games \X Users
    OBVIOUS
  <2>2. slots'[<<g, u>>] =
          IF <<g, u>> \in {matches[m].game} \X Players(m) /\ slots[<<g, u>>] = m
          THEN None ELSE slots[<<g, u>>]
    BY <2>1 DEF ReleaseMatch
  <2> QED BY <1>2, <2>2
<1>4. None \notin Matches
  BY NoneAssumption
<1>5. matches'[m] = r /\ (n # m => matches'[n] = matches[n])
  BY DEF SlotInv, TypeOK
<1>6. CASE n = m
  BY <1>3, <1>4, <1>5, <1>6 DEF Active
<1>7. CASE n # m
  BY <1>1, <1>3, <1>4, <1>5, <1>7 DEF Active, Exists, Players
<1> QED BY <1>6, <1>7

(* A move leaves a match where it stands or ends it.                       *)
LEMMA AdvanceSlots ==
    ASSUME SlotInv, NEW q \in Requests, Active(q.match), NEW kind,
           NEW turn \in Users \cup {None}, Advance(q, kind, turn)
    PROVE  SlotsMatchLifecycle'
<1>1. q.match \in Matches
  BY DEF Requests
<1>2. \A m \in Matches : SameStanding(m)
  <2> SUFFICES ASSUME NEW m \in Matches PROVE SameStanding(m)
    OBVIOUS
  <2>1. CASE m # q.match
    BY <1>1, <2>1 DEF Advance, SameStanding, Active, Exists, SlotInv, TypeOK
  <2>2. CASE m = q.match
    <3>1. matches[m] \in Rows
      BY <2>2, RowType DEF Active, SlotInv
    <3>2. matches'[m] = [matches[m] EXCEPT !.revision = @ + 1, !.turn = turn]
      BY <1>1, <2>2 DEF Advance, SlotInv, TypeOK
    <3>3. matches'[m] # None
      <4>1. matches'[m] \in Rows
        BY <3>1, <3>2, AdvancedRow
      <4> QED BY <4>1, NullAssumption
    <3>4. /\ matches'[m].status = matches[m].status
          /\ matches'[m].game = matches[m].game
          /\ matches'[m].seats = matches[m].seats
      BY <3>1, <3>2, RowColumns
    <3> QED BY <2>2, <3>3, <3>4 DEF SameStanding, Active, Exists
  <2> QED BY <2>1, <2>2
<1> QED BY <1>2, SlotsKept DEF Advance

LEMMA ConcludeSlots ==
    ASSUME SlotInv, NEW q \in Requests, Active(q.match), NEW kind,
           NEW result \in GameResults \cup {"resignation"},
           NEW winner \in Users \cup {None}, Conclude(q, kind, result, winner)
    PROVE  SlotsMatchLifecycle'
<1> DEFINE r == [matches[q.match] EXCEPT !.status = "finished", !.revision = @ + 1,
                    !.result = result, !.winner = winner, !.offlineSince = Never]
<1>1. q.match \in Matches /\ matches[q.match] \in Rows
  BY RowType DEF Requests, Active, SlotInv
<1>2. matches' = [matches EXCEPT ![q.match] = r] /\ ReleaseMatch(q.match)
  BY DEF Conclude
<1>3. r \in Rows
  BY <1>1, FinishedRow
<1>4. r.status # "active"
  BY <1>1, RowColumns
<1> HIDE DEF r
<1> QED BY <1>1, <1>2, <1>3, <1>4, SlotsReleased

(* Writing the offline timer of a match does not touch its standing.       *)
LEMMA TimerStanding ==
    ASSUME TypeOK, NEW m \in Matches, NEW t \in Nat \cup {Never}, Active(m),
           matches'[m] = [matches[m] EXCEPT !.offlineSince = t]
    PROVE  SameStanding(m)
<1>1. matches[m] \in Rows
  BY RowType DEF Active
<1>2. matches'[m] # None
  BY <1>1, OfflineRow, NullAssumption
<1>3. /\ matches'[m].status = matches[m].status
      /\ matches'[m].game = matches[m].game
      /\ matches'[m].seats = matches[m].seats
  BY <1>1, RowColumns
<1> QED BY <1>2, <1>3 DEF SameStanding, Active, Exists

LEMMA ApplyActionSlots ==
    ASSUME SlotInv, NEW q \in Requests, ApplyAction(q)
    PROVE  SlotsMatchLifecycle'
<1>0. /\ Active(q.match) /\ q.match \in Matches /\ q.actor \in Users
      /\ Players(q.match) \subseteq Users
      /\ Opponent(q.match, q.actor) \in Users
  <2>1. Active(q.match) /\ q.actor \in Players(q.match)
    BY DEF ApplyAction, BoardMove, CheckersMove, FlightAction, RpsChoice,
           Resign, Admissible
  <2>2. q.match \in Matches /\ q.actor \in Users
    BY DEF Requests
  <2> QED BY <2>1, <2>2, RowType, OpponentType DEF SlotInv, Active
<1>1. CASE \E kind \in MoveKinds, turn \in Users \cup {None} : Advance(q, kind, turn)
  BY <1>0, <1>1, AdvanceSlots
<1>2. CASE \E kind \in MoveKinds \cup {"resigned"},
              result \in GameResults \cup {"resignation"},
              winner \in Users \cup {None} : Conclude(q, kind, result, winner)
  BY <1>0, <1>2, ConcludeSlots
<1>3. CASE /\ matches' = [matches EXCEPT
                 ![q.match].status = "abandoned", ![q.match].revision = @ + 1,
                 ![q.match].offlineSince = Never]
           /\ ReleaseMatch(q.match)
  <2> DEFINE r == [matches[q.match] EXCEPT !.status = "abandoned",
                      !.revision = @ + 1, !.offlineSince = Never]
  <2>1. matches[q.match] \in Rows
    BY <1>0, RowType DEF Active, SlotInv
  <2>2. r \in Rows
    BY <2>1, AbandonedRow
  <2>3. r.status # "active"
    BY <2>1, RowColumns
  <2>4. matches' = [matches EXCEPT ![q.match] = r] /\ ReleaseMatch(q.match)
    BY <1>3
  <2> HIDE DEF r
  <2> QED BY <1>0, <2>2, <2>3, <2>4, SlotsReleased
<1>4. CASE BoardMove(q)
  BY <1>0, <1>1, <1>2, <1>4 DEF BoardMove, MoveKinds, GameResults
<1>5. CASE CheckersMove(q)
  BY <1>0, <1>1, <1>2, <1>5 DEF CheckersMove, MoveKinds, GameResults
<1>6. CASE RpsChoice(q)
  BY <1>0, <1>1, <1>2, <1>6 DEF RpsChoice, MoveKinds, GameResults
<1>7. CASE Resign(q)
  BY <1>0, <1>2, <1>7 DEF Resign
<1>8. CASE FlightAction(q)
  <2>1. (IF q.kind = "roll" THEN "rolled" ELSE "move") \in MoveKinds
    BY DEF MoveKinds
  <2> QED BY <1>0, <1>1, <1>2, <1>3, <1>8, <2>1
         DEF FlightAction, MoveKinds, GameResults
<1> QED BY <1>4, <1>5, <1>6, <1>7, <1>8 DEF ApplyAction

(* A player holds the slot of a game exactly while an active match of that *)
(* game seats the player, for any number of players, games and matches.    *)
THEOREM SlotsCorrect == Spec => []SlotsMatchLifecycle
<1>1. Init => SlotsMatchLifecycle
  BY NoneAssumption DEF Init, SlotsMatchLifecycle, Active, Exists
<1>2. TypeOK /\ TypeOK' /\ SlotsMatchLifecycle /\ [Next]_vars => SlotsMatchLifecycle'
  <2> SUFFICES ASSUME SlotInv, TypeOK', [Next]_vars PROVE SlotsMatchLifecycle'
    BY DEF SlotInv
  <2> USE DEF SlotInv
  <2>1. ASSUME NEW m \in Matches, NEW g \in Games, NEW u \in Users,
               NEW v \in Users, Create(m, g, u, v)
        PROVE  SlotsMatchLifecycle'
    <3> SUFFICES ASSUME NEW h \in Games, NEW w \in Users, NEW n \in Matches
                 PROVE  (slots[<<h, w>>] = n)'
                          <=> (Active(n) /\ matches[n].game = h /\ w \in Players(n))'
      BY DEF SlotsMatchLifecycle
    <3>1. slots[<<h, w>>] = n <=> Active(n) /\ matches[n].game = h /\ w \in Players(n)
      BY DEF SlotsMatchLifecycle
    <3>2. slots'[<<h, w>>] = IF h = g /\ w \in {u, v} THEN m ELSE slots[<<h, w>>]
      BY <2>1 DEF Create, TypeOK
    <3>3. slots[<<g, u>>] = None /\ slots[<<g, v>>] = None /\ None \notin Matches
      BY <2>1, NoneAssumption DEF Create
    <3>4. PICK black \in {u, v} : matches' = [matches EXCEPT ![m] =
              [game |-> g, status |-> "active", revision |-> 0,
               seats |-> <<u, v>>,
               turn |-> IF g = "rps" THEN None ELSE black,
               offlineSince |-> Never, result |-> None, winner |-> None]]
      BY <2>1 DEF Create
    <3>5. CASE n = m
      <4>1. matches'[m].status = "active" /\ matches'[m].game = g
            /\ matches'[m].seats = <<u, v>>
        BY <3>4 DEF TypeOK
      <4>2. matches'[m] \in Rows
        <5>1. [game |-> g, status |-> "active", revision |-> 0,
               seats |-> <<u, v>>,
               turn |-> IF g = "rps" THEN None ELSE black,
               offlineSince |-> Never, result |-> None, winner |-> None] \in Rows
          BY DEF Rows, Statuses
        <5> QED BY <3>4, <5>1 DEF TypeOK
      <4>3. slots[<<h, w>>] # m
        BY <2>1, <3>1, <3>5 DEF Create, Active
      <4> QED BY <3>2, <3>5, <4>1, <4>2, <4>3, NullAssumption
             DEF Active, Exists, Players
    <3>6. CASE n # m
      <4>1. matches'[n] = matches[n]
        BY <3>4, <3>6 DEF TypeOK
      <4>2. slots'[<<h, w>>] = n <=> slots[<<h, w>>] = n
        BY <3>2, <3>3, <3>6
      <4> QED BY <3>1, <4>1, <4>2 DEF Active, Exists, Players
    <3> QED BY <3>5, <3>6
  <2>2. ASSUME NEW m \in Matches, NEW u \in Users, Cancel(m, u)
        PROVE  SlotsMatchLifecycle'
    <3> DEFINE r == [matches[m] EXCEPT !.status = "cancelled",
                        !.revision = @ + 1, !.winner = None, !.result = None]
    <3>1. Active(m) /\ matches[m] \in Rows /\ ReleaseMatch(m)
      BY <2>2, RowType DEF Cancel, Active
    <3>2. matches' = [matches EXCEPT ![m] = r]
      BY <2>2 DEF Cancel
    <3>3. r \in Rows /\ r.status # "active"
      BY <3>1, CancelledRow, RowColumns
    <3> HIDE DEF r
    <3> QED BY <3>1, <3>2, <3>3, SlotsReleased
  <2>3. ASSUME NEW q \in Requests, ApplyAction(q)
        PROVE  SlotsMatchLifecycle'
    BY <2>3, ApplyActionSlots
  <2>4. ASSUME NEW m \in Matches, SetPlayerOnline(m) \/ SetPlayerOffline(m)
        PROVE  SlotsMatchLifecycle'
    <3>1. Active(m) /\ matches[m].offlineSince \in Nat \cup {Never} /\ now \in Nat
      BY <2>4, RowType DEF SetPlayerOnline, SetPlayerOffline, Active, Rows, TypeOK
    <3>2. \E t \in Nat \cup {Never} :
             matches' = [matches EXCEPT ![m].offlineSince = t]
      BY <2>4, <3>1 DEF SetPlayerOnline, SetPlayerOffline
    <3>3. SameStanding(m)
      BY <3>1, <3>2, TimerStanding DEF TypeOK
    <3>4. \A n \in Matches : SameStanding(n)
      BY <3>2, <3>3 DEF SameStanding, Active, Exists, TypeOK
    <3> QED BY <2>4, <3>4, SlotsKept DEF SetPlayerOnline, SetPlayerOffline
  <2>5. ASSUME UNCHANGED <<matches, slots>>
        PROVE  SlotsMatchLifecycle'
    <3>1. \A n \in Matches : SameStanding(n)
      BY <2>5 DEF SameStanding, Active, Exists
    <3> QED BY <2>5, <3>1, SlotsKept
  <2>6. ASSUME NEW m \in Matches, AbandonIfExpired(m)
        PROVE  SlotsMatchLifecycle'
    <3>1. CASE ~Expired(m, sweep.cutoff)
      BY <2>5, <2>6, <3>1 DEF AbandonIfExpired, durable
    <3>2. CASE Expired(m, sweep.cutoff)
      <4> DEFINE r == [matches[m] EXCEPT
              !.status = "abandoned", !.revision = @ + 1,
              !.winner = None, !.result = None, !.offlineSince = Never]
      <4>1. Active(m) /\ matches[m] \in Rows /\ ReleaseMatch(m)
        BY <2>6, <3>2, RowType DEF AbandonIfExpired, Expired, Active
      <4>2. matches' = [matches EXCEPT ![m] = r]
        BY <2>6, <3>2 DEF AbandonIfExpired
      <4>3. r \in Rows /\ r.status # "active"
        BY <4>1, AbandonedRow, RowColumns
      <4> HIDE DEF r
      <4> QED BY <4>1, <4>2, <4>3, SlotsReleased
    <3> QED BY <3>1, <3>2
  <2>7. CASE Restart
    <3>1. \A n \in Matches : SameStanding(n)
      <4> SUFFICES ASSUME NEW n \in Matches PROVE SameStanding(n)
        OBVIOUS
      <4>1. CASE Active(n) /\ matches[n].offlineSince = Never
        BY <2>7, <4>1, TimerStanding DEF Restart, TypeOK
      <4>2. CASE ~(Active(n) /\ matches[n].offlineSince = Never)
        BY <2>7, <4>2 DEF Restart, SameStanding, Active, Exists
      <4> QED BY <4>1, <4>2
    <3> QED BY <2>7, <3>1, SlotsKept DEF Restart
  <2>8. CASE Scan \/ Tick \/ UNCHANGED vars
    BY <2>5, <2>8 DEF Scan, Tick, vars, durable
  <2>9. CASE \/ \E m \in Matches, u \in Users, id \in Credentials :
                 CreateLaunchTicket(m, u, id)
             \/ \E t \in tickets, id \in Credentials : ConnectLaunch(t, id)
             \/ \E r \in resumes : ConnectResume(r)
             \/ \E u \in Users : RevokeCredentials(u)
    BY <2>5, <2>9 DEF CreateLaunchTicket, ConnectLaunch, ConnectResume,
                      RevokeCredentials, durable
  <2> QED BY <2>1, <2>2, <2>3, <2>4, <2>6, <2>7, <2>8, <2>9 DEF Next
<1> QED BY <1>1, <1>2, TypeCorrect, PTL DEF Spec

-----------------------------------------------------------------------------
(***************************************************************************)
(* What a step may do to a match that has ended, and when it may end one.  *)
(***************************************************************************)
Untouched(m) ==
    matches'[m] = matches[m] /\ events'[m] = events[m] /\ limit'[m] = limit[m]

(* An accepted action writes to its own match only, which is active.       *)
LEMMA ApplyActionWrites ==
    ASSUME TypeOK, NEW q \in Requests, ApplyAction(q)
    PROVE  /\ q.match \in Matches /\ Active(q.match)
           /\ \A m \in Matches \ {q.match} : Untouched(m)
<1>1. q.match \in Matches
  BY DEF Requests
<1>2. Active(q.match)
  BY DEF ApplyAction, BoardMove, CheckersMove, FlightAction, RpsChoice,
         Resign, Admissible
<1>3. ASSUME NEW m \in Matches \ {q.match}, NEW kind, NEW turn,
             Advance(q, kind, turn)
      PROVE  Untouched(m)
  BY <1>1, <1>3 DEF Advance, Append1, Untouched, TypeOK
<1>4. ASSUME NEW m \in Matches \ {q.match}, NEW kind, NEW result, NEW winner,
             Conclude(q, kind, result, winner)
      PROVE  Untouched(m)
  BY <1>1, <1>4 DEF Conclude, Append1, Untouched, TypeOK
<1>5. ASSUME NEW m \in Matches \ {q.match} PROVE Untouched(m)
  <2>1. CASE BoardMove(q)
    BY <1>3, <1>4, <1>5, <2>1 DEF BoardMove
  <2>2. CASE CheckersMove(q)
    BY <1>3, <1>4, <1>5, <2>2 DEF CheckersMove
  <2>3. CASE FlightAction(q)
    <3>1. CASE /\ Append1(q.match, [kind |-> "abandoned", actor |-> None,
                                   action |-> None, payload |-> None])
               /\ limit' = [limit EXCEPT ![q.match] =
                     [actor |-> q.actor, action |-> q.action,
                      kind |-> q.kind, payload |-> q.payload]]
               /\ matches' = [matches EXCEPT
                     ![q.match].status = "abandoned", ![q.match].revision = @ + 1,
                     ![q.match].offlineSince = Never]
      BY <1>1, <1>5, <3>1 DEF Append1, Untouched, TypeOK
    <3> QED BY <1>3, <1>4, <1>5, <2>3, <3>1 DEF FlightAction
  <2>4. CASE RpsChoice(q)
    BY <1>3, <1>4, <1>5, <2>4 DEF RpsChoice
  <2>5. CASE Resign(q)
    BY <1>4, <1>5, <2>5 DEF Resign
  <2> QED BY <2>1, <2>2, <2>3, <2>4, <2>5 DEF ApplyAction
<1> QED BY <1>1, <1>2, <1>5

(* So do the other writers of the table.                                   *)
LEMMA StepKeepsEnded ==
    ASSUME TypeOK, [Next]_vars, NEW n \in Matches, Exists(n), ~Active(n)
    PROVE  Untouched(n)
<1>1. ASSUME NEW m \in Matches, NEW g \in Games, NEW u \in Users,
             NEW v \in Users, Create(m, g, u, v)
      PROVE  Untouched(n)
  <2>1. n # m
    BY <1>1 DEF Create
  <2> QED BY <1>1, <2>1 DEF Create, Untouched, TypeOK
<1>2. ASSUME NEW m \in Matches, NEW u \in Users, Cancel(m, u)
      PROVE  Untouched(n)
  <2>1. n # m
    BY <1>2 DEF Cancel
  <2> QED BY <1>2, <2>1 DEF Cancel, Append1, Untouched, TypeOK
<1>3. ASSUME NEW q \in Requests, ApplyAction(q)
      PROVE  Untouched(n)
  BY <1>3, ApplyActionWrites
<1>4. ASSUME NEW m \in Matches, SetPlayerOnline(m) \/ SetPlayerOffline(m)
      PROVE  Untouched(n)
  <2>1. n # m
    BY <1>4 DEF SetPlayerOnline, SetPlayerOffline
  <2> QED BY <1>4, <2>1 DEF SetPlayerOnline, SetPlayerOffline, Untouched, TypeOK
<1>5. ASSUME NEW m \in Matches, AbandonIfExpired(m)
      PROVE  Untouched(n)
  <2>1. CASE Expired(m, sweep.cutoff)
    <3>1. n # m
      BY <2>1 DEF Expired
    <3> QED BY <1>5, <2>1, <3>1 DEF AbandonIfExpired, Append1, Untouched, TypeOK
  <2>2. CASE ~Expired(m, sweep.cutoff)
    BY <1>5, <2>2 DEF AbandonIfExpired, Untouched, durable
  <2> QED BY <2>1, <2>2
<1>6. CASE Restart
  BY <1>6 DEF Restart, Untouched
<1>7. CASE UNCHANGED durable
  BY <1>7 DEF Untouched, durable
<1>8. CASE \/ Scan \/ Tick \/ UNCHANGED vars
           \/ \E m \in Matches, u \in Users, id \in Credentials :
                 CreateLaunchTicket(m, u, id)
           \/ \E t \in tickets, id \in Credentials : ConnectLaunch(t, id)
           \/ \E r \in resumes : ConnectResume(r)
           \/ \E u \in Users : RevokeCredentials(u)
  BY <1>7, <1>8 DEF Scan, Tick, vars, CreateLaunchTicket, ConnectLaunch,
                    ConnectResume, RevokeCredentials
<1> QED BY <1>1, <1>2, <1>3, <1>4, <1>5, <1>6, <1>8 DEF Next

(* A match that has ended is never written again, whichever worker, boot,  *)
(* presence change or retry comes late, for any number of matches.         *)
THEOREM EndedFrozen == Spec => EndedMatchesFrozen
<1>1. TypeOK /\ [Next]_vars =>
        [\A m \in Matches :
           Exists(m) /\ ~Active(m) =>
             /\ matches'[m] = matches[m] /\ events'[m] = events[m]
             /\ limit'[m] = limit[m]]_vars
  BY StepKeepsEnded DEF Untouched
<1> QED BY <1>1, TypeCorrect, PTL DEF Spec, EndedMatchesFrozen

-----------------------------------------------------------------------------
(***************************************************************************)
(* The cutoff a running sweep works with lies a whole period in the past,  *)
(* and the clock does not go back while it runs.                           *)
(***************************************************************************)
SweepIsOld ==
    sweep.pending # {} => sweep.cutoff + OfflineAfter <= now

LEMMA SweepStaysOld ==
    ASSUME TypeOK, SweepIsOld, [Next]_vars
    PROVE  SweepIsOld'
<1> USE TimeAssumption DEF TypeOK
<1>1. CASE Scan
  BY <1>1 DEF Scan, SweepIsOld
<1>2. ASSUME NEW m \in Matches, AbandonIfExpired(m)
      PROVE  SweepIsOld'
  <2>1. sweep' = [sweep EXCEPT !.pending = @ \ {m}] /\ now' = now
    BY <1>2 DEF AbandonIfExpired
  <2> QED BY <1>2, <2>1 DEF SweepIsOld
<1>3. CASE Restart
  BY <1>3 DEF Restart, SweepIsOld
<1>4. CASE Tick
  BY <1>4 DEF Tick, SweepIsOld
<1>5. CASE UNCHANGED <<sweep, now>>
  BY <1>5 DEF SweepIsOld
<1>6. ASSUME NEW q \in Requests, ApplyAction(q)
      PROVE  UNCHANGED <<sweep, now>>
  BY <1>6 DEF ApplyAction, BoardMove, CheckersMove, FlightAction, RpsChoice,
              Resign, Advance, Conclude
<1>7. CASE \/ \E m \in Matches, g \in Games, u, v \in Users : Create(m, g, u, v)
           \/ \E m \in Matches, u \in Users : Cancel(m, u)
           \/ \E m \in Matches : SetPlayerOnline(m) \/ SetPlayerOffline(m)
           \/ UNCHANGED vars
           \/ \E m \in Matches, u \in Users, id \in Credentials :
                 CreateLaunchTicket(m, u, id)
           \/ \E t \in tickets, id \in Credentials : ConnectLaunch(t, id)
           \/ \E r \in resumes : ConnectResume(r)
           \/ \E u \in Users : RevokeCredentials(u)
  BY <1>5, <1>7 DEF Create, Cancel, SetPlayerOnline, SetPlayerOffline, vars,
                    CreateLaunchTicket, ConnectLaunch, ConnectResume,
                    RevokeCredentials
<1> QED BY <1>1, <1>2, <1>3, <1>4, <1>5, <1>6, <1>7 DEF Next

(* An action ends a match as abandoned only at the history limit of flight *)
(* chess, where it leaves the action it replaces behind.                   *)
LEMMA ActionAbandons ==
    ASSUME TypeOK, NEW q \in Requests, ApplyAction(q),
           matches'[q.match].status = "abandoned"
    PROVE  limit'[q.match] # None
<1>1. q.match \in Matches /\ Active(q.match) /\ matches[q.match] \in Rows
  BY ApplyActionWrites, RowType DEF Active
<1>2. ASSUME NEW kind, NEW turn, Advance(q, kind, turn) PROVE FALSE
  <2>1. matches'[q.match] = [matches[q.match] EXCEPT !.revision = @ + 1, !.turn = turn]
    BY <1>1, <1>2 DEF Advance, TypeOK
  <2>2. matches'[q.match].status = matches[q.match].status
    BY <1>1, <2>1, RowColumns
  <2> QED BY <1>1, <2>2 DEF Active
<1>3. ASSUME NEW kind, NEW result, NEW winner, Conclude(q, kind, result, winner)
      PROVE  FALSE
  <2>1. matches'[q.match] = [matches[q.match] EXCEPT
            !.status = "finished", !.revision = @ + 1,
            !.result = result, !.winner = winner, !.offlineSince = Never]
    BY <1>1, <1>3 DEF Conclude, TypeOK
  <2>2. matches'[q.match].status = "finished"
    BY <1>1, <2>1, RowColumns
  <2> QED BY <2>2
<1>4. CASE BoardMove(q)
  BY <1>2, <1>3, <1>4 DEF BoardMove
<1>5. CASE CheckersMove(q)
  BY <1>2, <1>3, <1>5 DEF CheckersMove
<1>6. CASE RpsChoice(q)
  BY <1>2, <1>3, <1>6 DEF RpsChoice
<1>7. CASE Resign(q)
  BY <1>3, <1>7 DEF Resign
<1>8. CASE FlightAction(q)
  <2> DEFINE a == [actor |-> q.actor, action |-> q.action,
                   kind |-> q.kind, payload |-> q.payload]
  <2>1. q.kind \in {"move", "roll"}
    BY <1>8 DEF FlightAction
  <2>2. a \in LimitActions
    BY <2>1 DEF Requests, LimitActions
  <2>3. CASE limit' = [limit EXCEPT ![q.match] = a]
    BY <1>1, <2>2, <2>3, NullAssumption DEF TypeOK
  <2> QED BY <1>2, <1>3, <1>8, <2>3 DEF FlightAction
<1> QED BY <1>4, <1>5, <1>6, <1>7, <1>8 DEF ApplyAction

(* Elsewhere only the sweep abandons, and only what it finds expired.      *)
LEMMA AbandonedWhenOld ==
    ASSUME TypeOK, SweepIsOld, [Next]_vars, NEW n \in Matches, Active(n),
           matches'[n].status = "abandoned", limit'[n] = None
    PROVE  /\ matches[n].offlineSince # Never
           /\ matches[n].offlineSince + OfflineAfter <= now
<1>0. matches[n] \in Rows /\ matches[n].status = "active"
  BY RowType DEF Active
<1>1. ASSUME NEW m \in Matches, NEW g \in Games, NEW u \in Users,
             NEW v \in Users, Create(m, g, u, v)
      PROVE  FALSE
  <2>1. n # m
    BY <1>1 DEF Create, Active
  <2> QED BY <1>0, <1>1, <2>1 DEF Create, TypeOK
<1>2. ASSUME NEW m \in Matches, NEW u \in Users, Cancel(m, u)
      PROVE  FALSE
  <2>1. CASE n # m
    BY <1>0, <1>2, <2>1 DEF Cancel, TypeOK
  <2>2. CASE n = m
    <3>1. matches'[n] = [matches[n] EXCEPT !.status = "cancelled",
             !.revision = @ + 1, !.winner = None, !.result = None]
      BY <1>2, <2>2 DEF Cancel, TypeOK
    <3>2. matches'[n].status = "cancelled"
      BY <1>0, <3>1, RowColumns
    <3> QED BY <3>2
  <2> QED BY <2>1, <2>2
<1>3. ASSUME NEW q \in Requests, ApplyAction(q)
      PROVE  FALSE
  <2>1. CASE q.match = n
    BY <1>3, <2>1, ActionAbandons
  <2>2. CASE q.match # n
    BY <1>0, <1>3, <2>2, ApplyActionWrites DEF Untouched
  <2> QED BY <2>1, <2>2
<1>4. ASSUME NEW m \in Matches, SetPlayerOnline(m) \/ SetPlayerOffline(m)
      PROVE  FALSE
  <2>1. Active(m) /\ \E t : matches' = [matches EXCEPT ![m].offlineSince = t]
    BY <1>4 DEF SetPlayerOnline, SetPlayerOffline
  <2>2. PICK t : matches' = [matches EXCEPT ![m].offlineSince = t]
    BY <2>1
  <2>3. CASE n = m
    <3>1. matches'[n] = [matches[n] EXCEPT !.offlineSince = t]
      BY <2>2, <2>3 DEF TypeOK
    <3> QED BY <1>0, <3>1, RowColumns
  <2>4. CASE n # m
    BY <1>0, <2>2, <2>4 DEF TypeOK
  <2> QED BY <2>3, <2>4
<1>5. ASSUME NEW m \in Matches, AbandonIfExpired(m)
      PROVE  /\ matches[n].offlineSince # Never
             /\ matches[n].offlineSince + OfflineAfter <= now
  <2>1. CASE n = m /\ Expired(m, sweep.cutoff)
    <3>1. m \in sweep.pending
      BY <1>5 DEF AbandonIfExpired
    <3>2. sweep.cutoff + OfflineAfter <= now
      BY <3>1 DEF SweepIsOld
    <3>3. matches[n].offlineSince # Never /\ matches[n].offlineSince <= sweep.cutoff
      BY <2>1 DEF Expired
    <3>4. /\ matches[n].offlineSince \in Nat /\ sweep.cutoff \in Int
          /\ OfflineAfter \in Nat /\ now \in Nat
      BY <1>0, <3>3, TimeAssumption DEF Rows, TypeOK
    <3> HIDE DEF Expired
    <3> QED BY <3>2, <3>3, <3>4
  <2>2. CASE n # m
    BY <1>0, <1>5, <2>2 DEF AbandonIfExpired, durable, TypeOK
  <2>3. CASE ~Expired(m, sweep.cutoff)
    BY <1>0, <1>5, <2>3 DEF AbandonIfExpired, durable
  <2> QED BY <2>1, <2>2, <2>3
<1>6. CASE Restart
  <2>1. matches'[n].status = matches[n].status
    BY <1>0, <1>6, RowColumns DEF Restart
  <2> QED BY <1>0, <2>1
<1>7. CASE UNCHANGED durable
  BY <1>0, <1>7 DEF durable
<1>8. CASE \/ Scan \/ Tick \/ UNCHANGED vars
           \/ \E m \in Matches, u \in Users, id \in Credentials :
                 CreateLaunchTicket(m, u, id)
           \/ \E t \in tickets, id \in Credentials : ConnectLaunch(t, id)
           \/ \E r \in resumes : ConnectResume(r)
           \/ \E u \in Users : RevokeCredentials(u)
  BY <1>7, <1>8 DEF Scan, Tick, vars, CreateLaunchTicket, ConnectLaunch,
                    ConnectResume, RevokeCredentials
<1> QED BY <1>1, <1>2, <1>3, <1>4, <1>5, <1>6, <1>8 DEF Next

(* A match is abandoned for absence only when its timer has run for the    *)
(* whole period at that moment, whatever came between scan and write.      *)
THEOREM AbandonCorrect == Spec => AbandonJustified
<1>1. Init => SweepIsOld
  BY DEF Init, SweepIsOld
<1>2. TypeOK /\ SweepIsOld /\ [Next]_vars => SweepIsOld'
  BY SweepStaysOld
<1>3. TypeOK /\ SweepIsOld /\ [Next]_vars =>
        [\A m \in Matches :
           Active(m) /\ matches'[m].status = "abandoned" /\ limit'[m] = None =>
             /\ matches[m].offlineSince # Never
             /\ matches[m].offlineSince + OfflineAfter <= now]_vars
  BY AbandonedWhenOld
<1> QED BY <1>1, <1>2, <1>3, TypeCorrect, PTL DEF Spec, AbandonJustified

-----------------------------------------------------------------------------
(***************************************************************************)
(* What a step does to the standing of the matches: the match it ends, if  *)
(* any, loses its credentials, and the others keep their players.          *)
(***************************************************************************)
Stays(m) == Active(m) => Active(m)' /\ matches'[m].seats = matches[m].seats

Ends(m) == ReleaseMatch(m) /\ \A n \in Matches \ {m} : Stays(n)

LEMMA UntouchedStays ==
    ASSUME NEW m \in Matches, matches'[m] = matches[m]
    PROVE  Stays(m)
BY DEF Stays, Active, Exists

(* The abandonment that replaces a flight chess action at the limit.       *)
LimitAbandon(q) ==
    /\ Append1(q.match, [kind |-> "abandoned", actor |-> None,
                         action |-> None, payload |-> None])
    /\ limit' = [limit EXCEPT ![q.match] =
          [actor |-> q.actor, action |-> q.action,
           kind |-> q.kind, payload |-> q.payload]]
    /\ matches' = [matches EXCEPT
          ![q.match].status = "abandoned", ![q.match].revision = @ + 1,
          ![q.match].offlineSince = Never]
    /\ ReleaseMatch(q.match)
    /\ UNCHANGED <<sweep, now>>

LEMMA ActionOutcomes ==
    ASSUME TypeOK, NEW q \in Requests, ApplyAction(q)
    PROVE  /\ Admissible(q) /\ q.match \in Matches /\ q.actor \in Users
           /\ \/ \E kind \in MoveKinds, turn \in Users \cup {None} : Advance(q, kind, turn)
              \/ \E kind \in MoveKinds \cup {"resigned"},
                    result \in GameResults \cup {"resignation"},
                    winner \in Users \cup {None} : Conclude(q, kind, result, winner)
              \/ LimitAbandon(q)
<1>0. /\ Admissible(q) /\ q.match \in Matches /\ q.actor \in Users
      /\ Players(q.match) \subseteq Users
      /\ Opponent(q.match, q.actor) \in Users
  <2>1. Admissible(q)
    BY DEF ApplyAction, BoardMove, CheckersMove, FlightAction, RpsChoice, Resign
  <2>2. q.match \in Matches /\ q.actor \in Users
    BY DEF Requests
  <2> QED BY <2>1, <2>2, RowType, OpponentType DEF Admissible, Active
<1>1. CASE BoardMove(q)
  BY <1>0, <1>1 DEF BoardMove, MoveKinds, GameResults
<1>2. CASE CheckersMove(q)
  BY <1>0, <1>2 DEF CheckersMove, MoveKinds, GameResults
<1>3. CASE RpsChoice(q)
  BY <1>0, <1>3 DEF RpsChoice, MoveKinds, GameResults
<1>4. CASE Resign(q)
  BY <1>0, <1>4 DEF Resign
<1>5. CASE FlightAction(q)
  <2>1. (IF q.kind = "roll" THEN "rolled" ELSE "move") \in MoveKinds
    BY DEF MoveKinds
  <2> QED BY <1>0, <1>5, <2>1 DEF FlightAction, LimitAbandon, MoveKinds, GameResults
<1> QED BY <1>1, <1>2, <1>3, <1>4, <1>5 DEF ApplyAction

LEMMA AdvanceStays ==
    ASSUME TypeOK, NEW q \in Requests, Active(q.match), NEW kind,
           NEW turn \in Users \cup {None}, Advance(q, kind, turn), NEW m \in Matches
    PROVE  Stays(m)
<1>1. q.match \in Matches
  BY DEF Requests
<1>2. CASE m # q.match
  BY <1>1, <1>2, UntouchedStays DEF Advance, TypeOK
<1>3. CASE m = q.match
  <2>1. matches[m] \in Rows
    BY <1>3, RowType DEF Active
  <2>2. matches'[m] = [matches[m] EXCEPT !.revision = @ + 1, !.turn = turn]
    BY <1>1, <1>3 DEF Advance, TypeOK
  <2>3. matches'[m] \in Rows
    BY <2>1, <2>2, AdvancedRow
  <2>4. matches'[m].status = matches[m].status /\ matches'[m].seats = matches[m].seats
    BY <2>1, <2>2, RowColumns
  <2> QED BY <2>3, <2>4, NullAssumption DEF Stays, Active, Exists
<1> QED BY <1>2, <1>3

(* A presence change or a boot writes the offline timers of active matches. *)
LEMMA TimersTouch ==
    ASSUME TypeOK, NEW m \in Matches,
           \/ \E n \in Matches : SetPlayerOnline(n) \/ SetPlayerOffline(n)
           \/ Restart
    PROVE  \/ matches'[m] = matches[m]
           \/ \E t \in Nat \cup {Never} :
                Active(m) /\ matches'[m] = [matches[m] EXCEPT !.offlineSince = t]
<1>1. now \in Nat /\ (Active(m) => matches[m] \in Rows)
  BY RowType DEF TypeOK, Active
<1>2. CASE Restart
  BY <1>1, <1>2 DEF Restart
<1>3. ASSUME NEW n \in Matches, SetPlayerOnline(n) \/ SetPlayerOffline(n)
      PROVE  \/ matches'[m] = matches[m]
             \/ \E t \in Nat \cup {Never} :
                  Active(m) /\ matches'[m] = [matches[m] EXCEPT !.offlineSince = t]
  <2>1. CASE m # n
    BY <1>3, <2>1 DEF SetPlayerOnline, SetPlayerOffline, TypeOK
  <2>2. CASE m = n
    <3>1. Active(m) /\ matches[m].offlineSince \in Nat \cup {Never}
      BY <1>1, <1>3, <2>2 DEF SetPlayerOnline, SetPlayerOffline, Rows
    <3> QED BY <1>1, <1>3, <2>2, <3>1 DEF SetPlayerOnline, SetPlayerOffline, TypeOK
  <2> QED BY <2>1, <2>2
<1> QED BY <1>2, <1>3

LEMMA TimersStay ==
    ASSUME TypeOK, NEW m \in Matches,
           \/ \E n \in Matches : SetPlayerOnline(n) \/ SetPlayerOffline(n)
           \/ Restart
    PROVE  Stays(m)
BY TimersTouch, UntouchedStays, TimerStanding DEF Stays, SameStanding

(* The steps by what they do to standings and credentials.                 *)
LEMMA StandingStep ==
    ASSUME TypeOK, [Next]_vars
    PROVE  \/ UNCHANGED creds /\ \A m \in Matches : Stays(m)
           \/ \E m \in Matches : Ends(m)
           \/ /\ UNCHANGED matches
              /\ \/ \E m \in Matches, u \in Users, id \in Credentials :
                       CreateLaunchTicket(m, u, id)
                 \/ \E t \in tickets, id \in Credentials : ConnectLaunch(t, id)
                 \/ \E r \in resumes : ConnectResume(r)
                 \/ \E u \in Users : RevokeCredentials(u)
<1>1. ASSUME NEW m \in Matches, NEW g \in Games, NEW u \in Users,
             NEW v \in Users, Create(m, g, u, v)
      PROVE  UNCHANGED creds /\ \A n \in Matches : Stays(n)
  <2>1. ASSUME NEW n \in Matches PROVE Stays(n)
    <3>1. CASE n = m
      BY <1>1, <3>1 DEF Create, Stays, Active
    <3>2. CASE n # m
      BY <1>1, <3>2, UntouchedStays DEF Create, TypeOK
    <3> QED BY <3>1, <3>2
  <2> QED BY <1>1, <2>1 DEF Create, creds
<1>2. ASSUME NEW m \in Matches, NEW u \in Users, Cancel(m, u)
      PROVE  Ends(m)
  <2>1. \A n \in Matches \ {m} : matches'[n] = matches[n]
    BY <1>2 DEF Cancel, TypeOK
  <2> QED BY <1>2, <2>1, UntouchedStays DEF Cancel, Ends
<1>3. ASSUME NEW q \in Requests, ApplyAction(q)
      PROVE  \/ UNCHANGED creds /\ \A m \in Matches : Stays(m)
             \/ \E m \in Matches : Ends(m)
  <2>1. Active(q.match) /\ q.match \in Matches
    BY <1>3, ActionOutcomes DEF Admissible
  <2>2. \A n \in Matches \ {q.match} : Stays(n)
    BY <1>3, ApplyActionWrites, UntouchedStays DEF Untouched
  <2>3. CASE \E kind \in MoveKinds, turn \in Users \cup {None} : Advance(q, kind, turn)
    BY <2>1, <2>3, AdvanceStays DEF Advance
  <2>4. CASE ReleaseMatch(q.match)
    BY <2>1, <2>2, <2>4 DEF Ends
  <2> QED BY <1>3, <2>3, <2>4, ActionOutcomes DEF Conclude, LimitAbandon
<1>4. CASE \/ \E m \in Matches : SetPlayerOnline(m) \/ SetPlayerOffline(m)
           \/ Restart
  BY <1>4, TimersStay DEF SetPlayerOnline, SetPlayerOffline, Restart, creds
<1>5. ASSUME NEW m \in Matches, AbandonIfExpired(m)
      PROVE  \/ UNCHANGED creds /\ \A n \in Matches : Stays(n)
             \/ Ends(m)
  <2>1. CASE Expired(m, sweep.cutoff)
    <3>1. \A n \in Matches \ {m} : matches'[n] = matches[n]
      BY <1>5, <2>1 DEF AbandonIfExpired, TypeOK
    <3> QED BY <1>5, <2>1, <3>1, UntouchedStays DEF AbandonIfExpired, Ends
  <2>2. CASE ~Expired(m, sweep.cutoff)
    BY <1>5, <2>2, UntouchedStays DEF AbandonIfExpired, durable
  <2> QED BY <2>1, <2>2
<1>6. CASE Scan \/ Tick \/ UNCHANGED vars
  BY <1>6, UntouchedStays DEF Scan, Tick, vars, durable
<1>7. CASE \/ \E m \in Matches, u \in Users, id \in Credentials :
                CreateLaunchTicket(m, u, id)
           \/ \E t \in tickets, id \in Credentials : ConnectLaunch(t, id)
           \/ \E r \in resumes : ConnectResume(r)
           \/ \E u \in Users : RevokeCredentials(u)
  BY <1>7 DEF CreateLaunchTicket, ConnectLaunch, ConnectResume, RevokeCredentials, durable
<1> QED BY <1>1, <1>2, <1>3, <1>4, <1>5, <1>6, <1>7 DEF Next

-----------------------------------------------------------------------------
(***************************************************************************)
(* Connection credentials.  An id is drawn once, and names one resume      *)
(* token.                                                                  *)
(***************************************************************************)
IdsDrawnOnce ==
    /\ \A c \in tickets \cup resumes : c.id \in issued
    /\ \A r, s \in resumes : r.id = s.id => r = s

CredentialInv == TypeOK /\ CredentialsScoped /\ IdsDrawnOnce

LEMMA ScopedStaysScoped ==
    ASSUME CredentialInv, UNCHANGED creds, \A m \in Matches : Stays(m)
    PROVE  CredentialsScoped' /\ IdsDrawnOnce'
<1>1. UNCHANGED <<tickets, resumes, issued>>
  BY DEF creds
<1>2. ASSUME NEW c \in tickets \cup resumes
      PROVE  (Active(c.match) /\ c.user \in Players(c.match))'
  <2>1. c.match \in Matches /\ Active(c.match) /\ c.user \in Players(c.match)
    BY DEF CredentialInv, CredentialsScoped, TypeOK, Tickets, Resumes
  <2> QED BY <2>1 DEF Stays, Players
<1>3. CredentialsScoped'
  BY <1>1, <1>2 DEF CredentialInv, CredentialsScoped
<1> QED BY <1>1, <1>3 DEF CredentialInv, IdsDrawnOnce

LEMMA ScopedWhenEnded ==
    ASSUME CredentialInv, NEW m \in Matches, Ends(m)
    PROVE  CredentialsScoped' /\ IdsDrawnOnce'
<1>1. /\ tickets' = {t \in tickets : t.match # m}
      /\ resumes' = {r \in resumes : r.match # m} /\ issued' = issued
  BY DEF Ends, ReleaseMatch
<1>2. ASSUME NEW c \in tickets' \cup resumes'
      PROVE  (Active(c.match) /\ c.user \in Players(c.match))'
  <2>1. c.match \in Matches \ {m} /\ Active(c.match) /\ c.user \in Players(c.match)
    BY <1>1 DEF CredentialInv, CredentialsScoped, TypeOK, Tickets, Resumes
  <2> QED BY <2>1 DEF Ends, Stays, Players
<1>3. CredentialsScoped'
  BY <1>1, <1>2 DEF CredentialInv, CredentialsScoped
<1> QED BY <1>1, <1>3 DEF CredentialInv, IdsDrawnOnce

LEMMA TicketScoped ==
    ASSUME CredentialInv, NEW m \in Matches, NEW u \in Users, NEW id \in Credentials,
           CreateLaunchTicket(m, u, id)
    PROVE  CredentialsScoped' /\ IdsDrawnOnce'
<1> DEFINE t == [id |-> id, match |-> m, user |-> u,
                 expires |-> now + TicketLife, consumed |-> FALSE]
<1>1. /\ tickets' = {x \in tickets : x.match # m \/ x.user # u} \cup {t}
      /\ issued' = issued \cup {id} /\ UNCHANGED <<matches, resumes>>
      /\ Active(m) /\ u \in Players(m)
  BY DEF CreateLaunchTicket, durable
<1>2. t.match = m /\ t.user = u /\ t.id = id
  OBVIOUS
<1> HIDE DEF t
<1>3. CredentialsScoped'
  BY <1>1, <1>2 DEF CredentialInv, CredentialsScoped, Active, Exists, Players
<1>4. IdsDrawnOnce'
  BY <1>1, <1>2 DEF CredentialInv, IdsDrawnOnce
<1> QED BY <1>3, <1>4

LEMMA LaunchScoped ==
    ASSUME CredentialInv, NEW t \in tickets, NEW id \in Credentials, ConnectLaunch(t, id)
    PROVE  CredentialsScoped' /\ IdsDrawnOnce'
<1> DEFINE r == [id |-> id, match |-> t.match, user |-> t.user,
                 expires |-> now + ResumeLife, revoked |-> FALSE]
           s == [t EXCEPT !.consumed = TRUE]
<1>1. /\ tickets' = (tickets \ {t}) \cup {s}
      /\ resumes' = {x \in resumes : x.match # t.match \/ x.user # t.user} \cup {r}
      /\ issued' = issued \cup {id} /\ UNCHANGED matches /\ id \notin issued
      /\ Active(t.match) /\ t.user \in Players(t.match)
  BY DEF ConnectLaunch, durable
<1>2. r.match = t.match /\ r.user = t.user /\ r.id = id
  OBVIOUS
<1>3. s.match = t.match /\ s.user = t.user /\ s.id = t.id
  BY DEF CredentialInv, TypeOK, Tickets
<1> HIDE DEF r, s
<1>4. CredentialsScoped'
  BY <1>1, <1>2, <1>3 DEF CredentialInv, CredentialsScoped, Active, Exists, Players
<1>5. IdsDrawnOnce'
  BY <1>1, <1>2, <1>3 DEF CredentialInv, IdsDrawnOnce
<1> QED BY <1>4, <1>5

LEMMA ResumeScoped ==
    ASSUME CredentialInv, NEW r \in resumes, ConnectResume(r)
    PROVE  CredentialsScoped' /\ IdsDrawnOnce'
<1> DEFINE s == [r EXCEPT !.expires = now + ResumeLife]
<1>1. /\ resumes' = (resumes \ {r}) \cup {s} /\ UNCHANGED <<matches, tickets, issued>>
  BY DEF ConnectResume, durable
<1>2. s.match = r.match /\ s.user = r.user /\ s.id = r.id
  BY DEF CredentialInv, TypeOK, Resumes
<1> HIDE DEF s
<1>3. CredentialsScoped'
  BY <1>1, <1>2 DEF CredentialInv, CredentialsScoped, Active, Exists, Players
<1>4. IdsDrawnOnce'
  BY <1>1, <1>2 DEF CredentialInv, IdsDrawnOnce
<1> QED BY <1>3, <1>4

(* A revoked token is the token it was, but for the revocation.            *)
LEMMA RevokedIs ==
    ASSUME TypeOK, NEW u \in Users, RevokeCredentials(u), NEW s \in resumes'
    PROVE  \E r \in resumes : /\ s = [r EXCEPT !.revoked = r.revoked \/ r.user = u]
                              /\ s.id = r.id /\ s.match = r.match /\ s.user = r.user
                              /\ s.expires = r.expires
<1>1. \A r \in resumes : /\ r = [r EXCEPT !.revoked = r.revoked \/ FALSE]
                         /\ \A b \in BOOLEAN :
                              LET x == [r EXCEPT !.revoked = b] IN
                              /\ x.id = r.id /\ x.match = r.match /\ x.user = r.user
                              /\ x.expires = r.expires
  BY DEF TypeOK, Resumes
<1>2. CASE s \in resumes /\ s.user # u
  BY <1>1, <1>2 DEF TypeOK, Resumes
<1>3. CASE \E r \in resumes : r.user = u /\ s = [r EXCEPT !.revoked = TRUE]
  BY <1>1, <1>3
<1> QED BY <1>2, <1>3 DEF RevokeCredentials

LEMMA RevokeScoped ==
    ASSUME CredentialInv, NEW u \in Users, RevokeCredentials(u)
    PROVE  CredentialsScoped' /\ IdsDrawnOnce'
<1>1. /\ tickets' \subseteq tickets /\ UNCHANGED <<matches, issued>>
  BY DEF RevokeCredentials, durable
<1>2. \A s \in resumes' :
        \E r \in resumes : /\ s = [r EXCEPT !.revoked = r.revoked \/ r.user = u]
                           /\ s.id = r.id /\ s.match = r.match /\ s.user = r.user
  BY RevokedIs DEF CredentialInv
<1>3. ASSUME NEW s \in resumes', NEW t \in resumes',
             (s.match = t.match /\ s.user = t.user) \/ s.id = t.id
      PROVE  s = t
  <2>1. PICK r \in resumes : /\ s = [r EXCEPT !.revoked = r.revoked \/ r.user = u]
                             /\ s.id = r.id /\ s.match = r.match /\ s.user = r.user
    BY <1>2
  <2>2. PICK x \in resumes : /\ t = [x EXCEPT !.revoked = x.revoked \/ x.user = u]
                             /\ t.id = x.id /\ t.match = x.match /\ t.user = x.user
    BY <1>2
  <2>3. r = x
    BY <1>3, <2>1, <2>2 DEF CredentialInv, CredentialsScoped, IdsDrawnOnce
  <2> QED BY <2>1, <2>2, <2>3
<1>4. ASSUME NEW c \in tickets' \cup resumes'
      PROVE  (Active(c.match) /\ c.user \in Players(c.match))' /\ c.id \in issued
  <2>1. \E d \in tickets \cup resumes : c.id = d.id /\ c.match = d.match /\ c.user = d.user
    BY <1>1, <1>2
  <2> QED BY <1>1, <2>1 DEF CredentialInv, CredentialsScoped, IdsDrawnOnce, Active, Exists, Players
<1>5. CredentialsScoped'
  BY <1>1, <1>3, <1>4 DEF CredentialInv, CredentialsScoped
<1>6. IdsDrawnOnce'
  BY <1>1, <1>3, <1>4 DEF IdsDrawnOnce
<1> QED BY <1>5, <1>6

LEMMA CredentialStep ==
    ASSUME CredentialInv, [Next]_vars
    PROVE  CredentialsScoped' /\ IdsDrawnOnce'
<1> TypeOK
  BY DEF CredentialInv
<1> QED BY StandingStep, ScopedStaysScoped, ScopedWhenEnded, TicketScoped, LaunchScoped,
           ResumeScoped, RevokeScoped

(* A launch ticket or resume token exists only for a player of a match     *)
(* that is still active, at most one of each per player and match: every   *)
(* terminal transition deletes both, and CreateLaunchTicket and            *)
(* ConnectCredential replace what the player had.                          *)
THEOREM ScopedCorrect == Spec => []CredentialsScoped
<1>1. Init => CredentialsScoped /\ IdsDrawnOnce
  BY DEF Init, CredentialsScoped, IdsDrawnOnce
<1>2. TypeOK /\ CredentialsScoped /\ IdsDrawnOnce /\ [Next]_vars
        => CredentialsScoped' /\ IdsDrawnOnce'
  BY CredentialStep DEF CredentialInv
<1> QED BY <1>1, <1>2, TypeCorrect, PTL DEF Spec

(* What is dead stays dead.                                                *)
LEMMA DeadStaysDead ==
    ASSUME CredentialInv, [Next]_vars
    PROVE  /\ \A r \in resumes : r.revoked \/ r.expires <= now =>
                 \A s \in resumes' : s.id = r.id => s.expires = r.expires
           /\ \A s \in resumes' : s.id \notin issued =>
                 \E t \in tickets :
                   /\ t.match = s.match /\ t.user = s.user
                   /\ ~t.consumed /\ t.expires > now
<1> TypeOK
  BY DEF CredentialInv
<1>1. CASE resumes' \subseteq resumes
  BY <1>1 DEF CredentialInv, IdsDrawnOnce
<1>2. ASSUME NEW t \in tickets, NEW id \in Credentials, ConnectLaunch(t, id)
      PROVE  /\ \A r \in resumes : r.revoked \/ r.expires <= now =>
                   \A s \in resumes' : s.id = r.id => s.expires = r.expires
             /\ \A s \in resumes' : s.id \notin issued =>
                   \E x \in tickets :
                     /\ x.match = s.match /\ x.user = s.user
                     /\ ~x.consumed /\ x.expires > now
  <2> DEFINE n == [id |-> id, match |-> t.match, user |-> t.user,
                   expires |-> now + ResumeLife, revoked |-> FALSE]
  <2>1. /\ resumes' \subseteq resumes \cup {n} /\ id \notin issued
        /\ ~t.consumed /\ t.expires > now
    BY <1>2 DEF ConnectLaunch
  <2>2. n.id = id /\ n.match = t.match /\ n.user = t.user
    OBVIOUS
  <2> HIDE DEF n
  <2> QED BY <2>1, <2>2 DEF CredentialInv, IdsDrawnOnce
<1>3. ASSUME NEW x \in resumes, ConnectResume(x)
      PROVE  /\ \A r \in resumes : r.revoked \/ r.expires <= now =>
                   \A s \in resumes' : s.id = r.id => s.expires = r.expires
             /\ \A s \in resumes' : s.id \in issued
  <2> DEFINE y == [x EXCEPT !.expires = now + ResumeLife]
  <2>1. resumes' = (resumes \ {x}) \cup {y} /\ ~x.revoked /\ x.expires > now
    BY <1>3 DEF ConnectResume
  <2>2. y.id = x.id
    BY DEF TypeOK, Resumes
  <2>3. x.expires \in Nat /\ now \in Nat
    BY DEF TypeOK, Resumes
  <2> HIDE DEF y
  <2>4. ~(x.revoked \/ x.expires <= now)
    BY <2>1, <2>3
  <2> QED BY <2>1, <2>2, <2>4 DEF CredentialInv, IdsDrawnOnce
<1>4. ASSUME NEW u \in Users, RevokeCredentials(u)
      PROVE  \A s \in resumes' : \E r \in resumes : s.id = r.id /\ s.expires = r.expires
  BY <1>4, RevokedIs
<1>5. CASE \E u \in Users : RevokeCredentials(u)
  BY <1>4, <1>5 DEF CredentialInv, IdsDrawnOnce
<1>6. CASE UNCHANGED creds \/ (\E m \in Matches : Ends(m))
           \/ \E m \in Matches, u \in Users, id \in Credentials : CreateLaunchTicket(m, u, id)
  BY <1>1, <1>6 DEF creds, Ends, ReleaseMatch, CreateLaunchTicket
<1> QED BY <1>2, <1>3, <1>5, <1>6, StandingStep

(* An expired or revoked resume token is never renewed, and a new one is   *)
(* given by ConnectCredential only for a launch ticket that is live and    *)
(* unused, for any number of credentials and every lifetime.               *)
THEOREM DeadCredentialsCorrect == Spec => DeadCredentialsStayDead
<1>1. Init => CredentialsScoped /\ IdsDrawnOnce
  BY DEF Init, CredentialsScoped, IdsDrawnOnce
<1>2. TypeOK /\ CredentialsScoped /\ IdsDrawnOnce /\ [Next]_vars
        => CredentialsScoped' /\ IdsDrawnOnce'
  BY CredentialStep DEF CredentialInv
<1>3. TypeOK /\ CredentialsScoped /\ IdsDrawnOnce /\ [Next]_vars =>
        [/\ \A r \in resumes : r.revoked \/ r.expires <= now =>
               \A s \in resumes' : s.id = r.id => s.expires = r.expires
         /\ \A s \in resumes' : s.id \notin issued =>
               \E t \in tickets :
                 /\ t.match = s.match /\ t.user = s.user
                 /\ ~t.consumed /\ t.expires > now]_vars
  BY DeadStaysDead DEF CredentialInv
<1> QED BY <1>1, <1>2, <1>3, TypeCorrect, PTL DEF Spec, DeadCredentialsStayDead

-----------------------------------------------------------------------------
(***************************************************************************)
(* The log of a match.  Story says of a row, its events and its limit      *)
(* action, as values, what every commit of the service keeps true of them: *)
(* it is inductive, and what is read back from the tables follows from it. *)
(***************************************************************************)
Seated(row) == {row.seats[1], row.seats[2]}
Rival(row, u) == IF row.seats[1] = u THEN row.seats[2] ELSE row.seats[1]

InPlace(row, log, i) ==
    /\ log[i].kind \in MoveKinds =>
          log[i].actor \in Seated(row) /\ log[i].action # None
    /\ log[i].kind \in EndKinds => i = Len(log)
    /\ log[i].kind = "cancelled" =>
          i = 1 /\ log[i].action = None /\ log[i].actor \in Seated(row)
    /\ log[i].kind = "abandoned" =>
          log[i].action = None /\ log[i].actor = None

(* No two events answer the same action of a player.                       *)
ActionsOnce(log) ==
    \A i, j \in DOMAIN log :
        /\ log[i].action # None
        /\ log[i].action = log[j].action /\ log[i].actor = log[j].actor
        => i = j

Closed(log) == log # <<>> /\ Last(log).kind \in EndKinds

Lifecycle(row, log) ==
    /\ row.revision <= EventLimit(row.game)
    /\ row.status = "active" =>
          ~Closed(log) /\ row.result = None /\ row.winner = None
    /\ row.status = "finished" =>
          /\ log # <<>>
          /\ row.result = "resignation" <=> Last(log).kind = "resigned"
          /\ row.result # "resignation" => ~Closed(log) /\ row.result # None
          /\ row.winner = None <=> row.result = "draw"
          /\ row.result = "resignation" => row.winner = Rival(row, Last(log).actor)
    /\ row.status \in {"cancelled", "abandoned"} =>
          /\ Closed(log) /\ Last(log).kind = row.status
          /\ row.result = None /\ row.winner = None

RoomLeft(row) ==
    row.status = "active" =>
        /\ row.revision < EventLimit(row.game)
        /\ row.game \in {"gomoku", "reversi"} => row.revision < BoardCells

(* Choices of rps alternate between locking and revealing.                 *)
Rounds(row, log) ==
    row.game = "rps" =>
        /\ \A i \in DOMAIN log :
              /\ i % 2 = 1 => log[i].kind # "revealed"
              /\ i % 2 = 0 => log[i].kind # "locked"
              /\ log[i].kind = "revealed" => log[i].actor = Rival(row, log[i - 1].actor)
        /\ row.status = "active" =>
              /\ log # <<>> => (Last(log).kind = "locked" <=> Len(log) % 2 = 1)
              /\ Len(log) % 2 = 1 => row.revision < MaxEvents - 2

Chronicle(row, log) ==
    /\ Len(log) = row.revision
    /\ \A i \in DOMAIN log : InPlace(row, log, i)
    /\ ActionsOnce(log)
    /\ Lifecycle(row, log)
    /\ RoomLeft(row)
    /\ Rounds(row, log)

(* The action replaced by the limit abandonment is in no event.            *)
LimitApart(row, log, lim) ==
    lim # None =>
        /\ row.game = "flight_chess" /\ row.status = "abandoned" /\ log # <<>>
        /\ \A i \in DOMAIN log :
              ~(log[i].actor = lim.actor /\ log[i].action = lim.action)

Story(row, log, lim) ==
    IF row = None THEN log = <<>> /\ lim = None
    ELSE Chronicle(row, log) /\ LimitApart(row, log, lim)

StoryInv == \A m \in Matches : Story(matches[m], events[m], limit[m])

-----------------------------------------------------------------------------
(* What the rows and the tables say, in terms of the values.               *)
LEMMA AppendFacts ==
    ASSUME NEW log \in Seq(Events), NEW e \in Events
    PROVE  /\ Len(log) \in Nat /\ DOMAIN log = 1 .. Len(log)
           /\ Append(log, e) \in Seq(Events)
           /\ Append(log, e) # <<>>
           /\ Len(Append(log, e)) = Len(log) + 1
           /\ DOMAIN Append(log, e) = 1 .. (Len(log) + 1)
           /\ Last(Append(log, e)) = e
           /\ Append(log, e)[Len(log) + 1] = e
           /\ \A i \in 1 .. Len(log) : Append(log, e)[i] = log[i] /\ log[i] \in Events
BY DEF Last

LEMMA ValueReading ==
    ASSUME NEW m \in Matches
    PROVE  /\ Players(m) = Seated(matches[m])
           /\ \A u : Opponent(m, u) = Rival(matches[m], u)
           /\ LifecycleAgrees(m) <=> Lifecycle(matches[m], events[m])
<1>1. Players(m) = Seated(matches[m]) /\ \A u : Opponent(m, u) = Rival(matches[m], u)
  BY DEF Players, Seated, Opponent, Rival
<1>2. LifecycleAgrees(m) <=> Lifecycle(matches[m], events[m])
  BY <1>1 DEF LifecycleAgrees, Lifecycle, Closed
<1> QED BY <1>1, <1>2

(* A game that is still on has moves in its log and nothing else.          *)
LEMMA OnlyMoves ==
    ASSUME NEW row \in Rows, NEW log \in Seq(Events), Chronicle(row, log),
           row.status = "active"
    PROVE  \A i \in DOMAIN log : log[i].kind \in MoveKinds
<1> SUFFICES ASSUME NEW i \in DOMAIN log, log[i].kind \notin MoveKinds PROVE FALSE
  OBVIOUS
<1>1. log[i] \in Events /\ log # <<>>
  OBVIOUS
<1>2. log[i].kind \in EndKinds
  BY <1>1 DEF Events
<1>3. i = Len(log)
  BY <1>2 DEF Chronicle, InPlace
<1> QED BY <1>1, <1>2, <1>3 DEF Chronicle, Lifecycle, Closed, Last

(* The same row with another timer or another player to move.              *)
LEMMA Retold ==
    ASSUME NEW row \in Rows, NEW new \in Rows, NEW log, NEW lim,
           new.game = row.game, new.status = row.status, new.revision = row.revision,
           new.seats = row.seats, new.result = row.result, new.winner = row.winner,
           Story(row, log, lim)
    PROVE  Story(new, log, lim)
<1>1. row # None /\ new # None
  BY NullAssumption
<1>2. Chronicle(row, log) /\ LimitApart(row, log, lim)
  BY <1>1 DEF Story
<1>3. Seated(new) = Seated(row) /\ \A u : Rival(new, u) = Rival(row, u)
  BY DEF Seated, Rival
<1>4. \A i \in DOMAIN log : InPlace(new, log, i)
  BY <1>2, <1>3 DEF Chronicle, InPlace
<1>5. Lifecycle(new, log)
  BY <1>2, <1>3 DEF Chronicle, Lifecycle
<1>6. Rounds(new, log)
  BY <1>2, <1>3 DEF Chronicle, Rounds
<1>7. LimitApart(new, log, lim) /\ RoomLeft(new)
  BY <1>2 DEF Chronicle, LimitApart, RoomLeft
<1> QED BY <1>1, <1>2, <1>4, <1>5, <1>6, <1>7 DEF Story, Chronicle

(* One more event at the end of the log of a game that is on.              *)
LEMMA InPlaceAppended ==
    ASSUME NEW row \in Rows, NEW new \in Rows, NEW log \in Seq(Events), NEW e \in Events,
           Chronicle(row, log), row.status = "active", new.seats = row.seats,
           e.kind \in MoveKinds => e.actor \in Seated(row) /\ e.action # None,
           e.kind = "cancelled" =>
              log = <<>> /\ e.action = None /\ e.actor \in Seated(row),
           e.kind = "abandoned" => e.action = None /\ e.actor = None
    PROVE  \A i \in DOMAIN Append(log, e) : InPlace(new, Append(log, e), i)
<1> SUFFICES ASSUME NEW i \in DOMAIN Append(log, e)
             PROVE  InPlace(new, Append(log, e), i)
  OBVIOUS
<1>1. Seated(new) = Seated(row)
  BY DEF Seated
<1> DEFINE s == Append(log, e)
<1>2. CASE i = Len(log) + 1
  <2>1. s[i] = e /\ i = Len(s) /\ (log = <<>> => i = 1)
    BY <1>2, AppendFacts
  <2>2. /\ e.kind \in MoveKinds => e.actor \in Seated(new) /\ e.action # None
        /\ e.kind = "cancelled" => i = 1 /\ e.action = None /\ e.actor \in Seated(new)
        /\ e.kind = "abandoned" => e.action = None /\ e.actor = None
    BY <1>1, <2>1
  <2> HIDE DEF s
  <2>3. InPlace(new, s, i)
    BY <2>1, <2>2 DEF InPlace
  <2> QED BY <2>3 DEF s
<1>3. CASE i \in 1 .. Len(log)
  <2>1. s[i] = log[i] /\ i \in DOMAIN log
    BY <1>3, AppendFacts
  <2>2. log[i].kind \in MoveKinds /\ InPlace(row, log, i)
    BY <2>1, OnlyMoves DEF Chronicle
  <2> HIDE DEF s
  <2> QED BY <1>1, <2>1, <2>2 DEF InPlace, MoveKinds, EndKinds
<1> QED BY <1>2, <1>3, AppendFacts

LEMMA ActionsOnceAppended ==
    ASSUME NEW log \in Seq(Events), NEW e \in Events, ActionsOnce(log),
           \A i \in DOMAIN log :
              e.action # None => ~(log[i].actor = e.actor /\ log[i].action = e.action)
    PROVE  ActionsOnce(Append(log, e))
<1> DEFINE s == Append(log, e)
<1>1. ASSUME NEW i \in DOMAIN s, NEW j \in DOMAIN s, s[i].action # None,
             s[i].action = s[j].action, s[i].actor = s[j].actor
      PROVE  i = j
  <2>1. \A k \in DOMAIN s : \/ k \in DOMAIN log /\ s[k] = log[k]
                            \/ k = Len(log) + 1 /\ s[k] = e
    BY AppendFacts
  <2> HIDE DEF s
  <2> QED BY <1>1, <2>1 DEF ActionsOnce
<1> HIDE DEF s
<1> QED BY <1>1 DEF ActionsOnce, s

(* A round of rps goes on, or the match ends.                              *)
LEMMA RoundsAppended ==
    ASSUME NEW row \in Rows, NEW new \in Rows, NEW log \in Seq(Events), NEW e \in Events,
           Rounds(row, log), new.seats = row.seats, new.game = row.game,
           row.game = "rps" =>
              /\ e.kind = "locked" => Len(log) % 2 = 0
              /\ e.kind = "revealed" =>
                    Len(log) % 2 = 1 /\ e.actor = Rival(row, Last(log).actor)
              /\ new.status = "active" =>
                    /\ e.kind \in {"locked", "revealed"}
                    /\ e.kind = "locked" => new.revision < MaxEvents - 2
    PROVE  Rounds(new, Append(log, e))
<1> SUFFICES ASSUME row.game = "rps" PROVE Rounds(new, Append(log, e))
  BY DEF Rounds
<1> DEFINE s == Append(log, e)
           n == Len(log)
<1>0. \A u : Rival(new, u) = Rival(row, u)
  BY DEF Rival
<1>1. /\ n \in Nat /\ DOMAIN log = 1 .. n /\ Len(s) = n + 1 /\ DOMAIN s = 1 .. (n + 1)
      /\ s[n + 1] = e /\ Last(s) = e /\ \A i \in 1 .. n : s[i] = log[i]
  BY AppendFacts
<1>2. (n + 1) % 2 = 1 <=> n % 2 = 0
  BY <1>1
<1>3. n % 2 = 1 <=> n % 2 # 0
  BY <1>1
<1>3a. (n + 1) % 2 = 0 <=> n % 2 = 1
  BY <1>1
<1>4. ASSUME NEW i \in DOMAIN s
      PROVE  /\ i % 2 = 1 => s[i].kind # "revealed"
             /\ i % 2 = 0 => s[i].kind # "locked"
             /\ s[i].kind = "revealed" => s[i].actor = Rival(new, s[i - 1].actor)
  <2>1. CASE i = n + 1
    <3>1. /\ e.kind = "locked" => n % 2 = 0
          /\ e.kind = "revealed" => n % 2 = 1 /\ e.actor = Rival(row, Last(log).actor)
      OBVIOUS
    <3>2. Last(log) = log[n]
      BY DEF Last
    <3> HIDE DEF s, n
    <3>3. n % 2 = 1 => n \in 1 .. n
      BY <1>1
    <3>4. n = i - 1
      BY <1>1, <2>1
    <3>5. e.kind = "revealed" => e.actor = Rival(new, s[i - 1].actor)
      BY <1>0, <1>1, <3>1, <3>2, <3>3, <3>4
    <3> QED BY ONLY <1>1, <1>2, <1>3, <1>3a, <2>1, <3>1, <3>5
  <2>2. CASE i \in 1 .. n
    <3>1. /\ i % 2 = 1 => log[i].kind # "revealed"
          /\ i % 2 = 0 => log[i].kind # "locked"
          /\ log[i].kind = "revealed" => log[i].actor = Rival(row, log[i - 1].actor)
      BY <1>1, <2>2 DEF Rounds
    <3>2. i - 1 \in 1 .. n \/ (i = 1 /\ i % 2 = 1)
      BY <1>1, <2>2
    <3> HIDE DEF s, n
    <3> QED BY <1>0, <1>1, <2>2, <3>1, <3>2
  <2> QED BY <1>1, <2>1, <2>2
<1>5. ASSUME new.status = "active"
      PROVE  /\ Last(s).kind = "locked" <=> Len(s) % 2 = 1
             /\ Len(s) % 2 = 1 => new.revision < MaxEvents - 2
  <2> HIDE DEF s, n
  <2>1. /\ e.kind = "locked" => n % 2 = 0
        /\ e.kind = "revealed" => n % 2 = 1
        /\ e.kind \in {"locked", "revealed"}
        /\ e.kind = "locked" => new.revision < MaxEvents - 2
    BY <1>5 DEF n
  <2>2. Len(s) = n + 1 /\ Last(s) = e
    BY <1>1
  <2> QED BY <1>2, <1>3, <2>1, <2>2
<1> HIDE DEF s, n
<1>6. Rounds(new, s)
  BY <1>4, <1>5 DEF Rounds
<1> QED BY <1>6 DEF s

(* An event that is appended where it belongs goes on with the story.      *)
LEMMA StoryAppended ==
    ASSUME NEW row \in Rows, NEW new \in Rows, NEW log \in Seq(Events), NEW e \in Events,
           NEW lim, NEW last,
           Story(row, log, lim), row.status = "active",
           new.seats = row.seats, new.game = row.game, new.revision = row.revision + 1,
           e.kind \in MoveKinds => e.actor \in Seated(row) /\ e.action # None,
           e.kind = "cancelled" =>
              log = <<>> /\ e.action = None /\ e.actor \in Seated(row),
           e.kind = "abandoned" => e.action = None /\ e.actor = None,
           \A i \in DOMAIN log :
              e.action # None => ~(log[i].actor = e.actor /\ log[i].action = e.action),
           row.game = "rps" =>
              /\ e.kind = "locked" => Len(log) % 2 = 0
              /\ e.kind = "revealed" =>
                    Len(log) % 2 = 1 /\ e.actor = Rival(row, Last(log).actor)
              /\ new.status = "active" =>
                    /\ e.kind \in {"locked", "revealed"}
                    /\ e.kind = "locked" => new.revision < MaxEvents - 2,
           Lifecycle(new, Append(log, e)), RoomLeft(new),
           LimitApart(new, Append(log, e), last)
    PROVE  Story(new, Append(log, e), last)
<1>1. row # None /\ new # None
  BY NullAssumption
<1>2. Chronicle(row, log)
  BY <1>1 DEF Story
<1>3. \A i \in DOMAIN Append(log, e) : InPlace(new, Append(log, e), i)
  BY <1>2, InPlaceAppended
<1>4. ActionsOnce(Append(log, e))
  BY <1>2, ActionsOnceAppended DEF Chronicle
<1>5. Rounds(new, Append(log, e))
  BY <1>2, RoundsAppended DEF Chronicle
<1>6. Len(Append(log, e)) = new.revision
  BY <1>2, AppendFacts DEF Chronicle
<1> DEFINE s == Append(log, e)
<1>7. /\ Len(s) = new.revision /\ \A i \in DOMAIN s : InPlace(new, s, i)
      /\ ActionsOnce(s) /\ Rounds(new, s) /\ Lifecycle(new, s) /\ LimitApart(new, s, last)
  BY <1>3, <1>4, <1>5, <1>6
<1> HIDE DEF s
<1>8. Story(new, s, last)
  BY <1>1, <1>7 DEF Story, Chronicle
<1> QED BY <1>8 DEF s

(* A game that is on has no limit action.                                  *)
LEMMA NoLimitYet ==
    ASSUME NEW row \in Rows, NEW log, NEW lim, Story(row, log, lim), row.status = "active"
    PROVE  Chronicle(row, log) /\ lim = None
BY NullAssumption DEF Story, LimitApart

(* The committed move of a player that no event answers yet.               *)
Fresh(row, log, e) ==
    /\ e.actor \in Seated(row) /\ e.action # None
    /\ \A i \in DOMAIN log : ~(log[i].actor = e.actor /\ log[i].action = e.action)

Turned(row, log, e) ==
    row.game = "rps" =>
        /\ e.kind \in {"locked", "revealed"}
        /\ e.kind = "locked" => Len(log) % 2 = 0
        /\ e.kind = "revealed" =>
              Len(log) % 2 = 1 /\ e.actor = Rival(row, Last(log).actor)

LEMMA StoryAdvances ==
    ASSUME NEW row \in Rows, NEW new \in Rows, NEW log \in Seq(Events), NEW e \in Events,
           NEW lim, Story(row, log, lim), row.status = "active",
           new.status = "active", new.game = row.game, new.seats = row.seats,
           new.revision = row.revision + 1, new.result = row.result,
           new.winner = row.winner,
           e.kind \in MoveKinds, Fresh(row, log, e), Turned(row, log, e),
           new.revision < EventLimit(row.game),
           row.game \in {"gomoku", "reversi"} => new.revision < BoardCells,
           row.game = "rps" /\ e.kind = "locked" => new.revision < MaxEvents - 2
    PROVE  Story(new, Append(log, e), lim)
<1>1. Chronicle(row, log) /\ lim = None
  BY NoLimitYet
<1> DEFINE s == Append(log, e)
<1>2. s # <<>> /\ Last(s) = e
  BY AppendFacts
<1>3. e.kind \notin EndKinds
  BY DEF MoveKinds, EndKinds
<1>4. EventLimit(new.game) \in Int /\ new.revision \in Int
  BY LimitsAssumption DEF EventLimit, Rows
<1>4a. new.revision <= EventLimit(new.game)
  BY <1>4
<1> HIDE DEF s
<1>5. Lifecycle(new, s)
  BY <1>1, <1>2, <1>3, <1>4a DEF Lifecycle, Chronicle, Closed
<1>6. RoomLeft(new)
  BY DEF RoomLeft
<1>7. LimitApart(new, s, lim)
  BY <1>1 DEF LimitApart
<1>8. e.kind # "cancelled" /\ e.kind # "abandoned"
  BY DEF MoveKinds
<1> QED BY <1>5, <1>6, <1>7, <1>8, StoryAppended DEF s, Fresh, Turned

(* A move or a resignation that ends the game.                             *)
LEMMA StoryFinishes ==
    ASSUME NEW row \in Rows, NEW new \in Rows, NEW log \in Seq(Events), NEW e \in Events,
           NEW lim, Story(row, log, lim), row.status = "active",
           new.status = "finished", new.game = row.game, new.seats = row.seats,
           new.revision = row.revision + 1,
           e.kind \in MoveKinds \cup {"resigned"}, Fresh(row, log, e),
           e.kind # "resigned" => Turned(row, log, e),
           new.result # None, new.result = "resignation" <=> e.kind = "resigned",
           new.winner = None <=> new.result = "draw",
           e.kind = "resigned" => new.winner = Rival(row, e.actor)
    PROVE  Story(new, Append(log, e), lim)
<1>1. Chronicle(row, log) /\ lim = None
  BY NoLimitYet
<1> DEFINE s == Append(log, e)
<1>2. s # <<>> /\ Last(s) = e
  BY AppendFacts
<1>3. e.kind \in EndKinds => e.kind = "resigned"
  BY DEF MoveKinds, EndKinds
<1>4. /\ row.revision < EventLimit(row.game)
      /\ EventLimit(row.game) \in Int /\ row.revision \in Int
  BY <1>1, LimitsAssumption DEF Chronicle, RoomLeft, EventLimit, Rows
<1>4a. new.revision <= EventLimit(new.game)
  BY <1>4
<1>4b. Rival(new, e.actor) = Rival(row, e.actor)
  BY DEF Rival
<1> HIDE DEF s
<1>5. Lifecycle(new, s)
  BY <1>2, <1>3, <1>4a, <1>4b DEF Lifecycle, Closed
<1>6. RoomLeft(new)
  BY DEF RoomLeft
<1>7. LimitApart(new, s, lim)
  BY <1>1 DEF LimitApart
<1>8. e.kind # "cancelled" /\ e.kind # "abandoned"
  BY DEF MoveKinds
<1> QED BY <1>5, <1>6, <1>7, <1>8, StoryAppended DEF s, Fresh, Turned

(* A cancellation, or an abandonment with or without a limit action.       *)
LEMMA StoryEnds ==
    ASSUME NEW row \in Rows, NEW new \in Rows, NEW log \in Seq(Events), NEW e \in Events,
           NEW lim, NEW last, Story(row, log, lim), row.status = "active",
           e.kind \in {"cancelled", "abandoned"}, new.status = e.kind,
           new.game = row.game, new.seats = row.seats, new.revision = row.revision + 1,
           new.result = None, new.winner = None, e.action = None,
           e.kind = "cancelled" => log = <<>> /\ e.actor \in Seated(row),
           e.kind = "abandoned" => e.actor = None,
           LimitApart(new, Append(log, e), last)
    PROVE  Story(new, Append(log, e), last)
<1>1. Chronicle(row, log)
  BY NoLimitYet
<1> DEFINE s == Append(log, e)
<1>2. s # <<>> /\ Last(s) = e
  BY AppendFacts
<1>3. e.kind \in EndKinds
  BY DEF EndKinds
<1>4. /\ row.revision < EventLimit(row.game)
      /\ EventLimit(row.game) \in Int /\ row.revision \in Int
  BY <1>1, LimitsAssumption DEF Chronicle, RoomLeft, EventLimit, Rows
<1>4a. new.revision <= EventLimit(new.game)
  BY <1>4
<1> HIDE DEF s
<1>5. Lifecycle(new, s)
  BY <1>2, <1>3, <1>4a DEF Lifecycle, Closed
<1>6. RoomLeft(new)
  BY DEF RoomLeft
<1>7. e.kind \notin MoveKinds
  BY DEF MoveKinds
<1> QED BY <1>5, <1>6, <1>7, StoryAppended DEF s, MoveKinds

-----------------------------------------------------------------------------
(* The commits of the service go on with the story of their match.         *)
LEMMA StoryElsewhere ==
    ASSUME StoryInv, NEW m \in Matches, \A n \in Matches \ {m} : Untouched(n),
           Story(matches'[m], events'[m], limit'[m])
    PROVE  StoryInv'
BY DEF StoryInv, Untouched

LEMMA RequestReading ==
    ASSUME TypeOK, StoryInv, NEW q \in Requests, Admissible(q)
    PROVE  /\ q.match \in Matches /\ matches[q.match] \in Rows
           /\ events[q.match] \in Seq(Events) /\ matches[q.match].status = "active"
           /\ Story(matches[q.match], events[q.match], limit[q.match])
           /\ q.actor \in Seated(matches[q.match]) /\ q.actor \in Users
           /\ q.action # None /\ q.action \in ActionIds
           /\ q.payload \in Payloads \cup {None}
           /\ \A i \in DOMAIN events[q.match] :
                ~(events[q.match][i].actor = q.actor /\ events[q.match][i].action = q.action)
<1>1. /\ q.match \in Matches /\ q.actor \in Users /\ q.action \in ActionIds
      /\ q.payload \in Payloads \cup {None}
  BY DEF Requests
<1>2. /\ matches[q.match] \in Rows /\ matches[q.match].status = "active"
      /\ q.actor \in Seated(matches[q.match])
  BY <1>1, RowType, ValueReading DEF Admissible, Active
<1>3. Committed(q) = {}
  BY DEF Admissible, Found
<1>4. events[q.match] \in Seq(Events) /\ Story(matches[q.match], events[q.match], limit[q.match])
  BY <1>1 DEF TypeOK, StoryInv
<1> QED BY <1>1, <1>2, <1>3, <1>4, NoneAssumption DEF Committed

EventOf(q, kind) ==
    [kind |-> kind, actor |-> q.actor, action |-> q.action, payload |-> q.payload]

LEMMA EventOfType ==
    ASSUME TypeOK, StoryInv, NEW q \in Requests, Admissible(q),
           NEW kind \in MoveKinds \cup EndKinds
    PROVE  /\ EventOf(q, kind) \in Events
           /\ EventOf(q, kind).kind = kind
           /\ EventOf(q, kind).actor = q.actor
           /\ Fresh(matches[q.match], events[q.match], EventOf(q, kind))
BY RequestReading DEF EventOf, Events, Fresh

LEMMA AdvanceStory ==
    ASSUME TypeOK, StoryInv, NEW q \in Requests, Admissible(q), NEW kind \in MoveKinds,
           NEW turn \in Users \cup {None}, Advance(q, kind, turn),
           Turned(matches[q.match], events[q.match], EventOf(q, kind)),
           matches[q.match].revision + 1 < EventLimit(matches[q.match].game),
           matches[q.match].game \in {"gomoku", "reversi"} =>
              matches[q.match].revision + 1 < BoardCells,
           matches[q.match].game = "rps" /\ kind = "locked" =>
              matches[q.match].revision + 1 < MaxEvents - 2
    PROVE  Story(matches'[q.match], events'[q.match], limit'[q.match])
<1> DEFINE m == q.match
           new == [matches[m] EXCEPT !.revision = @ + 1, !.turn = turn]
           e == EventOf(q, kind)
<1>1. m \in Matches /\ matches[m] \in Rows /\ events[m] \in Seq(Events)
      /\ matches[m].status = "active" /\ Story(matches[m], events[m], limit[m])
  BY RequestReading
<1>2. matches'[m] = new /\ events'[m] = Append(events[m], e) /\ limit'[m] = limit[m]
  BY <1>1 DEF Advance, Append1, EventOf, TypeOK
<1>3. /\ new \in Rows /\ new.status = "active" /\ new.game = matches[m].game
      /\ new.seats = matches[m].seats /\ new.revision = matches[m].revision + 1
      /\ new.result = matches[m].result /\ new.winner = matches[m].winner
  <2>1. new \in Rows
    BY <1>1, AdvancedRow
  <2> QED BY <1>1, <2>1, RowColumns
<1>4. /\ e \in Events /\ e.kind = kind /\ Fresh(matches[m], events[m], e)
      /\ Turned(matches[m], events[m], e)
  BY EventOfType
<1>5. /\ matches[m].revision + 1 < EventLimit(matches[m].game)
      /\ matches[m].game \in {"gomoku", "reversi"} => matches[m].revision + 1 < BoardCells
      /\ matches[m].game = "rps" /\ kind = "locked" =>
            matches[m].revision + 1 < MaxEvents - 2
  OBVIOUS
<1> HIDE DEF new, e, m
<1>6. Story(new, Append(events[m], e), limit[m])
  BY ONLY <1>1, <1>3, <1>4, <1>5, kind \in MoveKinds, StoryAdvances
<1> QED BY <1>2, <1>6 DEF m

LEMMA ConcludeStory ==
    ASSUME TypeOK, StoryInv, NEW q \in Requests, Admissible(q),
           NEW kind \in MoveKinds \cup {"resigned"},
           NEW result \in GameResults \cup {"resignation"},
           NEW winner \in Users \cup {None}, Conclude(q, kind, result, winner),
           kind # "resigned" =>
              Turned(matches[q.match], events[q.match], EventOf(q, kind)),
           result = "resignation" <=> kind = "resigned",
           winner = None <=> result = "draw",
           kind = "resigned" => winner = Opponent(q.match, q.actor)
    PROVE  Story(matches'[q.match], events'[q.match], limit'[q.match])
<1> DEFINE m == q.match
           new == [matches[m] EXCEPT !.status = "finished", !.revision = @ + 1,
                      !.result = result, !.winner = winner, !.offlineSince = Never]
           e == EventOf(q, kind)
<1>1. m \in Matches /\ matches[m] \in Rows /\ events[m] \in Seq(Events)
      /\ matches[m].status = "active" /\ Story(matches[m], events[m], limit[m])
  BY RequestReading
<1>2. matches'[m] = new /\ events'[m] = Append(events[m], e) /\ limit'[m] = limit[m]
  BY <1>1 DEF Conclude, Append1, EventOf, TypeOK
<1>3. /\ new \in Rows /\ new.status = "finished" /\ new.game = matches[m].game
      /\ new.seats = matches[m].seats /\ new.revision = matches[m].revision + 1
      /\ new.result = result /\ new.winner = winner
  <2>1. new \in Rows
    BY <1>1, FinishedRow
  <2> QED BY <1>1, <2>1, RowColumns
<1>4. /\ e \in Events /\ e.kind = kind /\ e.actor = q.actor
      /\ Fresh(matches[m], events[m], e)
      /\ kind # "resigned" => Turned(matches[m], events[m], e)
  BY EventOfType DEF EndKinds
<1>5. /\ result = "resignation" <=> kind = "resigned"
      /\ winner = None <=> result = "draw"
      /\ kind = "resigned" => winner = Rival(matches[m], q.actor)
      /\ result # None /\ kind \in MoveKinds \cup {"resigned"}
  <2>1. result # None
    BY NullAssumption
  <2> QED BY <1>1, <2>1, ValueReading
<1> HIDE DEF new, e, m
<1>6. Story(new, Append(events[m], e), limit[m])
  BY ONLY <1>1, <1>3, <1>4, <1>5, StoryFinishes
<1> QED BY <1>2, <1>6 DEF m

(* A move of a game that does not play in rounds, and that does not fill   *)
(* the board or the history.                                               *)
LEMMA BoardStory ==
    ASSUME TypeOK, StoryInv, NEW q \in Requests,
           BoardMove(q) \/ CheckersMove(q)
    PROVE  Story(matches'[q.match], events'[q.match], limit'[q.match])
<1> DEFINE row == matches[q.match]
<1>1. Admissible(q)
  BY DEF BoardMove, CheckersMove
<1>2. /\ q.match \in Matches /\ row \in Rows /\ q.actor \in Users
      /\ Players(q.match) \subseteq Users /\ Opponent(q.match, q.actor) \in Users
      /\ row.revision \in Nat /\ row.status = "active"
  BY <1>1, RequestReading, RowType, OpponentType DEF Admissible, Active, Rows
<1>3. RoomLeft(row)
  BY <1>1, <1>2, RequestReading, NoLimitYet DEF Chronicle
<1>4. row.game # "rps" /\ row.game # "flight_chess"
  BY DEF BoardMove, CheckersMove
<1>5. \A kind : Turned(row, events[q.match], EventOf(q, kind))
  BY <1>4 DEF Turned
<1>6. None \notin Users
  BY NoneAssumption
<1>7. ASSUME NEW turn \in Users \cup {None}, Advance(q, "move", turn),
             row.revision + 1 < MaxEvents,
             row.game \in {"gomoku", "reversi"} => row.revision + 1 < BoardCells
      PROVE  Story(matches'[q.match], events'[q.match], limit'[q.match])
  BY <1>1, <1>4, <1>5, <1>7, AdvanceStory DEF MoveKinds, EventLimit
<1>8. ASSUME NEW result \in GameResults, NEW w \in Users \cup {None},
             Conclude(q, "move", result, w), w = None <=> result = "draw"
      PROVE  Story(matches'[q.match], events'[q.match], limit'[q.match])
  <2>1. result # "resignation"
    BY DEF GameResults
  <2> QED BY <1>1, <1>5, <1>8, <2>1, ConcludeStory DEF MoveKinds
<1>9. CASE BoardMove(q)
  <2>1. CASE \E next \in Users : Advance(q, "move", next) /\ row.revision + 1 # BoardCells
    <3>1. row.game \in {"gomoku", "reversi"}
      BY <1>9 DEF BoardMove
    <3>2. row.revision < BoardCells
      BY <1>2, <1>3, <3>1 DEF RoomLeft
    <3>3. row.revision + 1 < BoardCells /\ row.revision + 1 < MaxEvents
      BY <1>2, <2>1, <3>2, LimitsAssumption
    <3> HIDE DEF row
    <3> QED BY <1>7, <2>1, <3>3
  <2>2. CASE \E result \in GameResults, w \in Users \cup {None} :
                Conclude(q, "move", result, w) /\ (w = None <=> result = "draw")
    BY <1>8, <2>2
  <2> QED BY <1>2, <1>6, <1>9, <2>1, <2>2 DEF BoardMove, GameResults
<1>10. CASE CheckersMove(q)
  <2>1. CASE \E next \in Users : Advance(q, "move", next)
    <3>1. row.game = "chinese_checkers" /\ row.revision < MaxEvents - 1
      BY <1>10 DEF CheckersMove
    <3>2. row.revision + 1 < MaxEvents
      BY <1>2, <3>1, LimitsAssumption
    <3> HIDE DEF row
    <3> QED BY <1>7, <2>1, <3>1, <3>2
  <2>2. CASE \E w \in Users : Conclude(q, "move", "goal", w)
    BY <1>6, <1>8, <2>2 DEF GameResults
  <2> QED BY <1>2, <1>10, <2>1, <2>2 DEF CheckersMove
<1> QED BY <1>9, <1>10

LEMMA FlightStory ==
    ASSUME TypeOK, StoryInv, NEW q \in Requests, FlightAction(q)
    PROVE  Story(matches'[q.match], events'[q.match], limit'[q.match])
<1> DEFINE m == q.match
           row == matches[m]
<1>1. Admissible(q) /\ row.game = "flight_chess" /\ q.kind \in {"move", "roll"}
  BY DEF FlightAction
<1>2. /\ m \in Matches /\ row \in Rows /\ q.actor \in Users /\ q.action # None
      /\ Players(m) \subseteq Users /\ row.revision \in Nat /\ row.status = "active"
      /\ events[m] \in Seq(Events) /\ Story(row, events[m], limit[m])
  BY <1>1, RequestReading, RowType DEF Admissible, Active, Rows
<1>3. Chronicle(row, events[m])
  BY <1>2, NoLimitYet
<1>4. \A kind : Turned(row, events[m], EventOf(q, kind))
  BY <1>1 DEF Turned
<1>5. None \notin Users
  BY NoneAssumption
<1>6. CASE \E kind \in MoveKinds, next \in Users :
              Advance(q, kind, next) /\ row.revision + 1 # MaxFlightEvents
  <2>1. row.revision + 1 < EventLimit(row.game)
    BY <1>1, <1>2, <1>3, <1>6, LimitsAssumption DEF Chronicle, RoomLeft, EventLimit
  <2> QED BY <1>1, <1>4, <1>6, <2>1, AdvanceStory
<1>7. CASE \E w \in Users : Conclude(q, "move", "goal", w)
  BY <1>1, <1>4, <1>5, <1>7, ConcludeStory DEF MoveKinds, GameResults
<1>8. CASE LimitAbandon(q)
  <2> DEFINE new == [row EXCEPT !.status = "abandoned", !.revision = @ + 1,
                        !.offlineSince = Never]
             e == [kind |-> "abandoned", actor |-> None,
                   action |-> None, payload |-> None]
             lim == [actor |-> q.actor, action |-> q.action,
                     kind |-> q.kind, payload |-> q.payload]
  <2>1. /\ matches'[m] = new /\ events'[m] = Append(events[m], e) /\ limit'[m] = lim
    BY <1>2, <1>8 DEF LimitAbandon, Append1, TypeOK
  <2>2. new \in Rows
    BY <1>2, AbandonedRow
  <2>3. /\ new.status = "abandoned" /\ new.game = row.game /\ new.seats = row.seats
        /\ new.revision = row.revision + 1 /\ new.result = None /\ new.winner = None
    BY <1>2, <1>3, <2>2, RowColumns DEF Chronicle, Lifecycle
  <2>4. /\ e \in Events /\ e.kind = "abandoned" /\ e.actor = None /\ e.action = None
        /\ lim.action = q.action /\ lim.actor = q.actor
    BY DEF Events, EndKinds
  <2>5. \A i \in DOMAIN events[m] :
           ~(events[m][i].actor = q.actor /\ events[m][i].action = q.action)
    BY <1>1, RequestReading
  <2> HIDE DEF new, e, lim
  <2>6. \A i \in DOMAIN Append(events[m], e) :
           \/ i \in DOMAIN events[m] /\ Append(events[m], e)[i] = events[m][i]
           \/ Append(events[m], e)[i] = e
    BY <1>2, <2>4, AppendFacts
  <2>7. Append(events[m], e) # <<>>
    BY <1>2, <2>4, AppendFacts
  <2> DEFINE s == Append(events[m], e)
  <2>8. /\ \A i \in DOMAIN s : (i \in DOMAIN events[m] /\ s[i] = events[m][i]) \/ s[i] = e
        /\ s # <<>>
    BY <2>6, <2>7
  <2> HIDE DEF s, row, m
  <2>9. LimitApart(new, s, lim)
    BY <1>1, <1>2, <2>3, <2>4, <2>5, <2>8 DEF LimitApart
  <2>10. Story(new, s, lim)
    BY ONLY <1>2, <2>2, <2>3, <2>4, <2>9, StoryEnds DEF s
  <2> QED BY <2>1, <2>10 DEF s, m
<1> QED BY <1>2, <1>6, <1>7, <1>8 DEF FlightAction, LimitAbandon, MoveKinds

(* Two choices make a round: the first one locks, at an even revision that *)
(* leaves room for the second one and for the end of the match.            *)
LEMMA RpsStory ==
    ASSUME TypeOK, StoryInv, NEW q \in Requests, RpsChoice(q)
    PROVE  Story(matches'[q.match], events'[q.match], limit'[q.match])
<1> DEFINE m == q.match
           row == matches[m]
           log == events[m]
           n == row.revision
<1>1. Admissible(q) /\ row.game = "rps" /\ n < MaxEvents - 2
  BY DEF RpsChoice
<1>2. /\ m \in Matches /\ row \in Rows /\ q.actor \in Seated(row) /\ n \in Nat
      /\ Players(m) \subseteq Users /\ row.status = "active"
      /\ log \in Seq(Events) /\ Story(row, log, limit[m])
  BY <1>1, RequestReading, RowType DEF Admissible, Active, Rows
<1>3. Chronicle(row, log) /\ Len(log) = n
  BY <1>2, NoLimitYet DEF Chronicle
<1>4. /\ log # <<>> => (Last(log).kind = "locked" <=> n % 2 = 1)
      /\ log = <<>> => n = 0
  BY <1>1, <1>2, <1>3 DEF Chronicle, Rounds
<1>5. MaxEvents \in Nat /\ MaxEvents % 2 = 0
  BY LimitsAssumption
<1>6. EventLimit(row.game) = MaxEvents
  BY <1>1 DEF EventLimit
<1>7. None \notin Users
  BY NoneAssumption
<1>8. \A kind : EventOf(q, kind).kind = kind /\ EventOf(q, kind).actor = q.actor
  BY DEF EventOf
<1>9. CASE ~(log # <<>> /\ Last(log).kind = "locked") /\ Advance(q, "locked", None)
  <2>1. n % 2 = 0
    BY <1>2, <1>4, <1>9
  <2>2. n + 1 < MaxEvents - 2 /\ n + 1 < MaxEvents
    BY <1>1, <1>2, <1>5, <2>1
  <2>3. Turned(row, log, EventOf(q, "locked"))
    BY <1>3, <1>8, <2>1 DEF Turned
  <2> HIDE DEF n
  <2>4. matches[q.match].revision + 1 < MaxEvents - 2 /\ matches[q.match].revision + 1 < MaxEvents
    BY <2>2 DEF n
  <2> QED BY <1>1, <1>6, <1>9, <2>3, <2>4, AdvanceStory DEF MoveKinds
<1>10. CASE log # <<>> /\ Last(log).kind = "locked" /\ Last(log).actor # q.actor
  <2>1. n % 2 = 1
    BY <1>4, <1>10
  <2>2. Last(log).actor \in Seated(row)
    <3>1. Len(log) \in DOMAIN log /\ Last(log) = log[Len(log)]
      BY <1>2, <1>10 DEF Last
    <3> HIDE DEF log, row
    <3> QED BY <1>3, <1>10, <3>1 DEF Chronicle, InPlace, MoveKinds
  <2>3. q.actor = Rival(row, Last(log).actor)
    BY <1>2, <1>10, <2>2 DEF Seated, Rival
  <2>4. Turned(row, log, EventOf(q, "revealed"))
    BY <1>3, <1>8, <2>1, <2>3 DEF Turned
  <2>5. n + 1 < MaxEvents
    BY <1>1, <1>2, <1>5
  <2>6. CASE Advance(q, "revealed", None)
    <3>1. matches[q.match].revision + 1 < EventLimit(matches[q.match].game)
      BY <1>6, <2>5
    <3> QED BY <1>1, <2>4, <2>6, <3>1, AdvanceStory DEF MoveKinds
  <2>7. CASE \E w \in Users : Conclude(q, "revealed", "rounds", w)
    BY <1>1, <1>7, <2>4, <2>7, ConcludeStory DEF MoveKinds, GameResults
  <2> QED BY <1>2, <1>10, <2>6, <2>7 DEF RpsChoice
<1> QED BY <1>9, <1>10 DEF RpsChoice

LEMMA ResignStory ==
    ASSUME TypeOK, StoryInv, NEW q \in Requests, Resign(q)
    PROVE  Story(matches'[q.match], events'[q.match], limit'[q.match])
<1>1. /\ Admissible(q) /\ Active(q.match) /\ q.match \in Matches
      /\ q.actor \in Players(q.match)
  BY DEF Resign, Admissible, Requests
<1>2. Opponent(q.match, q.actor) \in Users /\ None \notin Users
  BY <1>1, OpponentType, NoneAssumption DEF Active
<1>3. Conclude(q, "resigned", "resignation", Opponent(q.match, q.actor))
  BY DEF Resign
<1> QED BY <1>1, <1>2, <1>3, ConcludeStory

LEMMA ActionStory ==
    ASSUME TypeOK, StoryInv, NEW q \in Requests, ApplyAction(q)
    PROVE  StoryInv'
<1>1. q.match \in Matches /\ \A n \in Matches \ {q.match} : Untouched(n)
  BY ApplyActionWrites
<1>2. Story(matches'[q.match], events'[q.match], limit'[q.match])
  BY BoardStory, FlightStory, RpsStory, ResignStory DEF ApplyAction
<1> QED BY <1>1, <1>2, StoryElsewhere

LEMMA CreateStory ==
    ASSUME TypeOK, StoryInv, NEW m \in Matches, NEW g \in Games, NEW u \in Users,
           NEW v \in Users, Create(m, g, u, v)
    PROVE  StoryInv'
<1>1. PICK black \in {u, v} : matches' = [matches EXCEPT ![m] =
          [game |-> g, status |-> "active", revision |-> 0, seats |-> <<u, v>>,
           turn |-> IF g = "rps" THEN None ELSE black,
           offlineSince |-> Never, result |-> None, winner |-> None]]
  BY DEF Create
<1> DEFINE row == [game |-> g, status |-> "active", revision |-> 0, seats |-> <<u, v>>,
                   turn |-> IF g = "rps" THEN None ELSE black,
                   offlineSince |-> Never, result |-> None, winner |-> None]
<1>2. row \in Rows
  BY DEF Rows, Statuses
<1>3. matches'[m] = row /\ UNCHANGED <<events, limit>>
  BY <1>1 DEF Create, TypeOK
<1>4. events[m] = <<>> /\ limit[m] = None
  BY DEF Create, Exists, StoryInv, Story
<1>5. row.game = g /\ row.status = "active" /\ row.revision = 0 /\ row.result = None
      /\ row.winner = None
  OBVIOUS
<1> HIDE DEF row
<1>6. EventLimit(g) \in Nat \ {0} /\ BoardCells \in Nat \ {0} /\ 0 < MaxEvents - 2
  BY LimitsAssumption DEF EventLimit
<1>6a. 0 < EventLimit(g) /\ 0 <= EventLimit(g) /\ 0 < BoardCells
  BY <1>6
<1>7. Lifecycle(row, <<>>) /\ RoomLeft(row)
  BY <1>5, <1>6a DEF Lifecycle, RoomLeft, Closed
<1>8. Chronicle(row, <<>>)
  BY <1>5, <1>6, <1>7 DEF Chronicle, ActionsOnce, Rounds
<1>9. Story(row, <<>>, None)
  BY <1>2, <1>8, NullAssumption DEF Story, LimitApart
<1>10. \A n \in Matches \ {m} : Untouched(n)
  BY <1>1, <1>3 DEF Untouched, TypeOK
<1> QED BY <1>3, <1>4, <1>9, <1>10, StoryElsewhere

LEMMA CancelStory ==
    ASSUME TypeOK, StoryInv, NEW m \in Matches, NEW u \in Users, Cancel(m, u)
    PROVE  StoryInv'
<1> DEFINE row == matches[m]
           log == events[m]
           new == [row EXCEPT !.status = "cancelled", !.revision = @ + 1,
                              !.winner = None, !.result = None]
           e == [kind |-> "cancelled", actor |-> u, action |-> None, payload |-> None]
<1>1. /\ row \in Rows /\ row.status = "active" /\ u \in Seated(row)
      /\ log \in Seq(Events) /\ Story(row, log, limit[m])
      /\ \A i \in DOMAIN log : log[i].kind \notin MoveKinds
  BY RowType, ValueReading DEF Cancel, Active, TypeOK, StoryInv
<1>2. matches'[m] = new /\ events'[m] = Append(log, e) /\ limit' = limit
  BY DEF Cancel, Append1, TypeOK
<1>3. log = <<>>
  <2>1. \A i \in DOMAIN log : FALSE
    BY <1>1, OnlyMoves, NoLimitYet
  <2> QED BY <1>1, <2>1
<1>4. /\ new \in Rows /\ new.status = "cancelled" /\ new.game = row.game
      /\ new.seats = row.seats /\ new.revision = row.revision + 1
      /\ new.result = None /\ new.winner = None
  <2>1. new \in Rows
    BY <1>1, CancelledRow
  <2> QED BY <1>1, <2>1, RowColumns
<1>5. /\ e \in Events /\ e.kind = "cancelled" /\ e.actor = u /\ e.action = None
  BY DEF Events, EndKinds
<1>6. limit[m] = None
  BY <1>1, NoLimitYet
<1> HIDE DEF row, log, new, e
<1>7. LimitApart(new, Append(log, e), limit[m])
  BY <1>6 DEF LimitApart
<1>8. Story(new, Append(log, e), limit[m])
  BY ONLY <1>1, <1>3, <1>4, <1>5, <1>7, StoryEnds
<1>9. \A n \in Matches \ {m} : Untouched(n)
  BY DEF Cancel, Append1, Untouched, TypeOK
<1> QED BY <1>2, <1>8, <1>9, StoryElsewhere

LEMMA AbandonStory ==
    ASSUME TypeOK, StoryInv, NEW m \in Matches, AbandonIfExpired(m)
    PROVE  StoryInv'
<1>1. CASE ~Expired(m, sweep.cutoff)
  BY <1>1 DEF AbandonIfExpired, durable, StoryInv
<1>2. CASE Expired(m, sweep.cutoff)
  <2> DEFINE row == matches[m]
             log == events[m]
             new == [row EXCEPT !.status = "abandoned", !.revision = @ + 1,
                                !.winner = None, !.result = None,
                                !.offlineSince = Never]
             e == [kind |-> "abandoned", actor |-> None, action |-> None, payload |-> None]
  <2>1. /\ row \in Rows /\ row.status = "active"
        /\ log \in Seq(Events) /\ Story(row, log, limit[m])
    BY <1>2, RowType DEF Expired, Active, TypeOK, StoryInv
  <2>2. matches'[m] = new /\ events'[m] = Append(log, e) /\ limit' = limit
    BY <1>2 DEF AbandonIfExpired, Append1, TypeOK
  <2>3. /\ new \in Rows /\ new.status = "abandoned" /\ new.game = row.game
        /\ new.seats = row.seats /\ new.revision = row.revision + 1
        /\ new.result = None /\ new.winner = None
    <3>1. new \in Rows
      BY <2>1, AbandonedRow
    <3> QED BY <2>1, <3>1, RowColumns
  <2>4. /\ e \in Events /\ e.kind = "abandoned" /\ e.actor = None /\ e.action = None
    BY DEF Events, EndKinds
  <2>5. limit[m] = None
    BY <2>1, NoLimitYet
  <2>6. \A n \in Matches \ {m} : Untouched(n)
    BY <1>2 DEF AbandonIfExpired, Append1, Untouched, TypeOK
  <2> HIDE DEF row, log, new, e
  <2>7. LimitApart(new, Append(log, e), limit[m])
    BY <2>5 DEF LimitApart
  <2>8. Story(new, Append(log, e), limit[m])
    BY ONLY <2>1, <2>3, <2>4, <2>7, StoryEnds
  <2> QED BY <2>2, <2>6, <2>8, StoryElsewhere
<1> QED BY <1>1, <1>2

(* The offline timer is no part of the story.                              *)
LEMMA TimerStory ==
    ASSUME TypeOK, StoryInv,
           \/ \E n \in Matches : SetPlayerOnline(n) \/ SetPlayerOffline(n)
           \/ Restart
    PROVE  StoryInv'
<1> SUFFICES ASSUME NEW m \in Matches PROVE Story(matches'[m], events'[m], limit'[m])
  BY DEF StoryInv
<1>1. UNCHANGED <<events, limit>> /\ Story(matches[m], events[m], limit[m])
  BY DEF SetPlayerOnline, SetPlayerOffline, Restart, StoryInv
<1>2. CASE matches'[m] = matches[m]
  BY <1>1, <1>2
<1>3. ASSUME NEW t \in Nat \cup {Never}, Active(m),
             matches'[m] = [matches[m] EXCEPT !.offlineSince = t]
      PROVE  Story(matches'[m], events'[m], limit'[m])
  <2> DEFINE new == [matches[m] EXCEPT !.offlineSince = t]
  <2>1. matches[m] \in Rows
    BY <1>3, RowType DEF Active
  <2>2. new \in Rows
    BY <2>1, OfflineRow
  <2>3. /\ new.game = matches[m].game /\ new.status = matches[m].status
        /\ new.revision = matches[m].revision /\ new.seats = matches[m].seats
        /\ new.result = matches[m].result /\ new.winner = matches[m].winner
    BY <2>1, <2>2, RowColumns
  <2>4. matches'[m] = new
    BY <1>3
  <2> HIDE DEF new
  <2> QED BY <1>1, <2>1, <2>2, <2>3, <2>4, Retold
<1> QED BY <1>2, <1>3, TimersTouch

LEMMA StoryStep ==
    ASSUME TypeOK, StoryInv, [Next]_vars
    PROVE  StoryInv'
<1>1. CASE UNCHANGED durable
  BY <1>1 DEF durable, StoryInv
<1>2. CASE \/ Scan \/ Tick \/ UNCHANGED vars
           \/ \E m \in Matches, u \in Users, id \in Credentials :
                 CreateLaunchTicket(m, u, id)
           \/ \E t \in tickets, id \in Credentials : ConnectLaunch(t, id)
           \/ \E r \in resumes : ConnectResume(r)
           \/ \E u \in Users : RevokeCredentials(u)
  BY <1>1, <1>2 DEF Scan, Tick, vars, CreateLaunchTicket, ConnectLaunch,
                    ConnectResume, RevokeCredentials
<1> QED BY <1>2, CreateStory, CancelStory, ActionStory, AbandonStory, TimerStory DEF Next

LEMMA StoryCorrect == Spec => []StoryInv
<1>1. Init => StoryInv
  BY DEF Init, StoryInv, Story
<1>2. TypeOK /\ StoryInv /\ [Next]_vars => StoryInv'
  BY StoryStep
<1> QED BY <1>1, <1>2, TypeCorrect, PTL DEF Spec

(* What the story says of a match that exists.                             *)
LEMMA StoryReading ==
    ASSUME TypeOK, StoryInv, NEW m \in Matches, Exists(m)
    PROVE  /\ matches[m] \in Rows /\ events[m] \in Seq(Events)
           /\ Chronicle(matches[m], events[m])
           /\ LimitApart(matches[m], events[m], limit[m])
BY RowType DEF StoryInv, Story, Exists, TypeOK

(* Slots and lifecycle agree in the form that reading a match checks.      *)
LEMMA SlotSetReading ==
    ASSUME TypeOK, SlotsMatchLifecycle, NEW m \in Matches, Exists(m)
    PROVE  IF matches[m].status = "active"
           THEN SlotSetComplete(m)
           ELSE \A s \in Games \X Users : slots[s] # m
<1>1. Players(m) \subseteq Users /\ matches[m].game \in Games
  BY RowType
<1>2. \A g \in Games, u \in Users :
        slots[<<g, u>>] = m <=> Active(m) /\ matches[m].game = g /\ u \in Players(m)
  BY DEF SlotsMatchLifecycle
<1>3. CASE matches[m].status = "active"
  <2>1. ASSUME NEW s \in Games \X Users
        PROVE  slots[s] = m <=> s \in {matches[m].game} \X Players(m)
    BY <1>2, <1>3 DEF Active
  <2>2. {matches[m].game} \X Players(m) \subseteq Games \X Users
    BY <1>1
  <2> QED BY <1>3, <2>1, <2>2 DEF SlotSetComplete
<1>4. CASE matches[m].status # "active"
  BY <1>2, <1>4 DEF Active
<1> QED BY <1>3, <1>4

LEMMA ReadableReading ==
    ASSUME TypeOK, SlotsMatchLifecycle, StoryInv
    PROVE  AlwaysReadable
<1> SUFFICES ASSUME NEW m \in Matches, Exists(m) PROVE Readable(m)
  BY DEF AlwaysReadable
<1>1. Chronicle(matches[m], events[m])
  BY StoryReading
<1>2. /\ Len(events[m]) = matches[m].revision
      /\ \A i \in DOMAIN events[m] : InPlace(matches[m], events[m], i)
      /\ LifecycleAgrees(m)
  BY <1>1, ValueReading DEF Chronicle
<1>3. Players(m) = Seated(matches[m])
  BY ValueReading
<1> QED BY <1>2, <1>3, SlotSetReading DEF Readable, InPlace

(* Every stored match can be rebuilt from its log and fits its row and its *)
(* slots (rebuildSnapshot, validateLifecycle), whatever sequence of moves, *)
(* endings, sweeps and restarts wrote it, for every history limit.         *)
THEOREM ReadableCorrect == Spec => []AlwaysReadable
<1>1. TypeOK /\ SlotsMatchLifecycle /\ StoryInv => AlwaysReadable
  BY ReadableReading
<1> QED BY <1>1, TypeCorrect, SlotsCorrect, StoryCorrect, PTL

LEMMA RoomReading ==
    ASSUME TypeOK, StoryInv
    PROVE  RoomForTheEnd
<1>1. ASSUME NEW m \in Matches, Active(m)
      PROVE  matches[m].revision < EventLimit(matches[m].game)
  BY <1>1, StoryReading DEF Active, Chronicle, RoomLeft
<1>2. ASSUME NEW m \in Matches, Exists(m), matches[m].game = "rps"
      PROVE  /\ \A i \in DOMAIN events[m] :
                  /\ i % 2 = 1 => events[m][i].kind # "revealed"
                  /\ i % 2 = 0 => events[m][i].kind # "locked"
                  /\ events[m][i].kind = "revealed" =>
                        events[m][i].actor = Opponent(m, events[m][i - 1].actor)
             /\ Active(m) /\ events[m] # <<>> /\ Last(events[m]).kind = "locked" =>
                  matches[m].revision < MaxEvents - 2
  <2>1. Rounds(matches[m], events[m])
    BY <1>2, StoryReading DEF Chronicle
  <2> QED BY <1>2, <2>1, ValueReading DEF Rounds, Active
<1> QED BY <1>1, <1>2 DEF RoomForTheEnd, RpsRoundsPaired

(* No active match ever uses up its history: the guards of the five games  *)
(* always leave an event for the end, and rps gets there in whole rounds   *)
(* of one choice per player, for every limit the service may be given.     *)
THEOREM RoomCorrect == Spec => []RoomForTheEnd
<1>1. TypeOK /\ StoryInv => RoomForTheEnd
  BY RoomReading
<1> QED BY <1>1, TypeCorrect, StoryCorrect, PTL

(* The one event an action was committed as answers it, and only that one. *)
LEMMA EventAnswers ==
    ASSUME TypeOK, StoryInv, NEW m \in Matches, NEW i \in DOMAIN events[m],
           NEW q, q.match = m, q.actor = events[m][i].actor,
           q.action = events[m][i].action, q.payload = events[m][i].payload,
           q.kind = CASE events[m][i].kind = "resigned" -> "resign"
                      [] events[m][i].kind = "rolled" -> "roll"
                      [] OTHER -> "move",
           events[m][i].action # None
    PROVE  Answers(q) = {i}
<1>1. Exists(m)
  BY DEF StoryInv, Story, Exists
<1>2. Chronicle(matches[m], events[m]) /\ events[m][i] \in Events
  BY <1>1, StoryReading
<1>3. Committed(q) = {i}
  BY <1>2 DEF Chronicle, ActionsOnce, Committed
<1>4. SameAction(events[m][i], q)
  <2>1. events[m][i].kind \in MoveKinds \cup {"resigned"}
    BY <1>2 DEF Chronicle, InPlace, Events, EndKinds
  <2>2. CASE events[m][i].kind = "resigned"
    BY <2>2 DEF SameAction
  <2>3. CASE events[m][i].kind = "rolled"
    BY <2>3 DEF SameAction
  <2>4. CASE events[m][i].kind \in {"move", "locked", "revealed"}
    BY <2>4 DEF SameAction
  <2> QED BY <2>1, <2>2, <2>3, <2>4 DEF MoveKinds
<1> QED BY <1>3, <1>4 DEF Answers

LEMMA LimitAnswers ==
    ASSUME TypeOK, StoryInv, NEW m \in Matches, limit[m] # None,
           NEW q, q.match = m, q.actor = limit[m].actor, q.action = limit[m].action,
           q.kind = limit[m].kind, q.payload = limit[m].payload
    PROVE  Answers(q) = {Len(events[m])}
<1>1. Exists(m)
  BY DEF StoryInv, Story, Exists
<1>2. /\ LimitApart(matches[m], events[m], limit[m]) /\ events[m] \in Seq(Events)
  BY <1>1, StoryReading
<1>3. Committed(q) = {} /\ LimitHit(q) /\ SameLimitAction(q)
  BY <1>2 DEF LimitApart, Committed, LimitHit, SameLimitAction
<1>4. Len(events[m]) \in DOMAIN events[m]
  BY <1>2 DEF LimitApart
<1> QED BY <1>3, <1>4 DEF Answers

LEMMA RetryReading ==
    ASSUME TypeOK, StoryInv
    PROVE  RetryAnswered
<1>1. ASSUME NEW m \in Matches, NEW i \in DOMAIN events[m],
             events[m][i].action # None, NEW r \in Revisions
      PROVE  LET e == events[m][i]
                 kind == CASE e.kind = "resigned" -> "resign"
                           [] e.kind = "rolled" -> "roll"
                           [] OTHER -> "move"
             IN  Answers([match |-> m, actor |-> e.actor, action |-> e.action,
                          expected |-> r, kind |-> kind, payload |-> e.payload]) = {i}
  BY <1>1, EventAnswers
<1>2. ASSUME NEW m \in Matches, limit[m] # None
      PROVE  Answers([match |-> m, actor |-> limit[m].actor,
                      action |-> limit[m].action, expected |-> 0,
                      kind |-> limit[m].kind,
                      payload |-> limit[m].payload]) = {Len(events[m])}
  BY <1>2, LimitAnswers
<1> QED BY <1>1, <1>2 DEF RetryAnswered

(* A retried action finds the one event it was committed as, or the limit  *)
(* abandonment that replaced it, in every later state of the match         *)
(* (committedActionMatches, readFlightChessLimitAction).                   *)
THEOREM RetryCorrect == Spec => []RetryAnswered
<1>1. TypeOK /\ StoryInv => RetryAnswered
  BY RetryReading
<1> QED BY <1>1, TypeCorrect, StoryCorrect, PTL
==============================================================================
