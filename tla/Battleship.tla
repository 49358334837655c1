------------------------------ MODULE Battleship -----------------------------
(* battleship: durable matches without deadlines, played over single HTTP    *)
(* requests that may be lost, repeated and delayed.  A request is served in  *)
(* one immediate SQLite transaction; one that changes nothing is no step.    *)
EXTENDS Integers, FiniteSets

CONSTANTS
    Players,
    Nil,
    Matches,     \* match ids
    Chosen,      \* bound: those that clients choose; the others are drawn at random
    Side,        \* cells on a side of the board (10)
    Ships,       \* ship ids
    Length,      \* of a ship (5, 4, 3, 3, 2)
    Fleets,      \* bound: the fleets that clients send, legal or not
    MaxRevision  \* bound: revisions that each match reaches

VARIABLES
    matches,  \* battleship_matches, by id: Nil or a row
    ledger    \* battleship_actions: the row of one action id, in each match
battleVars == <<matches, ledger>>

\* A request carries an action id of its own, or the one watched in the ledger.
ActionIds == {"fresh", "watched"}

Seats == {0, 1}
Cells == 0 .. Side * Side - 1

-----------------------------------------------------------------------------
(* Fleets: sets of ships [id, cell, vertical]. *)

cells(ship) ==
    {ship.cell + i * (IF ship.vertical THEN Side ELSE 1) : i \in 0 .. Length[ship.id] - 1}

validFleet(ships, complete) ==
    /\ complete => {s.id : s \in ships} = Ships
    /\ \A s \in ships :
         /\ s.id \in Ships /\ cells(s) \subseteq Cells
         /\ ~s.vertical => \A c \in cells(s) : c \div Side = s.cell \div Side
         /\ \A t \in ships \ {s} : t.id # s.id /\ cells(t) \cap cells(s) = {}

sunk(ship, shots) == \A c \in cells(ship) : [cell |-> c, hit |-> TRUE] \in shots

-----------------------------------------------------------------------------
(* The state of a match. *)

newState(a, b, first) ==
    [revision |-> 0, players |-> [p \in Seats |-> IF p = 0 THEN a ELSE b],
     ships |-> [p \in Seats |-> {}], ready |-> [p \in Seats |-> FALSE],
     shots |-> [p \in Seats |-> {}], phase |-> "placement",
     first |-> first, turn |-> first, winner |-> Nil, endOffer |-> Nil,
     rematch |-> [p \in Seats |-> FALSE], next |-> Nil]

States ==
    [revision : Nat, players : [Seats -> Players],
     ships : [Seats -> Fleets \cup {{}}], ready : [Seats -> BOOLEAN],
     shots : [Seats -> SUBSET [cell : Cells, hit : BOOLEAN]],
     phase : {"placement", "battle", "finished", "cancelled"},
     first : Seats, turn : Seats,
     winner : Players \cup {Nil}, endOffer : Players \cup {Nil},
     rematch : [Seats -> BOOLEAN], next : Matches \cup {Nil}]

\* NULL is no value of a column, and every ship has a cell.
ASSUME FleetAssumption ==
    /\ Nil \notin Players \cup Matches \cup States
    /\ Length \in [Ships -> Nat \ {0}]

player(s, u) == CHOOSE p \in Seats : s.players[p] = u
Ended(s) == s.phase \in {"finished", "cancelled"}

\* The ships of the enemy that p is shown.
Visible(s, p) == {ship \in s.ships[1 - p] : Ended(s) \/ sunk(ship, s.shots[p])}

Actions ==
    {[kind |-> k, ships |-> f, cell |-> 0] : k \in {"save", "ready"}, f \in Fleets}
    \cup {[kind |-> "fire", ships |-> {}, cell |-> c] : c \in Cells}
    \cup {[kind |-> k, ships |-> {}, cell |-> 0] :
            k \in {"cancel", "resign", "offer_end", "decline_end", "rematch"}}

\* Mutant: a fleet that is ready may be saved once more.
ValidUnlocked(s, p, a) ==
    CASE a.kind \in {"save", "ready"} ->
            s.phase = "placement" /\ validFleet(a.ships, a.kind = "ready")
      [] a.kind = "fire" ->
            /\ s.phase = "battle" /\ s.turn = p
            /\ \A shot \in s.shots[p] : shot.cell # a.cell
      [] a.kind = "cancel" -> s.phase = "placement"
      [] a.kind = "resign" -> s.phase = "battle"
      [] a.kind = "offer_end" -> s.phase = "battle" /\ s.endOffer # s.players[p]
      [] a.kind = "decline_end" -> s.phase = "battle" /\ s.endOffer # Nil
      [] a.kind = "rematch" -> Ended(s) /\ ~s.rematch[p]

\* apply fails with ErrInvalid otherwise.
Valid(s, p, a) ==
    CASE a.kind \in {"save", "ready"} ->
            /\ s.phase = "placement" /\ ~s.ready[p]
            /\ validFleet(a.ships, a.kind = "ready")
      [] a.kind = "fire" ->
            /\ s.phase = "battle" /\ s.turn = p
            /\ \A shot \in s.shots[p] : shot.cell # a.cell
      [] a.kind = "cancel" -> s.phase = "placement"
      [] a.kind = "resign" -> s.phase = "battle"
      [] a.kind = "offer_end" -> s.phase = "battle" /\ s.endOffer # s.players[p]
      [] a.kind = "decline_end" -> s.phase = "battle" /\ s.endOffer # Nil
      [] a.kind = "rematch" -> Ended(s) /\ ~s.rematch[p]

Won(s, p) == [s EXCEPT !.phase = "finished", !.winner = s.players[p], !.endOffer = Nil]

\* Placing, and the battle that begins when both are ready.
Placed(s, p, a) ==
    LET ready == [s.ready EXCEPT ![p] = (a.kind = "ready")]
    IN  [s EXCEPT !.ships[p] = a.ships, !.ready = ready,
                  !.phase = IF \A q \in Seats : ready[q] THEN "battle" ELSE @]

\* Mutant: a hit is followed by another shot.
FiredAgain(s, p, c) ==
    LET hit == \E ship \in s.ships[1 - p] : c \in cells(ship)
        fired == [s EXCEPT !.shots[p] = @ \cup {[cell |-> c, hit |-> hit]},
                           !.turn = IF hit THEN p ELSE 1 - p]
    IN  IF \A ship \in s.ships[1 - p] : sunk(ship, fired.shots[p])
        THEN Won(fired, p) ELSE fired

\* Mutant: the last shot does not count.
FiredLate(s, p, c) ==
    LET hit == \E ship \in s.ships[1 - p] : c \in cells(ship)
        fired == [s EXCEPT !.shots[p] = @ \cup {[cell |-> c, hit |-> hit]},
                           !.turn = 1 - p]
    IN  IF \A ship \in s.ships[1 - p] : sunk(ship, s.shots[p])
        THEN Won(fired, p) ELSE fired

\* A shot passes the turn on, hit or miss, and may be the last.
Fired(s, p, c) ==
    LET hit == \E ship \in s.ships[1 - p] : c \in cells(ship)
        fired == [s EXCEPT !.shots[p] = @ \cup {[cell |-> c, hit |-> hit]},
                           !.turn = 1 - p]
    IN  IF \A ship \in s.ships[1 - p] : sunk(ship, fired.shots[p])
        THEN Won(fired, p) ELSE fired

apply(s, p, a) ==
    CASE a.kind \in {"save", "ready"} -> Placed(s, p, a)
      [] a.kind = "fire" -> Fired(s, p, a.cell)
      [] a.kind = "cancel" -> [s EXCEPT !.phase = "cancelled"]
      [] a.kind = "resign" -> Won(s, 1 - p)
      [] a.kind = "offer_end" ->
            IF s.endOffer # Nil
            THEN [s EXCEPT !.phase = "cancelled", !.endOffer = Nil]
            ELSE [s EXCEPT !.endOffer = s.players[p]]
      [] a.kind = "decline_end" -> [s EXCEPT !.endOffer = Nil]
      [] a.kind = "rematch" -> [s EXCEPT !.rematch[p] = TRUE]

-----------------------------------------------------------------------------
(* Requests. *)

BattleInit ==
    /\ matches = [m \in Matches |-> Nil]
    /\ ledger = [m \in Matches |-> Nil]

\* An id that is taken is left alone: by a repeat, or by ErrConflict.
Create(u, m, opponent) ==
    /\ m \in Chosen /\ u # opponent
    /\ matches[m] = Nil
    /\ \E coin \in Seats : matches' = [matches EXCEPT ![m] = newState(u, opponent, coin)]
    /\ UNCHANGED ledger

Member(u, m) == matches[m] # Nil /\ \E p \in Seats : matches[m].players[p] = u

Known(m, x) == x = "watched" /\ ledger[m] # Nil

\* Mutant: the revision is looked at before the ledger.
AnswerByRevision(u, m, x, revision, a) ==
    CASE ~Member(u, m) -> "not_found"
      [] Member(u, m) /\ revision # matches[m].revision -> "conflict"
      [] Member(u, m) /\ revision = matches[m].revision ->
            IF Valid(matches[m], player(matches[m], u), a) THEN "view" ELSE "invalid"

\* How a request is answered: a view of the match, or an error.
Answer(u, m, x, revision, a) ==
    CASE ~Member(u, m) -> "not_found"
      [] Member(u, m) /\ Known(m, x) ->
            IF ledger[m] = [actor |-> u, revision |-> revision, action |-> a]
            THEN "view" ELSE "conflict"
      [] Member(u, m) /\ ~Known(m, x) ->
            IF revision # matches[m].revision THEN "conflict"
            ELSE IF Valid(matches[m], player(matches[m], u), a) THEN "view"
            ELSE "invalid"

\* Mutant: the same player begins again.
UpdatedSameFirst(m, p, a) ==
    LET s == apply(matches[m], p, a)
        row == [s EXCEPT !.revision = @ + 1]
    IN  IF s.next = Nil /\ \A q \in Seats : s.rematch[q]
        THEN {[matches EXCEPT ![m] = [row EXCEPT !.next = n],
                              ![n] = newState(s.players[0], s.players[1], s.first)] :
                n \in {k \in Matches \ Chosen : matches[k] = Nil}}
        ELSE {[matches EXCEPT ![m] = row]}

\* The match after action a, and the one that follows it when both have asked.
Updated(m, p, a) ==
    LET s == apply(matches[m], p, a)
        row == [s EXCEPT !.revision = @ + 1]
    IN  IF s.next = Nil /\ \A q \in Seats : s.rematch[q]
        THEN {[matches EXCEPT ![m] = [row EXCEPT !.next = n],
                              ![n] = newState(s.players[0], s.players[1], 1 - s.first)] :
                n \in {k \in Matches \ Chosen : matches[k] = Nil}}
        ELSE {[matches EXCEPT ![m] = row]}

Act(u, m, x, a) ==
    /\ Member(u, m)
    /\ ~Known(m, x)
    /\ matches[m].revision < MaxRevision[m]
    /\ LET p == player(matches[m], u) IN
       Valid(matches[m], p, a) /\ matches' \in Updated(m, p, a)
    /\ ledger' = IF x = "fresh" THEN ledger
                 ELSE [ledger EXCEPT ![m] = [actor |-> u, action |-> a,
                                             revision |-> matches[m].revision]]

BattleNext ==
    \E u \in Players, m \in Matches :
        \/ \E opponent \in Players : Create(u, m, opponent)
        \/ \E x \in ActionIds, a \in Actions : Act(u, m, x, a)

BattleSpec == BattleInit /\ [][BattleNext]_battleVars

-----------------------------------------------------------------------------
(* Properties. *)

Rows == {matches[m] : m \in {k \in Matches : matches[k] # Nil}}

\* An action whose answer was lost can be repeated at any later time, whatever
\* has become of the match, and is answered as done (service.go:109-120).
RetryAnswered ==
    \A m \in Matches : ledger[m] # Nil =>
        Answer(ledger[m].actor, m, "watched", ledger[m].revision, ledger[m].action) = "view"

\* One shot each, in turn, from the first player on, in spite of offers,
\* refusals and retries in between.
ShotsAlternate ==
    \A s \in Rows :
        LET lead == Cardinality(s.shots[s.first]) - Cardinality(s.shots[1 - s.first])
        IN  /\ lead \in {0, 1}
            /\ (s.turn = s.first) = (lead = 0)

\* A fleet that is ready is never moved again, to the end of the match.
FleetsFrozen ==
    [][\A m \in Matches, p \in Seats :
          matches[m] # Nil /\ matches[m].ready[p] =>
            /\ matches'[m].ready[p]
            /\ matches'[m].ships[p] = matches[m].ships[p]]_matches

\* An end is final, and the battle goes on for as long as both fleets float.
OutcomeStands ==
    [][\A m \in Matches : matches[m] # Nil =>
          LET s == matches[m]
              t == matches'[m]
              Lost(r, p) == r.ships[p] # {} /\ \A ship \in r.ships[p] :
                               cells(ship) \subseteq {x.cell : x \in r.shots[1 - p]}
          IN  /\ Ended(s) => t.phase = s.phase /\ t.winner = s.winner /\ t.shots = s.shots
              /\ t.phase = "battle" => \A p \in Seats : ~Lost(t, p)]_matches

\* Two players who both ask again get one match more, with the other to begin;
\* no match is the sequel of two.
OneRematch ==
    \A m \in Matches : matches[m] # Nil =>
        LET s == matches[m] IN
        /\ (s.next # Nil) = (s.rematch[0] /\ s.rematch[1])
        /\ s.next # Nil =>
             /\ matches[s.next].first = 1 - s.first
             /\ matches[s.next].players = s.players
             /\ \A k \in Matches \ {m} : matches[k] = Nil \/ matches[k].next # s.next

\* Whose turn it is, in the match and in the one after it, and that an action
\* that was carried out is answered as done.
FleetTurnsKept == ShotsAlternate /\ OneRematch /\ RetryAnswered

\* What is ready, and what is over, stands.
FleetHistoryStands == FleetsFrozen /\ OutcomeStands
=============================================================================
