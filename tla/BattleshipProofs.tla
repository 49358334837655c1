--------------------------- MODULE BattleshipProofs ---------------------------
(***************************************************************************)
(* Theorems about Battleship for any players, matches, board and fleets.   *)
(* A row is reasoned about as a value: what apply makes of it, and what    *)
(* that keeps true.                                                        *)
(***************************************************************************)
EXTENDS Battleship, FiniteSetTheorems, TLAPS

-----------------------------------------------------------------------------
(* What an action writes.                                                  *)
LEMMA StateColumns ==
    ASSUME NEW s \in States
    PROVE  /\ s = [revision |-> s.revision, players |-> s.players,
                   ships |-> s.ships, ready |-> s.ready, shots |-> s.shots,
                   phase |-> s.phase, first |-> s.first, turn |-> s.turn,
                   winner |-> s.winner, endOffer |-> s.endOffer,
                   rematch |-> s.rematch, next |-> s.next]
           /\ s.revision \in Nat /\ s.players \in [Seats -> Players]
           /\ s.ships \in [Seats -> Fleets \cup {{}}] /\ s.ready \in [Seats -> BOOLEAN]
           /\ s.shots \in [Seats -> SUBSET [cell : Cells, hit : BOOLEAN]]
           /\ s.phase \in {"placement", "battle", "finished", "cancelled"}
           /\ s.first \in Seats /\ s.turn \in Seats
           /\ s.winner \in Players \cup {Nil} /\ s.endOffer \in Players \cup {Nil}
           /\ s.rematch \in [Seats -> BOOLEAN] /\ s.next \in Matches \cup {Nil}
BY DEF States

ActionKinds == {"save", "ready", "fire", "cancel", "resign", "offer_end",
                "decline_end", "rematch"}

LEMMA ActionType ==
    ASSUME NEW a \in Actions
    PROVE  /\ a.kind \in ActionKinds
           /\ a.kind = "fire" => a.cell \in Cells
           /\ a.kind \in {"save", "ready"} => a.ships \in Fleets
<1>1. ASSUME NEW k \in {"save", "ready"}, NEW f \in Fleets,
             a = [kind |-> k, ships |-> f, cell |-> 0]
      PROVE  /\ a.kind \in ActionKinds
             /\ a.kind = "fire" => a.cell \in Cells
             /\ a.kind \in {"save", "ready"} => a.ships \in Fleets
  BY <1>1 DEF ActionKinds
<1>2. ASSUME NEW c \in Cells, a = [kind |-> "fire", ships |-> {}, cell |-> c]
      PROVE  a.kind \in ActionKinds /\ a.kind = "fire" /\ a.cell \in Cells
  BY <1>2 DEF ActionKinds
<1>3. ASSUME NEW k \in {"cancel", "resign", "offer_end", "decline_end", "rematch"},
             a = [kind |-> k, ships |-> {}, cell |-> 0]
      PROVE  a.kind \in ActionKinds \ {"fire", "save", "ready"}
  BY <1>3 DEF ActionKinds
<1> QED BY <1>1, <1>2, <1>3 DEF Actions

LEMMA Sides ==
    ASSUME NEW p \in Seats
    PROVE  1 - p \in Seats /\ 1 - p # p /\ 1 - (1 - p) = p
           /\ \A q \in Seats : q = p \/ q = 1 - p
BY DEF Seats

(* Columns that no action touches, and the ones each action may touch.     *)
Kept(s, t) ==
    /\ t \in States /\ t.revision = s.revision
    /\ t.players = s.players /\ t.first = s.first /\ t.next = s.next

SameFleets(s, t) == t.ships = s.ships /\ t.ready = s.ready
SameVotes(s, t) == t.rematch = s.rematch
SameEnd(s, t) == Ended(s) => t.phase = s.phase /\ t.winner = s.winner

LEMMA WonWrites ==
    ASSUME NEW s \in States, NEW p \in Seats
    PROVE  /\ Kept(s, Won(s, p)) /\ Won(s, p).phase = "finished"
           /\ Won(s, p).winner = s.players[p]
           /\ Won(s, p).ships = s.ships /\ Won(s, p).ready = s.ready
           /\ Won(s, p).shots = s.shots /\ Won(s, p).turn = s.turn
           /\ Won(s, p).rematch = s.rematch
<1>1. s.players[p] \in Players
  BY StateColumns
<1>2. Won(s, p) \in States
  BY <1>1 DEF Won, States
<1> QED BY <1>2, StateColumns DEF Won, Kept

Shot(s, p, c) ==
    [cell |-> c, hit |-> \E ship \in s.ships[1 - p] : c \in cells(ship)]

LEMMA FiredWrites ==
    ASSUME NEW s \in States, NEW p \in Seats, NEW c \in Cells,
           NEW t, t = Fired(s, p, c)
    PROVE  /\ Kept(s, t) /\ SameFleets(s, t)
           /\ SameVotes(s, t) /\ t.turn = 1 - p
           /\ t.shots = [s.shots EXCEPT ![p] = @ \cup {Shot(s, p, c)}]
           /\ \/ t.phase = "finished"
              \/ /\ t.phase = s.phase /\ t.winner = s.winner
                 /\ ~\A ship \in s.ships[1 - p] : sunk(ship, t.shots[p])
<1> DEFINE x == Shot(s, p, c)
           f == [s EXCEPT !.shots[p] = @ \cup {x}, !.turn = 1 - p]
<1>1. x \in [cell : Cells, hit : BOOLEAN]
  BY DEF Shot
<1>2. 1 - p \in Seats
  BY Sides
<1>3. Fired(s, p, c) = IF \A ship \in s.ships[1 - p] : sunk(ship, f.shots[p])
                       THEN Won(f, p) ELSE f
  BY DEF Fired, Shot
<1> HIDE DEF x
<1>4. [s.shots EXCEPT ![p] = @ \cup {x}] \in [Seats -> SUBSET [cell : Cells, hit : BOOLEAN]]
  BY <1>1, StateColumns
<1>5. f = [s EXCEPT !.shots = [s.shots EXCEPT ![p] = @ \cup {x}], !.turn = 1 - p]
  BY StateColumns
<1>6. f \in States
  BY <1>2, <1>4, <1>5 DEF States
<1>7. /\ Kept(s, f) /\ f.ships = s.ships /\ f.ready = s.ready
      /\ f.rematch = s.rematch /\ f.turn = 1 - p
      /\ f.shots = [s.shots EXCEPT ![p] = @ \cup {x}]
      /\ f.phase = s.phase /\ f.winner = s.winner
  BY <1>6, StateColumns DEF Kept
<1> HIDE DEF f
<1>8. CASE \A ship \in s.ships[1 - p] : sunk(ship, f.shots[p])
  <2>1. Fired(s, p, c) = Won(f, p)
    BY <1>3, <1>8
  <2>2. /\ Kept(f, Won(f, p)) /\ Won(f, p).phase = "finished"
        /\ Won(f, p).ships = f.ships /\ Won(f, p).ready = f.ready
        /\ Won(f, p).shots = f.shots /\ Won(f, p).turn = f.turn
        /\ Won(f, p).rematch = f.rematch
    BY <1>6, WonWrites
  <2> QED BY <1>7, <2>1, <2>2 DEF Kept, SameFleets, SameVotes, x
<1>9. CASE ~\A ship \in s.ships[1 - p] : sunk(ship, f.shots[p])
  BY <1>3, <1>7, <1>9 DEF SameFleets, SameVotes, x
<1> QED BY <1>8, <1>9

LEMMA PlacedWrites ==
    ASSUME NEW s \in States, NEW p \in Seats, NEW a \in Actions, a.kind \in {"save", "ready"},
           NEW t, t = Placed(s, p, a)
    PROVE  /\ Kept(s, t) /\ t.shots = s.shots /\ t.turn = s.turn /\ SameVotes(s, t)
           /\ t.winner = s.winner
           /\ t.ships = [s.ships EXCEPT ![p] = a.ships]
           /\ t.ready[p] <=> a.kind = "ready"
           /\ \A q \in Seats \ {p} : t.ready[q] = s.ready[q]
           /\ \/ t.phase = s.phase /\ ~\A q \in Seats : t.ready[q]
              \/ t.phase = "battle" /\ \A q \in Seats : t.ready[q]
<1> DEFINE ready == [s.ready EXCEPT ![p] = (a.kind = "ready")]
           ships == [s.ships EXCEPT ![p] = a.ships]
           phase == IF \A q \in Seats : ready[q] THEN "battle" ELSE s.phase
           r == [s EXCEPT !.ships = ships, !.ready = ready, !.phase = phase]
<1>1. Placed(s, p, a) = r
  BY StateColumns DEF Placed
<1>2. ready \in [Seats -> BOOLEAN] /\ ships \in [Seats -> Fleets \cup {{}}]
  BY ActionType, StateColumns
<1>3. phase \in {"placement", "battle", "finished", "cancelled"}
  BY StateColumns
<1>4. \/ phase = s.phase /\ ~\A q \in Seats : ready[q]
      \/ phase = "battle" /\ \A q \in Seats : ready[q]
  <2>1. CASE \A q \in Seats : ready[q]
    BY <2>1
  <2>2. CASE ~\A q \in Seats : ready[q]
    BY <2>2
  <2> HIDE DEF ready
  <2> QED BY <2>1, <2>2
<1>4a. /\ ready[p] <=> a.kind = "ready"
       /\ \A q \in Seats \ {p} : ready[q] = s.ready[q]
  BY StateColumns
<1> HIDE DEF ready, ships, phase
<1>5. r \in States
  BY <1>2, <1>3 DEF States
<1>6. /\ r.ships = ships /\ r.ready = ready /\ r.phase = phase
      /\ Kept(s, r) /\ r.shots = s.shots /\ r.turn = s.turn /\ r.rematch = s.rematch
      /\ r.winner = s.winner
  BY <1>5, StateColumns DEF Kept
<1> HIDE DEF r
<1> QED BY <1>1, <1>4, <1>4a, <1>6 DEF ships, SameVotes

(* The other actions write neither fleets nor shots.                       *)
Untouched(s, t) ==
    t.shots = s.shots /\ t.turn = s.turn /\ SameFleets(s, t)

LEMMA OtherWrites ==
    ASSUME NEW s \in States, NEW p \in Seats, NEW a \in Actions,
           a.kind \notin {"save", "ready", "fire"}, Valid(s, p, a),
           NEW t, t = apply(s, p, a)
    PROVE  /\ Kept(s, t) /\ Untouched(s, t)
           /\ t.phase = s.phase \/ t.phase \in {"finished", "cancelled"}
           /\ SameEnd(s, t)
           /\ a.kind # "rematch" => SameVotes(s, t)
           /\ a.kind = "rematch" =>
                 ~s.rematch[p] /\ t.rematch = [s.rematch EXCEPT ![p] = TRUE]
<1>0. a.kind \in {"cancel", "resign", "offer_end", "decline_end", "rematch"}
  BY ActionType DEF ActionKinds
<1>1. CASE a.kind = "cancel"
  <2> DEFINE e == [s EXCEPT !.phase = "cancelled"]
  <2>1. apply(s, p, a) = e /\ ~Ended(s)
    BY <1>1 DEF apply, Valid, Ended
  <2>2. e \in States
    BY DEF States
  <2> QED BY <1>1, <2>1, <2>2, StateColumns DEF Kept, Untouched, SameFleets, SameEnd, SameVotes
<1>2. CASE a.kind = "resign"
  <2>1. apply(s, p, a) = Won(s, 1 - p) /\ ~Ended(s)
    BY <1>2 DEF apply, Valid, Ended
  <2> QED BY <1>2, <2>1, Sides, WonWrites DEF Untouched, SameFleets, SameEnd, SameVotes
<1>3. CASE a.kind = "offer_end"
  <2> DEFINE e == [s EXCEPT !.phase = "cancelled", !.endOffer = Nil]
             r == [s EXCEPT !.endOffer = s.players[p]]
  <2>1. apply(s, p, a) \in {e, r} /\ ~Ended(s)
    BY <1>3 DEF apply, Valid, Ended
  <2>2. e \in States
    BY DEF States
  <2>3. s.players[p] \in Players
    BY StateColumns
  <2>4. r \in States
    BY <2>3 DEF States
  <2>5. CASE apply(s, p, a) = e
    BY <1>3, <2>1, <2>2, <2>5, StateColumns DEF Kept, Untouched, SameFleets, SameEnd, SameVotes
  <2>6. CASE apply(s, p, a) = r
    BY <1>3, <2>1, <2>4, <2>6, StateColumns DEF Kept, Untouched, SameFleets, SameEnd, SameVotes
  <2> QED BY <2>1, <2>5, <2>6
<1>4. CASE a.kind = "decline_end"
  <2> DEFINE e == [s EXCEPT !.endOffer = Nil]
  <2>1. apply(s, p, a) = e /\ ~Ended(s)
    BY <1>4 DEF apply, Valid, Ended
  <2>2. e \in States
    BY DEF States
  <2> QED BY <1>4, <2>1, <2>2, StateColumns DEF Kept, Untouched, SameFleets, SameEnd, SameVotes
<1>5. CASE a.kind = "rematch"
  <2> DEFINE again == [s.rematch EXCEPT ![p] = TRUE]
             e == [s EXCEPT !.rematch = again]
  <2>1. apply(s, p, a) = e /\ ~s.rematch[p]
    BY <1>5, StateColumns DEF apply, Valid
  <2>2. again \in [Seats -> BOOLEAN]
    BY StateColumns
  <2> HIDE DEF again
  <2>3. e \in States
    BY <2>2 DEF States
  <2>4. /\ Kept(s, e) /\ e.shots = s.shots /\ e.turn = s.turn /\ e.ships = s.ships
        /\ e.ready = s.ready /\ e.phase = s.phase /\ e.winner = s.winner /\ e.rematch = again
    BY <2>3, StateColumns DEF Kept, Untouched, SameFleets, SameEnd, SameVotes
  <2> HIDE DEF e
  <2> QED BY <1>5, <2>1, <2>4 DEF again, Untouched, SameFleets, SameEnd, SameVotes
<1> QED BY <1>0, <1>1, <1>2, <1>3, <1>4, <1>5

-----------------------------------------------------------------------------
(* What a step does to the matches.                                        *)
Entries == [actor : Players, action : Actions, revision : Nat]

TypeInv ==
    /\ matches \in [Matches -> States \cup {Nil}]
    /\ ledger \in [Matches -> Entries \cup {Nil}]

LEMMA NewState ==
    ASSUME NEW u \in Players, NEW v \in Players, NEW c \in Seats,
           NEW s, s = newState(u, v, c)
    PROVE  /\ s \in States /\ s.first = c /\ s.turn = c /\ s.next = Nil
           /\ s.phase = "placement"
           /\ s.players[0] = u /\ s.players[1] = v
           /\ \A p \in Seats : /\ s.ships[p] = {} /\ ~s.ready[p]
                               /\ s.shots[p] = {} /\ ~s.rematch[p]
<1> DEFINE players == [p \in Seats |-> IF p = 0 THEN u ELSE v]
           none == [p \in Seats |-> {}]
           not == [p \in Seats |-> FALSE]
<1>1. /\ players \in [Seats -> Players] /\ players[0] = u /\ players[1] = v
      /\ none \in [Seats -> {{}}] /\ not \in [Seats -> BOOLEAN]
      /\ \A p \in Seats : none[p] = {} /\ ~not[p]
  BY DEF Seats
<1>2. s = [revision |-> 0, players |-> players, ships |-> none, ready |-> not,
           shots |-> none, phase |-> "placement", first |-> c, turn |-> c,
           winner |-> Nil, endOffer |-> Nil, rematch |-> not, next |-> Nil]
  BY DEF newState
<1> HIDE DEF players, none, not
<1>3. s \in States
  BY <1>1, <1>2 DEF States
<1> QED BY <1>1, <1>2, <1>3

LEMMA ApplyKept ==
    ASSUME NEW s \in States, NEW p \in Seats, NEW a \in Actions, Valid(s, p, a)
    PROVE  Kept(s, apply(s, p, a))
<1>1. CASE a.kind \in {"save", "ready"}
  BY <1>1, PlacedWrites DEF apply
<1>2. CASE a.kind = "fire"
  BY <1>2, FiredWrites, ActionType DEF apply
<1>3. CASE a.kind \notin {"save", "ready", "fire"}
  BY <1>3, OtherWrites
<1> QED BY <1>1, <1>2, <1>3

(* The row that is stored is what apply makes, numbered, and perhaps with  *)
(* a sequel.                                                               *)
Stored(t, r) ==
    /\ r \in States
    /\ r.players = t.players /\ r.ships = t.ships /\ r.ready = t.ready
    /\ r.shots = t.shots /\ r.phase = t.phase /\ r.first = t.first
    /\ r.turn = t.turn /\ r.winner = t.winner /\ r.rematch = t.rematch

BothAgain(s) == \A p \in Seats : s.rematch[p]

Numbered(t) == [t EXCEPT !.revision = @ + 1]
Followed(t, n) == [Numbered(t) EXCEPT !.next = n]

LEMMA StoredRow ==
    ASSUME NEW t \in States, NEW n \in Matches
    PROVE  /\ Stored(t, Numbered(t)) /\ Numbered(t).next = t.next
           /\ Stored(t, Followed(t, n)) /\ Followed(t, n).next = n
<1>1. t.revision + 1 \in Nat
  BY StateColumns
<1> DEFINE r == [t EXCEPT !.revision = t.revision + 1]
<1>2. r \in States
  BY <1>1 DEF States
<1>3. [r EXCEPT !.next = n] \in States
  BY <1>2 DEF States
<1>4. Stored(t, r) /\ r.next = t.next
  BY <1>2, StateColumns DEF Stored
<1>5. Stored(t, [r EXCEPT !.next = n]) /\ [r EXCEPT !.next = n].next = n
  BY <1>3, StateColumns DEF Stored
<1> QED BY <1>4, <1>5 DEF Numbered, Followed

(* An action, the row it stores, and the match it begins if both ask.      *)
ActsOn(m, p, a, t) ==
    /\ m \in Matches /\ p \in Seats /\ a \in Actions
    /\ matches[m] \in States /\ Valid(matches[m], p, a) /\ t = apply(matches[m], p, a)
    /\ \/ /\ ~(t.next = Nil /\ BothAgain(t))
          /\ Stored(t, matches'[m]) /\ matches'[m].next = t.next
          /\ \A k \in Matches \ {m} : matches'[k] = matches[k]
       \/ /\ t.next = Nil /\ BothAgain(t)
          /\ \E n \in Matches \ {m} :
               /\ matches[n] = Nil
               /\ Stored(t, matches'[m]) /\ matches'[m].next = n
               /\ matches'[n] = newState(t.players[0], t.players[1], 1 - t.first)
               /\ \A k \in Matches \ {m, n} : matches'[k] = matches[k]

LEMMA ActStep ==
    ASSUME TypeInv, NEW u \in Players, NEW m \in Matches, NEW x,
           NEW a \in Actions, Act(u, m, x, a)
    PROVE  \E p \in Seats, t \in States : ActsOn(m, p, a, t)
<1> DEFINE p == player(matches[m], u)
           t == apply(matches[m], p, a)
<1>1. matches[m] \in States /\ matches[m] # Nil
  BY DEF Act, Member, TypeInv
<1>2. p \in Seats
  BY DEF Act, Member, player
<1>3. Valid(matches[m], p, a) /\ matches' \in Updated(m, p, a)
  BY DEF Act
<1> HIDE DEF p
<1>4. t \in States
  BY <1>1, <1>2, <1>3, ApplyKept DEF Kept
<1>5. CASE ~(t.next = Nil /\ BothAgain(t))
  <2>1. matches' = [matches EXCEPT ![m] = Numbered(t)]
    BY <1>3, <1>5 DEF Updated, BothAgain, Numbered
  <2>2. matches'[m] = Numbered(t)
        /\ \A k \in Matches \ {m} : matches'[k] = matches[k]
    BY <2>1 DEF TypeInv
  <2> HIDE DEF t
  <2>3. Stored(t, matches'[m]) /\ matches'[m].next = t.next
    BY <1>4, <2>2, StoredRow
  <2>4. t = apply(matches[m], p, a)
    BY DEF t
  <2>5. ActsOn(m, p, a, t)
    BY <1>1, <1>2, <1>3, <1>5, <2>2, <2>3, <2>4 DEF ActsOn
  <2> QED BY <1>2, <1>4, <2>5
<1>6. CASE t.next = Nil /\ BothAgain(t)
  <2>1. PICK n \in {k \in Matches \ Chosen : matches[k] = Nil} :
            matches' = [matches EXCEPT ![m] = Followed(t, n),
                                       ![n] = newState(t.players[0], t.players[1], 1 - t.first)]
    BY <1>3, <1>6 DEF Updated, BothAgain, Numbered, Followed
  <2>2. n \in Matches \ {m} /\ matches[n] = Nil
    BY <1>1
  <2>3. /\ matches'[m] = Followed(t, n)
        /\ matches'[n] = newState(t.players[0], t.players[1], 1 - t.first)
        /\ \A k \in Matches \ {m, n} : matches'[k] = matches[k]
    BY <2>1, <2>2 DEF TypeInv
  <2> HIDE DEF t
  <2>4. Stored(t, matches'[m]) /\ matches'[m].next = n
    BY <1>4, <2>2, <2>3, StoredRow
  <2>5. t = apply(matches[m], p, a)
    BY DEF t
  <2>6. ActsOn(m, p, a, t)
    BY <1>1, <1>2, <1>3, <1>6, <2>2, <2>3, <2>4, <2>5 DEF ActsOn
  <2> QED BY <1>2, <1>4, <2>6
<1> QED BY <1>5, <1>6

(* The same, seen from one match.                                          *)
RowStep(k) ==
    \/ matches'[k] = matches[k]
    \/ /\ matches[k] = Nil
       /\ \E u, v \in Players, c \in Seats : matches'[k] = newState(u, v, c)
    \/ /\ matches[k] \in States
       /\ \E p \in Seats, a \in Actions :
            Valid(matches[k], p, a) /\ Stored(apply(matches[k], p, a), matches'[k])

LEMMA StepRows ==
    ASSUME TypeInv, [BattleNext]_battleVars
    PROVE  \A k \in Matches : RowStep(k)
<1> SUFFICES ASSUME NEW k \in Matches PROVE RowStep(k)
  OBVIOUS
<1>1. CASE UNCHANGED battleVars
  BY <1>1 DEF battleVars, RowStep
<1>2. ASSUME NEW u \in Players, NEW m \in Matches, NEW v \in Players, Create(u, m, v)
      PROVE  RowStep(k)
  <2>1. PICK c \in Seats : matches' = [matches EXCEPT ![m] = newState(u, v, c)]
    BY <1>2 DEF Create
  <2>2. CASE k = m
    BY <1>2, <2>1, <2>2 DEF Create, RowStep, TypeInv
  <2>3. CASE k # m
    BY <2>1, <2>3 DEF RowStep, TypeInv
  <2> QED BY <2>2, <2>3
<1>3. ASSUME NEW u \in Players, NEW m \in Matches, NEW x, NEW a \in Actions, Act(u, m, x, a)
      PROVE  RowStep(k)
  <2>1. PICK p \in Seats, t \in States : ActsOn(m, p, a, t)
    BY <1>3, ActStep
  <2>2. CASE k = m
    BY <2>1, <2>2 DEF ActsOn, RowStep
  <2>3. CASE k # m /\ matches'[k] = matches[k]
    BY <2>3 DEF RowStep
  <2>4. CASE /\ k # m /\ matches[k] = Nil
             /\ matches'[k] = newState(t.players[0], t.players[1], 1 - t.first)
    <3>1. t.players[0] \in Players /\ t.players[1] \in Players /\ 1 - t.first \in Seats
      BY StateColumns, Sides DEF Seats
    <3> QED BY <2>4, <3>1 DEF RowStep
  <2> QED BY <2>1, <2>2, <2>3, <2>4 DEF ActsOn
<1> QED BY <1>1, <1>2, <1>3 DEF BattleNext

LEMMA TypeStep ==
    ASSUME TypeInv, [BattleNext]_battleVars
    PROVE  TypeInv'
<1>1. \A k \in Matches : matches'[k] \in States \cup {Nil}
  <2> SUFFICES ASSUME NEW k \in Matches PROVE matches'[k] \in States \cup {Nil}
    OBVIOUS
  <2>1. RowStep(k) /\ matches[k] \in States \cup {Nil}
    BY StepRows DEF TypeInv
  <2>2. CASE \E u, v \in Players, c \in Seats : matches'[k] = newState(u, v, c)
    <3>1. PICK u, v \in Players, c \in Seats : matches'[k] = newState(u, v, c)
      BY <2>2
    <3> QED BY <3>1, NewState
  <2> QED BY <2>1, <2>2 DEF RowStep, Stored
<1>2. matches' = [k \in Matches |-> matches'[k]]
  <2>1. CASE UNCHANGED battleVars
    BY <2>1 DEF battleVars, TypeInv
  <2>2. ASSUME NEW u \in Players, NEW m \in Matches, NEW v \in Players, Create(u, m, v)
        PROVE  matches' = [k \in Matches |-> matches'[k]]
    BY <2>2 DEF Create, TypeInv
  <2>3. ASSUME NEW u \in Players, NEW m \in Matches, NEW x, NEW a \in Actions, Act(u, m, x, a)
        PROVE  matches' = [k \in Matches |-> matches'[k]]
    BY <2>3 DEF Act, Updated, TypeInv
  <2> QED BY <2>1, <2>2, <2>3 DEF BattleNext
<1>3. ledger' \in [Matches -> Entries \cup {Nil}]
  <2>1. CASE UNCHANGED battleVars
    BY <2>1 DEF battleVars, TypeInv
  <2>2. ASSUME NEW u \in Players, NEW m \in Matches, NEW v \in Players, Create(u, m, v)
        PROVE  ledger' \in [Matches -> Entries \cup {Nil}]
    BY <2>2 DEF Create, TypeInv
  <2>3. ASSUME NEW u \in Players, NEW m \in Matches, NEW x, NEW a \in Actions, Act(u, m, x, a)
        PROVE  ledger' \in [Matches -> Entries \cup {Nil}]
    <3>1. matches[m].revision \in Nat
      BY <2>3, StateColumns DEF Act, Member, TypeInv
    <3>2. [actor |-> u, action |-> a, revision |-> matches[m].revision] \in Entries
      BY <3>1 DEF Entries
    <3> QED BY <2>3, <3>2 DEF Act, TypeInv
  <2> QED BY <2>1, <2>2, <2>3 DEF BattleNext
<1> QED BY <1>1, <1>2, <1>3 DEF TypeInv

-----------------------------------------------------------------------------
(* What is true of every row.                                              *)
Lead(s) == Cardinality(s.shots[s.first]) - Cardinality(s.shots[1 - s.first])

InTurn(s) ==
    /\ \A p \in Seats : IsFiniteSet(s.shots[p])
    /\ Lead(s) \in {0, 1}
    /\ s.turn = s.first <=> Lead(s) = 0

(* Shots are marked as the fleets stand, fleets are afloat while the       *)
(* battle lasts, and nobody fires before.                                  *)
Marked(s) ==
    \A p \in Seats : \A x \in s.shots[p] :
        x.hit <=> \E ship \in s.ships[1 - p] : x.cell \in cells(ship)

Afloat(s) ==
    s.phase = "battle" =>
        \A p \in Seats : s.ships[p] # {} =>
            ~\A ship \in s.ships[p] : sunk(ship, s.shots[1 - p])

Quiet(s) == s.phase = "placement" => \A p \in Seats : s.shots[p] = {}

Lawful(s) == \A p \in Seats : \A ship \in s.ships[p] : ship.id \in Ships

RowInv(s) == InTurn(s) /\ Marked(s) /\ Afloat(s) /\ Quiet(s) /\ Lawful(s)

(* Nothing of this looks at the other columns.                             *)
LEMMA SameRow ==
    ASSUME NEW s \in States, NEW t \in States, RowInv(s),
           t.first = s.first, t.turn = s.turn, t.shots = s.shots, t.ships = s.ships,
           t.phase = s.phase \/ t.phase \notin {"placement", "battle"}
    PROVE  RowInv(t)
BY DEF RowInv, InTurn, Lead, Marked, Afloat, Quiet, Lawful

LEMMA NewRow ==
    ASSUME NEW u \in Players, NEW v \in Players, NEW c \in Seats
    PROVE  RowInv(newState(u, v, c))
<1> DEFINE s == newState(u, v, c)
<1>1. /\ s.first = c /\ s.turn = c /\ s.phase = "placement"
      /\ \A p \in Seats : s.ships[p] = {} /\ s.shots[p] = {}
  BY NewState
<1>2. 1 - c \in Seats
  BY Sides
<1> HIDE DEF s
<1>3. InTurn(s)
  <2>1. IsFiniteSet({}) /\ Cardinality({}) = 0
    BY FS_EmptySet
  <2>2. s.shots[s.first] = {} /\ s.shots[1 - s.first] = {}
    BY <1>1, <1>2
  <2>3. Lead(s) = 0
    BY <2>1, <2>2 DEF Lead
  <2> QED BY <1>1, <2>1, <2>3 DEF InTurn
<1>4. Marked(s) /\ Afloat(s) /\ Quiet(s) /\ Lawful(s)
  BY <1>1 DEF Marked, Afloat, Quiet, Lawful
<1> QED BY <1>3, <1>4 DEF RowInv, s

(* A ship that nobody has shot at is not sunk.                             *)
LEMMA ShipHasCells ==
    ASSUME NEW ship, ship.id \in Ships
    PROVE  ~sunk(ship, {})
<1>1. 0 \in 0 .. Length[ship.id] - 1
  BY FleetAssumption
<1>2. cells(ship) # {}
  BY <1>1 DEF cells
<1> QED BY <1>2 DEF sunk

LEMMA PlacedRow ==
    ASSUME NEW s \in States, NEW p \in Seats, NEW a \in Actions, RowInv(s),
           a.kind \in {"save", "ready"}, Valid(s, p, a)
    PROVE  RowInv(Placed(s, p, a))
<1> DEFINE t == Placed(s, p, a)
<1>1. /\ Kept(s, t) /\ t.shots = s.shots /\ t.turn = s.turn
      /\ t.ships = [s.ships EXCEPT ![p] = a.ships]
      /\ t.phase = s.phase \/ t.phase = "battle"
  BY PlacedWrites
<1>2. /\ s.phase = "placement" /\ \A ship \in a.ships : ship.id \in Ships
  BY DEF Valid, validFleet
<1>3. s.ships \in [Seats -> Fleets \cup {{}}]
  BY StateColumns
<1> HIDE DEF t
<1>4. \A q \in Seats : t.shots[q] = {}
  BY <1>1, <1>2 DEF RowInv, Quiet
<1>5. Lawful(t)
  BY <1>1, <1>2, <1>3 DEF RowInv, Lawful
<1>6. Afloat(t)
  <2> SUFFICES ASSUME NEW q \in Seats, t.ships[q] # {}
               PROVE  ~\A ship \in t.ships[q] : sunk(ship, t.shots[1 - q])
    BY DEF Afloat
  <2>1. PICK ship \in t.ships[q] : TRUE
    OBVIOUS
  <2>2. ~sunk(ship, {})
    BY <1>5, ShipHasCells DEF Lawful
  <2>3. t.shots[1 - q] = {}
    BY <1>4, Sides
  <2> QED BY <2>2, <2>3
<1>7. InTurn(t)
  BY <1>1 DEF RowInv, InTurn, Lead, Kept
<1>8. Marked(t) /\ Quiet(t)
  BY <1>4 DEF Marked, Quiet
<1> QED BY <1>5, <1>6, <1>7, <1>8 DEF RowInv, t

LEMMA FiredRow ==
    ASSUME NEW s \in States, NEW p \in Seats, NEW c \in Cells, RowInv(s),
           s.phase = "battle", s.turn = p, \A x \in s.shots[p] : x.cell # c
    PROVE  RowInv(Fired(s, p, c))
<1> DEFINE t == Fired(s, p, c)
           x == Shot(s, p, c)
<1>1. /\ Kept(s, t) /\ t.ships = s.ships /\ t.turn = 1 - p
      /\ t.shots = [s.shots EXCEPT ![p] = @ \cup {x}]
      /\ \/ t.phase = "finished"
         \/ /\ t.phase = s.phase
            /\ ~\A ship \in s.ships[1 - p] : sunk(ship, t.shots[p])
  BY FiredWrites DEF SameFleets
<1>2. x.cell = c /\ (x.hit <=> \E ship \in s.ships[1 - p] : c \in cells(ship))
  BY DEF Shot
<1>3. 1 - p \in Seats /\ 1 - p # p /\ \A q \in Seats : q = p \/ q = 1 - p
  BY Sides
<1>4. x \notin s.shots[p]
  BY <1>2
<1> HIDE DEF t, x
<1>5. t.shots[p] = s.shots[p] \cup {x} /\ t.shots[1 - p] = s.shots[1 - p]
  BY <1>1, <1>3, StateColumns
<1>6. InTurn(t)
  <2>1. IsFiniteSet(s.shots[p]) /\ IsFiniteSet(s.shots[1 - p])
    BY <1>3 DEF RowInv, InTurn
  <2>2. /\ IsFiniteSet(t.shots[p])
        /\ Cardinality(t.shots[p]) = Cardinality(s.shots[p]) + 1
    <3>1. /\ IsFiniteSet(s.shots[p] \cup {x})
          /\ Cardinality(s.shots[p] \cup {x}) = Cardinality(s.shots[p]) + 1
      BY ONLY <1>4, <2>1, FS_AddElement
    <3> QED BY <1>5, <3>1
  <2>3. Cardinality(s.shots[p]) \in Nat /\ Cardinality(s.shots[1 - p]) \in Nat
    BY <2>1, FS_CardinalityType
  <2>4. \A q \in Seats : IsFiniteSet(t.shots[q])
    BY <1>3, <1>5, <2>1, <2>2
  <2>5. t.first = s.first /\ s.first \in Seats
    BY <1>1, StateColumns DEF Kept
  <2>6. Lead(s) \in {0, 1} /\ (p = s.first <=> Lead(s) = 0)
    BY DEF RowInv, InTurn
  <2>7. CASE s.first = p
    <3>0. /\ Lead(t) = Cardinality(t.shots[p]) - Cardinality(t.shots[1 - p])
          /\ Lead(s) = Cardinality(s.shots[p]) - Cardinality(s.shots[1 - p])
      BY <2>5, <2>7 DEF Lead
    <3>1. Lead(t) = Lead(s) + 1 /\ Lead(s) = 0
      BY <1>5, <2>2, <2>3, <2>6, <2>7, <3>0
    <3> QED BY <1>1, <1>3, <2>4, <2>5, <2>7, <3>1 DEF InTurn
  <2>8. CASE s.first = 1 - p
    <3>1. 1 - (1 - p) = p
      BY Sides
    <3>1a. /\ Lead(t) = Cardinality(t.shots[1 - p]) - Cardinality(t.shots[p])
           /\ Lead(s) = Cardinality(s.shots[1 - p]) - Cardinality(s.shots[p])
      BY <2>5, <2>8, <3>1 DEF Lead
    <3>2. Lead(t) = Lead(s) - 1 /\ Lead(s) = 1
      BY <1>3, <1>5, <2>2, <2>3, <2>6, <2>8, <3>1a
    <3> QED BY <1>1, <1>3, <2>4, <2>5, <2>8, <3>2 DEF InTurn
  <2> QED BY <1>3, <2>5, <2>7, <2>8
<1>7. Marked(t)
  <2> SUFFICES ASSUME NEW q \in Seats, NEW y \in t.shots[q]
               PROVE  y.hit <=> \E ship \in s.ships[1 - q] : y.cell \in cells(ship)
    BY <1>1 DEF Marked
  <2> QED BY <1>2, <1>3, <1>5 DEF RowInv, Marked
<1>8. Afloat(t)
  <2> SUFFICES ASSUME t.phase = "battle", NEW q \in Seats, s.ships[q] # {}
               PROVE  ~\A ship \in s.ships[q] : sunk(ship, t.shots[1 - q])
    BY <1>1 DEF Afloat
  <2>1. CASE q = 1 - p
    BY <1>1, <2>1, Sides
  <2>2. CASE q = p
    BY <1>5, <2>2 DEF RowInv, Afloat
  <2> QED BY <1>3, <2>1, <2>2
<1>9. Quiet(t) /\ Lawful(t)
  BY <1>1 DEF RowInv, Quiet, Lawful
<1> QED BY <1>6, <1>7, <1>8, <1>9 DEF RowInv, t

LEMMA AppliedRow ==
    ASSUME NEW s \in States, NEW p \in Seats, NEW a \in Actions, RowInv(s),
           Valid(s, p, a)
    PROVE  RowInv(apply(s, p, a))
<1>1. CASE a.kind \in {"save", "ready"}
  BY <1>1, PlacedRow DEF apply
<1>2. CASE a.kind = "fire"
  <2>1. /\ s.phase = "battle" /\ s.turn = p /\ \A x \in s.shots[p] : x.cell # a.cell
        /\ a.cell \in Cells
    BY <1>2, ActionType DEF Valid
  <2>2. apply(s, p, a) = Fired(s, p, a.cell)
    BY <1>2 DEF apply
  <2> QED BY <2>1, <2>2, FiredRow
<1>3. CASE a.kind \notin {"save", "ready", "fire"}
  <2>0. PICK t : t = apply(s, p, a)
    OBVIOUS
  <2>1. /\ Kept(s, t) /\ Untouched(s, t)
        /\ t.phase = s.phase \/ t.phase \in {"finished", "cancelled"}
    BY <1>3, <2>0, OtherWrites
  <2>2. RowInv(t)
    BY <2>1, SameRow DEF Kept, Untouched, SameFleets
  <2> QED BY <2>0, <2>2
<1> QED BY <1>1, <1>2, <1>3

RowsInv == \A m \in Matches : matches[m] # Nil => RowInv(matches[m])

LEMMA RowsStep ==
    ASSUME TypeInv, RowsInv, [BattleNext]_battleVars
    PROVE  RowsInv'
<1> SUFFICES ASSUME NEW k \in Matches, matches'[k] # Nil PROVE RowInv(matches'[k])
  BY DEF RowsInv
<1>1. RowStep(k)
  BY StepRows
<1>2. CASE matches'[k] = matches[k]
  BY <1>2 DEF RowsInv
<1>3. CASE \E u, v \in Players, c \in Seats : matches'[k] = newState(u, v, c)
  BY <1>3, NewRow
<1>4. ASSUME matches[k] \in States, NEW p \in Seats, NEW a \in Actions,
             Valid(matches[k], p, a), Stored(apply(matches[k], p, a), matches'[k])
      PROVE  RowInv(matches'[k])
  <2>1. matches[k] # Nil
    BY <1>4, FleetAssumption
  <2>2. RowInv(apply(matches[k], p, a)) /\ apply(matches[k], p, a) \in States
    BY <1>4, <2>1, AppliedRow, ApplyKept DEF RowsInv, Kept
  <2> QED BY <1>4, <2>2, SameRow DEF Stored
<1> QED BY <1>1, <1>2, <1>3, <1>4 DEF RowStep

-----------------------------------------------------------------------------
(* What is ready stays, and what is over stays over.                       *)
Destroyed(r, p) ==
    r.ships[p] # {} /\ \A ship \in r.ships[p] :
        cells(ship) \subseteq {x.cell : x \in r.shots[1 - p]}

LEMMA NobodyLost ==
    ASSUME NEW t \in States, RowInv(t), t.phase = "battle", NEW p \in Seats
    PROVE  ~Destroyed(t, p)
<1> SUFFICES ASSUME Destroyed(t, p) PROVE FALSE
  OBVIOUS
<1>1. PICK ship \in t.ships[p] : ~sunk(ship, t.shots[1 - p])
  BY DEF RowInv, Afloat, Destroyed
<1>2. PICK c \in cells(ship) : [cell |-> c, hit |-> TRUE] \notin t.shots[1 - p]
  BY <1>1 DEF sunk
<1>3. PICK x \in t.shots[1 - p] : x.cell = c
  BY <1>2 DEF Destroyed
<1>4. 1 - p \in Seats /\ 1 - (1 - p) = p
  BY Sides
<1>5. x \in [cell : Cells, hit : BOOLEAN]
  BY <1>4, StateColumns
<1>6. x.hit
  BY <1>2, <1>3, <1>4 DEF RowInv, Marked
<1>7. x = [cell |-> c, hit |-> TRUE]
  BY <1>3, <1>5, <1>6
<1> QED BY <1>2, <1>7

Stands(s, r) ==
    /\ \A p \in Seats : s.ready[p] => r.ready[p] /\ r.ships[p] = s.ships[p]
    /\ Ended(s) => r.phase = s.phase /\ r.winner = s.winner /\ r.shots = s.shots

LEMMA AppliedStands ==
    ASSUME NEW s \in States, NEW p \in Seats, NEW a \in Actions, Valid(s, p, a)
    PROVE  Stands(s, apply(s, p, a))
<1>0. PICK t : t = apply(s, p, a)
  OBVIOUS
<1>1. CASE a.kind \in {"save", "ready"}
  <2>1. t = Placed(s, p, a)
    BY <1>0, <1>1 DEF apply
  <2>2. /\ t.ships = [s.ships EXCEPT ![p] = a.ships]
        /\ \A q \in Seats \ {p} : t.ready[q] = s.ready[q]
    BY <1>1, <2>1, PlacedWrites
  <2>3. ~Ended(s) /\ ~s.ready[p]
    BY <1>1 DEF Valid, Ended
  <2>4. \A q \in Seats : s.ready[q] => t.ready[q] /\ t.ships[q] = s.ships[q]
    BY <2>2, <2>3, StateColumns
  <2> QED BY <1>0, <2>3, <2>4 DEF Stands
<1>2. CASE a.kind = "fire"
  <2>1. t = Fired(s, p, a.cell) /\ a.cell \in Cells /\ ~Ended(s)
    BY <1>0, <1>2, ActionType DEF apply, Valid, Ended
  <2>2. SameFleets(s, t)
    BY <2>1, FiredWrites
  <2> QED BY <1>0, <2>1, <2>2 DEF Stands, SameFleets
<1>3. CASE a.kind \notin {"save", "ready", "fire"}
  <2>1. Untouched(s, t) /\ SameEnd(s, t)
    BY <1>0, <1>3, OtherWrites
  <2> QED BY <1>0, <2>1 DEF Stands, Untouched, SameFleets, SameEnd, SameVotes
<1> QED BY <1>1, <1>2, <1>3

FrozenRows ==
    \A m \in Matches, p \in Seats :
        matches[m] # Nil /\ matches[m].ready[p] =>
            matches'[m].ready[p] /\ matches'[m].ships[p] = matches[m].ships[p]

StandingRows ==
    \A m \in Matches : matches[m] # Nil =>
        /\ Ended(matches[m]) =>
             /\ matches'[m].phase = matches[m].phase
             /\ matches'[m].winner = matches[m].winner
             /\ matches'[m].shots = matches[m].shots
        /\ matches'[m].phase = "battle" => \A p \in Seats : ~Destroyed(matches'[m], p)

LEMMA HistoryStep ==
    ASSUME TypeInv, RowsInv, [BattleNext]_battleVars
    PROVE  FrozenRows /\ StandingRows
<1>1. TypeInv' /\ RowsInv'
  BY TypeStep, RowsStep
<1>2. ASSUME NEW m \in Matches, matches[m] # Nil
      PROVE  /\ Stands(matches[m], matches'[m])
             /\ matches'[m].phase = "battle" => \A p \in Seats : ~Destroyed(matches'[m], p)
  <2>1. matches[m] \in States
    BY <1>2 DEF TypeInv
  <2>2. Stands(matches[m], matches'[m]) /\ matches'[m] \in States
    <3>1. CASE matches'[m] = matches[m]
      BY <2>1, <3>1 DEF Stands
    <3>2. ASSUME NEW p \in Seats, NEW a \in Actions,
                 Valid(matches[m], p, a), Stored(apply(matches[m], p, a), matches'[m])
          PROVE  Stands(matches[m], matches'[m]) /\ matches'[m] \in States
      <4>1. Stands(matches[m], apply(matches[m], p, a))
        BY <2>1, <3>2, AppliedStands
      <4> QED BY <3>2, <4>1 DEF Stands, Stored
    <3> QED BY <1>2, <3>1, <3>2, StepRows DEF RowStep
  <2>3. matches'[m] # Nil
    BY <2>2, FleetAssumption
  <2>4. RowInv(matches'[m])
    BY <1>1, <2>3 DEF RowsInv
  <2> QED BY <2>2, <2>4, NobodyLost
<1>3. FrozenRows
  BY <1>2 DEF FrozenRows, Stands
<1>4. StandingRows
  BY <1>2 DEF StandingRows, Stands
<1> QED BY <1>3, <1>4

-----------------------------------------------------------------------------
(* A match that is there stays there, with its players.                    *)
LEMMA Lasting ==
    ASSUME TypeInv, [BattleNext]_battleVars, NEW k \in Matches, matches[k] # Nil
    PROVE  /\ matches'[k] # Nil /\ matches'[k].players = matches[k].players
           /\ matches'[k].first = matches[k].first
<1>1. matches[k] \in States
  BY DEF TypeInv
<1>2. CASE matches'[k] = matches[k]
  BY <1>2
<1>3. ASSUME NEW p \in Seats, NEW a \in Actions,
             Valid(matches[k], p, a), Stored(apply(matches[k], p, a), matches'[k])
      PROVE  /\ matches'[k] # Nil /\ matches'[k].players = matches[k].players
             /\ matches'[k].first = matches[k].first
  <2>1. Kept(matches[k], apply(matches[k], p, a))
    BY <1>1, <1>3, ApplyKept
  <2>2. matches'[k] \in States
    BY <1>3 DEF Stored
  <2> QED BY <1>3, <2>1, <2>2, FleetAssumption DEF Kept, Stored
<1> QED BY <1>2, <1>3, StepRows DEF RowStep

(* Whoever is in the ledger of a match plays in it.                        *)
ActorsPlay == \A m \in Matches : ledger[m] # Nil => Member(ledger[m].actor, m)

LEMMA ActorsStep ==
    ASSUME TypeInv, ActorsPlay, [BattleNext]_battleVars
    PROVE  ActorsPlay'
<1>1. ASSUME NEW u, NEW m \in Matches, Member(u, m)
      PROVE  Member(u, m)'
  BY <1>1, Lasting DEF Member
<1>2. ASSUME NEW m \in Matches, ledger'[m] = ledger[m]
      PROVE  (ledger[m] # Nil => Member(ledger[m].actor, m))'
  BY <1>1, <1>2 DEF ActorsPlay
<1>3. CASE UNCHANGED ledger
  BY <1>2, <1>3 DEF ActorsPlay
<1>4. ASSUME NEW u \in Players, NEW m \in Matches, NEW x, NEW a \in Actions, Act(u, m, x, a)
      PROVE  ActorsPlay'
  <2>1. CASE ledger' = ledger
    BY <1>3, <2>1
  <2>2. CASE ledger' = [ledger EXCEPT ![m] = [actor |-> u, action |-> a,
                                              revision |-> matches[m].revision]]
    <3>1. ledger'[m].actor = u /\ \A k \in Matches \ {m} : ledger'[k] = ledger[k]
      BY <2>2 DEF TypeInv
    <3>2. Member(u, m)'
      BY <1>1, <1>4 DEF Act
    <3> QED BY <1>2, <3>1, <3>2 DEF ActorsPlay
  <2> QED BY <1>4, <2>1, <2>2 DEF Act
<1> QED BY <1>3, <1>4 DEF BattleNext, Create, battleVars

LEMMA ActorsAnswered ==
    ASSUME TypeInv, ActorsPlay
    PROVE  RetryAnswered
<1> SUFFICES ASSUME NEW m \in Matches, ledger[m] # Nil
             PROVE  Answer(ledger[m].actor, m, "watched", ledger[m].revision,
                           ledger[m].action) = "view"
  BY DEF RetryAnswered
<1>1. Member(ledger[m].actor, m) /\ Known(m, "watched")
  BY DEF ActorsPlay, Known
<1>2. ledger[m] \in Entries
  BY DEF TypeInv
<1>3. ledger[m] = [actor |-> ledger[m].actor, revision |-> ledger[m].revision,
                   action |-> ledger[m].action]
  BY <1>2 DEF Entries
<1> QED BY <1>1, <1>3 DEF Answer

-----------------------------------------------------------------------------
(* The sequel of a match is there when both have asked for it, is the      *)
(* match's own, and is played by the same two, the other to begin.         *)
Sequel(k) ==
    matches[k].next # Nil =>
        /\ matches[k].next \in Matches /\ matches[matches[k].next] # Nil
        /\ matches[matches[k].next].first = 1 - matches[k].first
        /\ matches[matches[k].next].players = matches[k].players
        /\ \A j \in Matches \ {k} :
             matches[j] = Nil \/ matches[j].next # matches[k].next

AskedBoth(k) == matches[k].next # Nil <=> BothAgain(matches[k])

SequelsInv == \A k \in Matches : matches[k] # Nil => Sequel(k) /\ AskedBoth(k)

LEMMA AppliedAgain ==
    ASSUME NEW s \in States, NEW p \in Seats, NEW a \in Actions, Valid(s, p, a), BothAgain(s)
    PROVE  BothAgain(apply(s, p, a))
<1>0. PICK t : t = apply(s, p, a)
  OBVIOUS
<1>1. CASE a.kind \in {"save", "ready"}
  <2>1. t = Placed(s, p, a)
    BY <1>0, <1>1 DEF apply
  <2>2. SameVotes(s, t)
    BY <1>1, <2>1, PlacedWrites
  <2> QED BY <1>0, <2>2 DEF BothAgain, SameVotes
<1>2. CASE a.kind = "fire"
  <2>1. t = Fired(s, p, a.cell) /\ a.cell \in Cells
    BY <1>0, <1>2, ActionType DEF apply
  <2>2. SameVotes(s, t)
    BY <2>1, FiredWrites
  <2> QED BY <1>0, <2>2 DEF BothAgain, SameVotes
<1>3. CASE a.kind \notin {"save", "ready", "fire"} /\ a.kind # "rematch"
  <2>1. SameVotes(s, t)
    BY <1>0, <1>3, OtherWrites
  <2> QED BY <1>0, <2>1 DEF BothAgain, SameVotes
<1>4. CASE a.kind = "rematch"
  <2>1. ~s.rematch[p]
    BY <1>4 DEF Valid
  <2> QED BY <2>1 DEF BothAgain, SameVotes
<1> QED BY <1>1, <1>2, <1>3, <1>4

(* The row of the match that is acted on.                                  *)
LEMMA ActedRow ==
    ASSUME TypeInv, SequelsInv, NEW m \in Matches, NEW p \in Seats,
           NEW a \in Actions, NEW t \in States, ActsOn(m, p, a, t)
    PROVE  /\ matches[m] # Nil /\ t.next = matches[m].next
           /\ t.players = matches[m].players /\ t.first = matches[m].first
           /\ t.next # Nil => BothAgain(t)
<1>1. /\ matches[m] \in States /\ Valid(matches[m], p, a) /\ t = apply(matches[m], p, a)
  BY DEF ActsOn
<1>2. matches[m] # Nil
  BY <1>1, FleetAssumption
<1>3. Kept(matches[m], t)
  BY <1>1, ApplyKept
<1>4. t.next # Nil => BothAgain(t)
  BY <1>1, <1>2, <1>3, AppliedAgain DEF Kept, SequelsInv, AskedBoth
<1> QED BY <1>2, <1>3, <1>4 DEF Kept

(* A step that begins no sequel leaves the ones there are.                 *)
LEMMA SequelsKept ==
    ASSUME TypeInv, SequelsInv, [BattleNext]_battleVars,
           \A k \in Matches : matches'[k] # Nil =>
               \/ matches[k] # Nil /\ matches'[k].next = matches[k].next
               \/ matches'[k].next = Nil
    PROVE  \A k \in Matches : matches'[k] # Nil => Sequel(k)'
<1> SUFFICES ASSUME NEW k \in Matches, matches'[k] # Nil, matches'[k].next # Nil
             PROVE  Sequel(k)'
  BY DEF Sequel
<1> DEFINE n == matches[k].next
<1>1. matches[k] # Nil /\ matches'[k].next = n
  OBVIOUS
<1>2. /\ n \in Matches /\ matches[n] # Nil
      /\ matches[n].first = 1 - matches[k].first
      /\ matches[n].players = matches[k].players
      /\ \A j \in Matches \ {k} : matches[j] = Nil \/ matches[j].next # n
  BY <1>1 DEF SequelsInv, Sequel
<1> HIDE DEF n
<1>3. /\ matches'[n] # Nil /\ matches'[n].players = matches[n].players
      /\ matches'[n].first = matches[n].first
  BY <1>2, Lasting
<1>4. matches'[k].players = matches[k].players /\ matches'[k].first = matches[k].first
  BY <1>1, Lasting
<1>5. n # Nil
  BY <1>1
<1>6. ASSUME NEW j \in Matches \ {k}
      PROVE  matches'[j] = Nil \/ matches'[j].next # n
  BY <1>2, <1>5
<1>7. /\ matches'[n].first = 1 - matches'[k].first
      /\ matches'[n].players = matches'[k].players
  BY <1>2, <1>3, <1>4
<1> QED BY <1>1, <1>2, <1>3, <1>6, <1>7 DEF Sequel

LEMMA BegunSequel ==
    ASSUME TypeInv, SequelsInv, [BattleNext]_battleVars, NEW m \in Matches, NEW p \in Seats,
           NEW a \in Actions, NEW t \in States, ActsOn(m, p, a, t),
           t.next = Nil, NEW n \in Matches \ {m}, matches[n] = Nil, Stored(t, matches'[m]),
           matches'[m].next = n,
           matches'[n] = newState(t.players[0], t.players[1], 1 - t.first),
           \A k \in Matches \ {m, n} : matches'[k] = matches[k]
    PROVE  \A k \in Matches : matches'[k] # Nil => Sequel(k)'
<1>1. n # Nil
  BY FleetAssumption
<1>2. t.players \in [Seats -> Players] /\ 1 - t.first \in Seats /\ 0 \in Seats /\ 1 \in Seats
  BY StateColumns, Sides DEF Seats
<1>3. /\ matches'[n] \in States /\ matches'[n].next = Nil
      /\ matches'[n].first = 1 - t.first
      /\ matches'[n].players[0] = t.players[0] /\ matches'[n].players[1] = t.players[1]
  BY <1>2, NewState
<1>4. matches'[n].players = t.players
  <2>1. matches'[n].players \in [Seats -> Players]
    BY <1>3, StateColumns
  <2>2. \A q \in Seats : matches'[n].players[q] = t.players[q]
    BY <1>3 DEF Seats
  <2> QED BY <1>2, <2>1, <2>2
<1>5. matches'[n] # Nil
  BY <1>3, FleetAssumption
<1>6. ASSUME NEW k \in Matches, matches[k] # Nil PROVE matches[k].next # n
  BY <1>1, <1>6 DEF SequelsInv, Sequel
<1>7. Sequel(m)'
  <2>1. /\ matches'[n].first = 1 - matches'[m].first
        /\ matches'[n].players = matches'[m].players
    BY <1>3, <1>4 DEF Stored
  <2>2. ASSUME NEW j \in Matches \ {m}
        PROVE  matches'[j] = Nil \/ matches'[j].next # n
    BY <1>1, <1>3, <1>6
  <2> QED BY <1>5, <2>1, <2>2 DEF Sequel
<1>8. Sequel(n)'
  BY <1>3 DEF Sequel
<1>9. ASSUME NEW k \in Matches \ {m, n}, matches'[k] # Nil, matches'[k].next # Nil
      PROVE  Sequel(k)'
  <2> DEFINE o == matches[k].next
  <2>1. matches'[k] = matches[k] /\ matches[k] # Nil
    BY <1>9
  <2>2. /\ o \in Matches /\ matches[o] # Nil
        /\ matches[o].first = 1 - matches[k].first
        /\ matches[o].players = matches[k].players
        /\ \A j \in Matches \ {k} : matches[j] = Nil \/ matches[j].next # o
    BY <1>9, <2>1 DEF SequelsInv, Sequel
  <2>3. matches'[k].next = o /\ o # Nil /\ o # n
    BY <1>6, <1>9, <2>1
  <2> HIDE DEF o
  <2>4. /\ matches'[o] # Nil /\ matches'[o].players = matches[o].players
        /\ matches'[o].first = matches[o].first
    BY <2>2, Lasting
  <2>5. ASSUME NEW j \in Matches \ {k}
        PROVE  matches'[j] = Nil \/ matches'[j].next # o
    BY <1>3, <2>2, <2>3
  <2> QED BY <2>1, <2>2, <2>3, <2>4, <2>5 DEF Sequel
<1>10. ASSUME NEW k \in Matches \ {m, n}, matches'[k] # Nil
       PROVE  Sequel(k)'
  BY <1>9, <1>10 DEF Sequel
<1> QED BY <1>7, <1>8, <1>10

LEMMA SequelsStep ==
    ASSUME TypeInv, SequelsInv, [BattleNext]_battleVars
    PROVE  SequelsInv'
<1>1. CASE UNCHANGED matches
  BY <1>1 DEF SequelsInv, Sequel, AskedBoth
<1>2. ASSUME NEW u \in Players, NEW m \in Matches, NEW v \in Players, Create(u, m, v)
      PROVE  SequelsInv'
  <2>1. PICK c \in Seats : matches' = [matches EXCEPT ![m] = newState(u, v, c)]
    BY <1>2 DEF Create
  <2>2. matches'[m] = newState(u, v, c) /\ \A k \in Matches \ {m} : matches'[k] = matches[k]
    BY <2>1 DEF TypeInv
  <2>3. matches'[m].next = Nil /\ \A p \in Seats : ~matches'[m].rematch[p]
    BY <2>2, NewState
  <2>4. \A k \in Matches : matches'[k] # Nil => Sequel(k)'
    BY <2>2, <2>3, SequelsKept
  <2>5. ASSUME NEW k \in Matches, matches'[k] # Nil PROVE AskedBoth(k)'
    <3>1. CASE k = m
      BY <2>3, <3>1 DEF AskedBoth, BothAgain, Seats
    <3>2. CASE k # m
      BY <2>2, <2>5, <3>2 DEF SequelsInv, AskedBoth
    <3> QED BY <3>1, <3>2
  <2> QED BY <2>4, <2>5 DEF SequelsInv
<1>3. ASSUME NEW u \in Players, NEW m \in Matches, NEW x, NEW a \in Actions, Act(u, m, x, a)
      PROVE  SequelsInv'
  <2>1. PICK p \in Seats, t \in States : ActsOn(m, p, a, t)
    BY <1>3, ActStep
  <2>2. /\ matches[m] # Nil /\ t.next = matches[m].next
        /\ t.next # Nil => BothAgain(t)
    BY <2>1, ActedRow
  <2>3. CASE /\ ~(t.next = Nil /\ BothAgain(t))
             /\ Stored(t, matches'[m]) /\ matches'[m].next = t.next
             /\ \A k \in Matches \ {m} : matches'[k] = matches[k]
    <3>1. \A k \in Matches : matches'[k] # Nil => Sequel(k)'
      BY <2>2, <2>3, SequelsKept
    <3>2. ASSUME NEW k \in Matches, matches'[k] # Nil PROVE AskedBoth(k)'
      <4>1. CASE k = m
        BY <2>2, <2>3, <4>1 DEF AskedBoth, BothAgain, Stored
      <4>2. CASE k # m
        BY <2>3, <3>2, <4>2 DEF SequelsInv, AskedBoth
      <4> QED BY <4>1, <4>2
    <3> QED BY <3>1, <3>2 DEF SequelsInv
  <2>4. ASSUME t.next = Nil, BothAgain(t), NEW n \in Matches \ {m}, matches[n] = Nil,
               Stored(t, matches'[m]), matches'[m].next = n,
               matches'[n] = newState(t.players[0], t.players[1], 1 - t.first),
               \A k \in Matches \ {m, n} : matches'[k] = matches[k]
        PROVE  SequelsInv'
    <3>1. \A k \in Matches : matches'[k] # Nil => Sequel(k)'
      BY <2>1, <2>4, BegunSequel
    <3>2. ASSUME NEW k \in Matches, matches'[k] # Nil PROVE AskedBoth(k)'
      <4>1. CASE k = m
        BY <2>4, <4>1, FleetAssumption DEF AskedBoth, BothAgain, Stored
      <4>2. CASE k = n
        <5>1. t.players[0] \in Players /\ t.players[1] \in Players /\ 1 - t.first \in Seats
          BY StateColumns, Sides DEF Seats
        <5>2. matches'[n].next = Nil /\ \A q \in Seats : ~matches'[n].rematch[q]
          BY <2>4, <5>1, NewState
        <5> QED BY <4>2, <5>2 DEF AskedBoth, BothAgain, Seats
      <4>3. CASE k \notin {m, n}
        BY <2>4, <3>2, <4>3 DEF SequelsInv, AskedBoth
      <4> QED BY <4>1, <4>2, <4>3
    <3> QED BY <3>1, <3>2 DEF SequelsInv
  <2> QED BY <2>1, <2>3, <2>4 DEF ActsOn
<1> QED BY <1>1, <1>2, <1>3 DEF BattleNext, battleVars

-----------------------------------------------------------------------------
(* The invariant, and what it says.                                        *)
FleetInv == TypeInv /\ RowsInv /\ ActorsPlay /\ SequelsInv

LEMMA FleetInit == BattleInit => FleetInv
BY FleetAssumption DEF BattleInit, FleetInv, TypeInv, RowsInv, ActorsPlay, SequelsInv

LEMMA FleetStep == FleetInv /\ [BattleNext]_battleVars => FleetInv'
BY TypeStep, RowsStep, ActorsStep, SequelsStep DEF FleetInv

LEMMA FleetTurns == FleetInv => FleetTurnsKept
<1> SUFFICES ASSUME FleetInv PROVE FleetTurnsKept
  OBVIOUS
<1>1. ShotsAlternate
  <2> SUFFICES ASSUME NEW m \in Matches, matches[m] # Nil
               PROVE  /\ Lead(matches[m]) \in {0, 1}
                      /\ (matches[m].turn = matches[m].first) = (Lead(matches[m]) = 0)
    BY DEF ShotsAlternate, Rows, Lead
  <2> QED BY DEF FleetInv, RowsInv, RowInv, InTurn
<1>2. OneRematch
  <2> SUFFICES ASSUME NEW m \in Matches, matches[m] # Nil
               PROVE  /\ (matches[m].next # Nil) = (matches[m].rematch[0] /\ matches[m].rematch[1])
                      /\ Sequel(m)
    BY DEF OneRematch, Sequel
  <2>1. BothAgain(matches[m]) <=> matches[m].rematch[0] /\ matches[m].rematch[1]
    BY DEF BothAgain, Seats
  <2> QED BY <2>1 DEF FleetInv, SequelsInv, AskedBoth
<1>3. RetryAnswered
  BY ActorsAnswered DEF FleetInv
<1> QED BY <1>1, <1>2, <1>3 DEF FleetTurnsKept

LEMMA FleetHistory ==
    FleetInv /\ [BattleNext]_battleVars => FrozenRows /\ StandingRows
BY HistoryStep DEF FleetInv

(* Shots alternate from the first player on, a match is followed by at     *)
(* most one, and what was carried out is answered as done, for any         *)
(* players, board, fleets and number of matches (service.go, rules.go).    *)
THEOREM FleetTurnsCorrect == BattleSpec => []FleetTurnsKept
<1>1. BattleInit => FleetInv
  BY FleetInit
<1>2. FleetInv /\ [BattleNext]_battleVars => FleetInv'
  BY FleetStep
<1>3. FleetInv => FleetTurnsKept
  BY FleetTurns
<1> QED BY <1>1, <1>2, <1>3, PTL DEF BattleSpec

(* A fleet that is ready is never moved, an end is final, and the battle   *)
(* goes on only while both fleets float (rules.go apply).                  *)
THEOREM FleetHistoryCorrect == BattleSpec => FleetHistoryStands
<1>1. BattleInit => FleetInv
  BY FleetInit
<1>2. FleetInv /\ [BattleNext]_battleVars => FleetInv'
  BY FleetStep
<1>3. FleetInv /\ [BattleNext]_battleVars =>
        [\A m \in Matches, p \in Seats :
           matches[m] # Nil /\ matches[m].ready[p] =>
             /\ matches'[m].ready[p]
             /\ matches'[m].ships[p] = matches[m].ships[p]]_matches
  BY FleetHistory DEF FrozenRows
<1>4. FleetInv /\ [BattleNext]_battleVars =>
        [\A m \in Matches : matches[m] # Nil =>
          LET s == matches[m]
              t == matches'[m]
              Lost(r, p) == r.ships[p] # {} /\ \A ship \in r.ships[p] :
                               cells(ship) \subseteq {x.cell : x \in r.shots[1 - p]}
          IN  /\ Ended(s) => t.phase = s.phase /\ t.winner = s.winner /\ t.shots = s.shots
              /\ t.phase = "battle" => \A p \in Seats : ~Lost(t, p)]_matches
  BY FleetHistory DEF StandingRows, Destroyed
<1> QED BY <1>1, <1>2, <1>3, <1>4, PTL DEF BattleSpec, FleetsFrozen, OutcomeStands, FleetHistoryStands
=============================================================================
