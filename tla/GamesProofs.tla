----------------------------- MODULE GamesProofs -----------------------------
(* Every game of the registry, on a board of any size and for a match of any *)
(* length: no legal play wedges a match, what its log says is what was       *)
(* committed, and each game keeps its promises about lines, captures,        *)
(* secrecy, scores, passes and camps.  One invariant for each game.          *)
EXTENDS Games, Sequences, FiniteSetTheorems, WellFoundedInduction, TLAPS

Opponent(u) == IF u = BlackPlayer THEN WhitePlayer ELSE BlackPlayer

LEMMA Seats ==
  /\ \A u \in Users : Opponent(u) \in Users /\ Opponent(u) # u /\ Users = {u, Opponent(u)}
  /\ \A u \in Users : u # None
  /\ Cardinality(Users) = 2 /\ IsFiniteSet(Users)
  /\ \A u : IsFiniteSet({u}) /\ Cardinality({u}) = 1
<1>1. \A u : IsFiniteSet({u}) /\ Cardinality({u}) = 1
  BY FS_Singleton
<1>2. Users = {BlackPlayer} \cup {WhitePlayer} /\ WhitePlayer \notin {BlackPlayer}
  BY SeatsAssumption DEF Users
<1>3. IsFiniteSet(Users) /\ Cardinality(Users) = 2
  <2>1. /\ IsFiniteSet({BlackPlayer} \cup {WhitePlayer})
        /\ Cardinality({BlackPlayer} \cup {WhitePlayer}) = Cardinality({BlackPlayer}) + 1
    BY <1>1, <1>2, FS_AddElement
  <2> QED BY <1>1, <1>2, <2>1
<1> QED BY <1>1, <1>3, SeatsAssumption DEF Users, Opponent

(* An instance has a copy of the operators of the modules it extends.      *)
LEMMA Counting == \A S : RpsRules!Cardinality(S) = Cardinality(S)
BY DEF RpsRules!Cardinality, Cardinality

(***************************************************************************)
(* Rock, paper, scissors.  The rounds that are over, and what was chosen   *)
(* in them, are h[1], ..., h[n].                                           *)
(***************************************************************************)
Rounds(n) == [1..n -> [Users -> RpsRules!Choices]]

Locked(f, S) == /\ DOMAIN f \subseteq Users /\ f = [u \in DOMAIN f |-> f[u]]
                /\ \A u \in DOMAIN f : f[u] \in S

Needed(s) == IF s.format = "single_round" THEN 1 ELSE 2

WonBy(h, n, u) == {r \in 1..n : <<h[r][u], h[r][Opponent(u)]>> \in RpsRules!Beats}

(* What each player has been shown: all of the rounds that are over, and   *)
(* of the current one no more than a choice of its own.                    *)
RpsTold(s, t, n, h) ==
  \A u \in Users :
    /\ \A r \in 1..n, v \in Users : <<r, v, h[r][v]>> \in t[u]
    /\ \A x \in t[u] : \/ \E r \in 1..n, v \in Users : x = <<r, v, h[r][v]>>
                       \/ /\ s.status = "active" /\ u \in DOMAIN s.choices
                          /\ x = <<s.round, u, s.choices[u]>>

RpsScored(s, n, h) ==
  /\ Locked(s.scores, 1..2)
  /\ \A u \in Users : RpsRules!Score(s.scores, u) = Cardinality(WonBy(h, n, u))
  /\ s.status = "active" =>
       s.winner = None /\ \A u \in Users : RpsRules!Score(s.scores, u) < Needed(s)
  /\ s.status = "finished" =>
       /\ s.winner \in Users /\ RpsRules!Score(s.scores, s.winner) = Needed(s)

RpsFields == {"revision", "status", "format", "round", "choices", "scores", "lastReveal",
              "winner", "result"}

RpsPlayed(s, n, h) ==
  /\ s = [f \in RpsFields |-> s[f]]
  /\ s.revision \in Nat /\ s.format \in RpsRules!Formats
  /\ Locked(s.choices, RpsRules!Choices) /\ DOMAIN s.choices # Users
  /\ \/ s.status = "active" /\ s.round = n + 1
     \/ s.status = "finished" /\ s.round = n /\ n # 0 /\ s.choices = <<>>
  /\ s.lastReveal # None => n # 0 /\ s.lastReveal.round = n /\ s.lastReveal.choices = h[n]

RpsAt(s, t, n, h) ==
  /\ n <= RoundLimit /\ t = [u \in Users |-> t[u]]
  /\ RpsPlayed(s, n, h) /\ RpsTold(s, t, n, h) /\ RpsScored(s, n, h)

RpsInv == \E n \in Nat : \E h \in Rounds(n) : RpsAt(snapshot, told, n, h)

LEMMA NothingLocked == DOMAIN <<>> = {} /\ \A S : Locked(<<>>, S)
BY DEF Locked

LEMMA RpsStarts ==
  ASSUME NEW f \in RpsRules!Formats, NEW t, t = [u \in Users |-> {}]
  PROVE  \E n \in Nat : \E h \in Rounds(n) : RpsAt(RpsRules!initialSnapshot(f), t, n, h)
<1> DEFINE s == RpsRules!initialSnapshot(f)
<1>1. PICK h \in Rounds(0) : TRUE
  <2>1. [r \in 1..0 |-> CHOOSE c \in [Users -> RpsRules!Choices] : TRUE] \in Rounds(0)
    BY DEF Rounds
  <2> QED BY <2>1
<1>2. RpsPlayed(s, 0, h)
  BY NothingLocked, SeatsAssumption DEF RpsPlayed, RpsFields, Users, RpsRules!initialSnapshot
<1>3. RpsTold(s, t, 0, h)
  BY NothingLocked DEF RpsTold, RpsRules!initialSnapshot
<1>4. RpsScored(s, 0, h)
  <2>1. \A u \in Users : WonBy(h, 0, u) = {}
    BY DEF WonBy
  <2>2. Cardinality({}) = 0
    BY FS_EmptySet
  <2>3. /\ s.scores = <<>> /\ s.status = "active" /\ s.winner = None /\ Needed(s) \in {1, 2}
    BY DEF RpsRules!initialSnapshot, Needed
  <2>4. \A u \in Users : RpsRules!Score(s.scores, u) = 0
    BY <2>3, NothingLocked DEF RpsRules!Score
  <2>5. Locked(s.scores, 1..2)
    BY <2>3, NothingLocked
  <2>6. \A u \in Users : RpsRules!Score(s.scores, u) = Cardinality(WonBy(h, 0, u))
    <3> HIDE DEF s
    <3> QED BY <2>1, <2>2, <2>4
  <2>7. 0 < Needed(s) /\ s.status # "finished"
    <3> HIDE DEF s
    <3> QED BY <2>3
  <2>8. \A u \in Users : RpsRules!Score(s.scores, u) < Needed(s)
    <3> HIDE DEF s
    <3> QED BY <2>4, <2>7
  <2> HIDE DEF s
  <2> QED BY <2>3, <2>5, <2>6, <2>7, <2>8 DEF RpsScored
<1>5. 0 <= RoundLimit
  BY BoardsAssumption
<1> QED BY <1>1, <1>2, <1>3, <1>4, <1>5 DEF RpsAt

LocksOne(g, f, u, x) ==
  DOMAIN g = DOMAIN f \cup {u} /\ g[u] = x /\ \A v \in DOMAIN f : g[v] = f[v]

LEMMA RpsLocks ==
  ASSUME NEW f, NEW u \in Users, NEW x \in RpsRules!Choices,
         Locked(f, RpsRules!Choices), u \notin DOMAIN f,
         NEW g, g = RpsRules!Extend(f, u, x)
  PROVE  Locked(g, RpsRules!Choices) /\ LocksOne(g, f, u, x)
BY DEF Locked, LocksOne, RpsRules!Extend

(* The second choice of a round is the other player's. *)
LEMMA RpsSecond ==
  ASSUME NEW f, NEW u \in Users, NEW x \in RpsRules!Choices,
         Locked(f, RpsRules!Choices), DOMAIN f # Users, u \notin DOMAIN f
  PROVE  LET g == RpsRules!Extend(f, u, x) IN
         \/ DOMAIN f = {} /\ DOMAIN g = {u} /\ Cardinality(DOMAIN g) = 1
         \/ DOMAIN f = {Opponent(u)} /\ Cardinality(DOMAIN g) # 1
            /\ g \in [Users -> RpsRules!Choices]
<1> DEFINE g == RpsRules!Extend(f, u, x)
<1>1. Locked(g, RpsRules!Choices) /\ DOMAIN g = DOMAIN f \cup {u}
  BY RpsLocks DEF LocksOne
<1>2. CASE DOMAIN f = {}
  <2>1. DOMAIN g = {u}
    BY <1>1, <1>2
  <2> QED BY <1>2, <2>1, Seats
<1>3. CASE DOMAIN f # {}
  <2>1. DOMAIN f = {Opponent(u)} /\ DOMAIN g = Users
    BY <1>1, <1>3, Seats DEF Locked
  <2>2. g \in [Users -> RpsRules!Choices]
    BY <1>1, <2>1 DEF Locked
  <2> QED BY <2>1, <2>2, Seats
<1> QED BY <1>2, <1>3

LEMMA RpsWinners ==
  ASSUME NEW c \in [Users -> RpsRules!Choices]
  PROVE  LET W == RpsRules!RoundWinners(c) IN
         /\ \A u \in Users : u \in W <=> <<c[u], c[Opponent(u)]>> \in RpsRules!Beats
         /\ \/ W = {}
            \/ \E w \in Users : W = {w} /\ (CHOOSE u \in W : TRUE) = w
<1> DEFINE W == RpsRules!RoundWinners(c)
<1>1. \A a, b \in RpsRules!Choices :
        <<a, b>> \in RpsRules!Beats => a # b /\ <<b, a>> \notin RpsRules!Beats
  BY DEF RpsRules!Choices, RpsRules!Beats
<1>2. W = {u \in Users : \E v \in Users : <<c[u], c[v]>> \in RpsRules!Beats}
  BY DEF RpsRules!RoundWinners
<1>3. ASSUME NEW u \in Users
      PROVE  u \in W <=> <<c[u], c[Opponent(u)]>> \in RpsRules!Beats
  <2>1. c[u] \in RpsRules!Choices /\ Opponent(u) \in Users /\ Users = {u, Opponent(u)}
    BY Seats
  <2>2. <<c[u], c[u]>> \notin RpsRules!Beats
    BY <1>1, <2>1
  <2> QED BY <1>2, <2>1, <2>2
<1>4. \A u \in Users : u \in W => Opponent(u) \notin W
  BY <1>1, <1>3, Seats
<1>5. W \subseteq Users
  BY <1>2
<1>6. W = {} \/ \E w \in Users : W = {w}
  BY <1>4, <1>5, Seats
<1> QED BY <1>3, <1>6

LEMMA RpsFirstChoice ==
  ASSUME NEW n \in Nat, NEW h \in Rounds(n), NEW s, NEW t, RpsAt(s, t, n, h),
         NEW u \in Users, NEW c \in RpsRules!Choices, RpsRules!Accepts(s, u),
         DOMAIN s.choices = {},
         NEW t2, t2 = [v \in Users |-> t[v] \cup RpsRules!eventEnvelope(RpsRules!accepted(s, u, c))]
  PROVE  RpsAt(RpsRules!apply(s, u, c), t2, n, h)
<1> DEFINE s2 == RpsRules!apply(s, u, c)
<1>0. PICK g : g = RpsRules!Extend(s.choices, u, c)
  OBVIOUS
<1>1. /\ Locked(g, RpsRules!Choices) /\ DOMAIN g = {u} /\ g[u] = c
      /\ Cardinality(DOMAIN g) = 1
  <2>1. Locked(s.choices, RpsRules!Choices) /\ u \notin DOMAIN s.choices
    BY DEF RpsAt, RpsPlayed
  <2>2. Locked(g, RpsRules!Choices) /\ DOMAIN g = DOMAIN s.choices \cup {u} /\ g[u] = c
    <3>1. Locked(g, RpsRules!Choices) /\ LocksOne(g, s.choices, u, c)
      BY <1>0, <2>1, RpsLocks
    <3> QED BY <3>1 DEF LocksOne
  <2>3. DOMAIN g = {u}
    BY <2>2
  <2> QED BY <2>2, <2>3, Seats
<1>2. s2 = [s EXCEPT !.revision = @ + 1, !.choices = g]
  BY <1>0, <1>1, Counting DEF RpsRules!apply
<1>3. /\ s2 = [f \in RpsFields |-> s2[f]] /\ s2.revision = s.revision + 1 /\ s2.choices = g
      /\ s2.status = s.status /\ s2.format = s.format /\ s2.round = s.round
      /\ s2.scores = s.scores /\ s2.lastReveal = s.lastReveal /\ s2.winner = s.winner
  <2>1. s = [f \in RpsFields |-> s[f]]
    BY DEF RpsAt, RpsPlayed
  <2> HIDE DEF s2
  <2> QED BY <1>2, <2>1 DEF RpsFields
<1>4. s.status = "active" /\ s.round = n + 1
  BY DEF RpsAt, RpsPlayed, RpsRules!Accepts
<1>5. t2 = t
  <2>1. RpsRules!accepted(s, u, c).type = "locked"
    BY <1>0, <1>1, Counting DEF RpsRules!accepted
  <2>2. RpsRules!eventEnvelope(RpsRules!accepted(s, u, c)) = {}
    BY <2>1 DEF RpsRules!eventEnvelope
  <2>3. t = [v \in Users |-> t[v]]
    BY DEF RpsAt
  <2> QED BY <2>2, <2>3
<1> HIDE DEF s2
<1>6. RpsPlayed(s2, n, h)
  <2>1. DOMAIN g # Users
    BY <1>1, Seats
  <2> QED BY <1>1, <1>3, <1>4, <2>1 DEF RpsAt, RpsPlayed
<1>7. RpsTold(s2, t2, n, h)
  <2>1. RpsTold(s, t, n, h)
    BY DEF RpsAt
  <2>2. \A v \in Users : v \notin DOMAIN s.choices
    OBVIOUS
  <2> QED BY <1>5, <2>1, <2>2 DEF RpsTold
<1>8. RpsScored(s2, n, h)
  BY <1>3 DEF RpsAt, RpsScored, Needed
<1> QED BY <1>3, <1>5, <1>6, <1>7, <1>8 DEF s2, RpsAt

(* The history with the round g at its end. *)
Longer(h, n, g) == [i \in 1..n + 1 |-> IF i = n + 1 THEN g ELSE h[i]]

(* What a reveal says of round n + 1, k being the history up to it. *)
RpsRevealed(r, s, n, k, g) ==
  /\ r.round = n + 1 /\ r.choices = g
  /\ k \in Rounds(n + 1)
  /\ Locked(r.scores, 1..2)
  /\ \A u \in Users : RpsRules!Score(r.scores, u) = Cardinality(WonBy(k, n + 1, u))
  /\ r.matchWinner = None => \A u \in Users : RpsRules!Score(r.scores, u) < Needed(s)
  /\ r.matchWinner # None => /\ r.matchWinner \in Users
                             /\ RpsRules!Score(r.scores, r.matchWinner) = Needed(s)

LEMMA RpsOutcome ==
  ASSUME NEW n \in Nat, NEW h \in Rounds(n), NEW s, NEW t, RpsAt(s, t, n, h),
         s.status = "active", NEW g \in [Users -> RpsRules!Choices]
  PROVE  RpsRevealed(RpsRules!Reveal(s, g), s, n, Longer(h, n, g), g)
<1> DEFINE r == RpsRules!Reveal(s, g)
           k == Longer(h, n, g)
           W == RpsRules!RoundWinners(g)
           decided(f) == {u \in W : s.format = "single_round" \/ f[u] >= 2}
<1>1. /\ r.round = n + 1 /\ r.choices = g
      /\ r.scores = IF W = {} THEN s.scores
                    ELSE LET w == CHOOSE u \in W : TRUE
                         IN  RpsRules!Extend(s.scores, w, RpsRules!Score(s.scores, w) + 1)
      /\ r.matchWinner = IF decided(r.scores) = {} THEN None
                         ELSE CHOOSE u \in decided(r.scores) : TRUE
  <2>1. s.round = n + 1
    BY DEF RpsAt, RpsPlayed
  <2> QED BY <2>1 DEF RpsRules!Reveal
<1>2. k \in Rounds(n + 1)
  BY DEF Rounds, Longer
<1>3. /\ \A u \in Users : u \in W <=> <<g[u], g[Opponent(u)]>> \in RpsRules!Beats
      /\ W = {} \/ \E w \in Users : W = {w} /\ (CHOOSE u \in W : TRUE) = w
  BY RpsWinners
<1>4. ASSUME NEW u \in Users
      PROVE  Cardinality(WonBy(k, n + 1, u)) =
               IF u \in W THEN Cardinality(WonBy(h, n, u)) + 1 ELSE Cardinality(WonBy(h, n, u))
  <2>1. IsFiniteSet(WonBy(h, n, u)) /\ n + 1 \notin WonBy(h, n, u)
    <3>1. IsFiniteSet(1..n) /\ WonBy(h, n, u) \subseteq 1..n
      BY FS_Interval DEF WonBy
    <3> QED BY <3>1, FS_Subset
  <2>2. WonBy(k, n + 1, u) = IF u \in W THEN WonBy(h, n, u) \cup {n + 1} ELSE WonBy(h, n, u)
    BY <1>3 DEF WonBy, Longer
  <2> QED BY <2>1, <2>2, FS_AddElement
<1>5. /\ Locked(s.scores, 1..2) /\ s.winner = None /\ Needed(s) \in {1, 2}
      /\ s.format = "single_round" => Needed(s) = 1
      /\ s.format # "single_round" => Needed(s) = 2
      /\ \A u \in Users : /\ RpsRules!Score(s.scores, u) = Cardinality(WonBy(h, n, u))
                          /\ RpsRules!Score(s.scores, u) < Needed(s)
                          /\ RpsRules!Score(s.scores, u) \in Nat
  <2>1. RpsScored(s, n, h)
    BY DEF RpsAt
  <2>2. \A u \in Users : RpsRules!Score(s.scores, u) \in Nat
    BY <2>1 DEF RpsScored, Locked, RpsRules!Score
  <2> QED BY <2>1, <2>2 DEF RpsScored, Needed
<1> HIDE DEF r, k, W
<1>6. CASE W = {}
  <2>1. r.scores = s.scores /\ r.matchWinner = None
    BY <1>1, <1>6
  <2> QED BY <1>1, <1>2, <1>4, <1>5, <1>6, <2>1 DEF r, k, RpsRevealed
<1>7. CASE W # {}
  <2>1. PICK w \in Users : W = {w} /\ (CHOOSE u \in W : TRUE) = w
    BY <1>3, <1>7
  <2> DEFINE x == RpsRules!Score(s.scores, w) + 1
  <2>2. r.scores = RpsRules!Extend(s.scores, w, x)
    BY <1>1, <1>7, <2>1
  <2>3. x \in 1..2
    BY <1>5
  <2>4. /\ Locked(r.scores, 1..2) /\ RpsRules!Score(r.scores, w) = x /\ r.scores[w] = x
        /\ \A u \in Users : u # w => RpsRules!Score(r.scores, u) = RpsRules!Score(s.scores, u)
    BY <1>5, <2>2, <2>3 DEF Locked, RpsRules!Extend, RpsRules!Score
  <2>5. \A u \in Users : RpsRules!Score(r.scores, u) = Cardinality(WonBy(k, n + 1, u))
    <3> HIDE DEF x
    <3> QED BY <1>4, <1>5, <2>1, <2>4 DEF x
  <2>6. r.matchWinner = IF x = Needed(s) THEN w ELSE None
    <3>1. decided(r.scores) = IF x = Needed(s) THEN {w} ELSE {}
      BY <1>5, <2>1, <2>3, <2>4
    <3> QED BY <1>1, <3>1
  <2>7. \A u \in Users : u # w => RpsRules!Score(r.scores, u) < Needed(s)
    BY <1>5, <2>4
  <2>8. x # Needed(s) => x < Needed(s)
    BY <1>5, <2>3
  <2>9. w # None
    BY Seats
  <2> HIDE DEF x
  <2> QED BY <1>1, <1>2, <2>4, <2>5, <2>6, <2>7, <2>8, <2>9 DEF r, k, RpsRevealed
<1> QED BY <1>6, <1>7

LEMMA RpsSecondChoice ==
  ASSUME NEW n \in Nat, NEW h \in Rounds(n), NEW s, NEW t, RpsAt(s, t, n, h),
         n < RoundLimit, s.status = "active",
         NEW u \in Users, NEW c \in RpsRules!Choices, u \notin DOMAIN s.choices,
         NEW g \in [Users -> RpsRules!Choices], g = RpsRules!Extend(s.choices, u, c),
         NEW t2, t2 = [v \in Users |-> t[v] \cup RpsRules!eventEnvelope(RpsRules!accepted(s, u, c))]
  PROVE  RpsAt(RpsRules!apply(s, u, c), t2, n + 1, Longer(h, n, g))
<1> DEFINE s2 == RpsRules!apply(s, u, c)
           r == RpsRules!Reveal(s, g)
           k == Longer(h, n, g)
           over == r.matchWinner # None
<1>0. RpsRevealed(r, s, n, k, g)
  BY RpsOutcome
<1>1. /\ r.round = n + 1 /\ r.choices = g
      /\ k \in Rounds(n + 1)
      /\ Locked(r.scores, 1..2)
      /\ \A v \in Users : RpsRules!Score(r.scores, v) = Cardinality(WonBy(k, n + 1, v))
      /\ r.matchWinner = None => \A v \in Users : RpsRules!Score(r.scores, v) < Needed(s)
      /\ r.matchWinner # None => /\ r.matchWinner \in Users
                                 /\ RpsRules!Score(r.scores, r.matchWinner) = Needed(s)
  BY <1>0 DEF RpsRevealed
<1>2. Cardinality(DOMAIN g) # 1
  <2>1. DOMAIN g = Users
    OBVIOUS
  <2> QED BY <2>1, Seats
<1> HIDE DEF r
<1>3. s2 = [s EXCEPT !.revision = @ + 1, !.choices = <<>>, !.scores = r.scores,
                     !.lastReveal = r, !.round = IF over THEN @ ELSE @ + 1,
                     !.status = IF over THEN "finished" ELSE @,
                     !.winner = r.matchWinner, !.result = IF over THEN "rounds" ELSE None]
  BY <1>2, Counting DEF RpsRules!apply, r
<1>4. /\ s2 = [f \in RpsFields |-> s2[f]] /\ s2.revision = s.revision + 1 /\ s2.choices = <<>>
      /\ s2.status = (IF over THEN "finished" ELSE "active") /\ s2.format = s.format
      /\ s2.round = (IF over THEN n + 1 ELSE n + 2)
      /\ s2.scores = r.scores /\ s2.lastReveal = r /\ s2.winner = r.matchWinner
  <2>1. s = [f \in RpsFields |-> s[f]] /\ s.round = n + 1
    BY DEF RpsAt, RpsPlayed
  <2> HIDE DEF s2
  <2>2. s2 = [f \in RpsFields |-> s2[f]]
    BY <1>3, <2>1 DEF RpsFields
  <2>3. /\ s2.revision = s.revision + 1 /\ s2.choices = <<>> /\ s2.format = s.format
        /\ s2.scores = r.scores /\ s2.lastReveal = r /\ s2.winner = r.matchWinner
    BY <1>3, <2>1 DEF RpsFields
  <2>4. /\ s2.status = (IF over THEN "finished" ELSE "active")
        /\ s2.round = (IF over THEN n + 1 ELSE n + 2)
    BY <1>3, <2>1 DEF RpsFields
  <2> QED BY <2>2, <2>3, <2>4
<1>5. \A v \in Users : t2[v] = t[v] \cup {<<n + 1, w, g[w]>> : w \in Users}
  <2>1. /\ RpsRules!accepted(s, u, c).type = "revealed"
        /\ RpsRules!accepted(s, u, c).reveal = r
    BY <1>2, Counting DEF RpsRules!accepted, r
  <2>2. RpsRules!eventEnvelope(RpsRules!accepted(s, u, c)) = {<<n + 1, w, g[w]>> : w \in Users}
    <3>1. DOMAIN r.choices = Users
      BY <1>1
    <3> QED BY <1>1, <2>1, <3>1 DEF RpsRules!eventEnvelope, RpsRules!Shown
  <2> QED BY <2>2
<1> HIDE DEF s2
<1>6. k[n + 1] = g /\ \A i \in 1..n : k[i] = h[i]
  BY DEF Longer
<1> HIDE DEF k
<1>7. RpsPlayed(s2, n + 1, k)
  <2>1. s.revision \in Nat /\ s.format \in RpsRules!Formats
    BY DEF RpsAt, RpsPlayed
  <2>2. DOMAIN <<>> # Users
    BY NothingLocked, Seats DEF Users
  <2>3. s2.lastReveal.round = n + 1 /\ s2.lastReveal.choices = k[n + 1]
    BY <1>1, <1>4, <1>6
  <2>4. \/ s2.status = "active" /\ s2.round = n + 2
        \/ s2.status = "finished" /\ s2.round = n + 1
    BY <1>4
  <2>5. Locked(s2.choices, RpsRules!Choices)
    BY <1>4, NothingLocked
  <2> QED BY <1>4, <2>1, <2>2, <2>3, <2>4, <2>5 DEF RpsPlayed
<1>8. RpsTold(s2, t2, n + 1, k)
  <2> SUFFICES ASSUME NEW v \in Users
               PROVE  /\ \A i \in 1..n + 1, w \in Users : <<i, w, k[i][w]>> \in t2[v]
                      /\ \A x \in t2[v] : \E i \in 1..n + 1, w \in Users : x = <<i, w, k[i][w]>>
    BY DEF RpsTold
  <2>1. /\ \A i \in 1..n, w \in Users : <<i, w, h[i][w]>> \in t[v]
        /\ \A x \in t[v] : \/ \E i \in 1..n, w \in Users : x = <<i, w, h[i][w]>>
                           \/ v \in DOMAIN s.choices /\ x = <<n + 1, v, s.choices[v]>>
    BY DEF RpsAt, RpsTold, RpsPlayed
  <2>2. \A w \in DOMAIN s.choices : g[w] = s.choices[w]
    BY DEF RpsRules!Extend
  <2>3. ASSUME NEW i \in 1..n + 1, NEW w \in Users
        PROVE  <<i, w, k[i][w]>> \in t2[v]
    <3>1. CASE i = n + 1
      BY <1>5, <1>6, <3>1
    <3>2. CASE i # n + 1
      BY <1>5, <1>6, <2>1, <3>2
    <3> QED BY <3>1, <3>2
  <2>4. ASSUME NEW x \in t2[v]
        PROVE  \E i \in 1..n + 1, w \in Users : x = <<i, w, k[i][w]>>
    <3>1. \/ \E w \in Users : x = <<n + 1, w, k[n + 1][w]>>
          \/ \E i \in 1..n, w \in Users : x = <<i, w, k[i][w]>>
          \/ v \in DOMAIN s.choices /\ x = <<n + 1, v, s.choices[v]>>
      BY <1>5, <1>6, <2>1
    <3>2. n + 1 \in 1..n + 1 /\ 1..n \subseteq 1..n + 1
      OBVIOUS
    <3> QED BY <1>6, <2>2, <3>1, <3>2
  <2> QED BY <2>3, <2>4
<1>9. RpsScored(s2, n + 1, k)
  <2>1. Needed(s2) = Needed(s)
    BY <1>4 DEF Needed
  <2>2. CASE over
    BY <1>1, <1>4, <2>1, <2>2 DEF RpsScored
  <2>3. CASE ~over
    BY <1>1, <1>4, <2>1, <2>3 DEF RpsScored
  <2> QED BY <2>2, <2>3
<1>10. n + 1 <= RoundLimit
  BY BoardsAssumption
<1>11. t2 = [v \in Users |-> t2[v]]
  OBVIOUS
<1> QED BY <1>7, <1>8, <1>9, <1>10, <1>11 DEF s2, k, RpsAt

LEMMA RpsLooks ==
  ASSUME NEW n \in Nat, NEW h \in Rounds(n), NEW s, NEW t, RpsAt(s, t, n, h), NEW u \in Users,
         NEW t2, t2 = [t EXCEPT ![u] = @ \cup RpsRules!rpsSnapshotEnvelope(s, u)]
  PROVE  RpsAt(s, t2, n, h)
<1>1. t = [v \in Users |-> t[v]] /\ n <= RoundLimit /\ RpsPlayed(s, n, h)
      /\ RpsTold(s, t, n, h) /\ RpsScored(s, n, h)
  BY DEF RpsAt
<1>2. /\ t2 = [v \in Users |-> t2[v]]
      /\ \A v \in Users : v # u => t2[v] = t[v]
      /\ t2[u] = t[u] \cup RpsRules!rpsSnapshotEnvelope(s, u)
  BY <1>1
<1>3. \A x \in RpsRules!rpsSnapshotEnvelope(s, u) :
        \/ \E r \in 1..n, v \in Users : x = <<r, v, h[r][v]>>
        \/ s.status = "active" /\ u \in DOMAIN s.choices /\ x = <<s.round, u, s.choices[u]>>
  <2> TAKE x \in RpsRules!rpsSnapshotEnvelope(s, u)
  <2>1. \/ u \in DOMAIN s.choices /\ x = <<s.round, u, s.choices[u]>>
        \/ s.lastReveal # None /\ x \in RpsRules!Shown(s.lastReveal)
    BY DEF RpsRules!rpsSnapshotEnvelope
  <2>2. ASSUME u \in DOMAIN s.choices  PROVE  s.status = "active"
    BY <1>1, <2>2, NothingLocked DEF RpsPlayed
  <2>3. ASSUME s.lastReveal # None, x \in RpsRules!Shown(s.lastReveal)
        PROVE  \E r \in 1..n, v \in Users : x = <<r, v, h[r][v]>>
    <3>1. n # 0 /\ s.lastReveal.round = n /\ s.lastReveal.choices = h[n]
      BY <1>1, <2>3 DEF RpsPlayed
    <3>2. n \in 1..n /\ DOMAIN h[n] = Users
      BY <3>1 DEF Rounds
    <3>3. PICK v \in Users : x = <<n, v, h[n][v]>>
      BY <2>3, <3>1, <3>2 DEF RpsRules!Shown
    <3> QED BY <3>2, <3>3
  <2> QED BY <2>1, <2>2, <2>3
<1>4. RpsTold(s, t2, n, h)
  <2> SUFFICES ASSUME NEW v \in Users
               PROVE  /\ \A r \in 1..n, w \in Users : <<r, w, h[r][w]>> \in t2[v]
                      /\ \A x \in t2[v] : \/ \E r \in 1..n, w \in Users : x = <<r, w, h[r][w]>>
                                          \/ /\ s.status = "active" /\ v \in DOMAIN s.choices
                                             /\ x = <<s.round, v, s.choices[v]>>
    BY DEF RpsTold
  <2>1. /\ \A r \in 1..n, w \in Users : <<r, w, h[r][w]>> \in t[v]
        /\ \A x \in t[v] : \/ \E r \in 1..n, w \in Users : x = <<r, w, h[r][w]>>
                           \/ /\ s.status = "active" /\ v \in DOMAIN s.choices
                              /\ x = <<s.round, v, s.choices[v]>>
    BY <1>1 DEF RpsTold
  <2>2. CASE v # u
    BY <1>2, <2>1, <2>2
  <2>3. CASE v = u
    BY <1>2, <1>3, <2>1, <2>3
  <2> QED BY <2>2, <2>3
<1> QED BY <1>1, <1>2, <1>4 DEF RpsAt

LEMMA RpsPlays ==
  ASSUME NEW n \in Nat, NEW h \in Rounds(n), NEW s, NEW t, RpsAt(s, t, n, h),
         NEW u \in Users, NEW c \in RpsRules!Choices,
         RpsRules!Accepts(s, u), s.round <= RoundLimit,
         NEW t2, t2 = [v \in Users |-> t[v] \cup RpsRules!eventEnvelope(RpsRules!accepted(s, u, c))]
  PROVE  \E m \in Nat : \E k \in Rounds(m) : RpsAt(RpsRules!apply(s, u, c), t2, m, k)
<1>1. /\ s.status = "active" /\ s.round = n + 1 /\ u \notin DOMAIN s.choices
      /\ Locked(s.choices, RpsRules!Choices) /\ DOMAIN s.choices # Users
  BY DEF RpsAt, RpsPlayed, RpsRules!Accepts
<1>2. CASE DOMAIN s.choices = {}
  BY <1>2, RpsFirstChoice
<1>3. CASE DOMAIN s.choices # {}
  <2>1. PICK g : g = RpsRules!Extend(s.choices, u, c)
    OBVIOUS
  <2>2. g \in [Users -> RpsRules!Choices]
    BY <1>1, <1>3, <2>1, RpsSecond, Seats
  <2>3. n < RoundLimit
    BY <1>1, BoardsAssumption
  <2>4. RpsAt(RpsRules!apply(s, u, c), t2, n + 1, Longer(h, n, g))
    BY <1>1, <2>1, <2>2, <2>3, RpsSecondChoice
  <2>5. Longer(h, n, g) \in Rounds(n + 1) /\ n + 1 \in Nat
    BY <2>2 DEF Longer, Rounds
  <2> QED BY <2>4, <2>5
<1> QED BY <1>2, <1>3

(* A score is read off what everybody has been told. *)
LEMMA RpsWonIsTold ==
  ASSUME NEW n \in Nat, NEW h \in Rounds(n), RpsAt(snapshot, told, n, h), NEW u \in Users
  PROVE  RpsRules!Won(u) = WonBy(h, n, u)
<1>1. /\ \A r \in 1..n, v \in Users : <<r, v, h[r][v]>> \in told[u]
      /\ \A x \in told[u] : \/ \E r \in 1..n, v \in Users : x = <<r, v, h[r][v]>>
                            \/ snapshot.status = "active" /\ x = <<snapshot.round, u, snapshot.choices[u]>>
  BY DEF RpsAt, RpsTold
<1>2. n <= RoundLimit /\ (snapshot.status = "active" => snapshot.round = n + 1)
  BY DEF RpsAt, RpsPlayed
<1>3. \A r \in 1..n, v \in Users : h[r][v] \in RpsRules!Choices
  BY DEF Rounds
<1>4. \A a, b \in RpsRules!Choices : <<a, b>> \in RpsRules!Beats => a # b
  BY DEF RpsRules!Choices, RpsRules!Beats
<1>5. \A r \in WonBy(h, n, u) : r \in RpsRules!Won(u)
  <2> TAKE r \in WonBy(h, n, u)
  <2>1. r \in 1..n /\ r \in 1..RoundLimit /\ Opponent(u) \in Users
        /\ <<h[r][u], h[r][Opponent(u)]>> \in RpsRules!Beats
    BY <1>2, BoardsAssumption, Seats DEF WonBy
  <2> QED BY <1>1, <1>3, <2>1 DEF RpsRules!Won
<1>6. \A r \in RpsRules!Won(u) : r \in WonBy(h, n, u)
  <2> TAKE r \in RpsRules!Won(u)
  <2>1. PICK v \in Users, a \in RpsRules!Choices, b \in RpsRules!Choices :
          /\ r \in 1..RoundLimit /\ <<r, u, a>> \in told[u] /\ <<r, v, b>> \in told[u]
          /\ <<a, b>> \in RpsRules!Beats
    BY DEF RpsRules!Won
  <2>2. \A w \in Users, x \in RpsRules!Choices : <<r, w, x>> \in told[u] =>
          \/ r \in 1..n /\ x = h[r][w]
          \/ r = n + 1 /\ w = u /\ x = snapshot.choices[u]
    BY <1>1, <1>2
  <2>3. r \in 1..n /\ a = h[r][u] /\ b = h[r][v]
    BY <1>4, <2>1, <2>2
  <2>4. v = Opponent(u)
    BY <1>4, <2>1, <2>3, Seats
  <2> QED BY <2>1, <2>3, <2>4 DEF WonBy
<1> QED BY <1>5, <1>6

LEMMA RpsPromises ==
  ASSUME RpsInv
  PROVE  RpsRules!RevealedTogether /\ RpsRules!ScoresAddUp /\ RpsRules!Readable
<1>1. PICK n \in Nat : \E h \in Rounds(n) : RpsAt(snapshot, told, n, h)
  BY DEF RpsInv
<1>2. PICK h \in Rounds(n) : RpsAt(snapshot, told, n, h)
  BY <1>1
<1>3. RpsPlayed(snapshot, n, h) /\ RpsTold(snapshot, told, n, h) /\ RpsScored(snapshot, n, h)
  BY <1>2 DEF RpsAt
<1>4. RpsRules!RevealedTogether
  <2> SUFFICES ASSUME NEW u \in Users, NEW x \in told[u], x[2] # u
               PROVE  x[1] < snapshot.round \/ snapshot.status = "finished"
    BY DEF RpsRules!RevealedTogether
  <2>1. PICK r \in 1..n : \E v \in Users : x = <<r, v, h[r][v]>>
    BY <1>3 DEF RpsTold
  <2>2. x[1] = r
    BY <2>1
  <2> QED BY <1>3, <2>2 DEF RpsPlayed
<1>5. RpsRules!ScoresAddUp
  <2>1. \A u \in Users : RpsRules!Score(snapshot.scores, u) = Cardinality(RpsRules!Won(u))
    BY <1>2, <1>3, RpsWonIsTold DEF RpsScored
  <2>2. Needed(snapshot) \in {1, 2}
        /\ Needed(snapshot) = IF snapshot.format = "single_round" THEN 1 ELSE 2
    BY DEF Needed
  <2>3. \A u \in Users : RpsRules!Score(snapshot.scores, u) \in Int
    BY <1>3 DEF RpsScored, Locked, RpsRules!Score
  <2>4. CASE snapshot.status = "active"
    <3>1. /\ snapshot.winner = None
          /\ \A u \in Users : ~(Cardinality(RpsRules!Won(u)) >= Needed(snapshot))
      BY <1>3, <2>1, <2>2, <2>3, <2>4 DEF RpsScored
    <3> QED BY <2>1, <2>2, <2>4, <3>1, Counting DEF RpsRules!ScoresAddUp
  <2>5. CASE snapshot.status = "finished"
    <3>1. snapshot.winner \in Users /\ Cardinality(RpsRules!Won(snapshot.winner)) = Needed(snapshot)
      BY <1>3, <2>1, <2>5 DEF RpsScored
    <3>2. \E u \in Users : Cardinality(RpsRules!Won(u)) >= Needed(snapshot)
      BY <2>2, <3>1
    <3> QED BY <2>1, <2>2, <2>5, <3>1, <3>2, Counting DEF RpsRules!ScoresAddUp
  <2> QED BY <1>3, <2>4, <2>5 DEF RpsPlayed
<1>6. RpsRules!Readable
  <2>1. \A S : S \subseteq Users => Cardinality(S) <= 2
    BY Seats, FS_Subset
  <2>2. snapshot.format = snapshot.format /\ snapshot.status \in {"active", "finished"}
        /\ snapshot.round >= 1
    BY <1>3 DEF RpsPlayed
  <2>3. /\ DOMAIN snapshot.choices \subseteq Users /\ DOMAIN snapshot.scores \subseteq Users
        /\ \A u \in DOMAIN snapshot.choices : snapshot.choices[u] \in RpsRules!Choices
        /\ \A u \in DOMAIN snapshot.scores : snapshot.scores[u] \in 0..2
    <3>1. Locked(snapshot.choices, RpsRules!Choices) /\ Locked(snapshot.scores, 1..2)
      BY <1>3 DEF RpsPlayed, RpsScored
    <3>2. \A x \in 1..2 : x \in 0..2
      OBVIOUS
    <3> QED BY <3>1, <3>2 DEF Locked
  <2> QED BY <2>1, <2>2, <2>3, Counting DEF RpsRules!Readable, RpsRules!decodeState
<1> QED BY <1>4, <1>5, <1>6

LEMMA RpsReadsBack ==
  ASSUME game = "rps", NEW u \in Users, NEW e \in Turns(u)
  PROVE  rebuildSnapshot(e.event) = {e.next}
<1>1. PICK c \in RpsRules!Choices :
        /\ RpsRules!Accepts(snapshot, u)
        /\ e = [event |-> RpsRules!accepted(snapshot, u, c), next |-> RpsRules!apply(snapshot, u, c)]
  BY DEF Turns, RpsRules!Turns
<1> DEFINE g == RpsRules!Extend(snapshot.choices, u, c)
           a == RpsRules!accepted(snapshot, u, c)
<1>2. u \in DOMAIN g /\ g[u] = c
  BY DEF RpsRules!Extend
<1>3. /\ a.actor = u
      /\ \/ a.type = "locked" /\ a.choice = c
         \/ a.type = "revealed" /\ a.reveal.choices = g
  BY DEF RpsRules!accepted, RpsRules!Reveal
<1>4. RpsRules!Rebuild(snapshot, a) = {RpsRules!apply(snapshot, u, c)}
  <2> HIDE DEF g
  <2>1. (IF a.type = "locked" THEN a.choice ELSE a.reveal.choices[a.actor]) = c
    <3> HIDE DEF a
    <3> QED BY <1>2, <1>3
  <2>2. a.actor = u
    BY <1>3
  <2> HIDE DEF a
  <2>3. RpsRules!accepted(snapshot, u, c) = a
    BY DEF a
  <2> QED BY <1>1, <2>1, <2>2, <2>3 DEF RpsRules!Rebuild
<1>5. ~(a.type = "revealed" /\ a.actor \notin DOMAIN a.reveal.choices)
  <2> HIDE DEF a, g
  <2> QED BY <1>2, <1>3
<1> HIDE DEF a
<1>6. rebuildRps(a) = {RpsRules!apply(snapshot, u, c)}
  BY <1>3, <1>4, <1>5 DEF rebuildRps
<1>7. rebuildSnapshot(a) = rebuildRps(a)
  BY DEF rebuildSnapshot
<1> QED BY <1>1, <1>6, <1>7 DEF a

(* The history of the rounds exists for as long as the match is played.    *)
RpsHolds == game = "rps" => RpsInv

LEMMA RpsIsPlayed == Spec => []RpsHolds
<1>1. Init => RpsHolds
  <2> SUFFICES ASSUME Init, game = "rps"  PROVE RpsInv
    BY DEF RpsHolds
  <2>1. PICK f \in RpsRules!Formats : snapshot = RpsRules!initialSnapshot(f)
    BY DEF Init, NewSnapshot
  <2>2. told = [u \in Users |-> {}]
    BY DEF Init
  <2> QED BY <2>1, <2>2, RpsStarts DEF RpsInv
<1>2. RpsHolds /\ [Next]_vars => RpsHolds'
  <2> SUFFICES ASSUME RpsHolds, [Next]_vars, game' = "rps"  PROVE RpsInv'
    BY DEF RpsHolds
  <2>1. game = "rps"
    BY DEF Next, vars, Play, Look
  <2>2. PICK n \in Nat : \E h \in Rounds(n) : RpsAt(snapshot, told, n, h)
    BY <2>1 DEF RpsHolds, RpsInv
  <2>3. PICK h \in Rounds(n) : RpsAt(snapshot, told, n, h)
    BY <2>2
  <2>4. ASSUME NEW u \in Users, Play(u)  PROVE RpsInv'
    <3>1. PICK e \in Turns(u) : snapshot' = e.next /\ RpsRules!Publish(e.event)
      BY <2>1, <2>4 DEF Play
    <3>2. PICK c \in RpsRules!Choices :
            /\ RpsRules!Accepts(snapshot, u) /\ snapshot.round <= RoundLimit
            /\ e.event = RpsRules!accepted(snapshot, u, c)
            /\ e.next = RpsRules!apply(snapshot, u, c)
      BY <2>1 DEF Turns, RpsRules!Turns
    <3>3. /\ snapshot' = RpsRules!apply(snapshot, u, c)
          /\ told' = [v \in Users |->
                        told[v] \cup RpsRules!eventEnvelope(RpsRules!accepted(snapshot, u, c))]
      BY <3>1, <3>2 DEF RpsRules!Publish
    <3>4. \E m \in Nat : \E k \in Rounds(m) :
            RpsAt(RpsRules!apply(snapshot, u, c), told', m, k)
      BY <2>3, <3>2, <3>3, RpsPlays
    <3> QED BY <3>3, <3>4 DEF RpsInv
  <2>5. ASSUME NEW u \in Users, Look(u)  PROVE RpsInv'
    <3>1. /\ told' = [told EXCEPT ![u] = @ \cup RpsRules!rpsSnapshotEnvelope(snapshot, u)]
          /\ snapshot' = snapshot
      BY <2>5 DEF Look, RpsRules!Look
    <3>2. RpsAt(snapshot, told', n, h)
      BY <2>3, <3>1, RpsLooks
    <3> QED BY <3>1, <3>2 DEF RpsInv
  <2>6. CASE UNCHANGED vars
    BY <2>1, <2>6 DEF RpsHolds, vars, RpsInv
  <2> QED BY <2>4, <2>5, <2>6 DEF Next
<1> QED BY <1>1, <1>2, PTL DEF Spec

(***************************************************************************)
(* Flight chess.                                                           *)
(***************************************************************************)
FlightPieces ==
  [zone : {"hangar", "launch", "main", "home", "finished"}, index : Nat]

(* A piece that may stand in slot i, short of the home lane on the ring.   *)
OnCourse(c, p, i) ==
  /\ p \in FlightPieces /\ FlightRules!validPiece(p, i)
  /\ p.zone = "main" => FlightRules!progressForIndex(c, p.index) <= 50

LEMMA FlightColors ==
  /\ FlightRules!Colors = {"black", "white"}
  /\ FlightRules!startIndices["black"] = 26 /\ FlightRules!startIndices["white"] = 0
  /\ \A c \in {"black", "white"} : /\ FlightRules!opposite(c) \in {"black", "white"}
                                   /\ FlightRules!opposite(c) # c
                                   /\ FlightRules!opposite(FlightRules!opposite(c)) = c
BY DEF FlightRules!Colors, FlightRules!startIndices, FlightRules!opposite, FlightRules!Black,
       FlightRules!White

(* The ring, from the start of a colour. *)
LEMMA FlightRing ==
  ASSUME NEW c \in {"black", "white"}, NEW p \in 1..50
  PROVE  /\ FlightRules!indexForProgress(c, p) \in 0..51
         /\ FlightRules!progressForIndex(c, FlightRules!indexForProgress(c, p)) = p
<1>1. FlightRules!startIndices[c] \in {0, 26}
  BY FlightColors
<1>2. \A a \in {0, 26} : /\ (a + p - 1) % 52 \in 0..51
                         /\ ((((a + p - 1) % 52) - a + 52) % 52) + 1 = p
  OBVIOUS
<1> QED BY <1>1, <1>2
    DEF FlightRules!indexForProgress, FlightRules!progressForIndex, FlightRules!MainCellCount

LEMMA FlightProgress ==
  ASSUME NEW c \in {"black", "white"}, NEW i \in 0..51
  PROVE  FlightRules!progressForIndex(c, i) \in 1..52
<1>1. FlightRules!startIndices[c] \in {0, 26}
  BY FlightColors
<1>2. \A a \in {0, 26} : ((i - a + 52) % 52) + 1 \in 1..52
  OBVIOUS
<1> QED BY <1>1, <1>2 DEF FlightRules!progressForIndex, FlightRules!MainCellCount

Effects == {"none", "jump", "shortcut", "jump_shortcut"}

(* Where a move may end. *)
FlightEnd(c, r, i) ==
  /\ r = [to |-> r.to, effect |-> r.effect] /\ r.effect \in Effects
  /\ OnCourse(c, r.to, i) /\ r.to.zone \in {"launch", "main", "home", "finished"}

LEMMA FlightOnRing ==
  ASSUME NEW c \in {"black", "white"}, NEW p \in 1..50, NEW i
  PROVE  FlightEnd(c, FlightRules!resolveMainProgress(c, p), i)
<1> DEFINE at(q, e) == [to |-> FlightRules!Piece("main", FlightRules!indexForProgress(c, q)),
                        effect |-> e]
<1>1. ASSUME NEW q \in 1..50, NEW e \in Effects
      PROVE  FlightEnd(c, at(q, e), i)
  <2>1. /\ FlightRules!indexForProgress(c, q) \in 0..51
        /\ FlightRules!progressForIndex(c, FlightRules!indexForProgress(c, q)) = q
    BY FlightRing
  <2> QED BY <2>1 DEF FlightEnd, OnCourse, FlightPieces, FlightRules!validPiece,
                      FlightRules!Piece, FlightRules!MainCellCount
<1>2. \/ FlightRules!resolveMainProgress(c, p) = at(30, "shortcut")
      \/ FlightRules!resolveMainProgress(c, p) = at(30, "jump_shortcut")
      \/ /\ p % 4 = 2 /\ p \notin {14, 18, 50}
         /\ FlightRules!resolveMainProgress(c, p) = at(p + 4, "jump")
      \/ FlightRules!resolveMainProgress(c, p) = at(p, "none")
  BY DEF FlightRules!resolveMainProgress
<1>3. p % 4 = 2 /\ p \notin {14, 18, 50} => p + 4 \in 1..50
  OBVIOUS
<1>4. 30 \in 1..50 /\ "shortcut" \in Effects /\ "jump_shortcut" \in Effects
      /\ "jump" \in Effects /\ "none" \in Effects
  BY DEF Effects
<1> HIDE DEF at
<1>5. FlightEnd(c, at(30, "shortcut"), i) /\ FlightEnd(c, at(30, "jump_shortcut"), i)
  BY <1>1, <1>4
<1>6. FlightEnd(c, at(p, "none"), i)
  BY <1>1, <1>4
<1>7. p % 4 = 2 /\ p \notin {14, 18, 50} => FlightEnd(c, at(p + 4, "jump"), i)
  BY <1>1, <1>3, <1>4
<1> QED BY <1>2, <1>5, <1>6, <1>7

LEMMA FlightInLane ==
  ASSUME NEW c, NEW k \in 0..5, NEW i
  PROVE  FlightEnd(c, FlightRules!InLane(k), i)
BY DEF FlightRules!InLane, FlightRules!HomeCellCount, FlightRules!Finished, FlightRules!Piece,
       FlightEnd, Effects, OnCourse, FlightPieces, FlightRules!validPiece

LEMMA FlightResolves ==
  ASSUME NEW c \in {"black", "white"}, NEW p, NEW i, OnCourse(c, p, i),
         NEW v \in 1..6, FlightRules!CanMove(p, v)
  PROVE  FlightEnd(c, FlightRules!resolveMove(c, p, v), i)
<1>1. p.zone \in {"hangar", "launch", "main", "home"}
  BY DEF OnCourse, FlightPieces, FlightRules!CanMove
<1>2. ASSUME NEW q \in 1..56
      PROVE  FlightEnd(c, FlightRules!resolveProgress(c, q), i)
  <2>1. CASE q <= 50
    <3>1. q \in 1..50 /\ FlightRules!resolveProgress(c, q) = FlightRules!resolveMainProgress(c, q)
      BY <2>1 DEF FlightRules!resolveProgress
    <3> QED BY <3>1, FlightOnRing
  <2>2. CASE ~(q <= 50)
    <3>1. q - 51 \in 0..5 /\ FlightRules!resolveProgress(c, q) = FlightRules!InLane(q - 51)
      BY <2>2 DEF FlightRules!resolveProgress
    <3> QED BY <3>1, FlightInLane
  <2> QED BY <2>1, <2>2
<1>3. CASE p.zone = "hangar"
  <2>1. FlightRules!resolveMove(c, p, v) = [to |-> FlightRules!Piece("launch", 0), effect |-> "none"]
    BY <1>3 DEF FlightRules!resolveMove
  <2> QED BY <2>1 DEF FlightRules!Piece, FlightEnd, Effects, OnCourse, FlightPieces,
                      FlightRules!validPiece
<1>4. CASE p.zone = "launch"
  <2>1. FlightRules!resolveMove(c, p, v) = FlightRules!resolveProgress(c, v) /\ v \in 1..56
    BY <1>4 DEF FlightRules!resolveMove
  <2> QED BY <1>2, <2>1
<1>5. CASE p.zone = "main"
  <2> DEFINE q == FlightRules!progressForIndex(c, p.index)
  <2>1. FlightRules!resolveMove(c, p, v) = FlightRules!resolveProgress(c, q + v)
    BY <1>5 DEF FlightRules!resolveMove
  <2>2. p.index \in 0..51 /\ q <= 50
    BY <1>5 DEF OnCourse, FlightRules!validPiece, FlightRules!MainCellCount
  <2>3. q \in 1..52
    BY <2>2, FlightProgress
  <2> HIDE DEF q
  <2>4. q + v \in 1..56
    BY <2>2, <2>3
  <2> QED BY <1>2, <2>1, <2>4
<1>6. CASE p.zone = "home"
  <2>1. FlightRules!resolveMove(c, p, v) = FlightRules!InLane(FlightRules!Bounced(p.index + v))
    BY <1>6 DEF FlightRules!resolveMove
  <2>2. p.index \in 0..4
    BY <1>6 DEF OnCourse, FlightRules!validPiece, FlightRules!HomeCellCount
  <2>3. FlightRules!Bounced(p.index + v) \in 0..5
    BY <2>2 DEF FlightRules!Bounced, FlightRules!HomeCellCount
  <2> QED BY <2>1, <2>3, FlightInLane
<1> QED BY <1>1, <1>3, <1>4, <1>5, <1>6

FlightFields == {"status", "phase", "id", "next", "dice", "pieces", "captures", "winner", "result"}

FlightTypes(s) ==
  /\ s = [f \in FlightFields |-> s[f]] /\ s.next \in {"black", "white"}
  /\ s.id \in [{"black", "white"} -> Users \cup {None}]
  /\ s.captures \in [{"black", "white"} -> Nat]
  /\ s.pieces \in [{"black", "white"} -> [FlightRules!Slots -> FlightPieces]]
  /\ \A c \in {"black", "white"} : \A i \in FlightRules!Slots : OnCourse(c, s.pieces[c][i], i)

CellsApart(s) ==
  \A i, j \in FlightRules!Slots :
    s.pieces["black"][i].zone = "main" => s.pieces["black"][i] # s.pieces["white"][j]

FlightSound(s) == FlightTypes(s) /\ CellsApart(s) /\ FlightRules!validState(s)

(* Each colour is played by the player it was drawn for, black first. *)
FlightSeats(s) ==
  /\ s.id["black"] \in {None, BlackPlayer} /\ s.id["white"] \in {None, WhitePlayer}
  /\ s.id["black"] = None => s.next = "black"

(* The colour to move is bound to the player u that acts. *)
FlightBound(s, s2, u) ==
  s2.id = [s.id EXCEPT ![s.next] = u] /\ s2.next \in {"black", "white"}

LEMMA FlightPlayers ==
  ASSUME NEW u \in Users
  PROVE  /\ ColorOf(u) \in {"black", "white"} /\ u # None
         /\ ColorOf(u) = "black" <=> u = BlackPlayer
         /\ ColorOf(u) = "white" <=> u = WhitePlayer
BY SeatsAssumption DEF Users, ColorOf

LEMMA FlightSlots == 0 \in FlightRules!Slots /\ FlightRules!Slots = 0..PieceCount - 1
BY BoardsAssumption DEF FlightRules!Slots

LEMMA FlightStarts == FlightSound(FlightRules!initialState) /\ FlightSeats(FlightRules!initialState)
<1> DEFINE s == FlightRules!initialState
<1>1. /\ s = [f \in FlightFields |-> s[f]] /\ s.next = "black" /\ s.status = "active"
      /\ s.phase = "awaiting_roll" /\ s.dice = 0 /\ s.winner = None /\ s.result = None
      /\ s.id = [c \in {"black", "white"} |-> None]
      /\ s.captures = [c \in {"black", "white"} |-> 0]
      /\ s.pieces = [c \in {"black", "white"} |-> [i \in FlightRules!Slots |-> FlightRules!Piece("hangar", i)]]
  BY FlightColors DEF FlightFields, FlightRules!initialState, FlightRules!Black
<1>2. \A c \in {"black", "white"} : \A i \in FlightRules!Slots :
        /\ s.pieces[c][i] = [zone |-> "hangar", index |-> i] /\ i \in Nat
        /\ OnCourse(c, s.pieces[c][i], i) /\ s.pieces[c][i].zone = "hangar"
        /\ s.pieces[c][i] # FlightRules!Finished
  <2> TAKE c \in {"black", "white"}
  <2> TAKE i \in FlightRules!Slots
  <2>1. s.pieces[c][i] = [zone |-> "hangar", index |-> i] /\ i \in Nat
    BY <1>1, FlightSlots, BoardsAssumption DEF FlightRules!Piece
  <2> HIDE DEF s
  <2> QED BY <2>1 DEF OnCourse, FlightPieces, FlightRules!validPiece, FlightRules!Finished,
                      FlightRules!Piece
<1> HIDE DEF s
<1>3. FlightTypes(s)
  <2>1. s.pieces \in [{"black", "white"} -> [FlightRules!Slots -> FlightPieces]]
    <3>1. \A i \in FlightRules!Slots : FlightRules!Piece("hangar", i) \in FlightPieces
      BY FlightSlots, BoardsAssumption DEF FlightRules!Piece, FlightPieces
    <3> QED BY <1>1, <3>1
  <2>2. /\ s.id \in [{"black", "white"} -> Users \cup {None}]
        /\ s.captures \in [{"black", "white"} -> Nat]
    BY <1>1
  <2> QED BY <1>1, <1>2, <2>1, <2>2 DEF FlightTypes
<1>4. CellsApart(s)
  BY <1>2 DEF CellsApart
<1>5. FlightRules!validState(s)
  <2>1. \A c \in {"black", "white"} : ~FlightRules!allFinished(s.pieces[c])
    BY <1>2, FlightSlots DEF FlightRules!allFinished
  <2>2. \A c \in {"black", "white"} : s.captures[c] \in 0..CaptureLimit
    BY <1>1, BoardsAssumption
  <2>3. \A c \in {"black", "white"} : \A i \in FlightRules!Slots :
           /\ FlightRules!validPiece(s.pieces[c][i], i)
           /\ s.pieces[c][i].zone = "main" =>
                FlightRules!progressForIndex(c, s.pieces[c][i].index) <= 50
    BY <1>2 DEF OnCourse
  <2> QED BY <1>1, <2>1, <2>2, <2>3, FlightColors DEF FlightRules!validState, FlightRules!Black
<1>6. FlightSeats(s)
  BY <1>1 DEF FlightSeats
<1> QED BY <1>3, <1>4, <1>5, <1>6 DEF s, FlightSound

LEMMA FlightBinds ==
  ASSUME NEW s, FlightTypes(s), FlightRules!validState(s), NEW u \in Users,
         FlightRules!bindAndValidateActor(s, u), NEW s2, FlightBound(s, s2, u)
  PROVE  /\ s2.id \in [{"black", "white"} -> Users \cup {None}] /\ s2.id[s.next] = u
         /\ s2.id["black"] # None => s2.id["black"] # s2.id["white"]
         /\ FlightSeats(s) /\ s.next = ColorOf(u) =>
              FlightSeats(s2) /\ s2.id["black"] = BlackPlayer
<1> DEFINE c == s.next
           e == FlightRules!opposite(c)
<1>1. /\ c \in {"black", "white"} /\ e \in {"black", "white"} /\ e # c
      /\ s.id \in [{"black", "white"} -> Users \cup {None}]
      /\ s.id["black"] # None => s.id["black"] # s.id["white"]
  BY FlightColors DEF FlightTypes, FlightRules!validState, FlightRules!Black, FlightRules!White
<1>2. /\ s2.id \in [{"black", "white"} -> Users \cup {None}] /\ s2.id[c] = u /\ s2.id[e] = s.id[e]
  BY <1>1 DEF FlightBound
<1>3. s.id[e] # u
  <2>1. IF s.id[c] # None THEN s.id[c] = u ELSE s.id[e] # u
    BY DEF FlightRules!bindAndValidateActor
  <2>2. s.id[c] = u => s.id[e] # u
    BY <1>1, SeatsAssumption DEF Users
  <2> QED BY <2>1, <2>2
<1>4. s2.id["black"] # s2.id["white"]
  BY <1>1, <1>2, <1>3
<1>5. ASSUME FlightSeats(s), s.next = ColorOf(u)
      PROVE  FlightSeats(s2) /\ s2.id["black"] = BlackPlayer
  <2>1. CASE c = "black"
    <3>1. e = "white" /\ u = BlackPlayer
      BY <1>1, <1>5, <2>1, FlightPlayers
    <3> HIDE DEF e
    <3> QED BY <1>2, <1>5, <2>1, <3>1, SeatsAssumption DEF FlightSeats
  <2>2. CASE c = "white"
    <3>1. e = "black" /\ u = WhitePlayer /\ s.id["black"] = BlackPlayer
      BY <1>1, <1>5, <2>2, FlightPlayers DEF FlightSeats
    <3> HIDE DEF e
    <3> QED BY <1>2, <1>5, <2>2, <3>1, SeatsAssumption DEF FlightSeats
  <2> QED BY <1>1, <2>1, <2>2
<1> QED BY <1>2, <1>4, <1>5

(***************************************************************************)
(* A roll. *)
(***************************************************************************)
LEMMA FlightRolled ==
  ASSUME NEW s, FlightSound(s), NEW u \in Users,
         NEW v \in 1..6, NEW o, FlightRules!MayRoll(s, u)
  PROVE  LET s2 == FlightRules!Rolled(s, u, v, o)
         IN  FlightSound(s2) /\ FlightBound(s, s2, u)
<1> DEFINE s2 == FlightRules!Rolled(s, u, v, o)
           moved == FlightRules!Movable(s, v, o) # {}
<1>1. FlightTypes(s) /\ CellsApart(s) /\ FlightRules!validState(s)
  BY DEF FlightSound
<1>2. s.status = "active" /\ s.phase = "awaiting_roll" /\ s.dice = 0
  BY <1>1 DEF FlightRules!MayRoll, FlightRules!validState
<1>3. /\ s2 = [f \in FlightFields |-> s2[f]]
      /\ s2.id = [s.id EXCEPT ![s.next] = u] /\ s2.pieces = s.pieces /\ s2.captures = s.captures
      /\ s2.status = s.status /\ s2.winner = s.winner /\ s2.result = s.result
      /\ s2.next = (IF moved \/ v = 6 THEN s.next ELSE FlightRules!opposite(s.next))
      /\ s2.phase = (IF moved THEN "awaiting_move" ELSE "awaiting_roll")
      /\ s2.dice = (IF moved THEN v ELSE 0)
  <2>1. s = [f \in FlightFields |-> s[f]]
    BY <1>1 DEF FlightTypes
  <2> HIDE DEF moved
  <2>2. s2 = IF moved THEN [s EXCEPT !.id = [s.id EXCEPT ![s.next] = u], !.phase = "awaiting_move",
                                     !.dice = v]
             ELSE IF v # 6 THEN [s EXCEPT !.id = [s.id EXCEPT ![s.next] = u],
                                          !.next = FlightRules!opposite(s.next)]
             ELSE [s EXCEPT !.id = [s.id EXCEPT ![s.next] = u]]
    BY <2>1 DEF FlightRules!Rolled, FlightFields, moved
  <2> HIDE DEF s2
  <2> QED BY <1>2, <2>1, <2>2 DEF FlightFields
<1> HIDE DEF s2, moved
<1>4. /\ s.next \in {"black", "white"} /\ FlightRules!opposite(s.next) \in {"black", "white"}
      /\ s.id \in [{"black", "white"} -> Users \cup {None}]
      /\ s2.next \in {"black", "white"}
  BY <1>1, <1>3, FlightColors DEF FlightTypes
<1>5. FlightBound(s, s2, u)
  BY <1>3, <1>4 DEF FlightBound
<1>6. /\ s2.id \in [{"black", "white"} -> Users \cup {None}]
      /\ s2.id["black"] # None => s2.id["black"] # s2.id["white"]
  BY <1>1, <1>5, FlightBinds DEF FlightRules!MayRoll
<1>7. FlightTypes(s2)
  BY <1>1, <1>3, <1>4, <1>6 DEF FlightTypes
<1>8. CellsApart(s2)
  BY <1>1, <1>3 DEF CellsApart
<1>9. FlightRules!validState(s2)
  <2>1. moved => FlightRules!movablePieces(s2.pieces[s2.next], s2.dice) # {}
    BY <1>3 DEF moved, FlightRules!Movable
  <2>2. \/ s2.phase = "awaiting_roll" /\ s2.dice = 0
        \/ /\ s2.phase = "awaiting_move" /\ s2.dice \in 1..6
           /\ FlightRules!movablePieces(s2.pieces[s2.next], s2.dice) # {}
    BY <1>3, <2>1
  <2>3. s2.id["black"] # None => s2.id["black"] # s2.id["white"]
    BY <1>6
  <2>4. /\ \A c \in {"black", "white"} : s2.captures[c] \in 0..CaptureLimit
        /\ \A c \in {"black", "white"} : \A i \in FlightRules!Slots :
             /\ FlightRules!validPiece(s2.pieces[c][i], i)
             /\ s2.pieces[c][i].zone = "main" =>
                  FlightRules!progressForIndex(c, s2.pieces[c][i].index) <= 50
        /\ s2.status = "active" /\ s2.result = None /\ s2.winner = None
        /\ \A c \in {"black", "white"} : ~FlightRules!allFinished(s2.pieces[c])
    BY <1>1, <1>2, <1>3, FlightColors DEF FlightRules!validState
  <2> QED BY <1>4, <2>2, <2>3, <2>4, FlightColors
          DEF FlightRules!validState, FlightRules!Black, FlightRules!White, FlightRules!Die
<1> QED BY <1>5, <1>7, <1>8, <1>9 DEF s2, FlightSound

(***************************************************************************)
(* A move.                                                                 *)
(***************************************************************************)
LEMMA FlightCounting == \A S : FlightRules!Cardinality(S) = Cardinality(S)
BY DEF FlightRules!Cardinality, Cardinality

LEMMA FlightCaptures ==
  ASSUME NEW s, NEW i, NEW o
  PROVE  /\ FlightRules!Captured(s, i, o) \subseteq FlightRules!Slots
         /\ FlightRules!Cardinality(FlightRules!Captured(s, i, o)) \in 0..PieceCount
<1> DEFINE C == FlightRules!Captured(s, i, o)
<1>1. C \subseteq FlightRules!Slots
  BY DEF FlightRules!Captured
<1>2. IsFiniteSet(FlightRules!Slots) /\ Cardinality(FlightRules!Slots) = PieceCount
  <2>1. PieceCount - 1 \in Int /\ 0 <= PieceCount - 1
    BY BoardsAssumption
  <2>2. IsFiniteSet(0..PieceCount - 1) /\ Cardinality(0..PieceCount - 1) = PieceCount - 1 - 0 + 1
    BY <2>1, FS_Interval
  <2> QED BY <2>2, BoardsAssumption, FlightSlots
<1> HIDE DEF C
<1>3. IsFiniteSet(C) /\ Cardinality(C) <= PieceCount
  BY <1>1, <1>2, FS_Subset
<1>4. Cardinality(C) \in Nat
  BY <1>3, FS_CardinalityType
<1> QED BY <1>1, <1>3, <1>4, FlightCounting, BoardsAssumption DEF C

(* A piece that comes to rest on the ring touches down there. *)
LEMMA FlightLands ==
  ASSUME NEW s, NEW i, NEW o, NEW c, NEW k, c = s.next,
         FlightEnd(c, FlightRules!resolveMove(c, s.pieces[c][i], s.dice), k),
         FlightRules!resolveMove(c, s.pieces[c][i], s.dice).to.zone = "main"
  PROVE  FlightRules!resolveMove(c, s.pieces[c][i], s.dice).to \in FlightRules!Destinations(s, i, o)
<1> DEFINE r == FlightRules!resolveMove(c, s.pieces[c][i], s.dice)
<1>0. PICK t : t = r.to
  OBVIOUS
<1>1. r.to.index \in 0..51 /\ r.to = FlightRules!Piece("main", r.to.index)
  <2>1. t \in FlightPieces /\ FlightRules!validPiece(t, k) /\ t.zone = "main"
    BY <1>0 DEF FlightEnd, OnCourse
  <2>2. t.index \in 0..51
    BY <2>1 DEF FlightRules!validPiece, FlightRules!MainCellCount
  <2>3. t = [zone |-> t.zone, index |-> t.index]
    BY <2>1 DEF FlightPieces
  <2>4. t = FlightRules!Piece("main", t.index)
    BY <2>1, <2>3 DEF FlightRules!Piece
  <2> QED BY <1>0, <2>2, <2>4
<1> HIDE DEF r
<1>2. (r.to.index - 0 + FlightRules!MainCellCount) % FlightRules!MainCellCount = r.to.index
  BY <1>1 DEF FlightRules!MainCellCount
<1>3. r.to \in FlightRules!landingCells(r)
  BY <1>1, <1>2 DEF r, FlightRules!landingCells
<1> QED BY <1>3 DEF r, FlightRules!Destinations

LEMMA FlightMoved ==
  ASSUME NEW s, FlightSound(s), NEW u \in Users,
         NEW i \in FlightRules!Slots, NEW o, FlightRules!MayMove(s, u, i)
  PROVE  LET s2 == FlightRules!Moved(s, u, i, o)
         IN  /\ FlightTypes(s2) /\ CellsApart(s2) /\ FlightBound(s, s2, u)
             /\ (\A c \in {"black", "white"} : s.captures[c] + PieceCount <= CaptureLimit)
                  => FlightRules!validState(s2)
<1> DEFINE c == s.next
           e == FlightRules!opposite(c)
           r == FlightRules!resolveMove(c, s.pieces[c][i], s.dice)
           C == FlightRules!Captured(s, i, o)
           n == FlightRules!Cardinality(C)
           p2 == [s.pieces EXCEPT ![c][i] = r.to,
                                  ![e] = [j \in FlightRules!Slots |->
                                            IF j \in C THEN FlightRules!Piece("hangar", j) ELSE @[j]]]
           s2 == FlightRules!Moved(s, u, i, o)
           home == FlightRules!allFinished(p2[c])
<1>1. FlightTypes(s) /\ CellsApart(s) /\ FlightRules!validState(s)
  BY DEF FlightSound
<1>2. /\ c \in {"black", "white"} /\ e \in {"black", "white"} /\ e # c
      /\ \A d \in {"black", "white"} : d = c \/ d = e
  BY <1>1, FlightColors DEF FlightTypes
<1>3. /\ s.status = "active" /\ s.phase = "awaiting_move" /\ s.dice \in 1..6
      /\ FlightRules!CanMove(s.pieces[c][i], s.dice)
      /\ s.winner = None /\ s.result = None
  BY <1>1 DEF FlightRules!MayMove, FlightRules!validState, FlightRules!Die
<1>4. FlightEnd(c, r, i)
  <2>1. OnCourse(c, s.pieces[c][i], i)
    BY <1>1, <1>2 DEF FlightTypes
  <2> QED BY <1>2, <1>3, <2>1, FlightResolves
<1>5. C \subseteq FlightRules!Slots /\ n \in 0..PieceCount
  BY FlightCaptures
<1>6. r.to.zone = "main" => \A j \in FlightRules!Slots : s.pieces[e][j] = r.to => j \in C
  BY <1>4, FlightLands DEF FlightRules!Captured
<1>7. /\ s2 = [f \in FlightFields |-> s2[f]]
      /\ s2.id = [s.id EXCEPT ![c] = u] /\ s2.pieces = p2
      /\ s2.captures = [s.captures EXCEPT ![c] = @ + n]
      /\ s2.phase = "awaiting_roll" /\ s2.dice = 0
      /\ home => s2.status = "finished" /\ s2.winner = u /\ s2.result = "goal" /\ s2.next = c
      /\ ~home => /\ s2.status = "active" /\ s2.winner = None /\ s2.result = None
                  /\ s2.next \in {c, e}
  <2>1. s = [f \in FlightFields |-> s[f]]
    BY <1>1 DEF FlightTypes
  <2> DEFINE m == [s EXCEPT !.id = [s.id EXCEPT ![c] = u], !.pieces = p2,
                            !.captures = [s.captures EXCEPT ![c] = @ + n],
                            !.dice = 0, !.phase = "awaiting_roll"]
  <2>2. s2 = IF home THEN [m EXCEPT !.status = "finished", !.winner = u, !.result = "goal"]
             ELSE IF s.dice # 6 THEN [m EXCEPT !.next = e] ELSE m
    BY <2>1 DEF FlightRules!Moved, FlightFields
  <2> HIDE DEF p2, home, n, s2, e
  <2>3. /\ m = [f \in FlightFields |-> m[f]]
        /\ m.id = [s.id EXCEPT ![c] = u] /\ m.pieces = p2
        /\ m.captures = [s.captures EXCEPT ![c] = @ + n]
        /\ m.phase = "awaiting_roll" /\ m.dice = 0 /\ m.next = c
        /\ m.status = "active" /\ m.winner = None /\ m.result = None
    BY <1>3, <2>1 DEF FlightFields
  <2> HIDE DEF m
  <2>4. CASE home
    BY <2>2, <2>3, <2>4 DEF FlightFields
  <2>5. CASE ~home
    BY <2>2, <2>3, <2>5 DEF FlightFields
  <2> QED BY <2>4, <2>5
<1>8. /\ p2 \in [{"black", "white"} -> [FlightRules!Slots -> FlightPieces]]
      /\ \A j \in FlightRules!Slots :
           /\ p2[c][j] = IF j = i THEN r.to ELSE s.pieces[c][j]
           /\ p2[e][j] = IF j \in C THEN FlightRules!Piece("hangar", j) ELSE s.pieces[e][j]
  <2>1. s.pieces \in [{"black", "white"} -> [FlightRules!Slots -> FlightPieces]]
    BY <1>1 DEF FlightTypes
  <2>2. r.to \in FlightPieces
    BY <1>4 DEF FlightEnd, OnCourse
  <2>3. \A j \in FlightRules!Slots : FlightRules!Piece("hangar", j) \in FlightPieces
    BY FlightSlots, BoardsAssumption DEF FlightRules!Piece, FlightPieces
  <2> HIDE DEF c, e, r, C
  <2> QED BY <1>2, <2>1, <2>2, <2>3
<1> HIDE DEF c, e, r, C, n, p2, s2, home
<1>9. \A d \in {"black", "white"} : \A j \in FlightRules!Slots : OnCourse(d, p2[d][j], j)
  <2>1. \A j \in FlightRules!Slots : OnCourse(e, FlightRules!Piece("hangar", j), j)
    BY FlightSlots, BoardsAssumption
       DEF OnCourse, FlightPieces, FlightRules!Piece, FlightRules!validPiece
  <2>2. OnCourse(c, r.to, i)
    BY <1>4 DEF FlightEnd
  <2>3. \A j \in FlightRules!Slots : OnCourse(c, s.pieces[c][j], j) /\ OnCourse(e, s.pieces[e][j], j)
    BY <1>1, <1>2 DEF FlightTypes
  <2> QED BY <1>2, <1>8, <2>1, <2>2, <2>3
<1>10. CellsApart(s2)
  <2>1. \A j, k \in FlightRules!Slots : p2[c][j].zone = "main" => p2[c][j] # p2[e][k]
    <3> SUFFICES ASSUME NEW j \in FlightRules!Slots, NEW k \in FlightRules!Slots,
                        p2[c][j].zone = "main", p2[c][j] = p2[e][k]
                 PROVE  FALSE
      OBVIOUS
    <3>1. k \notin C /\ p2[e][k] = s.pieces[e][k]
      <4>1. FlightRules!Piece("hangar", k).zone # "main"
        BY DEF FlightRules!Piece
      <4> QED BY <1>8, <4>1
    <3>2. CASE j = i
      BY <1>6, <1>8, <3>1, <3>2
    <3>3. CASE j # i
      BY <1>1, <1>2, <1>8, <3>1, <3>3 DEF CellsApart
    <3> QED BY <3>2, <3>3
  <2>2. \A j, k \in FlightRules!Slots : p2[e][j].zone = "main" => p2[e][j] # p2[c][k]
    BY <2>1
  <2> QED BY <1>2, <1>7, <2>1, <2>2 DEF CellsApart
<1>11. FlightBound(s, s2, u)
  <2>1. s2.next \in {"black", "white"}
    BY <1>2, <1>7
  <2> QED BY <1>7, <2>1 DEF FlightBound, c
<1>12. /\ s2.id \in [{"black", "white"} -> Users \cup {None}] /\ s2.id[c] = u
       /\ s2.id["black"] # None => s2.id["black"] # s2.id["white"]
  BY <1>1, <1>11, FlightBinds DEF FlightRules!MayMove, c
<1>13. s2.captures \in [{"black", "white"} -> Nat]
       /\ \A d \in {"black", "white"} : s2.captures[d] <= s.captures[d] + PieceCount
  <2>1. s.captures \in [{"black", "white"} -> Nat] /\ n \in Nat /\ n <= PieceCount
    BY <1>1, <1>5, BoardsAssumption DEF FlightTypes
  <2> QED BY <1>2, <1>7, <2>1, BoardsAssumption
<1>14. FlightTypes(s2)
  <2>1. s2.next \in {"black", "white"}
    BY <1>2, <1>7
  <2> QED BY <1>7, <1>8, <1>9, <1>13, <1>12, <2>1 DEF FlightTypes
<1>15. ASSUME \A d \in {"black", "white"} : s.captures[d] + PieceCount <= CaptureLimit
       PROVE  FlightRules!validState(s2)
  <2>1. \A d \in {"black", "white"} : s2.captures[d] \in 0..CaptureLimit
    <3> SUFFICES ASSUME NEW d \in {"black", "white"}
                 PROVE  s2.captures[d] \in 0..CaptureLimit
      OBVIOUS
    <3>1. /\ s.captures[d] \in Nat /\ s2.captures[d] \in Nat
          /\ s2.captures[d] <= s.captures[d] + PieceCount
      BY <1>1, <1>13 DEF FlightTypes
    <3> QED BY <1>15, <3>1, BoardsAssumption
  <2>2. s2.id["black"] # None => s2.id["black"] # s2.id["white"]
    BY <1>12
  <2>3. \A d \in {"black", "white"} : \A j \in FlightRules!Slots :
          /\ FlightRules!validPiece(s2.pieces[d][j], j)
          /\ s2.pieces[d][j].zone = "main" =>
               FlightRules!progressForIndex(d, s2.pieces[d][j].index) <= 50
    BY <1>7, <1>9 DEF OnCourse
  <2>4. s2.next \in {"black", "white"} /\ s2.phase = "awaiting_roll" /\ s2.dice = 0
    BY <1>2, <1>7
  <2>5. CASE home
    <3>1. /\ s2.status = "finished" /\ s2.result = "goal" /\ s2.winner # None
          /\ s2.winner = s2.id[c] /\ FlightRules!allFinished(s2.pieces[c])
      BY <1>7, <1>12, <2>5, FlightPlayers DEF home
    <3> QED BY <1>2, <2>1, <2>2, <2>3, <2>4, <3>1, FlightColors
            DEF FlightRules!validState, FlightRules!Black, FlightRules!White
  <2>6. CASE ~home
    <3>1. ~FlightRules!allFinished(s.pieces[e])
      BY <1>1, <1>2, <1>3, FlightColors DEF FlightRules!validState
    <3>2. PICK j \in FlightRules!Slots : s.pieces[e][j] # FlightRules!Finished
      BY <3>1 DEF FlightRules!allFinished
    <3>3. p2[e][j] # FlightRules!Finished
      <4>1. FlightRules!Piece("hangar", j) # FlightRules!Finished
        <5>1. /\ FlightRules!Piece("hangar", j).zone = "hangar"
              /\ FlightRules!Finished.zone = "finished"
          BY DEF FlightRules!Finished, FlightRules!Piece
        <5> QED BY <5>1
      <4> QED BY <1>8, <3>2, <4>1
    <3>4. ~FlightRules!allFinished(p2[e]) /\ ~FlightRules!allFinished(p2[c])
      BY <2>6, <3>3 DEF FlightRules!allFinished, home
    <3>5. /\ s2.status = "active" /\ s2.result = None /\ s2.winner = None
          /\ \A d \in {"black", "white"} : ~FlightRules!allFinished(s2.pieces[d])
      BY <1>2, <1>7, <2>6, <3>4
    <3> QED BY <2>1, <2>2, <2>3, <2>4, <3>5, FlightColors
            DEF FlightRules!validState, FlightRules!Black, FlightRules!White
  <2> QED BY <2>5, <2>6
<1> QED BY <1>10, <1>11, <1>14, <1>15 DEF s2

FlightHolds == game = "flight_chess" => FlightSound(snapshot) /\ FlightSeats(snapshot)

LEMMA FlightIsPlayed == Spec => []FlightHolds
<1>1. Init => FlightHolds
  BY FlightStarts DEF Init, NewSnapshot, FlightHolds
<1>2. FlightHolds /\ [Next]_vars => FlightHolds'
  <2> SUFFICES ASSUME FlightHolds, [Next]_vars, game' = "flight_chess"
               PROVE  FlightSound(snapshot)' /\ FlightSeats(snapshot)'
    BY DEF FlightHolds
  <2>1. game = "flight_chess"
    BY DEF Next, vars, Play, Look
  <2>2. FlightSound(snapshot) /\ FlightSeats(snapshot)
    BY <2>1 DEF FlightHolds
  <2>3. ASSUME NEW u \in Users, Play(u)  PROVE FlightSound(snapshot)' /\ FlightSeats(snapshot)'
    <3>1. PICK e \in Turns(u) : snapshot' = e.next
      BY <2>3 DEF Play
    <3>2. snapshot.next = ColorOf(u) /\ Turns(u) = FlightRules!Turns(u)
      BY <2>1, <2>3 DEF Play, MayAct, Turns
    <3>3. CASE e \in FlightRules!RollTurns(u)
      <4>1. PICK v \in 1..6, o \in FlightRules!Options(FlightRules!RollOptions) :
              /\ FlightRules!MayRoll(snapshot, u)
              /\ e.next = FlightRules!Rolled(snapshot, u, v, o)
        BY <3>3 DEF FlightRules!RollTurns, FlightRules!Die
      <4>2. FlightSound(e.next) /\ FlightBound(snapshot, e.next, u)
        BY <2>2, <4>1, FlightRolled
      <4>3. FlightSeats(e.next)
        BY <2>2, <3>2, <4>1, <4>2, FlightBinds DEF FlightSound, FlightRules!MayRoll
      <4> QED BY <3>1, <4>2, <4>3
    <3>4. CASE e \in FlightRules!MoveTurns(u)
      <4>1. PICK i \in FlightRules!Slots, o \in FlightRules!Options(FlightRules!MoveOptions) :
              /\ FlightRules!MayMove(snapshot, u, i)
              /\ e.next = FlightRules!Moved(snapshot, u, i, o)
        BY <3>4 DEF FlightRules!MoveTurns
      <4>2. FlightRules!validState(e.next)
        BY <3>4 DEF FlightRules!MoveTurns
      <4>3. FlightTypes(e.next) /\ CellsApart(e.next) /\ FlightBound(snapshot, e.next, u)
        BY <2>2, <4>1, FlightMoved
      <4>4. FlightSeats(e.next)
        BY <2>2, <3>2, <4>1, <4>3, FlightBinds DEF FlightSound, FlightRules!MayMove
      <4> QED BY <3>1, <4>2, <4>3, <4>4 DEF FlightSound
    <3> QED BY <3>2, <3>3, <3>4 DEF FlightRules!Turns
  <2>4. \A u \in Users : ~Look(u)
    BY <2>1 DEF Look
  <2>5. CASE UNCHANGED vars
    BY <2>2, <2>5 DEF vars
  <2> QED BY <2>3, <2>4, <2>5 DEF Next
<1> QED BY <1>1, <1>2, PTL DEF Spec

(* Below the capture limit, whatever the options of the rules. *)
LEMMA FlightStores ==
  ASSUME FlightSound(snapshot), FlightRules!BelowLimit, NEW u \in Users
  PROVE  /\ \A v \in 1..6 : \A o : FlightRules!MayRoll(snapshot, u) =>
              FlightSound(FlightRules!Rolled(snapshot, u, v, o))
         /\ \A i \in FlightRules!Slots : \A o : FlightRules!MayMove(snapshot, u, i) =>
              FlightSound(FlightRules!Moved(snapshot, u, i, o))
<1>1. \A c \in {"black", "white"} : snapshot.captures[c] + PieceCount <= CaptureLimit
  BY FlightColors DEF FlightRules!BelowLimit
<1>2. ASSUME NEW v \in 1..6, NEW o, FlightRules!MayRoll(snapshot, u)
      PROVE  FlightSound(FlightRules!Rolled(snapshot, u, v, o))
  BY <1>2, FlightRolled
<1>3. ASSUME NEW i \in FlightRules!Slots, NEW o, FlightRules!MayMove(snapshot, u, i)
      PROVE  FlightSound(FlightRules!Moved(snapshot, u, i, o))
  <2>1. /\ FlightTypes(FlightRules!Moved(snapshot, u, i, o))
        /\ CellsApart(FlightRules!Moved(snapshot, u, i, o))
        /\ FlightRules!validState(FlightRules!Moved(snapshot, u, i, o))
    BY <1>1, <1>3, FlightMoved
  <2> QED BY <2>1 DEF FlightSound
<1> QED BY <1>2, <1>3

LEMMA FlightPromises ==
  ASSUME FlightSound(snapshot)
  PROVE  FlightRules!Readable /\ FlightRules!CellsExclusive /\ FlightRules!NothingRefused
<1>1. FlightRules!Readable /\ FlightRules!CellsExclusive
  BY DEF FlightSound, CellsApart, FlightRules!Readable, FlightRules!CellsExclusive,
         FlightRules!Black, FlightRules!White
<1>2. FlightRules!NothingRefused
  <2> SUFFICES ASSUME FlightRules!BelowLimit, NEW u \in Users
               PROVE  /\ \A v \in 1..6 : \A o : FlightRules!MayRoll(snapshot, u) =>
                           FlightRules!validState(FlightRules!Rolled(snapshot, u, v, o))
                      /\ \A i \in FlightRules!Slots : \A o : FlightRules!MayMove(snapshot, u, i) =>
                           FlightRules!validState(FlightRules!Moved(snapshot, u, i, o))
    BY DEF FlightRules!NothingRefused, FlightRules!Die
  <2> QED BY FlightStores DEF FlightSound
<1> QED BY <1>1, <1>2

(***************************************************************************)
(* Reading a log back.  Options that write the same event lead to the same *)
(* state, so whichever of them is found first does.                        *)
(***************************************************************************)
LEMMA FlightFirst ==
  ASSUME NEW m \in {3, 4}, NEW same \in SUBSET (1..m), same # {}
  PROVE  \E k \in same : FlightRules!First(1..m, same) = {k}
<1>1. \A k \in same : k \in 1..4
  OBVIOUS
<1>2. 1 \in same \/ 2 \in same \/ 3 \in same \/ 4 \in same
  <2>1. PICK k \in same : k \in 1..4
    BY <1>1
  <2>2. k = 1 \/ k = 2 \/ k = 3 \/ k = 4
    BY <2>1
  <2> QED BY <2>1, <2>2
<1>3. \E k \in same : \A n \in same : k <= n
  <2>1. CASE 1 \in same
    BY <1>1, <2>1
  <2>2. CASE 1 \notin same /\ 2 \in same
    <3>1. \A n \in same : 2 <= n
      BY <1>1, <2>2
    <3> QED BY <2>2, <3>1
  <2>3. CASE 1 \notin same /\ 2 \notin same /\ 3 \in same
    <3>1. \A n \in same : 3 <= n
      BY <1>1, <2>3
    <3> QED BY <2>3, <3>1
  <2>4. CASE 1 \notin same /\ 2 \notin same /\ 3 \notin same
    <3>1. 4 \in same /\ \A n \in same : 4 <= n
      BY <1>1, <1>2, <2>4
    <3> QED BY <3>1
  <2> QED BY <1>2, <2>1, <2>2, <2>3, <2>4
<1>4. PICK k \in same : \A n \in same : k <= n
  BY <1>3
<1>5. \A n \in same : n <= k => n = k
  BY <1>1, <1>4
<1>6. FlightRules!First(1..m, same) = {n \in same : \A l \in same : n <= l}
  <2>1. 1 \in 1..m
    OBVIOUS
  <2> QED BY <2>1 DEF FlightRules!First
<1> QED BY <1>4, <1>5, <1>6

LEMMA FlightGenerations ==
  DOMAIN FlightRules!RollOptions = 1..4 /\ DOMAIN FlightRules!MoveOptions = 1..3
BY DEF FlightRules!RollOptions, FlightRules!MoveOptions

LEMMA FlightSameRoll ==
  ASSUME NEW s, NEW u, NEW v, NEW o, NEW q,
         FlightRules!rollAccepted(s, u, v, o) = FlightRules!rollAccepted(s, u, v, q)
  PROVE  FlightRules!Rolled(s, u, v, o) = FlightRules!Rolled(s, u, v, q)
<1>1. FlightRules!Movable(s, v, o) = FlightRules!Movable(s, v, q)
  <2>1. /\ FlightRules!rollAccepted(s, u, v, o).movable = FlightRules!Movable(s, v, o)
        /\ FlightRules!rollAccepted(s, u, v, q).movable = FlightRules!Movable(s, v, q)
    BY DEF FlightRules!rollAccepted
  <2> QED BY <2>1
<1> QED BY <1>1 DEF FlightRules!Rolled

LEMMA FlightSameMove ==
  ASSUME NEW s, NEW u, NEW i, NEW o, NEW q,
         FlightRules!moveAccepted(s, u, i, o) = FlightRules!moveAccepted(s, u, i, q)
  PROVE  FlightRules!Moved(s, u, i, o) = FlightRules!Moved(s, u, i, q)
<1>1. FlightRules!Captured(s, i, o) = FlightRules!Captured(s, i, q)
  <2>1. /\ FlightRules!moveAccepted(s, u, i, o).captured = FlightRules!Captured(s, i, o)
        /\ FlightRules!moveAccepted(s, u, i, q).captured = FlightRules!Captured(s, i, q)
    BY DEF FlightRules!moveAccepted
  <2> QED BY <2>1
<1> QED BY <1>1 DEF FlightRules!Moved

LEMMA FlightRollReadsBack ==
  ASSUME FlightSound(snapshot), FlightRules!BelowLimit, NEW u \in Users,
         NEW e \in FlightRules!RollTurns(u)
  PROVE  FlightRules!Rebuild(snapshot, e.event) = {e.next}
<1>1. PICK v \in 1..6, o \in FlightRules!Options(FlightRules!RollOptions) :
        /\ FlightRules!MayRoll(snapshot, u)
        /\ e = [event |-> FlightRules!rollAccepted(snapshot, u, v, o),
                next |-> FlightRules!Rolled(snapshot, u, v, o)]
  BY DEF FlightRules!RollTurns, FlightRules!Die
<1>2. PICK n \in 1..4 : o = FlightRules!RollOptions[n]
  BY FlightGenerations DEF FlightRules!Options
<1> DEFINE a == e.event
           rolled == [k \in 1..4 |-> FlightRules!Rolled(snapshot, u, v, FlightRules!RollOptions[k])]
           same == {k \in 1..4 : FlightRules!rollAccepted(snapshot, u, v, FlightRules!RollOptions[k]) = a}
<1>3. a.type = "roll" /\ a.actor = u /\ a.value = v
  BY <1>1 DEF FlightRules!rollAccepted
<1>4. \A k \in 1..4 : FlightRules!validState(rolled[k])
  BY <1>1, FlightStores DEF FlightSound
<1>5. a = FlightRules!rollAccepted(snapshot, u, v, o) /\ e.next = FlightRules!Rolled(snapshot, u, v, o)
  BY <1>1
<1> HIDE DEF a
<1>6. n \in same
  BY <1>2, <1>5
<1>7. \A k \in same : rolled[k] = e.next
  <2> TAKE k \in same
  <2>1. FlightRules!rollAccepted(snapshot, u, v, FlightRules!RollOptions[k]) =
          FlightRules!rollAccepted(snapshot, u, v, o)
    BY <1>5
  <2> QED BY <1>5, <2>1, FlightSameRoll
<1>8. FlightRules!Rebuild(snapshot, a) = {rolled[k] : k \in FlightRules!First(1..4, same)}
  <2> DEFINE all == [k \in DOMAIN FlightRules!RollOptions |->
                       FlightRules!Rolled(snapshot, a.actor, a.value, FlightRules!RollOptions[k])]
             stored == {k \in DOMAIN all : /\ FlightRules!MayRoll(snapshot, a.actor)
                                           /\ FlightRules!validState(all[k])}
             found == {k \in stored : FlightRules!rollAccepted(snapshot, a.actor, a.value,
                                                               FlightRules!RollOptions[k]) = a}
  <2>1. FlightRules!Rebuild(snapshot, a) = {all[k] : k \in FlightRules!First(stored, found)}
    BY <1>3 DEF FlightRules!Rebuild
  <2>2. all = rolled
    BY <1>3, FlightGenerations
  <2>3. stored = 1..4
    BY <1>1, <1>3, <1>4, <2>2
  <2>4. found = same
    BY <1>3, <2>3
  <2> HIDE DEF all, stored, found, same, rolled
  <2> QED BY <2>1, <2>2, <2>3, <2>4
<1>9. {rolled[k] : k \in FlightRules!First(1..4, same)} = {e.next}
  <2> HIDE DEF rolled
  <2>1. same \in SUBSET (1..4) /\ same # {}
    BY <1>6
  <2> HIDE DEF same
  <2>2. PICK k \in same : FlightRules!First(1..4, same) = {k}
    BY <2>1, FlightFirst
  <2> QED BY <1>7, <2>2
<1> QED BY <1>8, <1>9 DEF a

LEMMA FlightMoveReadsBack ==
  ASSUME FlightSound(snapshot), FlightRules!BelowLimit, NEW u \in Users,
         NEW e \in FlightRules!MoveTurns(u)
  PROVE  FlightRules!Rebuild(snapshot, e.event) = {e.next}
<1>1. PICK i \in FlightRules!Slots, o \in FlightRules!Options(FlightRules!MoveOptions) :
        /\ FlightRules!MayMove(snapshot, u, i)
        /\ e = [event |-> FlightRules!moveAccepted(snapshot, u, i, o),
                next |-> FlightRules!Moved(snapshot, u, i, o)]
  BY DEF FlightRules!MoveTurns
<1>2. PICK n \in 1..3 : o = FlightRules!MoveOptions[n]
  BY FlightGenerations DEF FlightRules!Options
<1> DEFINE a == e.event
           moved == [k \in 1..3 |-> FlightRules!Moved(snapshot, u, i, FlightRules!MoveOptions[k])]
           same == {k \in 1..3 : FlightRules!moveAccepted(snapshot, u, i, FlightRules!MoveOptions[k]) = a}
<1>3. a.type # "roll" /\ a.actor = u /\ a.piece = i
  BY <1>1 DEF FlightRules!moveAccepted
<1>4. \A k \in 1..3 : FlightRules!validState(moved[k])
  BY <1>1, FlightStores DEF FlightSound
<1>5. a = FlightRules!moveAccepted(snapshot, u, i, o) /\ e.next = FlightRules!Moved(snapshot, u, i, o)
  BY <1>1
<1> HIDE DEF a
<1>6. n \in same
  BY <1>2, <1>5
<1>7. \A k \in same : moved[k] = e.next
  <2> TAKE k \in same
  <2>1. FlightRules!moveAccepted(snapshot, u, i, FlightRules!MoveOptions[k]) =
          FlightRules!moveAccepted(snapshot, u, i, o)
    BY <1>5
  <2> QED BY <1>5, <2>1, FlightSameMove
<1>8. FlightRules!Rebuild(snapshot, a) = {moved[k] : k \in FlightRules!First(1..3, same)}
  <2> DEFINE all == [k \in DOMAIN FlightRules!MoveOptions |->
                       FlightRules!Moved(snapshot, a.actor, a.piece, FlightRules!MoveOptions[k])]
             stored == {k \in DOMAIN all : /\ FlightRules!MayMove(snapshot, a.actor, a.piece)
                                           /\ FlightRules!validState(all[k])}
             found == {k \in stored : FlightRules!moveAccepted(snapshot, a.actor, a.piece,
                                                               FlightRules!MoveOptions[k]) = a}
  <2>1. FlightRules!Rebuild(snapshot, a) = {all[k] : k \in FlightRules!First(stored, found)}
    BY <1>3 DEF FlightRules!Rebuild
  <2>2. all = moved
    BY <1>3, FlightGenerations
  <2>3. stored = 1..3
    BY <1>1, <1>3, <1>4, <2>2
  <2>4. found = same
    BY <1>3, <2>3
  <2> HIDE DEF all, stored, found, same, moved
  <2> QED BY <2>1, <2>2, <2>3, <2>4
<1>9. {moved[k] : k \in FlightRules!First(1..3, same)} = {e.next}
  <2> HIDE DEF moved
  <2>1. same \in SUBSET (1..3) /\ same # {}
    BY <1>6
  <2> HIDE DEF same
  <2>2. PICK k \in same : FlightRules!First(1..3, same) = {k}
    BY <2>1, FlightFirst
  <2> QED BY <1>7, <2>2
<1> QED BY <1>8, <1>9 DEF a

LEMMA FlightReadsBack ==
  ASSUME game = "flight_chess", FlightSound(snapshot), FlightSeats(snapshot),
         FlightRules!BelowLimit, NEW u \in Users, MayAct(u), NEW e \in Turns(u)
  PROVE  rebuildSnapshot(e.event) = {e.next}
<1>1. snapshot.next = ColorOf(u) /\ e \in FlightRules!RollTurns(u) \cup FlightRules!MoveTurns(u)
  BY DEF MayAct, Turns, FlightRules!Turns
<1>2. FlightRules!Rebuild(snapshot, e.event) = {e.next}
  BY <1>1, FlightRollReadsBack, FlightMoveReadsBack
<1>3. /\ e.event.actor = u /\ e.event.color = snapshot.next
      /\ FlightBound(snapshot, e.next, u) /\ FlightRules!bindAndValidateActor(snapshot, u)
  <2>1. CASE e \in FlightRules!RollTurns(u)
    <3>1. PICK v \in 1..6, o \in FlightRules!Options(FlightRules!RollOptions) :
            /\ FlightRules!MayRoll(snapshot, u)
            /\ e = [event |-> FlightRules!rollAccepted(snapshot, u, v, o),
                    next |-> FlightRules!Rolled(snapshot, u, v, o)]
      BY <2>1 DEF FlightRules!RollTurns, FlightRules!Die
    <3>2. FlightBound(snapshot, e.next, u)
      BY <3>1, FlightRolled
    <3> QED BY <3>1, <3>2 DEF FlightRules!rollAccepted, FlightRules!MayRoll
  <2>2. CASE e \in FlightRules!MoveTurns(u)
    <3>1. PICK i \in FlightRules!Slots, o \in FlightRules!Options(FlightRules!MoveOptions) :
            /\ FlightRules!MayMove(snapshot, u, i)
            /\ e = [event |-> FlightRules!moveAccepted(snapshot, u, i, o),
                    next |-> FlightRules!Moved(snapshot, u, i, o)]
      BY <2>2 DEF FlightRules!MoveTurns
    <3>2. FlightBound(snapshot, e.next, u)
      BY <3>1, FlightMoved
    <3> QED BY <3>1, <3>2 DEF FlightRules!moveAccepted, FlightRules!MayMove
  <2> QED BY <1>1, <2>1, <2>2
<1>4. e.next.id["black"] = BlackPlayer /\ e.next.id["white"] \in {None, WhitePlayer}
  BY <1>1, <1>3, FlightBinds DEF FlightSound, FlightSeats
<1>5. rebuildFlightChess(e.event) = {e.next}
  BY <1>1, <1>2, <1>3, <1>4 DEF rebuildFlightChess
<1> QED BY <1>5 DEF rebuildSnapshot

(***************************************************************************)
(* Gomoku.  Straight lines of cells.                                       *)
(***************************************************************************)
Below == {ss \in Nat \X Nat : ss[1] < ss[2]}

LEMMA LeastNumber ==
  ASSUME NEW T, T \subseteq Nat, T # {}
  PROVE  \E m \in T : \A j \in T : ~(j < m)
<1>1. IsWellFoundedOn(Below, Nat)
  BY NatLessThanWellFounded DEF OpToRel, Below
<1>2. PICK m \in T : \A j \in T : ~(<<j, m>> \in Below)
  BY <1>1, WFMin
<1>3. \A j \in T : j < m => <<j, m>> \in Below
  BY DEF Below
<1> QED BY <1>2, <1>3

Vectors == {<<1, 0>>, <<0, 1>>, <<1, 1>>, <<1, -1>>, <<-1, 0>>, <<0, -1>>, <<-1, -1>>, <<-1, 1>>}

Back(d) == <<-d[1], -d[2]>>

\* A place of the plane.
Place(q) == q = <<q[1], q[2]>> /\ q[1] \in Int /\ q[2] \in Int

LEMMA VectorsOpposed ==
  ASSUME NEW d \in GomokuRules!Directions
  PROVE  d \in Vectors /\ Back(d) \in Vectors
BY DEF GomokuRules!Directions, Vectors, Back

LEMMA AlongLine ==
  ASSUME NEW p, Place(p), NEW d \in Vectors
  PROVE  /\ \A i \in Int : Place(GomokuRules!Along(p, d, i))
         /\ \A i, j \in Int : GomokuRules!Along(GomokuRules!Along(p, d, i), d, j) =
                                GomokuRules!Along(p, d, i + j)
         /\ \A i, j \in Int : GomokuRules!Along(p, d, i) = GomokuRules!Along(p, d, j) => i = j
         /\ \A i \in Int : GomokuRules!Along(p, Back(d), i) = GomokuRules!Along(p, d, -i)
         /\ GomokuRules!Along(p, d, 0) = p
<1>1. /\ d[1] \in {-1, 0, 1} /\ d[2] \in {-1, 0, 1} /\ (d[1] # 0 \/ d[2] # 0)
  BY DEF Vectors
<1>2. /\ \A i \in Int : i * 1 = i /\ i * 0 = 0 /\ i * (-1) = -i
  OBVIOUS
<1>3. /\ \A i \in Int : p[1] + i * d[1] \in Int /\ p[2] + i * d[2] \in Int
      /\ \A i, j \in Int : /\ p[1] + i * d[1] + j * d[1] = p[1] + (i + j) * d[1]
                           /\ p[2] + i * d[2] + j * d[2] = p[2] + (i + j) * d[2]
      /\ \A i \in Int : i * (-d[1]) = (-i) * d[1] /\ i * (-d[2]) = (-i) * d[2]
      /\ p[1] + 0 * d[1] = p[1] /\ p[2] + 0 * d[2] = p[2]
  <2>1. \A x \in Int : \A v \in {-1, 0, 1} :
          /\ \A i \in Int : x + i * v \in Int /\ i * (-v) = (-i) * v
          /\ x + 0 * v = x
    OBVIOUS
  <2>2. \A x \in Int : \A v \in {-1, 0, 1} : \A i, j \in Int : x + i * v + j * v = x + (i + j) * v
    OBVIOUS
  <2>3. p[1] \in Int /\ p[2] \in Int
    BY DEF Place
  <2> QED BY <1>1, <2>1, <2>2, <2>3
<1>4. \A i, j \in Int : p[1] + i * d[1] = p[1] + j * d[1] /\ p[2] + i * d[2] = p[2] + j * d[2] => i = j
  BY <1>1, <1>2 DEF Place
<1>5. \A q, e, i : /\ GomokuRules!Along(q, e, i)[1] = q[1] + i * e[1]
                   /\ GomokuRules!Along(q, e, i)[2] = q[2] + i * e[2]
                   /\ GomokuRules!Along(q, e, i) =
                        <<GomokuRules!Along(q, e, i)[1], GomokuRules!Along(q, e, i)[2]>>
  BY DEF GomokuRules!Along
<1>6. Back(d)[1] = -d[1] /\ Back(d)[2] = -d[2]
  BY DEF Back
<1>7. \A i \in Int : Place(GomokuRules!Along(p, d, i))
  <2> TAKE i \in Int
  <2>1. p[1] + i * d[1] \in Int /\ p[2] + i * d[2] \in Int
    BY <1>3
  <2>2. PICK q : q = GomokuRules!Along(p, d, i)
    OBVIOUS
  <2>3. q[1] = p[1] + i * d[1] /\ q[2] = p[2] + i * d[2] /\ q = <<q[1], q[2]>>
    BY <1>5, <2>2
  <2> QED BY <2>1, <2>2, <2>3 DEF Place
<1>8. ASSUME NEW i \in Int, NEW j \in Int
      PROVE  GomokuRules!Along(GomokuRules!Along(p, d, i), d, j) = GomokuRules!Along(p, d, i + j)
  <2>1. /\ p[1] + i * d[1] + j * d[1] = p[1] + (i + j) * d[1]
        /\ p[2] + i * d[2] + j * d[2] = p[2] + (i + j) * d[2]
    BY <1>3
  <2> QED BY <2>1 DEF GomokuRules!Along
<1>9. ASSUME NEW i \in Int, NEW j \in Int, GomokuRules!Along(p, d, i) = GomokuRules!Along(p, d, j)
      PROVE  i = j
  BY <1>4, <1>5, <1>9
<1>10. ASSUME NEW i \in Int
       PROVE  GomokuRules!Along(p, Back(d), i) = GomokuRules!Along(p, d, -i)
  <2>1. i * (-d[1]) = (-i) * d[1] /\ i * (-d[2]) = (-i) * d[2]
    BY <1>3
  <2> QED BY <1>6, <2>1 DEF GomokuRules!Along
<1>11. GomokuRules!Along(p, d, 0) = p
  BY <1>3 DEF GomokuRules!Along, Place
<1> QED BY <1>7, <1>8, <1>9, <1>10, <1>11

(***************************************************************************)
(* The stones next to one another from a cell on: on a finite board the    *)
(* run of a colour ends.                                                   *)
(***************************************************************************)
Hues == {"black", "white"}
GBoards == [GomokuCells -> {"black", "white", "empty"}]

\* n cells on, the run of c from p is over.
RunIs(b, p, d, c, n) ==
    /\ n \in 0 .. GomokuRules!Cardinality(DOMAIN b)
    /\ \A i \in 1 .. n : GomokuRules!color(b, GomokuRules!Along(p, d, i)) = c
    /\ GomokuRules!color(b, GomokuRules!Along(p, d, n + 1)) # c

LEMMA GomokuCounting ==
  \A S : GomokuRules!Cardinality(S) = Cardinality(S)
BY DEF GomokuRules!Cardinality, Cardinality

LEMMA RunEnds ==
  ASSUME NEW b \in GBoards, NEW c \in Hues, NEW p, Place(p), NEW d \in Vectors
  PROVE  RunIs(b, p, d, c, GomokuRules!run(b, p, d, c))
<1> DEFINE N == Cardinality(GomokuCells)
           At(i) == GomokuRules!color(b, GomokuRules!Along(p, d, i))
           T == {i \in Nat : i >= 1 /\ At(i) # c}
<1>1. /\ DOMAIN b = GomokuCells /\ GomokuRules!Cardinality(DOMAIN b) = N
      /\ N \in Nat
  BY GomokuCounting, BoardsAssumption, FS_CardinalityType DEF GBoards
<1>2. \A i : At(i) = c => GomokuRules!Along(p, d, i) \in GomokuCells
  BY <1>1 DEF GomokuRules!color, GomokuRules!Empty, Hues
<1>3. \E i \in 1 .. N + 1 : At(i) # c
  <2> SUFFICES ASSUME \A i \in 1 .. N + 1 : At(i) = c  PROVE FALSE
    OBVIOUS
  <2> DEFINE f == [i \in 1 .. N + 1 |-> GomokuRules!Along(p, d, i)]
  <2> HIDE DEF N, At
  <2>1. \A i \in 1 .. N + 1 : f[i] \in GomokuCells
    BY <1>2
  <2>2. \A i, j \in 1 .. N + 1 : f[i] = f[j] => i = j
    <3>1. \A i, j \in Int : GomokuRules!Along(p, d, i) = GomokuRules!Along(p, d, j) => i = j
      BY AlongLine
    <3>2. \A i \in 1 .. N + 1 : i \in Int
      BY <1>1
    <3> QED BY <3>1, <3>2
  <2>3. f \in Injection(1 .. N + 1, GomokuCells)
    <3>1. f \in [1 .. N + 1 -> GomokuCells]
      BY <2>1
    <3> HIDE DEF f
    <3> QED BY <2>2, <3>1 DEF Injection, IsInjective
  <2>4. Cardinality(1 .. N + 1) <= N
    <3> HIDE DEF f
    <3> QED BY <2>3, BoardsAssumption, FS_Injection DEF N
  <2>5. Cardinality(1 .. N + 1) = N + 1
    BY <1>1, FS_Interval
  <2> QED BY <1>1, <2>4, <2>5
<1> HIDE DEF N
<1>4. PICK i \in 1 .. N + 1 : At(i) # c
  BY <1>3
<1>5. i \in T /\ T \subseteq Nat
  BY <1>1, <1>4
<1>6. PICK m \in T : \A j \in T : ~(j < m)
  <2> HIDE DEF T
  <2> QED BY <1>5, LeastNumber
<1>7. m \in Nat /\ m >= 1 /\ At(m) # c /\ m <= i
  BY <1>1, <1>5, <1>6
<1>8. \A j \in 1 .. m - 1 : At(j) = c
  <2> SUFFICES ASSUME NEW j \in 1 .. m - 1, At(j) # c  PROVE FALSE
    OBVIOUS
  <2>1. j \in Nat /\ j >= 1 /\ j < m
    BY <1>7
  <2>2. j \in T
    BY <2>1
  <2> QED BY <1>6, <2>1, <2>2
<1>9. RunIs(b, p, d, c, m - 1)
  <2>1. m - 1 \in 0 .. N /\ (m - 1) + 1 = m
    BY <1>1, <1>4, <1>7
  <2> QED BY <1>1, <1>7, <1>8, <2>1 DEF RunIs
<1>10. GomokuRules!run(b, p, d, c) = CHOOSE n \in 0 .. GomokuRules!Cardinality(DOMAIN b) : RunIs(b, p, d, c, n)
  BY DEF GomokuRules!run, RunIs
<1>11. m - 1 \in 0 .. GomokuRules!Cardinality(DOMAIN b)
  BY <1>9 DEF RunIs
<1> QED BY <1>9, <1>10, <1>11

\* A stretch of GomokuLine cells of colour c from the a-th cell along d on.
Window(b, p, d, c, a) ==
    \A i \in a .. a + GomokuLine - 1 : GomokuRules!color(b, GomokuRules!Along(p, d, i)) = c

Winning(b, p, d, c) ==
    1 + GomokuRules!run(b, p, d, c) + GomokuRules!run(b, p, Back(d), c) >= GomokuLine

(* What the runs on both sides of a stone add up to.                        *)
LEMMA RunsMakeWindows ==
  ASSUME NEW b \in GBoards, NEW c \in Hues, NEW p, Place(p), NEW d \in Vectors, Back(d) \in Vectors,
         GomokuRules!color(b, p) = c
  PROVE  Winning(b, p, d, c) <=>
           \E a \in Int : a <= 0 /\ a + GomokuLine - 1 >= 0 /\ Window(b, p, d, c, a)
<1> DEFINE At(i) == GomokuRules!color(b, GomokuRules!Along(p, d, i))
<1>1. PICK m : m = GomokuRules!run(b, p, d, c)
  OBVIOUS
<1>2. PICK k : k = GomokuRules!run(b, p, Back(d), c)
  OBVIOUS
<1>3. RunIs(b, p, d, c, m) /\ RunIs(b, p, Back(d), c, k)
  BY <1>1, <1>2, RunEnds
<1>4. GomokuRules!Cardinality(DOMAIN b) \in Nat
  BY GomokuCounting, BoardsAssumption, FS_CardinalityType DEF GBoards
<1>5. /\ m \in Nat /\ (\A i \in 1 .. m : At(i) = c) /\ At(m + 1) # c
      /\ k \in Nat
      /\ \A i \in 1 .. k : GomokuRules!color(b, GomokuRules!Along(p, Back(d), i)) = c
      /\ GomokuRules!color(b, GomokuRules!Along(p, Back(d), k + 1)) # c
  BY <1>3, <1>4 DEF RunIs
<1>6. (\A i \in 1 .. k : At(-i) = c) /\ At(-(k + 1)) # c
  <2>1. \A i \in Int : GomokuRules!Along(p, Back(d), i) = GomokuRules!Along(p, d, -i)
    BY AlongLine
  <2>2. k + 1 \in Int /\ \A i \in 1 .. k : i \in Int
    BY <1>5
  <2> QED BY <1>5, <2>1, <2>2
<1>7. At(0) = c
  BY AlongLine
<1>8. GomokuLine \in Nat /\ GomokuLine >= 1
  BY BoardsAssumption
<1>9. Winning(b, p, d, c) <=> 1 + m + k >= GomokuLine
  BY <1>1, <1>2 DEF Winning
<1> HIDE DEF At
<1>10. \A i \in Int : -k <= i /\ i <= m => At(i) = c
  <2> SUFFICES ASSUME NEW i \in Int, -k <= i, i <= m  PROVE At(i) = c
    OBVIOUS
  <2>1. CASE i > 0
    BY <1>5, <2>1
  <2>2. CASE i < 0
    <3>1. -i \in 1 .. k /\ -(-i) = i
      BY <1>5, <2>2
    <3> QED BY <1>6, <3>1
  <2> QED BY <1>7, <2>1, <2>2
<1>11. ASSUME 1 + m + k >= GomokuLine
       PROVE  \E a \in Int : a <= 0 /\ a + GomokuLine - 1 >= 0 /\ Window(b, p, d, c, a)
  <2>1. CASE k >= GomokuLine - 1
    <3>1. -(GomokuLine - 1) \in Int /\ -(GomokuLine - 1) <= 0
          /\ -(GomokuLine - 1) + GomokuLine - 1 = 0
      BY <1>8
    <3>2. Window(b, p, d, c, -(GomokuLine - 1))
      BY <1>5, <1>8, <1>10, <2>1 DEF Window, At
    <3> QED BY <3>1, <3>2
  <2>2. CASE k < GomokuLine - 1
    <3>1. -k \in Int /\ -k <= 0 /\ -k + GomokuLine - 1 >= 0 /\ -k + GomokuLine - 1 <= m
      BY <1>5, <1>8, <1>11, <2>2
    <3>2. Window(b, p, d, c, -k)
      BY <1>5, <1>8, <1>10, <3>1 DEF Window, At
    <3> QED BY <3>1, <3>2
  <2> QED BY <1>5, <1>8, <2>1, <2>2
<1>12. ASSUME NEW a \in Int, a <= 0, a + GomokuLine - 1 >= 0, Window(b, p, d, c, a)
       PROVE  1 + m + k >= GomokuLine
  <2>1. \A i \in Int : a <= i /\ i <= a + GomokuLine - 1 => At(i) = c
    BY <1>8, <1>12 DEF Window, At
  <2>2. m >= a + GomokuLine - 1
    BY <1>5, <1>8, <1>12, <2>1
  <2>3. k >= -a
    <3>1. -(k + 1) \in Int /\ -(k + 1) <= a + GomokuLine - 1
      BY <1>5, <1>8, <1>12
    <3>2. ~(a <= -(k + 1))
      BY <1>6, <2>1, <3>1
    <3> QED BY <1>5, <3>2
  <2> QED BY <1>5, <1>8, <2>2, <2>3
<1> QED BY <1>9, <1>11, <1>12

(* A stone of c that looks along the four directions sees every line       *)
(* through it.                                                             *)
LEMMA StoneWins ==
  ASSUME NEW b \in GBoards, NEW c \in Hues, NEW p, Place(p), GomokuRules!color(b, p) = c
  PROVE  GomokuRules!wins(b, p, c) <=>
           \E d \in GomokuRules!Directions : \E a \in Int :
             a <= 0 /\ a + GomokuLine - 1 >= 0 /\ Window(b, p, d, c, a)
<1>1. GomokuRules!wins(b, p, c) <=> \E d \in GomokuRules!Directions : Winning(b, p, d, c)
  BY DEF GomokuRules!wins, Winning, Back
<1>2. \A d \in GomokuRules!Directions : d \in Vectors /\ Back(d) \in Vectors
  BY VectorsOpposed
<1>3. \A d \in GomokuRules!Directions :
        Winning(b, p, d, c) <=>
          \E a \in Int : a <= 0 /\ a + GomokuLine - 1 >= 0 /\ Window(b, p, d, c, a)
  BY <1>2, RunsMakeWindows
<1> QED BY <1>1, <1>3

\* A line is a window that starts on the board.
LEMMA WindowIsLine ==
  ASSUME NEW b \in GBoards, NEW c \in Hues, NEW p, Place(p), NEW d \in GomokuRules!Directions,
         NEW a \in Int, Window(b, p, d, c, a)
  PROVE  GomokuRules!Line(b, c)
<1>1. d \in Vectors /\ GomokuLine \in Nat /\ GomokuLine >= 1
  BY VectorsOpposed, BoardsAssumption
<1>2. PICK q : q = GomokuRules!Along(p, d, a)
  OBVIOUS
<1>3. GomokuRules!color(b, q) = c
  <2>1. a \in a .. a + GomokuLine - 1
    BY <1>1
  <2> QED BY <1>2, <2>1 DEF Window
<1>4. q \in GomokuCells
  BY <1>3 DEF GomokuRules!color, GomokuRules!Empty, Hues, GBoards
<1>5. \A i \in 0 .. GomokuLine - 1 : GomokuRules!color(b, GomokuRules!Along(q, d, i)) = c
  <2> SUFFICES ASSUME NEW i \in 0 .. GomokuLine - 1
               PROVE  GomokuRules!color(b, GomokuRules!Along(q, d, i)) = c
    OBVIOUS
  <2>1. i \in Int /\ a + i \in a .. a + GomokuLine - 1
    BY <1>1
  <2>2. GomokuRules!Along(q, d, i) = GomokuRules!Along(p, d, a + i)
    BY <1>1, <1>2, <2>1, AlongLine
  <2> QED BY <2>1, <2>2 DEF Window
<1> QED BY <1>4, <1>5 DEF GomokuRules!Line

LEMMA CellsArePlaces == \A p \in GomokuCells : Place(p)
BY BoardsAssumption DEF Place

LEMMA FiveIsLine ==
  ASSUME NEW b \in GBoards, NEW c \in Hues
  PROVE  GomokuRules!hasFive(b, c) <=> GomokuRules!Line(b, c)
<1>1. ASSUME GomokuRules!hasFive(b, c)  PROVE GomokuRules!Line(b, c)
  <2>1. PICK p \in GomokuCells : b[p] = c /\ GomokuRules!wins(b, p, c)
    BY <1>1 DEF GomokuRules!hasFive
  <2>2. Place(p) /\ GomokuRules!color(b, p) = c
    BY <2>1, CellsArePlaces DEF GomokuRules!color, GBoards
  <2>3. PICK d \in GomokuRules!Directions : \E a \in Int : Window(b, p, d, c, a)
    BY <2>1, <2>2, StoneWins
  <2> QED BY <2>2, <2>3, WindowIsLine
<1>2. ASSUME GomokuRules!Line(b, c)  PROVE GomokuRules!hasFive(b, c)
  <2>1. PICK p \in GomokuCells, d \in GomokuRules!Directions :
          \A i \in 0 .. GomokuLine - 1 : GomokuRules!color(b, GomokuRules!Along(p, d, i)) = c
    BY <1>2 DEF GomokuRules!Line
  <2>2. d \in Vectors /\ Place(p) /\ GomokuLine \in Nat /\ GomokuLine >= 1
    BY VectorsOpposed, CellsArePlaces, BoardsAssumption
  <2>3. Window(b, p, d, c, 0)
    BY <2>1, <2>2 DEF Window
  <2>4. GomokuRules!color(b, p) = c
    <3>1. GomokuRules!Along(p, d, 0) = p
      BY <2>2, AlongLine
    <3>2. 0 \in 0 .. GomokuLine - 1
      BY <2>2
    <3> QED BY <2>1, <3>1, <3>2
  <2>5. b[p] = c
    BY <2>4 DEF GomokuRules!color, GBoards
  <2>6. 0 \in Int /\ 0 <= 0 /\ 0 + GomokuLine - 1 >= 0
    BY <2>2
  <2>7. GomokuRules!wins(b, p, c)
    BY <2>2, <2>3, <2>4, <2>6, StoneWins
  <2> QED BY <2>5, <2>7 DEF GomokuRules!hasFive
<1> QED BY <1>1, <1>2

(***************************************************************************)
(* A stone is placed.                                                      *)
(***************************************************************************)
Placed(b, p, c) == [b EXCEPT ![p] = c]

LEMMA PlacedCells ==
  ASSUME NEW b \in GBoards, NEW c \in Hues, NEW p \in GomokuCells, b[p] = "empty"
  PROVE  /\ Placed(b, p, c) \in GBoards
         /\ GomokuRules!color(Placed(b, p, c), p) = c
         /\ \A q : q # p => GomokuRules!color(Placed(b, p, c), q) = GomokuRules!color(b, q)
         /\ \A e \in Hues : \A q : GomokuRules!color(b, q) = e => GomokuRules!color(Placed(b, p, c), q) = e
<1>1. b \in [GomokuCells -> {"black", "white", "empty"}] /\ c \in {"black", "white", "empty"}
  BY DEF GBoards, Hues
<1>2. PICK g : g = Placed(b, p, c)
  OBVIOUS
<1>3. /\ g \in [GomokuCells -> {"black", "white", "empty"}]
      /\ g[p] = c /\ \A q \in GomokuCells : q # p => g[q] = b[q]
  BY <1>1, <1>2 DEF Placed
<1>4. /\ GomokuRules!color(g, p) = c
      /\ \A q : q # p => GomokuRules!color(g, q) = GomokuRules!color(b, q)
      /\ \A e \in Hues : GomokuRules!color(b, p) # e
  BY <1>1, <1>3 DEF GomokuRules!color, Hues
<1> QED BY <1>2, <1>3, <1>4 DEF GBoards

LEMMA PlacedLines ==
  ASSUME NEW b \in GBoards, NEW c \in Hues, NEW p \in GomokuCells, b[p] = "empty"
  PROVE  /\ ~GomokuRules!Line(b, c) =>
              (GomokuRules!Line(Placed(b, p, c), c) <=> GomokuRules!wins(Placed(b, p, c), p, c))
         /\ \A e \in Hues : e # c /\ GomokuRules!Line(Placed(b, p, c), e) => GomokuRules!Line(b, e)
<1>1. PICK g : g = Placed(b, p, c)
  OBVIOUS
<1>2. /\ g \in GBoards /\ GomokuRules!color(g, p) = c
      /\ \A q : q # p => GomokuRules!color(g, q) = GomokuRules!color(b, q)
  BY <1>1, PlacedCells
<1>3. Place(p)
  BY CellsArePlaces
<1>4. GomokuLine \in Nat /\ GomokuLine >= 1
  BY BoardsAssumption
<1>5. ASSUME GomokuRules!wins(g, p, c)  PROVE GomokuRules!Line(g, c)
  <2>1. PICK d \in GomokuRules!Directions : \E a \in Int : Window(g, p, d, c, a)
    BY <1>2, <1>3, <1>5, StoneWins
  <2> QED BY <1>2, <1>3, <2>1, WindowIsLine
<1>6. ASSUME NEW e \in Hues, GomokuRules!Line(g, e), ~GomokuRules!Line(b, e)
      PROVE  e = c /\ GomokuRules!wins(g, p, c)
  <2>1. PICK q \in GomokuCells, d \in GomokuRules!Directions :
          \A i \in 0 .. GomokuLine - 1 : GomokuRules!color(g, GomokuRules!Along(q, d, i)) = e
    BY <1>6 DEF GomokuRules!Line
  <2>2. PICK j \in 0 .. GomokuLine - 1 : GomokuRules!Along(q, d, j) = p
    <3>1. ~\A i \in 0 .. GomokuLine - 1 : GomokuRules!color(b, GomokuRules!Along(q, d, i)) = e
      BY <1>6 DEF GomokuRules!Line
    <3> QED BY <1>2, <2>1, <3>1
  <2>3. e = c
    BY <1>2, <2>1, <2>2
  <2>4. Place(q) /\ d \in Vectors /\ j \in Int
    BY <1>4, CellsArePlaces, VectorsOpposed
  <2>5. Window(g, p, d, c, -j)
    <3> SUFFICES ASSUME NEW i \in -j .. -j + GomokuLine - 1
                 PROVE  GomokuRules!color(g, GomokuRules!Along(p, d, i)) = c
      BY DEF Window
    <3>1. i \in Int /\ j + i \in 0 .. GomokuLine - 1
      BY <1>4, <2>4
    <3>2. GomokuRules!Along(p, d, i) = GomokuRules!Along(q, d, j + i)
      BY <2>2, <2>4, <3>1, AlongLine
    <3> QED BY <2>1, <2>3, <3>1, <3>2
  <2>6. -j \in Int /\ -j <= 0 /\ -j + GomokuLine - 1 >= 0
    BY <1>4, <2>2
  <2>7. GomokuRules!wins(g, p, c)
    BY <1>2, <1>3, <2>5, <2>6, StoneWins
  <2> QED BY <2>3, <2>7
<1> QED BY <1>1, <1>5, <1>6

LEMMA PlacedStones ==
  ASSUME NEW b \in GBoards, NEW c \in Hues, NEW p \in GomokuCells, b[p] = "empty"
  PROVE  \A e \in Hues : /\ GomokuRules!Stones(b, e) \in Nat
                         /\ GomokuRules!Stones(Placed(b, p, c), e) =
                              IF e = c THEN GomokuRules!Stones(b, e) + 1 ELSE GomokuRules!Stones(b, e)
<1>1. PICK g : g = Placed(b, p, c)
  OBVIOUS
<1>2. /\ g[p] = c /\ \A q \in GomokuCells : q # p => g[q] = b[q]
  BY <1>1 DEF Placed, GBoards
<1>3. TAKE e \in Hues
<1> DEFINE B == {q \in GomokuCells : b[q] = e}
           G == {q \in GomokuCells : g[q] = e}
<1>4. IsFiniteSet(B) /\ Cardinality(B) \in Nat
  BY BoardsAssumption, FS_Subset, FS_CardinalityType
<1>5. GomokuRules!Stones(b, e) = Cardinality(B) /\ GomokuRules!Stones(g, e) = Cardinality(G)
  BY GomokuCounting DEF GomokuRules!Stones
<1>6. p \notin B
  BY DEF Hues
<1>7. CASE e = c
  <2>1. G = B \cup {p}
    BY <1>2, <1>7
  <2>2. Cardinality(B \cup {p}) = Cardinality(B) + 1
    <3> HIDE DEF B
    <3> QED BY <1>4, <1>6, FS_AddElement
  <2> QED BY <1>1, <1>4, <1>5, <1>7, <2>1, <2>2
<1>8. CASE e # c
  <2>1. G = B
    BY <1>2, <1>6, <1>8
  <2> QED BY <1>1, <1>4, <1>5, <1>8, <2>1
<1> QED BY <1>7, <1>8

(***************************************************************************)
(* What a snapshot of gomoku says: it can be read, the seats are taken in  *)
(* the order of the moves, and whose turn it is follows the count.         *)
(***************************************************************************)
GomokuSound(s) ==
    /\ s.revision \in Nat
    /\ s.board \in GBoards
    /\ DOMAIN s.id = Hues
    /\ SeatsTaken(s)
    /\ s.next = ByParity(s.revision)
    /\ GomokuRules!decodeSnapshot(s)

GomokuHolds == game = "gomoku" => GomokuSound(snapshot)

LEMMA GomokuStarts == GomokuSound(GomokuRules!initialSnapshot)
<1>1. PICK s : s = GomokuRules!initialSnapshot
  OBVIOUS
<1>2. PICK b : b = [p \in GomokuCells |-> "empty"]
  OBVIOUS
<1>3. /\ s.revision = 0 /\ s.status = "active" /\ s.board = b
      /\ DOMAIN s.id = Hues /\ s.id["black"] = None /\ s.id["white"] = None
      /\ s.next = "black" /\ s.winner = None /\ s.result = None
  BY <1>1, <1>2 DEF GomokuRules!initialSnapshot, GomokuRules!Empty, GomokuRules!Colors,
     GomokuRules!Black, GomokuRules!White, Hues
<1>4. b \in GBoards
  BY <1>2 DEF GBoards
<1>5. \A c \in Hues : GomokuRules!Stones(b, c) = 0
  <2>1. \A c \in Hues : {p \in GomokuCells : b[p] = c} = {}
    BY <1>2 DEF Hues
  <2> QED BY <2>1, GomokuCounting, FS_EmptySet DEF GomokuRules!Stones
<1>6. \A c \in Hues : ~GomokuRules!hasFive(b, c)
  BY <1>2 DEF GomokuRules!hasFive, Hues
<1>7. ~GomokuRules!Full(b)
  BY <1>2, BoardsAssumption DEF GomokuRules!Full, GomokuRules!Empty
<1>8. GomokuRules!decodeSnapshot(s)
  BY <1>3, <1>5, <1>6, <1>7
     DEF GomokuRules!decodeSnapshot, GomokuRules!Black, GomokuRules!White, Hues
<1>9. SeatsTaken(s) /\ s.next = ByParity(s.revision)
  BY <1>3 DEF SeatsTaken, ByParity
<1> QED BY <1>1, <1>3, <1>4, <1>8, <1>9 DEF GomokuSound

\* The three ends of a snapshot, as decodeSnapshot wants them.
GomokuEnd(s, five) ==
    \/ /\ s.status = "active" /\ s.result = None /\ s.winner = None
       /\ ~GomokuRules!Full(s.board) /\ ~five["black"] /\ ~five["white"]
    \/ /\ s.status = "finished" /\ s.result = "five" /\ s.winner # None
       /\ \E c \in Hues : /\ s.winner = s.id[c] /\ five[c] /\ \A e \in Hues : e # c => ~five[e]
                          /\ s.next # c
    \/ /\ s.status = "finished" /\ s.result = "draw" /\ s.winner = None
       /\ GomokuRules!Full(s.board) /\ ~five["black"] /\ ~five["white"]

GomokuCount(s) ==
    LET black == GomokuRules!Stones(s.board, "black")
        white == GomokuRules!Stones(s.board, "white")
    IN  /\ s.revision = black + white
        /\ black - white \in {0, 1}
        /\ s.next = IF black > white THEN "white" ELSE "black"

Lines(b) == [c \in Hues |-> GomokuRules!Line(b, c)]

LEMMA GomokuDecoded ==
  ASSUME NEW s, s.revision \in Nat, s.board \in GBoards, SeatsTaken(s), s.next = ByParity(s.revision)
  PROVE  GomokuRules!decodeSnapshot(s) <=> GomokuCount(s) /\ GomokuEnd(s, Lines(s.board))
<1>1. PICK black : black = GomokuRules!Stones(s.board, "black")
  OBVIOUS
<1>2. PICK white : white = GomokuRules!Stones(s.board, "white")
  OBVIOUS
<1>3. black \in Nat /\ white \in Nat
  <2>1. \A c \in Hues : {q \in GomokuCells : s.board[q] = c} \subseteq GomokuCells
    OBVIOUS
  <2>2. \A c \in Hues : GomokuRules!Stones(s.board, c) \in Nat
    BY <2>1, GomokuCounting, BoardsAssumption, FS_Subset, FS_CardinalityType DEF GomokuRules!Stones
  <2> QED BY <1>1, <1>2, <2>2 DEF Hues
<1>4. \A c \in Hues : GomokuRules!hasFive(s.board, c) <=> Lines(s.board)[c]
  BY FiveIsLine DEF Lines
<1>5. PICK five : five = Lines(s.board)
  OBVIOUS
<1>6. /\ s.id["black"] = (IF s.revision = 0 THEN None ELSE BlackPlayer)
      /\ s.id["white"] = (IF s.revision <= 1 THEN None ELSE WhitePlayer)
      /\ BlackPlayer # WhitePlayer /\ BlackPlayer # None /\ WhitePlayer # None
  BY SeatsAssumption DEF SeatsTaken
<1>7. GomokuCount(s) <=> /\ s.revision = black + white /\ black - white \in {0, 1}
                         /\ s.next = IF black > white THEN "white" ELSE "black"
  BY <1>1, <1>2 DEF GomokuCount
<1>8. GomokuRules!decodeSnapshot(s) <=>
        /\ GomokuCount(s)
        /\ s.id["black"] # None => s.id["black"] # s.id["white"]
        /\ (black > 0) = (s.id["black"] # None)
        /\ (white > 0) = (s.id["white"] # None)
        /\ \/ /\ s.status = "active" /\ s.result = None /\ s.winner = None
              /\ ~GomokuRules!Full(s.board) /\ ~five["black"] /\ ~five["white"]
           \/ /\ s.status = "finished" /\ s.result = "five" /\ s.winner # None
              /\ \/ /\ s.winner = s.id["black"] /\ black = white + 1
                    /\ five["black"] /\ ~five["white"]
                 \/ /\ s.winner = s.id["white"] /\ black = white
                    /\ five["white"] /\ ~five["black"]
           \/ /\ s.status = "finished" /\ s.result = "draw"
              /\ GomokuRules!Full(s.board) /\ s.winner = None
              /\ ~five["black"] /\ ~five["white"]
  <2>1. \A c \in {"black", "white"} : GomokuRules!hasFive(s.board, c) <=> five[c]
    BY <1>4, <1>5 DEF Hues
  <2> QED BY <1>1, <1>2, <1>7, <2>1 DEF GomokuRules!decodeSnapshot, GomokuRules!Black, GomokuRules!White
<1>9. ASSUME GomokuCount(s)
      PROVE  /\ (black > 0) = (s.id["black"] # None)
             /\ (white > 0) = (s.id["white"] # None)
             /\ (s.next = "white") = (black = white + 1)
             /\ (s.next = "black") = (black = white)
  <2>1. /\ s.revision = black + white /\ black - white \in {0, 1}
        /\ s.next = IF black > white THEN "white" ELSE "black"
    BY <1>7, <1>9
  <2>2. black = white \/ black = white + 1
    BY <1>3, <2>1
  <2>3. (black > 0) <=> ~(s.revision = 0)
    BY <1>3, <2>1, <2>2
  <2>4. (white > 0) <=> ~(s.revision <= 1)
    BY <1>3, <2>1, <2>2
  <2>5. (s.next = "white" <=> black = white + 1) /\ (s.next = "black" <=> black = white)
    BY <1>3, <2>1, <2>2
  <2>6. (black > 0) = (s.id["black"] # None)
    BY <1>6, <2>3
  <2>7. (white > 0) = (s.id["white"] # None)
    BY <1>6, <2>4
  <2> QED BY <2>5, <2>6, <2>7
<1>10. s.next \in {"black", "white"} /\ "black" # "white"
  BY DEF ByParity
<1>11. GomokuEnd(s, five) <=>
           \/ /\ s.status = "active" /\ s.result = None /\ s.winner = None
              /\ ~GomokuRules!Full(s.board) /\ ~five["black"] /\ ~five["white"]
           \/ /\ s.status = "finished" /\ s.result = "five" /\ s.winner # None
              /\ \/ /\ s.winner = s.id["black"] /\ s.next = "white"
                    /\ five["black"] /\ ~five["white"]
                 \/ /\ s.winner = s.id["white"] /\ s.next = "black"
                    /\ five["white"] /\ ~five["black"]
           \/ /\ s.status = "finished" /\ s.result = "draw"
              /\ GomokuRules!Full(s.board) /\ s.winner = None
              /\ ~five["black"] /\ ~five["white"]
  BY <1>10 DEF GomokuEnd, Hues
<1> QED BY <1>5, <1>6, <1>8, <1>9, <1>11

LEMMA GomokuPromises ==
  ASSUME GomokuSound(snapshot)
  PROVE  GomokuRules!Readable /\ GomokuRules!LineDecides
<1>1. GomokuEnd(snapshot, Lines(snapshot.board))
  BY GomokuDecoded DEF GomokuSound
<1>2. \A c \in Hues : Lines(snapshot.board)[c] = GomokuRules!Line(snapshot.board, c)
  BY DEF Lines
<1>3. GomokuRules!LineDecides
  BY <1>1, <1>2 DEF GomokuEnd, GomokuRules!LineDecides, Hues, GomokuRules!Colors,
     GomokuRules!Black, GomokuRules!White
<1> QED BY <1>3 DEF GomokuSound, GomokuRules!Readable

LEMMA GomokuPlays ==
  ASSUME NEW s, GomokuSound(s), NEW u \in Users, NEW p \in GomokuCells,
         GomokuRules!Accepts(s, u, p), s.next = ColorOf(u)
  PROVE  GomokuSound(GomokuRules!applyMove(s, u, p))
<1>1. PICK t : t = GomokuRules!applyMove(s, u, p)
  OBVIOUS
<1>2. PICK c : c = s.next
  OBVIOUS
<1>3. PICK g : g = Placed(s.board, p, c)
  OBVIOUS
<1>4. /\ s.revision \in Nat /\ s.board \in GBoards /\ DOMAIN s.id = Hues /\ SeatsTaken(s)
      /\ c = ByParity(s.revision) /\ c = ColorOf(u)
      /\ GomokuCount(s) /\ GomokuEnd(s, Lines(s.board))
  BY <1>2, GomokuDecoded DEF GomokuSound
<1>5. c \in Hues /\ s.board[p] = "empty" /\ s.status = "active"
  BY <1>4 DEF Hues, ByParity, GomokuRules!Accepts, GomokuRules!Empty
<1>6. /\ \A e \in Hues : ~GomokuRules!Line(s.board, e)
  BY <1>4, <1>5 DEF GomokuEnd, Lines, Hues
<1>7. /\ g \in GBoards
      /\ GomokuRules!Line(g, c) <=> GomokuRules!wins(g, p, c)
      /\ \A e \in Hues : e # c => ~GomokuRules!Line(g, e)
  BY <1>3, <1>4, <1>5, <1>6, PlacedCells, PlacedLines
<1>8. PICK won : won = GomokuRules!wins(g, p, c)
  OBVIOUS
<1>9. PICK over : over = (won \/ GomokuRules!Full(g))
  OBVIOUS
<1>10. t = [revision |-> s.revision + 1, board |-> g,
            id |-> [s.id EXCEPT ![c] = u],
            next |-> GomokuRules!opposite(c),
            status |-> IF over THEN "finished" ELSE "active",
            winner |-> IF won THEN u ELSE None,
            result |-> CASE won -> "five"
                         [] ~won /\ over -> "draw"
                         [] OTHER -> None]
  BY <1>1, <1>2, <1>3, <1>8, <1>9 DEF GomokuRules!applyMove, Placed
<1>11. /\ t.revision = s.revision + 1 /\ t.board = g
       /\ t.id = [s.id EXCEPT ![c] = u] /\ t.next = GomokuRules!opposite(c)
       /\ t.status = (IF over THEN "finished" ELSE "active")
       /\ t.winner = (IF won THEN u ELSE None)
       /\ (won => t.result = "five") /\ (~won /\ over => t.result = "draw")
       /\ (~over => t.result = None)
  BY <1>9, <1>10
<1>12. /\ DOMAIN t.id = Hues /\ t.id[c] = u /\ \A e \in Hues : e # c => t.id[e] = s.id[e]
  BY <1>4, <1>5, <1>11
<1>13. t.next = (IF c = "black" THEN "white" ELSE "black")
  BY <1>11 DEF GomokuRules!opposite, GomokuRules!Black, GomokuRules!White
<1>14. GomokuCount(t)
  <2>1. PICK black : black = GomokuRules!Stones(s.board, "black")
    OBVIOUS
  <2>2. PICK white : white = GomokuRules!Stones(s.board, "white")
    OBVIOUS
  <2>3. /\ black \in Nat /\ white \in Nat
        /\ GomokuRules!Stones(g, "black") = IF c = "black" THEN black + 1 ELSE black
        /\ GomokuRules!Stones(g, "white") = IF c = "white" THEN white + 1 ELSE white
    BY <1>3, <1>4, <1>5, <2>1, <2>2, PlacedStones DEF Hues
  <2>4. /\ s.revision = black + white /\ black - white \in {0, 1}
        /\ c = IF black > white THEN "white" ELSE "black"
    BY <1>2, <1>4, <2>1, <2>2 DEF GomokuCount
  <2>5. CASE c = "black"
    <3>1. black = white /\ GomokuRules!Stones(g, "black") = black + 1 /\ GomokuRules!Stones(g, "white") = white
      BY <2>3, <2>4, <2>5
    <3>2. s.revision + 1 = (black + 1) + white /\ (black + 1) - white = 1 /\ black + 1 > white
      BY <2>3, <2>4, <3>1
    <3> QED BY <1>11, <1>13, <2>5, <3>1, <3>2 DEF GomokuCount
  <2>6. CASE c = "white"
    <3>1. black = white + 1 /\ GomokuRules!Stones(g, "black") = black /\ GomokuRules!Stones(g, "white") = white + 1
      BY <2>3, <2>4, <2>6
    <3>2. s.revision + 1 = black + (white + 1) /\ black - (white + 1) = 0 /\ ~(black > white + 1)
      BY <2>3, <2>4, <3>1
    <3> QED BY <1>11, <1>13, <2>6, <3>1, <3>2 DEF GomokuCount
  <2> QED BY <1>5, <2>5, <2>6 DEF Hues
<1>15. t.revision \in Nat /\ t.next = ByParity(t.revision) /\ t.revision # 0
       /\ (t.revision <= 1 <=> s.revision = 0)
       /\ (c = "white" => s.revision # 0)
       /\ (c = "black" /\ s.revision # 0 => ~(s.revision <= 1))
  <2>1. (s.revision + 1) % 2 = 1 <=> ~(s.revision % 2 = 1)
    BY <1>4
  <2>2. (s.revision % 2 = 1 => s.revision # 0) /\ (~(s.revision % 2 = 1) => s.revision # 1)
    BY <1>4
  <2>3. t.revision = s.revision + 1 /\ s.revision \in Nat
    BY <1>4, <1>11
  <2>4. t.next = ByParity(t.revision)
    BY <1>4, <1>13, <2>1, <2>3 DEF ByParity
  <2>5. (c = "white" => s.revision # 0) /\ (c = "black" => s.revision # 1)
    BY <1>4, <2>2 DEF ByParity
  <2> QED BY <2>3, <2>4, <2>5
<1>16. SeatsTaken(t)
  <2>1. /\ s.id["black"] = (IF s.revision = 0 THEN None ELSE BlackPlayer)
        /\ s.id["white"] = (IF s.revision <= 1 THEN None ELSE WhitePlayer)
    BY <1>4 DEF SeatsTaken
  <2>2. CASE c = "black"
    <3>1. u = BlackPlayer
      BY <1>4, <2>2 DEF ColorOf
    <3>2. t.id["black"] = BlackPlayer /\ t.id["white"] = s.id["white"]
      BY <1>12, <2>2, <3>1 DEF Hues
    <3>3. (t.revision <= 1) <=> (s.revision <= 1)
      BY <1>4, <1>11, <1>15, <2>2
    <3> QED BY <1>15, <2>1, <3>2, <3>3 DEF SeatsTaken
  <2>3. CASE c = "white"
    <3>1. u = WhitePlayer
      BY <1>4, <2>3 DEF ColorOf, Users
    <3>2. t.id["white"] = WhitePlayer /\ t.id["black"] = s.id["black"]
      BY <1>12, <2>3, <3>1 DEF Hues
    <3> QED BY <1>15, <2>1, <2>3, <3>2 DEF SeatsTaken
  <2> QED BY <1>5, <2>2, <2>3 DEF Hues
<1>17. GomokuEnd(t, Lines(t.board))
  <2>1. PICK five : five = Lines(t.board)
    OBVIOUS
  <2>2. (five[c] <=> won) /\ \A e \in Hues : e # c => ~five[e]
    BY <1>5, <1>7, <1>8, <1>11, <2>1 DEF Lines
  <2>3. CASE won
    <3>1. /\ over /\ t.status = "finished" /\ t.result = "five" /\ t.winner = u /\ u # None
          /\ t.winner = t.id[c] /\ t.next # c
      BY <1>5, <1>9, <1>11, <1>12, <1>13, <2>3, SeatsAssumption DEF Users, Hues
    <3> QED BY <1>5, <2>1, <2>2, <2>3, <3>1 DEF GomokuEnd
  <2>4. CASE ~won
    <3>1. ~five["black"] /\ ~five["white"] /\ t.winner = None
      BY <1>11, <2>2, <2>4 DEF Hues
    <3>2. over <=> GomokuRules!Full(t.board)
      BY <1>9, <1>11, <2>4
    <3> QED BY <1>11, <2>1, <2>4, <3>1, <3>2 DEF GomokuEnd
  <2> QED BY <2>3, <2>4
<1>18. GomokuRules!decodeSnapshot(t)
  BY <1>7, <1>11, <1>14, <1>15, <1>16, <1>17, GomokuDecoded
<1> QED BY <1>1, <1>7, <1>11, <1>12, <1>15, <1>16, <1>18 DEF GomokuSound

LEMMA GomokuReadsBack ==
  ASSUME game = "gomoku", GomokuSound(snapshot), NEW u \in Users, MayAct(u), NEW e \in Turns(u)
  PROVE  rebuildSnapshot(e.event) = {e.next} /\ GomokuSound(e.next)
<1>1. PICK p \in GomokuCells :
        /\ GomokuRules!Accepts(snapshot, u, p)
        /\ e = [event |-> GomokuRules!accepted(snapshot, u, p), next |-> GomokuRules!applyMove(snapshot, u, p)]
  BY DEF Turns, GomokuRules!Turns
<1>2. PICK a : a = GomokuRules!accepted(snapshot, u, p)
  OBVIOUS
<1>3. PICK t : t = GomokuRules!applyMove(snapshot, u, p)
  OBVIOUS
<1>4. snapshot.next = ColorOf(u)
  BY DEF MayAct
<1>5. GomokuSound(t)
  BY <1>1, <1>3, <1>4, GomokuPlays
<1>6. /\ a.revision = snapshot.revision + 1 /\ a.actor = u /\ a.point = p
      /\ a.color = snapshot.next
  BY <1>2 DEF GomokuRules!accepted
<1>7. GomokuRules!Rebuild(snapshot, a) = {t}
  BY <1>1, <1>3, <1>6 DEF GomokuRules!Rebuild
<1>8. a.actor = Player[a.color]
  BY <1>4, <1>6, SeatsAssumption DEF Player, ColorOf, Users
<1>9. a.color = ByParity(a.revision - 1)
  <2>1. (snapshot.revision + 1) - 1 = snapshot.revision /\ snapshot.next = ByParity(snapshot.revision)
    BY DEF GomokuSound
  <2> QED BY <1>6, <2>1
<1>10. rebuildBoard(a) = {t}
  BY <1>5, <1>7, <1>8, <1>9 DEF rebuildBoard, GomokuSound
<1>11. rebuildSnapshot(a) = rebuildBoard(a)
  BY DEF rebuildSnapshot
<1> QED BY <1>1, <1>2, <1>3, <1>5, <1>10, <1>11

LEMMA GomokuIsPlayed == Spec => []GomokuHolds
<1>1. Init => GomokuHolds
  BY GomokuStarts DEF Init, NewSnapshot, GomokuHolds
<1>2. GomokuHolds /\ [Next]_vars => GomokuHolds'
  <2> SUFFICES ASSUME GomokuHolds, [Next]_vars, game' = "gomoku"  PROVE GomokuSound(snapshot')
    BY DEF GomokuHolds, GomokuSound, GBoards, SeatsTaken
  <2>1. game = "gomoku" /\ GomokuSound(snapshot)
    BY DEF Next, vars, Play, Look, GomokuHolds
  <2>2. ASSUME NEW u \in Users, Play(u)  PROVE GomokuSound(snapshot')
    <3>1. PICK e \in Turns(u) : snapshot' = e.next
      BY <2>2 DEF Play
    <3>2. MayAct(u)
      BY <2>2 DEF Play
    <3> QED BY <2>1, <3>1, <3>2, GomokuReadsBack
  <2>3. ASSUME NEW u \in Users, Look(u)  PROVE FALSE
    BY <2>1, <2>3 DEF Look
  <2>4. CASE UNCHANGED vars
    BY <2>1, <2>4 DEF vars
  <2> QED BY <2>2, <2>3, <2>4 DEF Next
<1> QED BY <1>1, <1>2, PTL DEF Spec

(***************************************************************************)
(* Chinese checkers.  How many pieces a camp holds: two triangles make a   *)
(* rectangle.                                                              *)
(***************************************************************************)
Triangle(n) == {q \in (0 .. n) \X (0 .. n - 1) : q[1] <= q[2]}
Rest(n) == {q \in (0 .. n) \X (0 .. n - 1) : q[1] > q[2]}

LEMMA Rectangles ==
  ASSUME NEW n \in Nat
  PROVE  /\ IsFiniteSet((0 .. n) \X (0 .. n - 1))
         /\ Cardinality((0 .. n) \X (0 .. n - 1)) = (n + 1) * n
<1>1. IsFiniteSet(0 .. n) /\ Cardinality(0 .. n) = n + 1
  BY FS_Interval
<1>2. IsFiniteSet(0 .. n - 1) /\ Cardinality(0 .. n - 1) = n
  <2>1. 0 \in Int /\ n - 1 \in Int
    OBVIOUS
  <2>2. IsFiniteSet(0 .. n - 1) /\ Cardinality(0 .. n - 1) = IF 0 > n - 1 THEN 0 ELSE (n - 1) - 0 + 1
    BY <2>1, FS_Interval
  <2> QED BY <2>2
<1>3. /\ IsFiniteSet((0 .. n) \X (0 .. n - 1))
      /\ Cardinality((0 .. n) \X (0 .. n - 1)) = Cardinality(0 .. n) * Cardinality(0 .. n - 1)
  BY ONLY <1>1, <1>2, FS_Product, Zenon
<1> QED BY ONLY <1>1, <1>2, <1>3, Zenon

LEMMA TriangleCount ==
  ASSUME NEW n \in Nat
  PROVE  IsFiniteSet(Triangle(n)) /\ Cardinality(Triangle(n)) = (n * (n + 1)) \div 2
<1> DEFINE R == (0 .. n) \X (0 .. n - 1)
           T == Triangle(n)
           S == Rest(n)
           f == [q \in T |-> <<n - q[1], n - 1 - q[2]>>]
<1>1. IsFiniteSet(R) /\ Cardinality(R) = (n + 1) * n
  BY Rectangles
<1>2. T \cup S = R /\ T \cap S = {} /\ T \subseteq R /\ S \subseteq R
  BY DEF Triangle, Rest
<1>3. /\ IsFiniteSet(T) /\ IsFiniteSet(S) /\ Cardinality(T) \in Nat /\ Cardinality(S) \in Nat
  <2> HIDE DEF R, T, S
  <2> QED BY <1>1, <1>2, FS_Subset, FS_CardinalityType
<1>4. \A q \in T : f[q] \in S
  BY DEF Triangle, Rest
<1>5. \A p, q \in T : f[p] = f[q] => p = q
  <2> SUFFICES ASSUME NEW p \in T, NEW q \in T, f[p] = f[q]  PROVE p = q
    OBVIOUS
  <2>1. n - p[1] = n - q[1] /\ n - 1 - p[2] = n - 1 - q[2]
    OBVIOUS
  <2>2. /\ p = <<p[1], p[2]>> /\ q = <<q[1], q[2]>>
        /\ p[1] \in Int /\ p[2] \in Int /\ q[1] \in Int /\ q[2] \in Int
    BY DEF Triangle
  <2> QED BY <2>1, <2>2
<1>6. \A r \in S : \E q \in T : f[q] = r
  <2> TAKE r \in S
  <2>1. /\ r = <<r[1], r[2]>> /\ r[1] \in 0 .. n /\ r[2] \in 0 .. n - 1 /\ r[1] > r[2]
    BY DEF Rest
  <2>2. <<n - r[1], n - 1 - r[2]>> \in T
    BY <2>1 DEF Triangle
  <2>3. n - (n - r[1]) = r[1] /\ n - 1 - (n - 1 - r[2]) = r[2]
    BY <2>1
  <2>4. f[<<n - r[1], n - 1 - r[2]>>] = r
    BY <2>1, <2>2, <2>3
  <2> QED BY <2>2, <2>4
<1>7. ExistsBijection(T, S)
  <2>1. f \in [T -> S]
    BY <1>4
  <2> HIDE DEF f, T, S
  <2>2. f \in Injection(T, S) /\ f \in Surjection(T, S)
    BY <1>5, <1>6, <2>1 DEF Injection, IsInjective, Surjection
  <2> QED BY <2>2 DEF ExistsBijection, Bijection
<1>8. Cardinality(S) = Cardinality(T)
  <2> HIDE DEF T, S
  <2> QED BY <1>3, <1>7, FS_Bijection
<1>9. Cardinality(R) = Cardinality(T) + Cardinality(S)
  <2> HIDE DEF R, T, S
  <2>1. Cardinality(T \cup S) = Cardinality(T) + Cardinality(S) - Cardinality(T \cap S)
    BY <1>3, FS_Union
  <2>2. Cardinality(T \cap S) = 0
    BY <1>2, FS_EmptySet
  <2>3. T \cup S = R
    BY <1>2
  <2>4. Cardinality(T \cup S) = Cardinality(R)
    BY <2>3
  <2>5. \A k, m \in Nat : k + m - 0 = k + m
    OBVIOUS
  <2>6. Cardinality(T) + Cardinality(S) - 0 = Cardinality(T) + Cardinality(S)
    BY <1>3, <2>5
  <2> QED BY <2>1, <2>2, <2>4, <2>6
<1>10. (n * (n + 1)) \div 2 = Cardinality(T)
  <2>1. PICK t : t = Cardinality(T)
    OBVIOUS
  <2>2. PICK m : m = (n + 1) * n
    OBVIOUS
  <2>3. m \in Nat /\ m = n * (n + 1)
    BY <2>2
  <2>4. t \in Nat /\ m = t + t
    <3> HIDE DEF R, T, S
    <3> QED BY <1>1, <1>3, <1>8, <1>9, <2>1, <2>2
  <2>5. m \div 2 = t
    BY <2>4
  <2> QED BY <2>1, <2>3, <2>5
<1> QED BY <1>3, <1>10

(* The camps of the star, of any depth: the board as it is set up has the   *)
(* pieces that decodeSnapshot counts.                                       *)
CampSize == (CampDepth * (CampDepth + 1)) \div 2

\* The y-th row of a camp, counted from its tip, in a row of the board.
CampRow(y, row) == CheckersRules!Row(3 * CampDepth - y, 3 * CampDepth + y, row)

LEMMA CampCount ==
  ASSUME NEW C, NEW row \in [0 .. CampDepth - 1 -> Int],
         \A x, y \in 0 .. CampDepth - 1 : row[x] = row[y] => x = y,
         C = UNION {CampRow(y, row[y]) : y \in 0 .. CampDepth - 1}
  PROVE  IsFiniteSet(C) /\ Cardinality(C) = CampSize
<1> DEFINE D == CampDepth
           T == Triangle(D)
           f == [q \in T |-> <<3 * D - q[2] + 2 * q[1], row[q[2]]>>]
<1>1. D \in Nat /\ D >= 1
  BY BoardsAssumption
<1>2. \A q \in T : /\ q = <<q[1], q[2]>> /\ q[1] \in Int /\ q[2] \in Int
                   /\ q[1] >= 0 /\ q[1] <= q[2] /\ q[2] \in 0 .. D - 1
  BY <1>1 DEF Triangle
<1>3. \A q \in T : f[q] \in C
  <2> TAKE q \in T
  <2>1. /\ q[1] \in Int /\ q[2] \in Int /\ q[1] >= 0 /\ q[1] <= q[2] /\ q[2] \in 0 .. D - 1
    BY <1>2
  <2>2. /\ 3 * D - q[2] + 2 * q[1] \in (3 * D - q[2]) .. (3 * D + q[2])
        /\ ((3 * D - q[2] + 2 * q[1]) - (3 * D - q[2])) % 2 = 0
    BY <1>1, <2>1
  <2>3. f[q] = <<3 * D - q[2] + 2 * q[1], row[q[2]]>>
    OBVIOUS
  <2> HIDE DEF f
  <2>4. f[q] \in CampRow(q[2], row[q[2]])
    BY <2>2, <2>3 DEF CampRow, CheckersRules!Row
  <2> QED BY <2>1, <2>4
<1>4. \A p, q \in T : f[p] = f[q] => p = q
  <2> SUFFICES ASSUME NEW p \in T, NEW q \in T, f[p] = f[q]  PROVE p = q
    OBVIOUS
  <2>1. 3 * D - p[2] + 2 * p[1] = 3 * D - q[2] + 2 * q[1] /\ row[p[2]] = row[q[2]]
    OBVIOUS
  <2>2. p[2] = q[2]
    BY <1>2, <2>1
  <2>3. p[1] = q[1]
    BY <1>1, <1>2, <2>1, <2>2
  <2> QED BY <1>2, <2>2, <2>3
<1>5. \A p \in C : \E q \in T : f[q] = p
  <2> TAKE p \in C
  <2>1. PICK y \in 0 .. D - 1 : p \in CampRow(y, row[y])
    OBVIOUS
  <2>2. /\ p = <<p[1], p[2]>> /\ p[1] \in (3 * D - y) .. (3 * D + y) /\ p[2] = row[y]
        /\ (p[1] - (3 * D - y)) % 2 = 0
    BY <2>1 DEF CampRow, CheckersRules!Row
  <2>3. PICK w : w = p[1] - (3 * D - y)
    OBVIOUS
  <2>7. w \in Nat /\ w <= 2 * y /\ w % 2 = 0 /\ y \in Nat /\ p[1] = 3 * D - y + w
    BY <1>1, <2>2, <2>3
  <2>8. PICK k : k = w \div 2
    OBVIOUS
  <2>9. k \in Int /\ w = 2 * k
    BY <2>7, <2>8
  <2>4. k \in Int /\ k >= 0 /\ k <= y /\ 3 * D - y + 2 * k = p[1]
    BY <1>1, <2>7, <2>9
  <2>5. <<k, y>> \in T
    BY <1>1, <2>4 DEF Triangle
  <2>6. f[<<k, y>>] = p
    BY <2>2, <2>4, <2>5
  <2> QED BY <2>5, <2>6
<1>6. ExistsBijection(T, C)
  <2>1. f \in [T -> C]
    BY <1>3
  <2> HIDE DEF f, T
  <2>2. f \in Injection(T, C) /\ f \in Surjection(T, C)
    BY <1>4, <1>5, <2>1 DEF Injection, IsInjective, Surjection
  <2> QED BY <2>2 DEF ExistsBijection, Bijection
<1>7. IsFiniteSet(T) /\ Cardinality(T) = CampSize
  BY <1>1, TriangleCount DEF CampSize
<1> HIDE DEF T
<1> QED BY <1>6, <1>7, FS_Bijection

LEMMA CampsSetUp ==
  \A c \in Hues : LET P == CheckersRules!Pieces(CheckersRules!initialBoard, c)
                  IN  IsFiniteSet(P) /\ Cardinality(P) = CampSize
<1> DEFINE D == CampDepth
           b == CheckersRules!initialBoard
           Top == CheckersRules!Pieces(b, "black")
           Bottom == CheckersRules!Pieces(b, "white")
           up == [y \in 0 .. D - 1 |-> y]
           down == [y \in 0 .. D - 1 |-> 4 * D - y]
<1>1. D \in Nat /\ D >= 1
  BY BoardsAssumption
<1>2. /\ Top = {p \in CheckersRules!Cells : CheckersRules!InTop(p)}
      /\ Bottom = {p \in CheckersRules!Cells : CheckersRules!InBottom(p) /\ ~CheckersRules!InTop(p)}
  BY DEF CheckersRules!Pieces, CheckersRules!initialBoard, CheckersRules!Black, CheckersRules!White,
     CheckersRules!Empty
<1>3. \A x, z, y : \A p \in CheckersRules!Row(x, z, y) : p[2] = y
  BY DEF CheckersRules!Row
<1>4. Top = UNION {CampRow(y, up[y]) : y \in 0 .. D - 1}
  <2>1. ASSUME NEW p \in Top  PROVE p \in UNION {CampRow(y, up[y]) : y \in 0 .. D - 1}
    <3>1. p \in CheckersRules!Up \/ p \in CheckersRules!Down
      BY <1>2 DEF CheckersRules!Cells
    <3>2. p[2] < D
      BY <1>2 DEF CheckersRules!InTop
    <3>3. CASE p \in CheckersRules!Up
      <4>1. PICK y \in 0 .. 3 * D : p \in CheckersRules!Row(3 * D - y, 3 * D + y, y)
        BY <3>3 DEF CheckersRules!Up
      <4>2. y \in 0 .. D - 1
        BY <1>1, <1>3, <3>2, <4>1
      <4> QED BY <4>1, <4>2 DEF CampRow
    <3>4. CASE p \in CheckersRules!Down
      <4>1. PICK y \in D .. 4 * D : p \in CheckersRules!Row(y - D, 7 * D - y, y)
        BY <3>4 DEF CheckersRules!Down
      <4> QED BY <1>1, <1>3, <3>2, <4>1
    <3> QED BY <3>1, <3>3, <3>4
  <2>2. ASSUME NEW y \in 0 .. D - 1, NEW p \in CampRow(y, up[y])  PROVE p \in Top
    <3>1. p \in CheckersRules!Row(3 * D - y, 3 * D + y, y)
      BY DEF CampRow
    <3>2. p[2] = y /\ p[2] < D /\ y \in 0 .. 3 * D
      BY <1>1, <1>3, <3>1
    <3> QED BY <1>2, <3>1, <3>2 DEF CheckersRules!Cells, CheckersRules!Up, CheckersRules!InTop
  <2> HIDE DEF Top, up
  <2> QED BY <2>1, <2>2
<1>5. Bottom = UNION {CampRow(y, down[y]) : y \in 0 .. D - 1}
  <2>1. ASSUME NEW p \in Bottom  PROVE p \in UNION {CampRow(y, down[y]) : y \in 0 .. D - 1}
    <3>1. p \in CheckersRules!Up \/ p \in CheckersRules!Down
      BY <1>2 DEF CheckersRules!Cells
    <3>2. p[2] > 3 * D
      BY <1>2 DEF CheckersRules!InBottom
    <3>3. CASE p \in CheckersRules!Up
      <4>1. PICK y \in 0 .. 3 * D : p \in CheckersRules!Row(3 * D - y, 3 * D + y, y)
        BY <3>3 DEF CheckersRules!Up
      <4> QED BY <1>1, <1>3, <3>2, <4>1
    <3>4. CASE p \in CheckersRules!Down
      <4>1. PICK y \in D .. 4 * D : p \in CheckersRules!Row(y - D, 7 * D - y, y)
        BY <3>4 DEF CheckersRules!Down
      <4>2. /\ 4 * D - y \in 0 .. D - 1 /\ 4 * D - (4 * D - y) = y
            /\ 3 * D - (4 * D - y) = y - D /\ 3 * D + (4 * D - y) = 7 * D - y
        BY <1>1, <1>3, <3>2, <4>1
      <4>3. p \in CampRow(4 * D - y, down[4 * D - y])
        BY <4>1, <4>2 DEF CampRow
      <4> QED BY <4>2, <4>3
    <3> QED BY <3>1, <3>3, <3>4
  <2>2. ASSUME NEW y \in 0 .. D - 1, NEW p \in CampRow(y, down[y])  PROVE p \in Bottom
    <3>1. p \in CheckersRules!Row(3 * D - y, 3 * D + y, 4 * D - y)
      BY DEF CampRow
    <3>2. /\ p[2] = 4 * D - y /\ p[2] > 3 * D /\ ~(p[2] < D) /\ 4 * D - y \in D .. 4 * D
          /\ (4 * D - y) - D = 3 * D - y /\ 7 * D - (4 * D - y) = 3 * D + y
      BY <1>1, <1>3, <3>1
    <3>3. p \in CheckersRules!Down
      BY <3>1, <3>2 DEF CheckersRules!Down
    <3> QED BY <1>2, <3>2, <3>3 DEF CheckersRules!Cells, CheckersRules!InTop, CheckersRules!InBottom
  <2> HIDE DEF Bottom, down
  <2> QED BY <2>1, <2>2
<1>6. /\ up \in [0 .. D - 1 -> Int] /\ \A x, y \in 0 .. D - 1 : up[x] = up[y] => x = y
  OBVIOUS
<1>7. /\ down \in [0 .. D - 1 -> Int] /\ \A x, y \in 0 .. D - 1 : down[x] = down[y] => x = y
  BY <1>1
<1> HIDE DEF up, down, Top, Bottom
<1>8. IsFiniteSet(Top) /\ Cardinality(Top) = CampSize
  BY <1>4, <1>6, CampCount
<1>9. IsFiniteSet(Bottom) /\ Cardinality(Bottom) = CampSize
  BY <1>5, <1>7, CampCount
<1> QED BY <1>8, <1>9 DEF Hues, Top, Bottom

(***************************************************************************)
(* A piece is moved: whatever the hops of its path, one cell loses it and  *)
(* another one gets it.                                                    *)
(***************************************************************************)
Moves(b, c, x, y) ==
    /\ x \in DOMAIN b /\ y \in DOMAIN b /\ x # y
    /\ b[x] = c /\ b[y] = "empty"
    /\ ~CheckersRules!isNeutralCamp(y)
    /\ CheckersRules!isTargetCamp(x, c) => CheckersRules!isTargetCamp(y, c)

Shifted(b, c, x, y) == [b EXCEPT ![x] = "empty", ![y] = c]

LEMMA PathMoves ==
  ASSUME NEW b, NEW c \in Hues, NEW path, CheckersRules!validMovePath(b, c, path)
  PROVE  Moves(b, c, path[1], path[Len(path)])
<1>1. /\ path \in Seq(DOMAIN b) /\ Len(path) >= 2
      /\ b[path[1]] = c /\ b[path[Len(path)]] = "empty"
      /\ ~CheckersRules!isNeutralCamp(path[Len(path)])
      /\ CheckersRules!isTargetCamp(path[1], c) => CheckersRules!isTargetCamp(path[Len(path)], c)
  BY DEF CheckersRules!validMovePath, CheckersRules!Empty
<1>2. path[1] \in DOMAIN b /\ path[Len(path)] \in DOMAIN b
  BY <1>1
<1>3. path[1] # path[Len(path)]
  BY <1>1 DEF Hues
<1> QED BY <1>1, <1>2, <1>3 DEF Moves

LEMMA ShiftedPieces ==
  ASSUME NEW b, b = [p \in DOMAIN b |-> b[p]], NEW c \in Hues, NEW x, NEW y, Moves(b, c, x, y),
         NEW g, g = Shifted(b, c, x, y)
  PROVE  /\ DOMAIN g = DOMAIN b /\ g = [p \in DOMAIN g |-> g[p]]
         /\ CheckersRules!Pieces(g, c) = (CheckersRules!Pieces(b, c) \ {x}) \cup {y}
         /\ x \in CheckersRules!Pieces(b, c) /\ y \notin CheckersRules!Pieces(b, c)
         /\ \A e \in Hues : e # c => CheckersRules!Pieces(g, e) = CheckersRules!Pieces(b, e)
<1>1. /\ x \in DOMAIN b /\ y \in DOMAIN b /\ x # y /\ b[x] = c /\ b[y] = "empty"
  BY DEF Moves
<1>2. /\ DOMAIN g = DOMAIN b /\ g = [p \in DOMAIN g |-> g[p]]
      /\ g[y] = c /\ g[x] = "empty"
      /\ \A p \in DOMAIN b : p # x /\ p # y => g[p] = b[p]
  BY <1>1 DEF Shifted
<1>3. \A p : \A e \in Hues : p \in CheckersRules!Pieces(g, e) <=>
               p \in DOMAIN b /\ IF p = y THEN e = c ELSE p # x /\ b[p] = e
  BY <1>1, <1>2 DEF CheckersRules!Pieces, Hues
<1>4. \A p : \A e \in Hues : p \in CheckersRules!Pieces(b, e) <=> p \in DOMAIN b /\ b[p] = e
  BY DEF CheckersRules!Pieces
<1>5. CheckersRules!Pieces(g, c) = (CheckersRules!Pieces(b, c) \ {x}) \cup {y}
  BY <1>1, <1>3, <1>4
<1>6. x \in CheckersRules!Pieces(b, c) /\ y \notin CheckersRules!Pieces(b, c)
  BY <1>1, <1>4 DEF Hues
<1>7. \A e \in Hues : e # c => CheckersRules!Pieces(g, e) = CheckersRules!Pieces(b, e)
  BY <1>1, <1>3, <1>4 DEF Hues
<1> QED BY <1>2, <1>5, <1>6, <1>7

\* Nobody's camp is full of the pieces of a player who has not just moved.
Complete(b) == [c \in Hues |-> CheckersRules!hasCompletedCamp(b, c)]

LEMMA ShiftedCamps ==
  ASSUME NEW b, b = [p \in DOMAIN b |-> b[p]], NEW c \in Hues, NEW x, NEW y, Moves(b, c, x, y),
         NEW e \in Hues, e # c, ~Complete(b)[e]
  PROVE  ~Complete(Shifted(b, c, x, y))[e]
<1>1. PICK g : g = Shifted(b, c, x, y)
  OBVIOUS
<1>2. PICK p \in DOMAIN b : CheckersRules!isTargetCamp(p, e) /\ b[p] # e
  BY DEF Complete, CheckersRules!hasCompletedCamp
<1>3. p \in DOMAIN g /\ g[p] # e
  BY <1>1, <1>2 DEF Shifted, Moves, Hues
<1> QED BY <1>1, <1>2, <1>3 DEF Complete, CheckersRules!hasCompletedCamp

(***************************************************************************)
(* What a snapshot of Chinese checkers says.                               *)
(***************************************************************************)
CheckersEnd(s) ==
    \/ /\ s.status = "active" /\ s.winner = None /\ s.result = None
       /\ \A c \in Hues : ~Complete(s.board)[c]
    \/ /\ s.status = "finished" /\ s.result = "goal" /\ s.winner # None
       /\ \E c \in Hues : /\ Complete(s.board)[c] /\ s.winner = s.id[c]
                          /\ \A e \in Hues : e # c => ~Complete(s.board)[e]

CheckersSound(s) ==
    /\ s.revision \in 0 .. 3
    /\ s.board = [p \in DOMAIN s.board |-> s.board[p]]
    /\ DOMAIN s.id = Hues
    /\ SeatsTaken(s)
    /\ s.next = ByParity(s.revision)
    /\ \A c \in Hues : /\ IsFiniteSet(CheckersRules!Pieces(s.board, c))
                       /\ Cardinality(CheckersRules!Pieces(s.board, c)) = CampSize
    /\ CheckersEnd(s)

CheckersHolds == game = "chinese_checkers" => CheckersSound(snapshot)

LEMMA CheckersCounting ==
  \A S : CheckersRules!Cardinality(S) = Cardinality(S)
BY DEF CheckersRules!Cardinality, Cardinality

LEMMA CheckersPromises ==
  ASSUME NEW s, CheckersSound(s)
  PROVE  CheckersRules!decodeSnapshot(s)
<1>1. \A c \in CheckersRules!Colors :
        CheckersRules!Cardinality(CheckersRules!Pieces(s.board, c)) = (CampDepth * (CampDepth + 1)) \div 2
  BY CheckersCounting DEF CheckersSound, CampSize, Hues, CheckersRules!Colors, CheckersRules!Black,
     CheckersRules!White
<1>2. /\ s.revision \in 0 .. 3
      /\ s.id["black"] = (IF s.revision = 0 THEN None ELSE BlackPlayer)
      /\ s.id["white"] = (IF s.revision <= 1 THEN None ELSE WhitePlayer)
      /\ s.next = (IF s.revision % 2 = 1 THEN "white" ELSE "black")
  BY DEF CheckersSound, SeatsTaken, ByParity
<1>3. /\ s.id["black"] # None => s.id["black"] # s.id["white"]
      /\ (s.revision >= 1) = (s.id["black"] # None)
      /\ (s.revision >= 2) = (s.id["white"] # None)
  <2>1. (s.revision >= 1 <=> ~(s.revision = 0)) /\ (s.revision >= 2 <=> ~(s.revision <= 1))
    BY <1>2
  <2> QED BY <1>2, <2>1, SeatsAssumption
<1>4. PICK complete : complete = {c \in Hues : CheckersRules!hasCompletedCamp(s.board, c)}
  OBVIOUS
<1>5. \A c \in Hues : c \in complete <=> Complete(s.board)[c]
  BY <1>4 DEF Complete
<1>6. CheckersEnd(s)
  BY DEF CheckersSound
<1>7. \/ /\ s.status = "active" /\ s.winner = None /\ s.result = None
         /\ complete = {}
      \/ /\ s.status = "finished" /\ s.result = "goal" /\ s.winner # None
         /\ \E c \in Hues : complete = {c} /\ s.winner = s.id[c]
  <2>1. CASE s.status = "active"
    BY <1>4, <1>5, <1>6, <2>1 DEF CheckersEnd
  <2>2. CASE s.status = "finished"
    <3>1. PICK c \in Hues : /\ Complete(s.board)[c] /\ s.winner = s.id[c]
                            /\ \A e \in Hues : e # c => ~Complete(s.board)[e]
      BY <1>6, <2>2 DEF CheckersEnd
    <3>2. complete = {c}
      BY <1>4, <1>5, <3>1
    <3> QED BY <1>6, <2>2, <3>1, <3>2 DEF CheckersEnd
  <2> QED BY <1>6, <2>1, <2>2 DEF CheckersEnd
<1>8. CheckersRules!Colors = Hues
  BY DEF CheckersRules!Colors, CheckersRules!Black, CheckersRules!White, Hues
<1> QED BY <1>1, <1>2, <1>3, <1>4, <1>7, <1>8
        DEF CheckersRules!decodeSnapshot, CheckersRules!Black, CheckersRules!White

LEMMA CheckersStarts == CheckersSound(CheckersRules!initialSnapshot)
<1>1. PICK s : s = CheckersRules!initialSnapshot
  OBVIOUS
<1>2. PICK b : b = CheckersRules!initialBoard
  OBVIOUS
<1>3. /\ s.revision = 0 /\ s.status = "active" /\ s.board = b
      /\ DOMAIN s.id = Hues /\ s.id["black"] = None /\ s.id["white"] = None
      /\ s.next = "black" /\ s.winner = None /\ s.result = None
  BY <1>1, <1>2 DEF CheckersRules!initialSnapshot, CheckersRules!Colors,
     CheckersRules!Black, CheckersRules!White, Hues
<1>4. b = [p \in DOMAIN b |-> b[p]]
  BY <1>2 DEF CheckersRules!initialBoard
<1>5. \A c \in Hues : ~Complete(b)[c]
  <2>1. CampDepth \in Nat /\ CampDepth >= 1
    BY BoardsAssumption
  <2>2. PICK d : d = 3 * CampDepth
    OBVIOUS
  <2>3. /\ d \in Nat /\ d = 3 * CampDepth /\ CampDepth < d /\ d < 4 * CampDepth /\ 0 < CampDepth
    BY <2>1, <2>2
  <2>4. <<d, 0>> \in CheckersRules!Row(d - 0, d + 0, 0)
    BY <2>3 DEF CheckersRules!Row
  <2>5. <<d, 0>> \in CheckersRules!Cells /\ CheckersRules!InTop(<<d, 0>>)
        /\ ~CheckersRules!InBottom(<<d, 0>>)
    <3>1. 0 \in 0 .. 3 * CampDepth
      BY <2>3
    <3> QED BY <2>2, <2>3, <2>4, <3>1 DEF CheckersRules!Cells, CheckersRules!Up, CheckersRules!InTop,
            CheckersRules!InBottom
  <2>6. PICK z : z = 4 * CampDepth
    OBVIOUS
  <2>7. z \in CampDepth .. 4 * CampDepth /\ z - CampDepth = d /\ 7 * CampDepth - z = d
        /\ z > d /\ ~(z < CampDepth)
    BY <2>1, <2>2, <2>6
  <2>8. <<d, z>> \in CheckersRules!Row(z - CampDepth, 7 * CampDepth - z, z)
    BY <2>3, <2>7 DEF CheckersRules!Row
  <2>9. <<d, z>> \in CheckersRules!Cells /\ CheckersRules!InBottom(<<d, z>>)
        /\ ~CheckersRules!InTop(<<d, z>>)
    BY <2>2, <2>7, <2>8 DEF CheckersRules!Cells, CheckersRules!Down, CheckersRules!InTop,
       CheckersRules!InBottom
  <2>10. DOMAIN b = CheckersRules!Cells /\ b[<<d, 0>>] = "black" /\ b[<<d, z>>] = "white"
    BY <1>2, <2>5, <2>9 DEF CheckersRules!initialBoard, CheckersRules!Black, CheckersRules!White
  <2>11. CheckersRules!isTargetCamp(<<d, z>>, "black") /\ CheckersRules!isTargetCamp(<<d, 0>>, "white")
    BY <2>5, <2>9 DEF CheckersRules!isTargetCamp, CheckersRules!Black
  <2> QED BY <2>5, <2>9, <2>10, <2>11 DEF Complete, CheckersRules!hasCompletedCamp, Hues
<1>6. SeatsTaken(s) /\ s.next = ByParity(s.revision)
  BY <1>3 DEF SeatsTaken, ByParity
<1>7. \A c \in Hues : /\ IsFiniteSet(CheckersRules!Pieces(b, c))
                      /\ Cardinality(CheckersRules!Pieces(b, c)) = CampSize
  BY <1>2, CampsSetUp
<1>8. CheckersEnd(s)
  BY <1>3, <1>5 DEF CheckersEnd
<1>9. s.revision \in 0 .. 3
  BY <1>3
<1> QED BY <1>1, <1>3, <1>4, <1>6, <1>7, <1>8, <1>9 DEF CheckersSound

LEMMA CheckersPlays ==
  ASSUME NEW s, CheckersSound(s), NEW u \in Users, NEW path,
         CheckersRules!Accepts(s, u, path), s.next = ColorOf(u)
  PROVE  CheckersSound(CheckersRules!applyMove(s, u, path))
<1>1. PICK t : t = CheckersRules!applyMove(s, u, path)
  OBVIOUS
<1>2. PICK c : c = s.next
  OBVIOUS
<1>3. PICK b : b = s.board
  OBVIOUS
<1>4. PICK x : x = path[1]
  OBVIOUS
<1>5. PICK y : y = path[Len(path)]
  OBVIOUS
<1>6. PICK g : g = Shifted(b, c, x, y)
  OBVIOUS
<1>7. /\ s.revision \in 0 .. 3 /\ b = [p \in DOMAIN b |-> b[p]] /\ DOMAIN s.id = Hues
      /\ SeatsTaken(s) /\ c = ByParity(s.revision) /\ c = ColorOf(u)
      /\ \A e \in Hues : /\ IsFiniteSet(CheckersRules!Pieces(b, e))
                         /\ Cardinality(CheckersRules!Pieces(b, e)) = CampSize
      /\ CheckersEnd(s) /\ s.status = "active"
  BY <1>2, <1>3 DEF CheckersSound, CheckersRules!Accepts
<1>8. c \in Hues
  BY <1>7 DEF ByParity, Hues
<1>9. Moves(b, c, x, y)
  BY <1>2, <1>3, <1>4, <1>5, <1>8, PathMoves DEF CheckersRules!Accepts
<1>10. PICK won : won = CheckersRules!hasCompletedCamp(g, c)
  OBVIOUS
<1>11. t = [revision |-> CheckersRules!NextRevision(s.revision), board |-> g,
            id |-> [s.id EXCEPT ![c] = u], next |-> CheckersRules!opposite(c),
            status |-> IF won THEN "finished" ELSE "active",
            winner |-> IF won THEN u ELSE None,
            result |-> IF won THEN "goal" ELSE None]
  BY <1>1, <1>2, <1>3, <1>4, <1>5, <1>6, <1>10
     DEF CheckersRules!applyMove, CheckersRules!Empty, Shifted
<1>12. /\ t.revision = CheckersRules!NextRevision(s.revision) /\ t.board = g
       /\ t.id = [s.id EXCEPT ![c] = u] /\ t.next = CheckersRules!opposite(c)
       /\ t.status = (IF won THEN "finished" ELSE "active")
       /\ t.winner = (IF won THEN u ELSE None)
       /\ t.result = (IF won THEN "goal" ELSE None)
  BY <1>11
<1>13. /\ DOMAIN t.id = Hues /\ t.id[c] = u /\ \A e \in Hues : e # c => t.id[e] = s.id[e]
  BY <1>7, <1>8, <1>12
<1>14. t.next = (IF c = "black" THEN "white" ELSE "black")
  BY <1>12 DEF CheckersRules!opposite, CheckersRules!Black, CheckersRules!White
<1>15. /\ g = [p \in DOMAIN g |-> g[p]]
       /\ CheckersRules!Pieces(g, c) = (CheckersRules!Pieces(b, c) \ {x}) \cup {y}
       /\ x \in CheckersRules!Pieces(b, c) /\ y \notin CheckersRules!Pieces(b, c)
       /\ \A e \in Hues : e # c => CheckersRules!Pieces(g, e) = CheckersRules!Pieces(b, e)
  BY <1>6, <1>7, <1>8, <1>9, ShiftedPieces
<1>16. \A e \in Hues : /\ IsFiniteSet(CheckersRules!Pieces(g, e))
                       /\ Cardinality(CheckersRules!Pieces(g, e)) = CampSize
  <2>1. PICK P : P = CheckersRules!Pieces(b, c)
    OBVIOUS
  <2>2. IsFiniteSet(P) /\ Cardinality(P) = CampSize /\ x \in P /\ y \notin P
    BY <1>7, <1>8, <1>15, <2>1
  <2>3. IsFiniteSet(P \ {x}) /\ Cardinality(P \ {x}) = CampSize - 1 /\ y \notin P \ {x}
    BY <2>2, FS_RemoveElement
  <2>4. IsFiniteSet((P \ {x}) \cup {y}) /\ Cardinality((P \ {x}) \cup {y}) = CampSize - 1 + 1
    BY <2>3, FS_AddElement
  <2>5. CampSize \in Nat
    BY <2>2, FS_CardinalityType
  <2>6. CampSize - 1 + 1 = CampSize
    BY <2>5
  <2>7. IsFiniteSet(CheckersRules!Pieces(g, c)) /\ Cardinality(CheckersRules!Pieces(g, c)) = CampSize
    BY <1>15, <2>1, <2>4, <2>6
  <2> QED BY <1>7, <1>15, <2>7
<1>17. /\ t.revision \in 0 .. 3 /\ t.revision # 0 /\ t.next = ByParity(t.revision)
       /\ (t.revision <= 1 <=> s.revision = 0)
       /\ (c = "white" => s.revision # 0)
       /\ (c = "black" /\ s.revision # 0 => ~(s.revision <= 1))
  <2>1. s.revision \in {0, 1, 2, 3}
    BY <1>7
  <2>2. t.revision = IF s.revision = 3 THEN 2 ELSE s.revision + 1
    BY <1>12 DEF CheckersRules!NextRevision
  <2> QED BY <1>7, <1>14, <2>1, <2>2 DEF ByParity
<1>18. SeatsTaken(t)
  <2>1. /\ s.id["black"] = (IF s.revision = 0 THEN None ELSE BlackPlayer)
        /\ s.id["white"] = (IF s.revision <= 1 THEN None ELSE WhitePlayer)
    BY <1>7 DEF SeatsTaken
  <2>2. CASE c = "black"
    <3>1. u = BlackPlayer
      BY <1>7, <2>2 DEF ColorOf
    <3>2. t.id["black"] = BlackPlayer /\ t.id["white"] = s.id["white"]
      BY <1>13, <2>2, <3>1 DEF Hues
    <3>3. (t.revision <= 1) <=> (s.revision <= 1)
      BY <1>7, <1>17, <2>2
    <3> QED BY <1>17, <2>1, <3>2, <3>3 DEF SeatsTaken
  <2>3. CASE c = "white"
    <3>1. u = WhitePlayer
      BY <1>7, <2>3 DEF ColorOf, Users
    <3>2. t.id["white"] = WhitePlayer /\ t.id["black"] = s.id["black"]
      BY <1>13, <2>3, <3>1 DEF Hues
    <3> QED BY <1>17, <2>1, <2>3, <3>2 DEF SeatsTaken
  <2> QED BY <1>8, <2>2, <2>3 DEF Hues
<1>19. CheckersEnd(t)
  <2>1. \A e \in Hues : e # c => ~Complete(g)[e]
    <3>1. \A e \in Hues : ~Complete(b)[e]
      BY <1>3, <1>7 DEF CheckersEnd
    <3> QED BY <1>6, <1>7, <1>8, <1>9, <3>1, ShiftedCamps
  <2>2. Complete(g)[c] <=> won
    BY <1>8, <1>10 DEF Complete
  <2>3. u # None
    BY SeatsAssumption DEF Users
  <2> QED BY <1>8, <1>12, <1>13, <2>1, <2>2, <2>3 DEF CheckersEnd
<1> QED BY <1>1, <1>12, <1>13, <1>15, <1>16, <1>17, <1>18, <1>19 DEF CheckersSound

LEMMA CheckersReadsBack ==
  ASSUME game = "chinese_checkers", CheckersSound(snapshot), NEW u \in Users, MayAct(u), NEW e \in Turns(u)
  PROVE  rebuildSnapshot(e.event) = {e.next} /\ CheckersSound(e.next)
<1>1. PICK path :
        /\ CheckersRules!Accepts(snapshot, u, path)
        /\ e = [event |-> CheckersRules!accepted(snapshot, u, path),
                next |-> CheckersRules!applyMove(snapshot, u, path)]
  BY DEF Turns, CheckersRules!Turns
<1>2. PICK a : a = CheckersRules!accepted(snapshot, u, path)
  OBVIOUS
<1>3. PICK t : t = CheckersRules!applyMove(snapshot, u, path)
  OBVIOUS
<1>4. snapshot.next = ColorOf(u) /\ snapshot.next = ByParity(snapshot.revision)
  BY DEF MayAct, CheckersSound
<1>5. CheckersSound(t)
  BY <1>1, <1>3, <1>4, CheckersPlays
<1>6. /\ a.revision = CheckersRules!NextRevision(snapshot.revision) /\ a.actor = u /\ a.path = path
      /\ a.color = snapshot.next
  BY <1>2 DEF CheckersRules!accepted
<1>7. CheckersRules!Rebuild(snapshot, a) = {t}
  BY <1>1, <1>3, <1>6 DEF CheckersRules!Rebuild
<1>8. a.actor = Player[a.color]
  BY <1>4, <1>6, SeatsAssumption DEF Player, ColorOf, Users
<1>9. a.color = ByParity(a.revision - 1)
  <2>1. snapshot.revision \in {0, 1, 2, 3}
    BY DEF CheckersSound
  <2>2. a.revision = IF snapshot.revision = 3 THEN 2 ELSE snapshot.revision + 1
    BY <1>6 DEF CheckersRules!NextRevision
  <2> QED BY <1>4, <1>6, <2>1, <2>2 DEF ByParity
<1>10. rebuildChineseCheckers(a) = {t}
  BY <1>5, <1>7, <1>8, <1>9 DEF rebuildChineseCheckers, CheckersSound
<1>11. rebuildSnapshot(a) = rebuildChineseCheckers(a)
  BY DEF rebuildSnapshot
<1> QED BY <1>1, <1>2, <1>3, <1>5, <1>10, <1>11

(* A move takes one piece of the player to move, and respects the camps.   *)
LEMMA CheckersMoveIsFair ==
  ASSUME CheckersSound(snapshot), NEW u, NEW path, CheckersRules!Accepts(snapshot, u, path),
         snapshot' = CheckersRules!applyMove(snapshot, u, path)
  PROVE  CheckersRules!CampsRespected
<1>1. PICK c : c = snapshot.next
  OBVIOUS
<1>2. PICK b : b = snapshot.board
  OBVIOUS
<1>3. PICK x : x = path[1]
  OBVIOUS
<1>4. PICK y : y = path[Len(path)]
  OBVIOUS
<1>5. PICK g : g = Shifted(b, c, x, y)
  OBVIOUS
<1>6. snapshot'.board = g
  BY <1>1, <1>2, <1>3, <1>4, <1>5 DEF CheckersRules!applyMove, CheckersRules!Empty, Shifted
<1>7. c \in Hues /\ b = [p \in DOMAIN b |-> b[p]]
  BY <1>1, <1>2 DEF CheckersSound, ByParity, Hues
<1>8. Moves(b, c, x, y)
  BY <1>1, <1>2, <1>3, <1>4, <1>7, PathMoves DEF CheckersRules!Accepts
<1>9. /\ CheckersRules!Pieces(g, c) = (CheckersRules!Pieces(b, c) \ {x}) \cup {y}
      /\ x \in CheckersRules!Pieces(b, c) /\ y \notin CheckersRules!Pieces(b, c)
      /\ \A e \in Hues : e # c => CheckersRules!Pieces(g, e) = CheckersRules!Pieces(b, e)
  BY <1>5, <1>7, <1>8, ShiftedPieces
<1>10. /\ CheckersRules!Pieces(b, c) \ CheckersRules!Pieces(g, c) = {x}
       /\ CheckersRules!Pieces(g, c) \ CheckersRules!Pieces(b, c) = {y}
  BY <1>9
<1>11. CheckersRules!opposite(c) \in Hues /\ CheckersRules!opposite(c) # c
  BY <1>7 DEF CheckersRules!opposite, CheckersRules!Black, CheckersRules!White, Hues
<1>12. CheckersRules!Pieces(g, CheckersRules!opposite(c)) = CheckersRules!Pieces(b, CheckersRules!opposite(c))
  BY <1>9, <1>11
<1>13. CheckersRules!Cardinality({x}) = 1 /\ CheckersRules!Cardinality({y}) = 1
  BY CheckersCounting, FS_Singleton
<1>14. ~CheckersRules!isNeutralCamp(y)
       /\ (CheckersRules!isTargetCamp(x, c) => CheckersRules!isTargetCamp(y, c))
  BY <1>8 DEF Moves
<1>15. \A p \in {y} : p = y
  OBVIOUS
<1>16. \A p \in {x} : p = x
  OBVIOUS
<1> QED BY <1>1, <1>2, <1>6, <1>10, <1>12, <1>13, <1>14, <1>15, <1>16 DEF CheckersRules!CampsRespected

LEMMA CheckersIsPlayed == Spec => []CheckersHolds
<1>1. Init => CheckersHolds
  BY CheckersStarts DEF Init, NewSnapshot, CheckersHolds
<1>2. CheckersHolds /\ [Next]_vars => CheckersHolds'
  <2> SUFFICES ASSUME CheckersHolds, [Next]_vars, game' = "chinese_checkers"
               PROVE  CheckersSound(snapshot')
    BY DEF CheckersHolds, CheckersSound, SeatsTaken, CheckersEnd, Complete
  <2>1. game = "chinese_checkers" /\ CheckersSound(snapshot)
    BY DEF Next, vars, Play, Look, CheckersHolds
  <2>2. ASSUME NEW u \in Users, Play(u)  PROVE CheckersSound(snapshot')
    <3>1. PICK e \in Turns(u) : snapshot' = e.next
      BY <2>2 DEF Play
    <3>2. MayAct(u)
      BY <2>2 DEF Play
    <3> QED BY <2>1, <3>1, <3>2, CheckersReadsBack
  <2>3. ASSUME NEW u \in Users, Look(u)  PROVE FALSE
    BY <2>1, <2>3 DEF Look
  <2>4. CASE UNCHANGED vars
    BY <2>1, <2>4 DEF vars
  <2> QED BY <2>2, <2>3, <2>4 DEF Next
<1> QED BY <1>1, <1>2, PTL DEF Spec

LEMMA CheckersStepIsFair ==
  ASSUME CheckersHolds, [Next]_vars, game = "chinese_checkers", snapshot' # snapshot
  PROVE  CheckersRules!CampsRespected
<1>1. PICK u \in Users : Play(u)
  <2>1. PICK u \in Users : Play(u) \/ Look(u)
    BY DEF Next, vars
  <2> QED BY <2>1 DEF Look
<1>2. PICK e \in Turns(u) : snapshot' = e.next
  BY <1>1 DEF Play
<1>3. PICK path : /\ CheckersRules!Accepts(snapshot, u, path)
                  /\ e = [event |-> CheckersRules!accepted(snapshot, u, path),
                          next |-> CheckersRules!applyMove(snapshot, u, path)]
  BY DEF Turns, CheckersRules!Turns
<1> QED BY <1>2, <1>3, CheckersMoveIsFair DEF CheckersHolds

(***************************************************************************)
(* Reversi.  The board, and the run of discs along a direction.            *)
(***************************************************************************)
RBoards == [ReversiRules!Points -> {"black", "white", "empty"}]

LEMMA SizeOfBoard == ReversiSize \in Nat /\ ReversiSize >= 4
BY BoardsAssumption

LEMMA ReversiCounting ==
  \A S : ReversiRules!Cardinality(S) = Cardinality(S)
BY DEF ReversiRules!Cardinality, Cardinality

LEMMA OnBoard ==
  \A p : p \in ReversiRules!Points <=>
           Place(p) /\ 0 <= p[1] /\ p[1] < ReversiSize /\ 0 <= p[2] /\ p[2] < ReversiSize
BY SizeOfBoard DEF ReversiRules!Points, Place

LEMMA Steps ==
  ASSUME NEW d \in ReversiRules!Directions
  PROVE  d[1] \in {-1, 0, 1} /\ d[2] \in {-1, 0, 1} /\ (d[1] # 0 \/ d[2] # 0)
BY DEF ReversiRules!Directions

\* The cell i steps away, when it is on the board: i is less than its side.
LEMMA StepsStayNear ==
  ASSUME NEW p \in ReversiRules!Points, NEW d \in ReversiRules!Directions, NEW i \in Int,
         ReversiRules!Along(p, d, i) \in ReversiRules!Points
  PROVE  i < ReversiSize
<1>1. PICK q : q = ReversiRules!Along(p, d, i)
  OBVIOUS
<1>2. q[1] = p[1] + i * d[1] /\ q[2] = p[2] + i * d[2]
  BY <1>1 DEF ReversiRules!Along
<1>3. /\ p[1] \in Int /\ p[2] \in Int /\ q[1] \in Int /\ q[2] \in Int
      /\ 0 <= p[1] /\ p[1] < ReversiSize /\ 0 <= p[2] /\ p[2] < ReversiSize
      /\ 0 <= q[1] /\ q[1] < ReversiSize /\ 0 <= q[2] /\ q[2] < ReversiSize
  BY <1>1, OnBoard DEF Place
<1>4. /\ d[1] \in {-1, 0, 1} /\ d[2] \in {-1, 0, 1} /\ (d[1] # 0 \/ d[2] # 0)
  BY Steps
<1>5. \A k : k \in {-1, 1} => i * k = i \/ i * k = -i
  OBVIOUS
<1>6. CASE d[1] # 0
  BY <1>2, <1>3, <1>4, <1>5, <1>6, SizeOfBoard
<1>7. CASE d[2] # 0
  BY <1>2, <1>3, <1>4, <1>5, <1>7, SizeOfBoard
<1> QED BY <1>4, <1>6, <1>7

\* n cells on, the discs of the other colour are over.
Over(b, p, d, c, n) ==
    /\ n \in 0 .. ReversiSize
    /\ \A i \in 1 .. n : ReversiRules!color(b, ReversiRules!Along(p, d, i)) = ReversiRules!opposite(c)
    /\ ReversiRules!color(b, ReversiRules!Along(p, d, n + 1)) # ReversiRules!opposite(c)

LEMMA Opposites ==
  \A c \in Hues : /\ ReversiRules!opposite(c) \in Hues /\ ReversiRules!opposite(c) # c
                  /\ \A e \in Hues : e = c \/ e = ReversiRules!opposite(c)
                  /\ ReversiRules!opposite(c) = (IF c = "black" THEN "white" ELSE "black")
BY DEF ReversiRules!opposite, ReversiRules!Black, ReversiRules!White, Hues

LEMMA Colored ==
  ASSUME NEW b \in RBoards, NEW q, NEW c \in Hues
  PROVE  ReversiRules!color(b, q) = c <=> q \in ReversiRules!Points /\ b[q] = c
BY DEF ReversiRules!color, ReversiRules!Empty, RBoards, Hues

LEMMA DiscsEnd ==
  ASSUME NEW b \in RBoards, NEW c \in Hues, NEW p \in ReversiRules!Points, NEW d \in ReversiRules!Directions
  PROVE  \E n : /\ Over(b, p, d, c, n)
                /\ \A m : Over(b, p, d, c, m) => m = n
                /\ ReversiRules!Captured(b, p, d, c) =
                     IF ReversiRules!color(b, ReversiRules!Along(p, d, n + 1)) = c
                     THEN {ReversiRules!Along(p, d, i) : i \in 1 .. n} ELSE {}
<1> DEFINE At(i) == ReversiRules!color(b, ReversiRules!Along(p, d, i))
           o == ReversiRules!opposite(c)
           T == {i \in Nat : i >= 1 /\ At(i) # o}
<1>1. o \in Hues
  BY Opposites
<1>2. \A i \in Int : At(i) = o => i < ReversiSize
  BY <1>1, Colored, StepsStayNear
<1>3. ReversiSize \in T /\ T \subseteq Nat
  BY <1>2, SizeOfBoard
<1>4. PICK m \in T : \A j \in T : ~(j < m)
  <2> HIDE DEF T
  <2> QED BY <1>3, LeastNumber
<1>5. m \in Nat /\ m >= 1 /\ At(m) # o /\ m <= ReversiSize
  BY <1>3, <1>4, SizeOfBoard
<1>6. \A j \in 1 .. m - 1 : At(j) = o
  <2> SUFFICES ASSUME NEW j \in 1 .. m - 1, At(j) # o  PROVE FALSE
    OBVIOUS
  <2>1. j \in Nat /\ j >= 1 /\ j < m
    BY <1>5
  <2>2. j \in T
    BY <2>1
  <2> QED BY <1>4, <2>1, <2>2
<1>7. Over(b, p, d, c, m - 1)
  <2>1. m - 1 \in 0 .. ReversiSize /\ (m - 1) + 1 = m
    BY <1>5, SizeOfBoard
  <2> QED BY <1>5, <1>6, <2>1 DEF Over
<1>8. \A x, y : Over(b, p, d, c, x) /\ Over(b, p, d, c, y) => ~(x < y)
  <2> SUFFICES ASSUME NEW x, NEW y, Over(b, p, d, c, x), Over(b, p, d, c, y), x < y  PROVE FALSE
    OBVIOUS
  <2>1. x \in Nat /\ y \in Nat
    BY SizeOfBoard DEF Over
  <2>2. x + 1 \in 1 .. y
    BY <2>1
  <2> QED BY <2>2 DEF Over
<1>9. \A x : Over(b, p, d, c, x) => x = m - 1
  <2> TAKE x
  <2> HAVE Over(b, p, d, c, x)
  <2>1. x \in Nat /\ m - 1 \in Nat
    BY <1>5, SizeOfBoard DEF Over
  <2>2. ~(x < m - 1) /\ ~(m - 1 < x)
    BY <1>7, <1>8
  <2> QED BY <2>1, <2>2
<1>10. PICK n : n = CHOOSE k \in 0 .. ReversiSize :
                      /\ \A i \in 1 .. k : ReversiRules!color(b, ReversiRules!Along(p, d, i)) = ReversiRules!opposite(c)
                      /\ ReversiRules!color(b, ReversiRules!Along(p, d, k + 1)) # ReversiRules!opposite(c)
  OBVIOUS
<1>11. Over(b, p, d, c, n)
  <2>1. m - 1 \in 0 .. ReversiSize
    BY <1>7 DEF Over
  <2>2. /\ \A i \in 1 .. m - 1 : ReversiRules!color(b, ReversiRules!Along(p, d, i)) = ReversiRules!opposite(c)
        /\ ReversiRules!color(b, ReversiRules!Along(p, d, (m - 1) + 1)) # ReversiRules!opposite(c)
    BY <1>7 DEF Over
  <2>3. /\ n \in 0 .. ReversiSize
        /\ \A i \in 1 .. n : ReversiRules!color(b, ReversiRules!Along(p, d, i)) = ReversiRules!opposite(c)
        /\ ReversiRules!color(b, ReversiRules!Along(p, d, n + 1)) # ReversiRules!opposite(c)
    BY <1>10, <2>1, <2>2
  <2> QED BY <2>3 DEF Over
<1>12. ReversiRules!Captured(b, p, d, c) =
         IF ReversiRules!color(b, ReversiRules!Along(p, d, n + 1)) = c
         THEN {ReversiRules!Along(p, d, i) : i \in 1 .. n} ELSE {}
  BY <1>10 DEF ReversiRules!Captured
<1> QED BY <1>9, <1>11, <1>12

\* Discs of the other colour between p and a disc of c.
Bracket(b, p, d, c, n) ==
    /\ n \in 2 .. ReversiSize - 1
    /\ ReversiRules!color(b, ReversiRules!Along(p, d, n)) = c
    /\ \A i \in 1 .. n - 1 : ReversiRules!color(b, ReversiRules!Along(p, d, i)) = ReversiRules!opposite(c)

LEMMA CapturedIsBracket ==
  ASSUME NEW b \in RBoards, NEW c \in Hues, NEW p \in ReversiRules!Points, NEW d \in ReversiRules!Directions
  PROVE  /\ \A n : Bracket(b, p, d, c, n) =>
              /\ ReversiRules!Captured(b, p, d, c) = {ReversiRules!Along(p, d, i) : i \in 1 .. n - 1}
              /\ ReversiRules!Captured(b, p, d, c) # {}
         /\ ReversiRules!Captured(b, p, d, c) # {} => \E n : Bracket(b, p, d, c, n)
<1>1. PICK n : /\ Over(b, p, d, c, n)
               /\ \A m : Over(b, p, d, c, m) => m = n
               /\ ReversiRules!Captured(b, p, d, c) =
                    IF ReversiRules!color(b, ReversiRules!Along(p, d, n + 1)) = c
                    THEN {ReversiRules!Along(p, d, i) : i \in 1 .. n} ELSE {}
  BY DiscsEnd
<1>2. n \in Nat
  BY <1>1, SizeOfBoard DEF Over
<1>3. ASSUME NEW m, Bracket(b, p, d, c, m)
      PROVE  /\ ReversiRules!Captured(b, p, d, c) = {ReversiRules!Along(p, d, i) : i \in 1 .. m - 1}
             /\ ReversiRules!Captured(b, p, d, c) # {}
  <2>1. m \in Nat /\ m >= 2 /\ m - 1 \in 0 .. ReversiSize /\ (m - 1) + 1 = m
    BY <1>3, SizeOfBoard DEF Bracket
  <2>2. Over(b, p, d, c, m - 1)
    BY <1>3, <2>1, Opposites DEF Bracket, Over
  <2>3. n = m - 1
    BY <1>1, <2>2
  <2>4. ReversiRules!Captured(b, p, d, c) = {ReversiRules!Along(p, d, i) : i \in 1 .. m - 1}
    BY <1>1, <1>3, <2>1, <2>3 DEF Bracket
  <2>5. 1 \in 1 .. m - 1
    BY <2>1
  <2> QED BY <2>4, <2>5
<1>4. ASSUME ReversiRules!Captured(b, p, d, c) # {}  PROVE Bracket(b, p, d, c, n + 1)
  <2>1. ReversiRules!color(b, ReversiRules!Along(p, d, n + 1)) = c
    BY <1>1, <1>4
  <2>2. n # 0
    <3>1. SUFFICES ASSUME n = 0  PROVE FALSE
      OBVIOUS
    <3>2. 1 .. 0 = {}
      OBVIOUS
    <3> QED BY <1>1, <1>4, <3>1, <3>2
  <2>3. n + 1 < ReversiSize
    BY <1>2, <2>1, Colored, StepsStayNear
  <2>4. n + 1 \in 2 .. ReversiSize - 1 /\ (n + 1) - 1 = n
    BY <1>2, <2>2, <2>3, SizeOfBoard
  <2> QED BY <1>1, <2>1, <2>4 DEF Bracket, Over
<1> QED BY <1>3, <1>4

(* The walk from a cell finds a move where the board has one.               *)
LEMMA MovesAreBrackets ==
  ASSUME NEW b \in RBoards, NEW c \in Hues
  PROVE  ReversiRules!legal(b, c) # {} <=> ReversiRules!CanMove(b, c)
<1>1. ReversiRules!legal(b, c) # {} <=>
        \E p \in ReversiRules!Points : b[p] = "empty" /\
          \E d \in ReversiRules!Directions : ReversiRules!Captured(b, p, d, c) # {}
  BY DEF ReversiRules!legal, ReversiRules!Empty
<1>2. ReversiRules!CanMove(b, c) <=>
        \E p \in ReversiRules!Points, d \in ReversiRules!Directions :
          b[p] = "empty" /\ \E n : Bracket(b, p, d, c, n)
  BY DEF ReversiRules!CanMove, Bracket, ReversiRules!Empty
<1>3. \A p \in ReversiRules!Points, d \in ReversiRules!Directions :
        ReversiRules!Captured(b, p, d, c) # {} <=> \E n : Bracket(b, p, d, c, n)
  BY CapturedIsBracket
<1> QED BY <1>1, <1>2, <1>3

(***************************************************************************)
(* A move: what is turned over was the other's, and one cell more is taken.*)
(***************************************************************************)
Taken(b) == {p \in ReversiRules!Points : b[p] # "empty"}
Discs(b, c) == {p \in ReversiRules!Points : b[p] = c}

LEMMA PointsCount ==
  /\ IsFiniteSet(ReversiRules!Points)
  /\ Cardinality(ReversiRules!Points) = ReversiSize * ReversiSize
<1>1. IsFiniteSet(0 .. ReversiSize - 1) /\ Cardinality(0 .. ReversiSize - 1) = ReversiSize
  <2>1. 0 \in Int /\ ReversiSize - 1 \in Int
    BY SizeOfBoard
  <2>2. IsFiniteSet(0 .. ReversiSize - 1)
        /\ Cardinality(0 .. ReversiSize - 1) = IF 0 > ReversiSize - 1 THEN 0 ELSE (ReversiSize - 1) - 0 + 1
    BY <2>1, FS_Interval
  <2> QED BY <2>2, SizeOfBoard
<1> QED BY <1>1, FS_Product DEF ReversiRules!Points

LEMMA DiscsAddUp ==
  ASSUME NEW b \in RBoards
  PROVE  /\ ReversiRules!counts(b)["black"] \in Nat /\ ReversiRules!counts(b)["white"] \in Nat
         /\ ReversiRules!counts(b)["black"] + ReversiRules!counts(b)["white"] = Cardinality(Taken(b))
         /\ IsFiniteSet(Taken(b)) /\ Cardinality(Taken(b)) \in Nat
         /\ Cardinality(Taken(b)) <= ReversiSize * ReversiSize
<1> DEFINE B == Discs(b, "black")
           W == Discs(b, "white")
<1>1. DOMAIN b = ReversiRules!Points /\ \A p \in ReversiRules!Points : b[p] \in {"black", "white", "empty"}
  BY DEF RBoards
<1>2. ReversiRules!counts(b)["black"] = Cardinality(B) /\ ReversiRules!counts(b)["white"] = Cardinality(W)
  <2>1. \A c \in Hues : ReversiRules!counts(b)[c] = Cardinality({p \in DOMAIN b : b[p] = c})
    BY ReversiCounting DEF ReversiRules!counts, ReversiRules!Colors, ReversiRules!Black,
       ReversiRules!White, Hues
  <2> QED BY <1>1, <2>1 DEF Hues, Discs
<1>3. B \cup W = Taken(b) /\ B \cap W = {} /\ Taken(b) \subseteq ReversiRules!Points
      /\ B \subseteq ReversiRules!Points /\ W \subseteq ReversiRules!Points
  BY <1>1 DEF Discs, Taken
<1>4. /\ IsFiniteSet(B) /\ Cardinality(B) \in Nat /\ IsFiniteSet(W) /\ Cardinality(W) \in Nat
      /\ IsFiniteSet(Taken(b)) /\ Cardinality(Taken(b)) \in Nat
      /\ Cardinality(Taken(b)) <= Cardinality(ReversiRules!Points)
  <2> HIDE DEF B, W
  <2> QED BY <1>3, PointsCount, FS_Subset, FS_CardinalityType
<1>5. Cardinality(B) + Cardinality(W) = Cardinality(Taken(b))
  <2> HIDE DEF B, W
  <2>1. Cardinality(B \cup W) = Cardinality(B) + Cardinality(W) - Cardinality(B \cap W)
    BY <1>4, FS_Union
  <2>2. Cardinality(B \cap W) = 0
    BY <1>3, FS_EmptySet
  <2>3. Cardinality(B \cup W) = Cardinality(Taken(b))
    BY <1>3
  <2>4. \A k, m \in Nat : k + m - 0 = k + m
    OBVIOUS
  <2>5. Cardinality(B) + Cardinality(W) - 0 = Cardinality(B) + Cardinality(W)
    BY <1>4, <2>4
  <2> QED BY <2>1, <2>2, <2>3, <2>5
<1> QED BY <1>2, <1>4, <1>5, PointsCount

\* The board after c has put a disc on p.
After(b, p, c) ==
    [q \in DOMAIN b |-> IF q \in ReversiRules!flips(b, p, c) \cup {p} THEN c ELSE b[q]]

LEMMA FlipsAreTheOthers ==
  ASSUME NEW b \in RBoards, NEW c \in Hues, NEW p \in ReversiRules!Points, b[p] = "empty"
  PROVE  \A q \in ReversiRules!flips(b, p, c) :
           /\ q \in ReversiRules!Points /\ b[q] = ReversiRules!opposite(c)
           /\ \E d \in ReversiRules!Directions : q \in ReversiRules!Captured(b, p, d, c)
<1> TAKE q \in ReversiRules!flips(b, p, c)
<1>1. PICK d \in ReversiRules!Directions : q \in ReversiRules!Captured(b, p, d, c)
  BY DEF ReversiRules!flips, ReversiRules!Empty
<1>2. PICK n : Bracket(b, p, d, c, n)
  BY <1>1, CapturedIsBracket
<1>3. PICK i \in 1 .. n - 1 : q = ReversiRules!Along(p, d, i)
  BY <1>1, <1>2, CapturedIsBracket
<1>4. ReversiRules!color(b, q) = ReversiRules!opposite(c) /\ ReversiRules!opposite(c) \in Hues
  BY <1>2, <1>3, Opposites DEF Bracket
<1> QED BY <1>1, <1>4, Colored

LEMMA AfterMove ==
  ASSUME NEW b \in RBoards, NEW c \in Hues, NEW p \in ReversiRules!Points, b[p] = "empty"
  PROVE  /\ After(b, p, c) \in RBoards
         /\ After(b, p, c)[p] = c
         /\ Cardinality(Taken(After(b, p, c))) = Cardinality(Taken(b)) + 1
<1>1. PICK g : g = After(b, p, c)
  OBVIOUS
<1>2. DOMAIN b = ReversiRules!Points /\ \A q \in ReversiRules!Points : b[q] \in {"black", "white", "empty"}
  BY DEF RBoards
<1>3. c \in {"black", "white"} /\ ReversiRules!opposite(c) \in {"black", "white"}
  BY Opposites DEF Hues
<1>4. /\ g \in RBoards /\ g[p] = c
      /\ \A q \in ReversiRules!Points :
           g[q] = IF q \in ReversiRules!flips(b, p, c) \cup {p} THEN c ELSE b[q]
  BY <1>1, <1>2, <1>3 DEF After, RBoards
<1>5. \A q \in ReversiRules!flips(b, p, c) : b[q] = ReversiRules!opposite(c)
  BY FlipsAreTheOthers
<1>6. Taken(g) = Taken(b) \cup {p}
  <2>1. \A q \in ReversiRules!Points : g[q] # "empty" <=> b[q] # "empty" \/ q = p
    BY <1>3, <1>4, <1>5
  <2> QED BY <2>1 DEF Taken
<1>7. p \notin Taken(b) /\ IsFiniteSet(Taken(b))
  BY DiscsAddUp DEF Taken
<1> QED BY <1>1, <1>4, <1>6, <1>7, FS_AddElement

(***************************************************************************)
(* The opening: black can move, and whatever black does white can answer.  *)
(***************************************************************************)
Half == ReversiSize \div 2

LEMMA Halves ==
  /\ Half \in Nat /\ Half >= 2 /\ ReversiSize = 2 * Half
  /\ ReversiRules!Middle = {Half - 1, Half}
BY BoardsAssumption DEF Half, ReversiRules!Middle

LEMMA Opening ==
  /\ ReversiRules!initialBoard \in RBoards
  /\ \A p \in ReversiRules!Points :
       ReversiRules!initialBoard[p] =
         IF p[1] \notin {Half - 1, Half} \/ p[2] \notin {Half - 1, Half} THEN "empty"
         ELSE IF p[1] = p[2] THEN "white" ELSE "black"
BY Halves DEF ReversiRules!initialBoard, RBoards, ReversiRules!Empty, ReversiRules!Black, ReversiRules!White

LEMMA OpeningTaken == Cardinality(Taken(ReversiRules!initialBoard)) = 4
<1>1. Taken(ReversiRules!initialBoard) = {Half - 1, Half} \X {Half - 1, Half}
  <2>1. \A p : p \in Taken(ReversiRules!initialBoard) <=>
                 p \in ReversiRules!Points /\ p[1] \in {Half - 1, Half} /\ p[2] \in {Half - 1, Half}
    BY Opening DEF Taken
  <2>2. \A p : p \in ReversiRules!Points /\ p[1] \in {Half - 1, Half} /\ p[2] \in {Half - 1, Half}
                 <=> p \in {Half - 1, Half} \X {Half - 1, Half}
    BY Halves DEF ReversiRules!Points
  <2> QED BY <2>1, <2>2
<1>2. PICK M : M = {Half - 1, Half}
  OBVIOUS
<1>3. IsFiniteSet(M) /\ Cardinality(M) = 2
  <2>1. IsFiniteSet({Half - 1}) /\ Cardinality({Half - 1}) = 1
    BY FS_Singleton
  <2>2. M = {Half - 1} \cup {Half} /\ Half \notin {Half - 1}
    BY <1>2, Halves
  <2> QED BY <2>1, <2>2, FS_AddElement
<1>4. Cardinality(M \X M) = Cardinality(M) * Cardinality(M)
  BY <1>3, FS_Product
<1>5. Cardinality(M \X M) = 2 * 2
  BY <1>3, <1>4
<1> QED BY <1>1, <1>2, <1>5

LEMMA OpeningMove == ReversiRules!legal(ReversiRules!initialBoard, "black") # {}
<1>1. PICK b : b = ReversiRules!initialBoard
  OBVIOUS
<1>2. PICK h : h = Half
  OBVIOUS
<1>3. h \in Nat /\ h >= 2 /\ ReversiSize = 2 * h
  BY <1>2, Halves
<1>4. /\ <<h - 2, h - 1>> \in ReversiRules!Points /\ <<h - 1, h - 1>> \in ReversiRules!Points
      /\ <<h, h - 1>> \in ReversiRules!Points
  BY <1>3 DEF ReversiRules!Points
<1>5. b[<<h - 2, h - 1>>] = "empty" /\ b[<<h - 1, h - 1>>] = "white" /\ b[<<h, h - 1>>] = "black"
  BY <1>1, <1>2, <1>3, <1>4, Opening
<1>6. <<1, 0>> \in ReversiRules!Directions
  BY DEF ReversiRules!Directions
<1>7. /\ ReversiRules!Along(<<h - 2, h - 1>>, <<1, 0>>, 1) = <<h - 1, h - 1>>
      /\ ReversiRules!Along(<<h - 2, h - 1>>, <<1, 0>>, 2) = <<h, h - 1>>
  BY <1>3 DEF ReversiRules!Along
<1>8. b \in RBoards /\ "black" \in Hues /\ "white" \in Hues
  BY <1>1, Opening DEF Hues
<1>9. /\ ReversiRules!color(b, <<h - 1, h - 1>>) = "white"
      /\ ReversiRules!color(b, <<h, h - 1>>) = "black"
  BY <1>4, <1>5, <1>8, Colored
<1>10. Bracket(b, <<h - 2, h - 1>>, <<1, 0>>, "black", 2)
  <2>1. 2 \in 2 .. ReversiSize - 1 /\ \A i \in 1 .. 2 - 1 : i = 1
    BY SizeOfBoard
  <2> QED BY <1>7, <1>8, <1>9, <2>1, Opposites DEF Bracket
<1>11. ReversiRules!CanMove(b, "black")
  BY <1>4, <1>5, <1>6, <1>10 DEF ReversiRules!CanMove, Bracket, ReversiRules!Empty
<1> QED BY <1>1, <1>8, <1>11, MovesAreBrackets

LEMMA OpeningBracket ==
  ASSUME NEW h, h = Half, NEW p \in ReversiRules!Points, NEW d \in ReversiRules!Directions, NEW n,
         Bracket(ReversiRules!initialBoard, p, d, "black", n)
  PROVE  /\ n = 2
         /\ \/ p = <<h - 1, h - 2>> /\ d = <<0, 1>>
            \/ p = <<h - 2, h - 1>> /\ d = <<1, 0>>
            \/ p = <<h + 1, h>> /\ d = <<-1, 0>>
            \/ p = <<h, h + 1>> /\ d = <<0, -1>>
<1>1. PICK b : b = ReversiRules!initialBoard
  OBVIOUS
<1>2. h \in Nat /\ h >= 2 /\ ReversiSize = 2 * h
  BY Halves
<1>3. b \in RBoards /\ "black" \in Hues /\ "white" \in Hues
  BY <1>1, Opening DEF Hues
<1>4. \A q : /\ ReversiRules!color(b, q) = "white" =>
                  q[1] = q[2] /\ q[1] \in {h - 1, h}
             /\ ReversiRules!color(b, q) = "black" =>
                  q[1] # q[2] /\ q[1] \in {h - 1, h} /\ q[2] \in {h - 1, h}
  BY <1>1, <1>3, Opening, Colored
<1>5. \A i \in Int : /\ ReversiRules!Along(p, d, i)[1] = p[1] + i * d[1]
                     /\ ReversiRules!Along(p, d, i)[2] = p[2] + i * d[2]
  BY DEF ReversiRules!Along
<1>6. /\ n \in Nat /\ n >= 2
      /\ ReversiRules!color(b, ReversiRules!Along(p, d, n)) = "black"
      /\ \A i \in 1 .. n - 1 : ReversiRules!color(b, ReversiRules!Along(p, d, i)) = "white"
  BY <1>1, <1>3, SizeOfBoard, Opposites DEF Bracket
<1>7. d[1] \in {-1, 0, 1} /\ d[2] \in {-1, 0, 1} /\ (d[1] # 0 \/ d[2] # 0) /\ d = <<d[1], d[2]>>
  BY DEF ReversiRules!Directions
<1>8. Place(p)
  BY OnBoard
<1>9. p[1] + d[1] = p[2] + d[2] /\ p[1] + d[1] \in {h - 1, h}
  <2>1. 1 \in 1 .. n - 1
    BY <1>6
  <2>2. ReversiRules!color(b, ReversiRules!Along(p, d, 1)) = "white"
    BY <1>6, <2>1
  <2>3. /\ ReversiRules!Along(p, d, 1)[1] = p[1] + 1 * d[1]
        /\ ReversiRules!Along(p, d, 1)[2] = p[2] + 1 * d[2]
    BY <1>5
  <2>4. 1 * d[1] = d[1] /\ 1 * d[2] = d[2]
    BY <1>7
  <2> QED BY <1>4, <2>2, <2>3, <2>4
<1>10. n = 2
  <2> SUFFICES ASSUME n >= 3  PROVE FALSE
    BY <1>6
  <2>1. 2 \in 1 .. n - 1
    BY <1>6
  <2>2. ReversiRules!color(b, ReversiRules!Along(p, d, 2)) = "white"
    BY <1>6, <2>1
  <2>3. \/ ReversiRules!color(b, ReversiRules!Along(p, d, 3)) = "white"
        \/ ReversiRules!color(b, ReversiRules!Along(p, d, 3)) = "black"
    <3>1. CASE n = 3
      BY <1>6, <3>1
    <3>2. CASE n > 3
      <4>1. 3 \in 1 .. n - 1
        BY <1>6, <3>2
      <4> QED BY <1>6, <4>1
    <3> QED BY <1>6, <3>1, <3>2
  <2>4. p[1] + 2 * d[1] = p[2] + 2 * d[2] /\ p[1] + 2 * d[1] \in {h - 1, h}
    BY <1>4, <1>5, <2>2
  <2>5. p[1] + 3 * d[1] \in {h - 1, h} /\ p[2] + 3 * d[2] \in {h - 1, h}
    BY <1>4, <1>5, <2>3
  <2> QED BY <1>2, <1>7, <1>8, <1>9, <2>4, <2>5 DEF Place
<1>11. p[1] + 2 * d[1] # p[2] + 2 * d[2] /\ p[1] + 2 * d[1] \in {h - 1, h} /\ p[2] + 2 * d[2] \in {h - 1, h}
  BY <1>4, <1>5, <1>6, <1>10
<1>12. \/ p[1] = h - 1 /\ p[2] = h - 2 /\ d[1] = 0 /\ d[2] = 1
       \/ p[1] = h - 2 /\ p[2] = h - 1 /\ d[1] = 1 /\ d[2] = 0
       \/ p[1] = h + 1 /\ p[2] = h /\ d[1] = -1 /\ d[2] = 0
       \/ p[1] = h /\ p[2] = h + 1 /\ d[1] = 0 /\ d[2] = -1
  BY <1>2, <1>7, <1>8, <1>9, <1>11 DEF Place
<1> QED BY <1>7, <1>8, <1>10, <1>12 DEF Place

\* White brackets the disc that black has turned over.
LEMMA OpeningAnswer ==
  ASSUME NEW p \in ReversiRules!legal(ReversiRules!initialBoard, "black")
  PROVE  ReversiRules!legal(After(ReversiRules!initialBoard, p, "black"), "white") # {}
<1>1. PICK b : b = ReversiRules!initialBoard
  OBVIOUS
<1>2. PICK h : h = Half
  OBVIOUS
<1>3. h \in Nat /\ h >= 2 /\ ReversiSize = 2 * h
  BY <1>2, Halves
<1>4. b \in RBoards /\ "black" \in Hues /\ "white" \in Hues /\ ReversiRules!opposite("black") = "white"
      /\ ReversiRules!opposite("white") = "black"
  BY <1>1, Opening, Opposites DEF Hues
<1>5. PICK d \in ReversiRules!Directions : ReversiRules!Captured(b, p, d, "black") # {}
  BY <1>1 DEF ReversiRules!legal
<1>6. p \in ReversiRules!Points /\ b[p] = "empty"
  BY <1>1 DEF ReversiRules!legal, ReversiRules!Empty
<1>7. PICK n : Bracket(b, p, d, "black", n)
  BY <1>4, <1>5, <1>6, CapturedIsBracket
<1>8. /\ n = 2
      /\ \/ p = <<h - 1, h - 2>> /\ d = <<0, 1>>
         \/ p = <<h - 2, h - 1>> /\ d = <<1, 0>>
         \/ p = <<h + 1, h>> /\ d = <<-1, 0>>
         \/ p = <<h, h + 1>> /\ d = <<0, -1>>
  BY <1>1, <1>2, <1>6, <1>7, OpeningBracket
<1> DEFINE One(q) == ReversiRules!Along(p, q, 1)
<1>9. \A q : One(q) = <<p[1] + 1 * q[1], p[2] + 1 * q[2]>>
  BY DEF ReversiRules!Along
<1>10. One(d) = IF p[1] + p[2] < 2 * h - 1 THEN <<h - 1, h - 1>> ELSE <<h, h>>
  BY <1>3, <1>8, <1>9
<1>11. \A i \in 1 .. 2 - 1 : i = 1
  OBVIOUS
<1>12. 1 \in 1 .. 2 - 1
  OBVIOUS
<1>13. \A e \in ReversiRules!Directions : \A m : Bracket(b, p, e, "black", m) => m = 2 /\ e = d
  <2> SUFFICES ASSUME NEW e \in ReversiRules!Directions, NEW m, Bracket(b, p, e, "black", m)
               PROVE  m = 2 /\ e = d
    OBVIOUS
  <2>1. /\ m = 2
        /\ \/ p = <<h - 1, h - 2>> /\ e = <<0, 1>>
           \/ p = <<h - 2, h - 1>> /\ e = <<1, 0>>
           \/ p = <<h + 1, h>> /\ e = <<-1, 0>>
           \/ p = <<h, h + 1>> /\ e = <<0, -1>>
    BY <1>1, <1>2, <1>6, OpeningBracket
  <2> QED BY <1>3, <1>8, <2>1
<1> HIDE DEF One
<1>14. \A e \in ReversiRules!Directions :
         ReversiRules!Captured(b, p, e, "black") = IF e = d THEN {One(d)} ELSE {}
  <2> TAKE e \in ReversiRules!Directions
  <2>1. CASE e = d
    <3>1. ReversiRules!Captured(b, p, d, "black") = {ReversiRules!Along(p, d, i) : i \in 1 .. 2 - 1}
      BY <1>4, <1>6, <1>7, <1>8, CapturedIsBracket
    <3>2. {ReversiRules!Along(p, d, i) : i \in 1 .. 2 - 1} = {One(d)}
      BY <1>11, <1>12 DEF One
    <3> QED BY <2>1, <3>1, <3>2
  <2>2. CASE e # d
    BY <1>4, <1>6, <1>13, <2>2, CapturedIsBracket
  <2> QED BY <2>1, <2>2
<1>15. ReversiRules!flips(b, p, "black") = {One(d)}
  BY <1>6, <1>14 DEF ReversiRules!flips, ReversiRules!Empty
<1>16. PICK g : g = After(b, p, "black")
  OBVIOUS
<1>17. /\ g \in RBoards
       /\ \A q \in ReversiRules!Points : g[q] = IF q = One(d) \/ q = p THEN "black" ELSE b[q]
  BY <1>4, <1>6, <1>15, <1>16, AfterMove DEF After, RBoards
<1>18. /\ <<h - 1, h - 1>> \in ReversiRules!Points /\ <<h, h>> \in ReversiRules!Points
       /\ <<h - 2, h - 2>> \in ReversiRules!Points /\ <<h + 1, h + 1>> \in ReversiRules!Points
  BY <1>3 DEF ReversiRules!Points
<1>19. /\ b[<<h - 1, h - 1>>] = "white" /\ b[<<h, h>>] = "white"
       /\ b[<<h - 2, h - 2>>] = "empty" /\ b[<<h + 1, h + 1>>] = "empty"
  BY <1>1, <1>2, <1>3, <1>18, Opening
<1>20. ASSUME NEW x \in ReversiRules!Points, NEW y \in ReversiRules!Points,
              NEW z \in ReversiRules!Points, NEW e \in ReversiRules!Directions,
              g[x] = "empty", g[y] = "black", g[z] = "white",
              ReversiRules!Along(x, e, 1) = y, ReversiRules!Along(x, e, 2) = z
       PROVE  ReversiRules!CanMove(g, "white")
  <2>1. ReversiRules!color(g, y) = "black" /\ ReversiRules!color(g, z) = "white"
    BY <1>4, <1>17, <1>20, Colored
  <2>2. 2 \in 2 .. ReversiSize - 1
    BY SizeOfBoard
  <2> QED BY <1>4, <1>11, <1>20, <2>1, <2>2 DEF ReversiRules!CanMove, ReversiRules!Empty
<1>21. ReversiRules!CanMove(g, "white")
  <2>1. CASE p[1] + p[2] < 2 * h - 1
    <3>1. One(d) = <<h - 1, h - 1>>
      BY <1>10, <2>1
    <3>2. p # <<h, h>> /\ p # <<h - 2, h - 2>> /\ <<h, h>> # <<h - 1, h - 1>> /\ <<h - 2, h - 2>> # <<h - 1, h - 1>>
      BY <1>3, <1>8
    <3>3. g[<<h - 2, h - 2>>] = "empty" /\ g[<<h - 1, h - 1>>] = "black" /\ g[<<h, h>>] = "white"
      BY <1>17, <1>18, <1>19, <3>1, <3>2
    <3>4. <<1, 1>> \in ReversiRules!Directions
      BY DEF ReversiRules!Directions
    <3>5. /\ ReversiRules!Along(<<h - 2, h - 2>>, <<1, 1>>, 1) = <<h - 1, h - 1>>
          /\ ReversiRules!Along(<<h - 2, h - 2>>, <<1, 1>>, 2) = <<h, h>>
      BY <1>3 DEF ReversiRules!Along
    <3> QED BY <1>18, <1>20, <3>3, <3>4, <3>5
  <2>2. CASE ~(p[1] + p[2] < 2 * h - 1)
    <3>1. One(d) = <<h, h>>
      BY <1>10, <2>2
    <3>2. p # <<h - 1, h - 1>> /\ p # <<h + 1, h + 1>> /\ <<h, h>> # <<h - 1, h - 1>> /\ <<h + 1, h + 1>> # <<h, h>>
      BY <1>3, <1>8
    <3>3. g[<<h + 1, h + 1>>] = "empty" /\ g[<<h, h>>] = "black" /\ g[<<h - 1, h - 1>>] = "white"
      BY <1>17, <1>18, <1>19, <3>1, <3>2
    <3>4. <<-1, -1>> \in ReversiRules!Directions
      BY DEF ReversiRules!Directions
    <3>5. /\ ReversiRules!Along(<<h + 1, h + 1>>, <<-1, -1>>, 1) = <<h, h>>
          /\ ReversiRules!Along(<<h + 1, h + 1>>, <<-1, -1>>, 2) = <<h - 1, h - 1>>
      BY <1>3 DEF ReversiRules!Along
    <3> QED BY <1>18, <1>20, <3>3, <3>4, <3>5
  <2> QED BY <2>1, <2>2
<1> QED BY <1>1, <1>4, <1>16, <1>17, <1>21, MovesAreBrackets

(***************************************************************************)
(* What a snapshot of reversi says.  White's seat is taken at the second   *)
(* move because white can always answer the first.                         *)
(***************************************************************************)
Shape(s) ==
    s = [revision |-> s.revision, status |-> s.status, board |-> s.board, id |-> s.id,
         next |-> s.next, winner |-> s.winner, result |-> s.result, legal |-> s.legal,
         count |-> s.count, passed |-> s.passed, last |-> s.last]

ReversiEnd(s) ==
    \/ /\ s.status = "active" /\ s.result = None /\ s.winner = None
       /\ s.next \in Hues /\ s.legal # {} /\ s.legal = ReversiRules!legal(s.board, s.next)
    \/ /\ s.status = "finished" /\ s.next = None /\ s.legal = {} /\ s.passed = None
       /\ \A c \in Hues : ReversiRules!legal(s.board, c) = {}
       /\ IF s.count["black"] = s.count["white"]
          THEN s.result = "draw" /\ s.winner = None
          ELSE s.result = "majority" /\ s.winner = ReversiRules!Leader(s)

ReversiSound(s) ==
    /\ Shape(s)
    /\ s.revision \in Nat
    /\ s.board \in RBoards
    /\ DOMAIN s.id = Hues
    /\ SeatsTaken(s)
    /\ s.revision = 0 => s = ReversiRules!initial
    /\ s.revision = 1 => s.status = "active" /\ s.next = "white"
    /\ s.revision # 0 => s.last \in ReversiRules!Points /\ s.board[s.last] # "empty"
    /\ s.passed # None => /\ s.status = "active" /\ s.passed # s.next
                          /\ ReversiRules!legal(s.board, s.passed) = {}
    /\ s.count = ReversiRules!counts(s.board)
    /\ Cardinality(Taken(s.board)) = s.revision + 4
    /\ ReversiEnd(s)

ReversiHolds == game = "reversi" => ReversiSound(snapshot)

LEMMA ReversiStarts == ReversiSound(ReversiRules!initial)
<1>1. PICK s : s = ReversiRules!initial
  OBVIOUS
<1>2. PICK b : b = ReversiRules!initialBoard
  OBVIOUS
<1>3. /\ Shape(s) /\ s.revision = 0 /\ s.status = "active" /\ s.board = b
      /\ DOMAIN s.id = Hues /\ s.id["black"] = None /\ s.id["white"] = None
      /\ s.next = "black" /\ s.winner = None /\ s.result = None
      /\ s.legal = ReversiRules!legal(b, "black") /\ s.count = ReversiRules!counts(b)
      /\ s.passed = None
  BY <1>1, <1>2 DEF ReversiRules!initial, ReversiRules!Colors, ReversiRules!Black, ReversiRules!White,
     Hues, Shape
<1>4. b \in RBoards /\ s.legal # {} /\ Cardinality(Taken(b)) = 4
  BY <1>2, <1>3, Opening, OpeningMove, OpeningTaken
<1>5. ReversiEnd(s)
  BY <1>3, <1>4 DEF ReversiEnd, Hues
<1>6. SeatsTaken(s)
  BY <1>3 DEF SeatsTaken
<1>7. Cardinality(Taken(s.board)) = s.revision + 4
  BY <1>3, <1>4
<1> QED BY <1>1, <1>3, <1>4, <1>5, <1>6, <1>7 DEF ReversiSound

LEMMA ReversiPromises ==
  ASSUME NEW s, ReversiSound(s)
  PROVE  ReversiRules!decodeSnapshot(s)
<1>1. /\ s.revision \in Nat /\ s.board \in RBoards /\ s.count = ReversiRules!counts(s.board)
      /\ Cardinality(Taken(s.board)) = s.revision + 4
  BY DEF ReversiSound
<1>2. s.revision \in 0 .. ReversiSize * ReversiSize - 4
  <2>1. PICK m : m = ReversiSize * ReversiSize
    OBVIOUS
  <2>2. m \in Int /\ s.revision + 4 <= m
    BY <1>1, <2>1, DiscsAddUp, SizeOfBoard
  <2> QED BY <1>1, <2>1, <2>2
<1>3. /\ s.id["black"] = (IF s.revision = 0 THEN None ELSE BlackPlayer)
      /\ s.id["white"] = (IF s.revision <= 1 THEN None ELSE WhitePlayer)
      /\ BlackPlayer # WhitePlayer /\ BlackPlayer # None /\ WhitePlayer # None
  BY SeatsAssumption DEF ReversiSound, SeatsTaken
<1>4. s.id["black"] # None => s.id["black"] # s.id["white"]
  BY <1>3
<1>5. IF s.revision = 0 THEN s = ReversiRules!initial
      ELSE /\ s.id["black"] # None
           /\ s.revision >= 2 => s.id["white"] # None
           /\ s.last \in DOMAIN s.board /\ s.board[s.last] # "empty"
  <2>1. s.revision >= 2 => ~(s.revision <= 1)
    BY <1>1
  <2> QED BY <1>1, <1>3, <2>1 DEF ReversiSound, RBoards
<1>6. s.passed # None => /\ s.status = "active" /\ s.passed # s.next
                         /\ ReversiRules!legal(s.board, s.passed) = {}
  BY DEF ReversiSound
<1>7. s.count["black"] + s.count["white"] = s.revision + 4
  BY <1>1, DiscsAddUp
<1>8. ReversiEnd(s)
  BY DEF ReversiSound
<1>9. ASSUME s.status = "finished"
      PROVE  IF s.count["black"] = s.count["white"]
             THEN s.result = "draw" /\ s.winner = None
             ELSE s.result = "majority" /\ s.winner = ReversiRules!Leader(s) /\ s.winner # None
  <2>1. s.revision # 0 /\ s.revision # 1
    <3>1. ReversiRules!initial.status = "active"
      BY DEF ReversiRules!initial
    <3> QED BY <1>9, <3>1 DEF ReversiSound
  <2>2. s.id["black"] = BlackPlayer /\ s.id["white"] = WhitePlayer
    BY <1>1, <1>3, <2>1
  <2>3. s.count["black"] \in Nat /\ s.count["white"] \in Nat
    BY <1>1, DiscsAddUp
  <2>4. s.count["black"] # s.count["white"] => ReversiRules!Leader(s) # None
    <3>1. CASE s.count["black"] > s.count["white"]
      BY <1>3, <2>2, <3>1 DEF ReversiRules!Leader, ReversiRules!Black, ReversiRules!White
    <3>2. CASE s.count["white"] > s.count["black"]
      <4>1. ~(s.count["black"] > s.count["white"])
        BY <2>3, <3>2
      <4> QED BY <1>3, <2>2, <3>2, <4>1 DEF ReversiRules!Leader, ReversiRules!Black, ReversiRules!White
    <3> QED BY <2>3, <3>1, <3>2
  <2> QED BY <1>8, <1>9, <2>4 DEF ReversiEnd
<1>10. ReversiRules!Colors = Hues
  BY DEF ReversiRules!Colors, ReversiRules!Black, ReversiRules!White, Hues
<1>11. \/ /\ s.status = "active"
          /\ s.next \in Hues /\ s.result = None /\ s.winner = None
          /\ s.legal # {} /\ s.legal = ReversiRules!legal(s.board, s.next)
       \/ /\ s.status = "finished"
          /\ s.next = None /\ s.legal = {}
          /\ \A c \in Hues : ReversiRules!legal(s.board, c) = {}
          /\ IF s.count["black"] = s.count["white"]
             THEN s.result = "draw" /\ s.winner = None
             ELSE s.result = "majority" /\ s.winner = ReversiRules!Leader(s) /\ s.winner # None
  BY <1>8, <1>9 DEF ReversiEnd
<1> QED BY <1>1, <1>2, <1>4, <1>5, <1>6, <1>7, <1>10, <1>11
        DEF ReversiRules!decodeSnapshot, ReversiRules!Black, ReversiRules!White, ReversiRules!Empty

\* What the move of c on p makes of s, but for whose turn follows.
Put(s, t, u, p) ==
    /\ Shape(t)
    /\ t.revision = s.revision + 1
    /\ t.board = After(s.board, p, s.next)
    /\ t.count = ReversiRules!counts(t.board)
    /\ t.id = [s.id EXCEPT ![s.next] = u]
    /\ t.last = p

\* Whose turn follows.
Follows(s, t) ==
    LET c == s.next
        o == ReversiRules!opposite(c)
    IN
    \/ /\ ReversiRules!legal(t.board, o) # {}
       /\ t.next = o /\ t.legal = ReversiRules!legal(t.board, o) /\ t.passed = None
       /\ t.status = s.status /\ t.winner = s.winner /\ t.result = s.result
    \/ /\ ReversiRules!legal(t.board, o) = {} /\ ReversiRules!legal(t.board, c) # {}
       /\ t.next = c /\ t.legal = ReversiRules!legal(t.board, c) /\ t.passed = o
       /\ t.status = s.status /\ t.winner = s.winner /\ t.result = s.result
    \/ /\ ReversiRules!legal(t.board, o) = {} /\ ReversiRules!legal(t.board, c) = {}
       /\ t.next = None /\ t.legal = {} /\ t.passed = None /\ t.status = "finished"
       /\ t.winner = ReversiRules!Leader(t)
       /\ t.result = IF t.count["black"] = t.count["white"] THEN "draw" ELSE "majority"

LEMMA PlayedFields ==
  ASSUME NEW s, Shape(s), NEW u, NEW p
  PROVE  Put(s, ReversiRules!Played(s, u, p), u, p) /\ Follows(s, ReversiRules!Played(s, u, p))
<1>1. PICK c : c = s.next
  OBVIOUS
<1>2. PICK o : o = ReversiRules!opposite(c)
  OBVIOUS
<1>3. PICK b : b = After(s.board, p, c)
  OBVIOUS
<1>4. PICK k : k = ReversiRules!counts(b)
  OBVIOUS
<1>5. PICK i : i = [s.id EXCEPT ![c] = u]
  OBVIOUS
<1>6. PICK r : r = s.revision + 1
  OBVIOUS
<1>7. PICK w : w = [revision |-> r, status |-> s.status, board |-> b, id |-> i,
                    next |-> s.next, winner |-> s.winner, result |-> s.result, legal |-> s.legal,
                    count |-> k, passed |-> s.passed, last |-> p]
  OBVIOUS
<1>8. [s EXCEPT !.revision = @ + 1, !.board = b, !.count = ReversiRules!counts(b),
                !.id[c] = u, !.last = p] = w
  <2>1. PICK v : v = [revision |-> s.revision, status |-> s.status, board |-> s.board, id |-> s.id,
                      next |-> s.next, winner |-> s.winner, result |-> s.result, legal |-> s.legal,
                      count |-> s.count, passed |-> s.passed, last |-> s.last]
    OBVIOUS
  <2>2. s = v
    BY <2>1 DEF Shape
  <2>3. v.id = s.id /\ v.revision = s.revision
    BY <2>1
  <2>4. [v EXCEPT !.revision = @ + 1, !.board = b, !.count = ReversiRules!counts(b),
                  !.id[c] = u, !.last = p] =
        [v EXCEPT !.revision = r, !.board = b, !.count = k, !.id = i, !.last = p]
    BY <1>4, <1>5, <1>6, <2>3
  <2>5. [v EXCEPT !.revision = r, !.board = b, !.count = k, !.id = i, !.last = p] = w
    <3>1. PICK z : z = [v EXCEPT !.revision = r, !.board = b, !.count = k, !.id = i, !.last = p]
      OBVIOUS
    <3>2. Shape(z)
      BY <2>1, <3>1 DEF Shape
    <3>3. /\ z.revision = r /\ z.board = b /\ z.count = k /\ z.id = i /\ z.last = p
          /\ z.status = s.status /\ z.next = s.next /\ z.winner = s.winner /\ z.result = s.result
          /\ z.legal = s.legal /\ z.passed = s.passed
      BY <2>1, <3>1
    <3>4. z = w
      BY <1>7, <3>2, <3>3 DEF Shape
    <3> QED BY <3>1, <3>4
  <2> QED BY <2>2, <2>4, <2>5
<1>9. ReversiRules!Played(s, u, p) = ReversiRules!Turn(w, b, c)
  BY <1>1, <1>3, <1>8 DEF ReversiRules!Played, After
<1>10. PICK t : t = ReversiRules!Turn(w, b, c)
  OBVIOUS
<1>11. CASE ReversiRules!legal(b, o) # {}
  <2>1. t = [w EXCEPT !.next = o, !.legal = ReversiRules!legal(b, o), !.passed = None]
    BY <1>2, <1>10, <1>11 DEF ReversiRules!Turn
  <2>2. /\ Shape(t) /\ t.revision = r /\ t.board = b /\ t.count = k /\ t.id = i /\ t.last = p
        /\ t.next = o /\ t.legal = ReversiRules!legal(b, o) /\ t.passed = None
        /\ t.status = s.status /\ t.winner = s.winner /\ t.result = s.result
    BY <1>7, <2>1 DEF Shape
  <2> QED BY <1>1, <1>2, <1>3, <1>4, <1>5, <1>6, <1>9, <1>10, <1>11, <2>2 DEF Put, Follows
<1>12. CASE ReversiRules!legal(b, o) = {} /\ ReversiRules!legal(b, c) # {}
  <2>1. t = [w EXCEPT !.next = c, !.legal = ReversiRules!legal(b, c), !.passed = o]
    BY <1>2, <1>10, <1>12 DEF ReversiRules!Turn
  <2>2. /\ Shape(t) /\ t.revision = r /\ t.board = b /\ t.count = k /\ t.id = i /\ t.last = p
        /\ t.next = c /\ t.legal = ReversiRules!legal(b, c) /\ t.passed = o
        /\ t.status = s.status /\ t.winner = s.winner /\ t.result = s.result
    BY <1>7, <2>1 DEF Shape
  <2> QED BY <1>1, <1>2, <1>3, <1>4, <1>5, <1>6, <1>9, <1>10, <1>12, <2>2 DEF Put, Follows
<1>13. CASE ReversiRules!legal(b, o) = {} /\ ReversiRules!legal(b, c) = {}
  <2>1. PICK l : l = ReversiRules!Leader(w)
    OBVIOUS
  <2>2. PICK e : e = IF k["black"] = k["white"] THEN "draw" ELSE "majority"
    OBVIOUS
  <2>3. w.count = k
    BY <1>7
  <2>4. t = [w EXCEPT !.next = None, !.legal = {}, !.passed = None,
                      !.status = "finished", !.winner = l, !.result = e]
    BY <1>2, <1>10, <1>13, <2>1, <2>2, <2>3 DEF ReversiRules!Turn, ReversiRules!Black, ReversiRules!White
  <2>5. /\ Shape(t) /\ t.revision = r /\ t.board = b /\ t.count = k /\ t.id = i /\ t.last = p
        /\ t.next = None /\ t.legal = {} /\ t.passed = None /\ t.status = "finished"
        /\ t.winner = l /\ t.result = e
    BY <1>7, <2>4 DEF Shape
  <2>6. w.id = i /\ w.count = k
    BY <1>7
  <2>7. ReversiRules!Leader(t) = l
    BY <2>1, <2>5, <2>6 DEF ReversiRules!Leader
  <2> QED BY <1>1, <1>2, <1>3, <1>4, <1>5, <1>6, <1>9, <1>10, <1>13, <2>2, <2>5, <2>7 DEF Put, Follows
<1> QED BY <1>11, <1>12, <1>13

LEMMA ReversiPlays ==
  ASSUME NEW s, ReversiSound(s), NEW u \in Users, NEW p, p \in ReversiRules!Accepted(s, u),
         s.next = ColorOf(u), NEW t, Put(s, t, u, p), Follows(s, t)
  PROVE  ReversiSound(t)
<1>1. PICK c : c = s.next
  OBVIOUS
<1>2. /\ s.status = "active" /\ ReversiRules!MayMove(s, u) /\ p \in ReversiRules!legal(s.board, c)
  BY <1>1 DEF ReversiRules!Accepted
<1>3. /\ s.revision \in Nat /\ s.board \in RBoards /\ DOMAIN s.id = Hues /\ SeatsTaken(s)
      /\ Cardinality(Taken(s.board)) = s.revision + 4
      /\ s.result = None /\ s.winner = None /\ c \in Hues /\ c = ColorOf(u)
  BY <1>1, <1>2 DEF ReversiSound, ReversiEnd
<1>4. p \in ReversiRules!Points /\ s.board[p] = "empty"
  BY <1>2 DEF ReversiRules!legal, ReversiRules!Empty
<1>5. PICK o : o = ReversiRules!opposite(c)
  OBVIOUS
<1>6. o \in Hues /\ o # c /\ (\A e \in Hues : e = c \/ e = o)
      /\ o = (IF c = "black" THEN "white" ELSE "black")
  BY <1>3, <1>5, Opposites
<1>7. /\ Shape(t) /\ t.revision = s.revision + 1 /\ t.board = After(s.board, p, c)
      /\ t.count = ReversiRules!counts(t.board) /\ t.id = [s.id EXCEPT ![c] = u] /\ t.last = p
  BY <1>1 DEF Put
<1>8. /\ t.board \in RBoards /\ t.board[p] = c /\ Cardinality(Taken(t.board)) = t.revision + 4
      /\ t.revision \in Nat /\ t.revision # 0
  <2>1. /\ t.board \in RBoards /\ t.board[p] = c
        /\ Cardinality(Taken(t.board)) = Cardinality(Taken(s.board)) + 1
    BY <1>3, <1>4, <1>7, AfterMove
  <2>2. (s.revision + 4) + 1 = (s.revision + 1) + 4 /\ s.revision + 1 # 0 /\ s.revision + 1 \in Nat
    BY <1>3
  <2> QED BY <1>3, <1>7, <2>1, <2>2
<1>9. \/ /\ ReversiRules!legal(t.board, o) # {}
         /\ t.next = o /\ t.legal = ReversiRules!legal(t.board, o) /\ t.passed = None
         /\ t.status = "active" /\ t.winner = None /\ t.result = None
      \/ /\ ReversiRules!legal(t.board, o) = {} /\ ReversiRules!legal(t.board, c) # {}
         /\ t.next = c /\ t.legal = ReversiRules!legal(t.board, c) /\ t.passed = o
         /\ t.status = "active" /\ t.winner = None /\ t.result = None
      \/ /\ ReversiRules!legal(t.board, o) = {} /\ ReversiRules!legal(t.board, c) = {}
         /\ t.next = None /\ t.legal = {} /\ t.passed = None /\ t.status = "finished"
         /\ t.winner = ReversiRules!Leader(t)
         /\ t.result = IF t.count["black"] = t.count["white"] THEN "draw" ELSE "majority"
  BY <1>1, <1>2, <1>3, <1>5 DEF Follows
<1>10. t.passed # None => /\ t.status = "active" /\ t.passed # t.next
                          /\ ReversiRules!legal(t.board, t.passed) = {}
  BY <1>6, <1>9
<1>11. ReversiEnd(t)
  <2>1. CASE t.status = "active"
    <3>1. t.next \in Hues /\ t.legal # {} /\ t.legal = ReversiRules!legal(t.board, t.next)
          /\ t.result = None /\ t.winner = None
      BY <1>3, <1>6, <1>9, <2>1
    <3> QED BY <2>1, <3>1 DEF ReversiEnd
  <2>2. CASE t.status = "finished"
    <3>1. /\ \A e \in Hues : ReversiRules!legal(t.board, e) = {}
          /\ t.next = None /\ t.legal = {} /\ t.passed = None
          /\ t.winner = ReversiRules!Leader(t)
          /\ t.result = IF t.count["black"] = t.count["white"] THEN "draw" ELSE "majority"
      BY <1>6, <1>9, <2>2
    <3>2. t.count["black"] = t.count["white"] => t.winner = None
      <4>1. t.count["black"] \in Nat /\ t.count["white"] \in Nat
        BY <1>7, <1>8, DiscsAddUp
      <4>2. t.count["black"] = t.count["white"] =>
              ~(t.count["black"] > t.count["white"]) /\ ~(t.count["white"] > t.count["black"])
        BY <4>1
      <4> QED BY <3>1, <4>2 DEF ReversiRules!Leader, ReversiRules!Black, ReversiRules!White
    <3> QED BY <2>2, <3>1, <3>2 DEF ReversiEnd
  <2> QED BY <1>9, <2>1, <2>2
<1>12. ASSUME s.revision = 0  PROVE c = "black" /\ t.status = "active" /\ t.next = "white"
  <2>1. s = ReversiRules!initial
    BY <1>12 DEF ReversiSound
  <2>2. c = "black" /\ s.board = ReversiRules!initialBoard
    BY <1>1, <2>1 DEF ReversiRules!initial, ReversiRules!Black
  <2>3. ReversiRules!legal(t.board, "white") # {}
    BY <1>2, <1>7, <2>2, OpeningAnswer
  <2>4. o = "white"
    BY <1>6, <2>2
  <2> QED BY <1>9, <2>2, <2>3, <2>4
<1>13. t.revision = 1 => t.status = "active" /\ t.next = "white"
  <2>1. t.revision = 1 => s.revision = 0
    BY <1>3, <1>7
  <2> QED BY <1>12, <2>1
<1>14. s.revision = 1 => c = "white"
  BY <1>1 DEF ReversiSound
<1>15. SeatsTaken(t)
  <2>1. /\ s.id["black"] = (IF s.revision = 0 THEN None ELSE BlackPlayer)
        /\ s.id["white"] = (IF s.revision <= 1 THEN None ELSE WhitePlayer)
    BY <1>3 DEF SeatsTaken
  <2>2. /\ (t.revision <= 1) <=> (s.revision = 0)
        /\ s.revision = 0 => s.revision <= 1
        /\ s.revision # 0 /\ s.revision # 1 => ~(s.revision <= 1)
    BY <1>3, <1>7
  <2>3. CASE c = "black"
    <3>1. u = BlackPlayer
      BY <1>3, <2>3 DEF ColorOf
    <3>2. t.id["black"] = BlackPlayer /\ t.id["white"] = s.id["white"]
      BY <1>3, <1>7, <2>3, <3>1 DEF Hues
    <3>3. s.revision # 1
      BY <1>14, <2>3
    <3> QED BY <1>8, <2>1, <2>2, <3>2, <3>3 DEF SeatsTaken
  <2>4. CASE c = "white"
    <3>1. u = WhitePlayer
      BY <1>3, <2>4 DEF ColorOf, Users
    <3>2. t.id["white"] = WhitePlayer /\ t.id["black"] = s.id["black"]
      BY <1>3, <1>7, <2>4, <3>1 DEF Hues
    <3>3. s.revision # 0
      BY <1>12, <2>4
    <3> QED BY <1>8, <2>1, <2>2, <3>2, <3>3 DEF SeatsTaken
  <2> QED BY <1>3, <2>3, <2>4 DEF Hues
<1>16. DOMAIN t.id = Hues
  BY <1>3, <1>7
<1>17. t.board[t.last] # "empty" /\ t.last \in ReversiRules!Points
  BY <1>3, <1>4, <1>7, <1>8 DEF Hues
<1> QED BY <1>7, <1>8, <1>10, <1>11, <1>13, <1>15, <1>16, <1>17 DEF ReversiSound

LEMMA ReversiReadsBack ==
  ASSUME game = "reversi", ReversiSound(snapshot), NEW u \in Users, MayAct(u), NEW e \in Turns(u)
  PROVE  rebuildSnapshot(e.event) = {e.next} /\ ReversiSound(e.next)
<1>1. PICK p \in ReversiRules!Accepted(snapshot, u) :
        e = [event |-> ReversiRules!accepted(snapshot, u, p), next |-> ReversiRules!Played(snapshot, u, p)]
  BY DEF Turns, ReversiRules!Turns
<1>2. PICK a : a = ReversiRules!accepted(snapshot, u, p)
  OBVIOUS
<1>3. PICK t : t = ReversiRules!Played(snapshot, u, p)
  OBVIOUS
<1>4. snapshot.next = ColorOf(u)
  BY DEF MayAct
<1>5. ReversiSound(t)
  <2>1. Put(snapshot, t, u, p) /\ Follows(snapshot, t)
    BY <1>3, PlayedFields DEF ReversiSound
  <2> QED BY <1>1, <1>4, <2>1, ReversiPlays
<1>6. /\ a.revision = snapshot.revision + 1 /\ a.actor = u /\ a.point = p
      /\ a.color = snapshot.next
  BY <1>2 DEF ReversiRules!accepted
<1>7. ReversiRules!Rebuild(snapshot, a) = {t}
  BY <1>1, <1>2, <1>3, <1>6 DEF ReversiRules!Rebuild
<1>8. a.actor = Player[a.color]
  BY <1>4, <1>6, SeatsAssumption DEF Player, ColorOf, Users
<1>9. game # "gomoku"
  OBVIOUS
<1>10. rebuildBoard(a) = {t}
  BY <1>5, <1>7, <1>8, <1>9 DEF rebuildBoard, ReversiSound
<1>11. rebuildSnapshot(a) = rebuildBoard(a)
  BY DEF rebuildSnapshot
<1> QED BY <1>1, <1>2, <1>3, <1>5, <1>10, <1>11

LEMMA ReversiIsPlayed == Spec => []ReversiHolds
<1>1. Init => ReversiHolds
  BY ReversiStarts DEF Init, NewSnapshot, ReversiHolds
<1>2. ReversiHolds /\ [Next]_vars => ReversiHolds'
  <2> SUFFICES ASSUME ReversiHolds, [Next]_vars, game' = "reversi"
               PROVE  ReversiSound(snapshot')
    BY DEF ReversiHolds, ReversiSound, SeatsTaken, ReversiEnd, Shape, Taken, RBoards
  <2>1. game = "reversi" /\ ReversiSound(snapshot)
    BY DEF Next, vars, Play, Look, ReversiHolds
  <2>2. ASSUME NEW u \in Users, Play(u)  PROVE ReversiSound(snapshot')
    <3>1. PICK e \in Turns(u) : snapshot' = e.next
      BY <2>2 DEF Play
    <3>2. MayAct(u)
      BY <2>2 DEF Play
    <3> QED BY <2>1, <3>1, <3>2, ReversiReadsBack
  <2>3. ASSUME NEW u \in Users, Look(u)  PROVE FALSE
    BY <2>1, <2>3 DEF Look
  <2>4. CASE UNCHANGED vars
    BY <2>1, <2>4 DEF vars
  <2> QED BY <2>2, <2>3, <2>4 DEF Next
<1> QED BY <1>1, <1>2, PTL DEF Spec

(* Whose turn follows is who can move, read off the board.                  *)
LEMMA ReversiStepIsFair ==
  ASSUME ReversiHolds, [Next]_vars, game = "reversi", snapshot' # snapshot
  PROVE  ReversiRules!TurnsAreFair
<1>1. PICK u \in Users : Play(u)
  <2>1. PICK u \in Users : Play(u) \/ Look(u)
    BY DEF Next, vars
  <2> QED BY <2>1 DEF Look
<1>2. PICK e \in Turns(u) : snapshot' = e.next
  BY <1>1 DEF Play
<1>3. PICK p \in ReversiRules!Accepted(snapshot, u) :
        e = [event |-> ReversiRules!accepted(snapshot, u, p), next |-> ReversiRules!Played(snapshot, u, p)]
  BY DEF Turns, ReversiRules!Turns
<1>4. ReversiSound(snapshot) /\ snapshot.status = "active"
  BY <1>3 DEF ReversiHolds, ReversiRules!Accepted
<1>5. PICK s : s = snapshot
  OBVIOUS
<1>6. PICK t : t = snapshot'
  OBVIOUS
<1>7. PICK c : c = s.next
  OBVIOUS
<1>8. PICK o : o = ReversiRules!opposite(c)
  OBVIOUS
<1>9. Put(s, t, u, p) /\ Follows(s, t)
  BY <1>2, <1>3, <1>4, <1>5, <1>6, PlayedFields DEF ReversiSound
<1>10. c \in Hues /\ o \in Hues /\ s.board \in RBoards
  BY <1>4, <1>5, <1>7, <1>8, Opposites DEF ReversiSound, ReversiEnd
<1>11. p \in ReversiRules!Points /\ s.board[p] = "empty"
  BY <1>3, <1>5 DEF ReversiRules!Accepted, ReversiRules!legal, ReversiRules!Empty
<1>12. t.board \in RBoards
  BY <1>7, <1>9, <1>10, <1>11, AfterMove DEF Put
<1>13. /\ ReversiRules!legal(t.board, o) # {} <=> ReversiRules!CanMove(t.board, o)
       /\ ReversiRules!legal(t.board, c) # {} <=> ReversiRules!CanMove(t.board, c)
  BY <1>10, <1>12, MovesAreBrackets
<1>14. t.next = CASE ReversiRules!CanMove(t.board, o) -> o
                  [] ~ReversiRules!CanMove(t.board, o) /\ ReversiRules!CanMove(t.board, c) -> c
                  [] OTHER -> None
  BY <1>7, <1>8, <1>9, <1>13 DEF Follows
<1> QED BY <1>5, <1>6, <1>7, <1>8, <1>14 DEF ReversiRules!TurnsAreFair

(***************************************************************************)
(* The theorems, for every game of the registry.                           *)
(***************************************************************************)
GameHolds == RpsHolds /\ FlightHolds /\ GomokuHolds /\ CheckersHolds /\ ReversiHolds

LEMMA AllHold == Spec => []GameHolds
BY RpsIsPlayed, FlightIsPlayed, GomokuIsPlayed, CheckersIsPlayed, ReversiIsPlayed, PTL DEF GameHolds

\* Nobody sees a choice of rock paper scissors before its round is over.
THEOREM RevealedCorrect == Spec => []RevealedTogether
<1>1. GameHolds => RevealedTogether
  BY RpsPromises DEF GameHolds, RpsHolds, RevealedTogether
<1> QED BY <1>1, AllHold, PTL

\* A line, an exclusive cell or a score, computed from the last move, is what
\* the whole board or the whole match says (board.wins, captureAt, Rules.apply).
THEOREM OutcomesCorrect == Spec => []GamesOutcomesFit
<1>1. GameHolds => GamesOutcomesFit
  BY RpsPromises, FlightPromises, GomokuPromises
     DEF GameHolds, RpsHolds, FlightHolds, GomokuHolds, GamesOutcomesFit
<1> QED BY <1>1, AllHold, PTL

\* Every snapshot that play leads to is one its rules read, every committed
\* event is read back to the state it was committed with, and short of the
\* capture limit nothing the rules produce is refused by their own check.
THEOREM ReplayCorrect == Spec => []GamesReplay
<1>1. GameHolds => GamesReplay
  <2> SUFFICES ASSUME GameHolds, game \in Registry
               PROVE  Readable /\ LogReplays /\ NothingRefused
    BY DEF GamesReplay
  <2>1. CASE game = "rps"
    <3>1. RpsInv
      BY <2>1 DEF GameHolds, RpsHolds
    <3> QED BY <2>1, <3>1, RpsPromises, RpsReadsBack DEF Readable, LogReplays, NothingRefused
  <2>2. CASE game = "flight_chess"
    <3>1. FlightSound(snapshot) /\ FlightSeats(snapshot)
      BY <2>2 DEF GameHolds, FlightHolds
    <3> QED BY <2>2, <3>1, FlightPromises, FlightReadsBack DEF Readable, LogReplays, NothingRefused
  <2>3. CASE game = "gomoku"
    <3>1. GomokuSound(snapshot)
      BY <2>3 DEF GameHolds, GomokuHolds
    <3> QED BY <2>3, <3>1, GomokuPromises, GomokuReadsBack DEF Readable, LogReplays, NothingRefused
  <2>4. CASE game = "chinese_checkers"
    <3>1. CheckersSound(snapshot)
      BY <2>4 DEF GameHolds, CheckersHolds
    <3>2. CheckersRules!Readable
      BY <3>1, CheckersPromises DEF CheckersRules!Readable
    <3> QED BY <2>4, <3>1, <3>2, CheckersReadsBack DEF Readable, LogReplays, NothingRefused
  <2>5. CASE game = "reversi"
    <3>1. ReversiSound(snapshot)
      BY <2>5 DEF GameHolds, ReversiHolds
    <3>2. ReversiRules!Readable
      BY <3>1, ReversiPromises DEF ReversiRules!Readable
    <3> QED BY <2>5, <3>1, <3>2, ReversiReadsBack DEF Readable, LogReplays, NothingRefused
  <2> QED BY <2>1, <2>2, <2>3, <2>4, <2>5 DEF Registry
<1> QED BY <1>1, AllHold, PTL

\* In Reversi the next turn is who can move on the board as a whole says; in
\* Chinese checkers a path of any length moves one piece and respects the camps.
THEOREM FairCorrect == Spec => MovesAreFair
<1>1. GameHolds /\ [Next]_vars =>
        [/\ game = "reversi" => ReversiRules!TurnsAreFair
         /\ game = "chinese_checkers" => CheckersRules!CampsRespected]_snapshot
  BY ReversiStepIsFair, CheckersStepIsFair DEF GameHolds
<1> QED BY <1>1, AllHold, PTL DEF Spec, MovesAreFair
=============================================================================
