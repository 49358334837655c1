------------------------------- MODULE Reversi ------------------------------
(* games/reversi: Othello with forced passes.  The snapshot carries data     *)
(* derived from the board (legal moves, counts, who was passed over), which  *)
(* is checked again each time it is read.                                    *)
EXTENDS Integers, FiniteSets

CONSTANTS
    BoardSize,   \* cells on a side (8), even
    Users,
    None

VARIABLE snapshot

Black == "black"
White == "white"
Empty == "empty"
Colors == {Black, White}
opposite(c) == IF c = Black THEN White ELSE Black

-----------------------------------------------------------------------------
(* The board. *)

Points == (0 .. BoardSize - 1) \X (0 .. BoardSize - 1)
Directions == {<<-1, -1>>, <<-1, 0>>, <<-1, 1>>, <<0, -1>>,
               <<0, 1>>, <<1, -1>>, <<1, 0>>, <<1, 1>>}

Along(p, d, i) == <<p[1] + i * d[1], p[2] + i * d[2]>>
color(b, p) == IF p \in DOMAIN b THEN b[p] ELSE Empty

\* The discs of the other colour between p and the next disc of c along d.
Captured(b, p, d, c) ==
    LET n == CHOOSE k \in 0 .. BoardSize :
               /\ \A i \in 1 .. k : color(b, Along(p, d, i)) = opposite(c)
               /\ color(b, Along(p, d, k + 1)) # opposite(c)
    IN  IF color(b, Along(p, d, n + 1)) = c
        THEN {Along(p, d, i) : i \in 1 .. n}
        ELSE {}

flips(b, p, c) ==
    IF b[p] # Empty THEN {} ELSE UNION {Captured(b, p, d, c) : d \in Directions}

legal(b, c) ==
    {p \in Points : b[p] = Empty /\ \E d \in Directions : Captured(b, p, d, c) # {}}

counts(b) == [c \in Colors |-> Cardinality({p \in DOMAIN b : b[p] = c})]

\* The four discs of the middle, white at the ends of the main diagonal.
Middle == {BoardSize \div 2 - 1, BoardSize \div 2}
initialBoard ==
    [p \in Points |-> IF p[1] \notin Middle \/ p[2] \notin Middle THEN Empty
                      ELSE IF p[1] = p[2] THEN White ELSE Black]

-----------------------------------------------------------------------------
(* Snapshots. *)

initial ==
    [revision |-> 0, status |-> "active", board |-> initialBoard,
     id |-> [c \in Colors |-> None], next |-> Black, winner |-> None,
     result |-> None, legal |-> legal(initialBoard, Black),
     count |-> counts(initialBoard), passed |-> None, last |-> None]

Leader(s) ==
    CASE s.count[Black] > s.count[White] -> s.id[Black]
      [] s.count[White] > s.count[Black] -> s.id[White]
      [] OTHER -> None

\* What the rules accept as a snapshot: everything else is ErrInvalidSnapshot.
decodeSnapshot(s) ==
    /\ s.revision \in 0 .. BoardSize * BoardSize - 4
    /\ s.id[Black] # None => s.id[Black] # s.id[White]
    /\ IF s.revision = 0 THEN s = initial
       ELSE /\ s.id[Black] # None
            /\ s.revision >= 2 => s.id[White] # None
            /\ s.last \in DOMAIN s.board /\ s.board[s.last] # Empty
    /\ s.passed # None => /\ s.status = "active" /\ s.passed # s.next
                          /\ legal(s.board, s.passed) = {}
    /\ s.count = counts(s.board)
    /\ s.count[Black] + s.count[White] = s.revision + 4
    /\ \/ /\ s.status = "active"
          /\ s.next \in Colors /\ s.result = None /\ s.winner = None
          /\ s.legal # {} /\ s.legal = legal(s.board, s.next)
       \/ /\ s.status = "finished"
          /\ s.next = None /\ s.legal = {}
          /\ \A c \in Colors : legal(s.board, c) = {}
          /\ IF s.count[Black] = s.count[White]
             THEN s.result = "draw" /\ s.winner = None
             ELSE s.result = "majority" /\ s.winner = Leader(s) /\ s.winner # None

-----------------------------------------------------------------------------
(* Moves. *)

\* The colour to move belongs to u, or is free and u does not hold the other.
MayMove(s, u) ==
    IF s.id[s.next] # None THEN s.id[s.next] = u ELSE s.id[opposite(s.next)] # u

\* The cells where u may put a disc.
Accepted(s, u) ==
    IF s.status = "active" /\ MayMove(s, u) /\ decodeSnapshot(s)
    THEN legal(s.board, s.next)
    ELSE {}

\* Mutant: the match ends as soon as one player cannot move.
TurnWithoutPass(s, b, c) ==
    LET o == opposite(c) IN
    IF legal(b, o) # {}
    THEN [s EXCEPT !.next = o, !.legal = legal(b, o), !.passed = None]
    ELSE [s EXCEPT !.next = None, !.legal = {}, !.passed = None,
                   !.status = "finished", !.winner = Leader(s),
                   !.result = IF s.count[Black] = s.count[White]
                              THEN "draw" ELSE "majority"]

\* Whose turn follows: the other's if it can move, else the same player's again
\* and the other is passed over, else the match is over.
Turn(s, b, c) ==
    LET o == opposite(c)
        theirs == legal(b, o)
    IN
    IF theirs # {}
    THEN [s EXCEPT !.next = o, !.legal = theirs, !.passed = None]
    ELSE IF legal(b, c) # {}
    THEN [s EXCEPT !.next = c, !.legal = legal(b, c), !.passed = o]
    ELSE [s EXCEPT !.next = None, !.legal = {}, !.passed = None,
                   !.status = "finished", !.winner = Leader(s),
                   !.result = IF s.count[Black] = s.count[White]
                              THEN "draw" ELSE "majority"]

Played(s, u, p) ==
    LET c == s.next
        changed == flips(s.board, p, c) \cup {p}
        b == [q \in DOMAIN s.board |-> IF q \in changed THEN c ELSE s.board[q]]
    IN  Turn([s EXCEPT !.revision = @ + 1, !.board = b, !.count = counts(b),
                       !.id[c] = u, !.last = p], b, c)

\* The event appended to the log.
accepted(s, u, p) ==
    [revision |-> s.revision + 1, actor |-> u, point |-> p, color |-> s.next]

\* One turn of the loop that replays the log; {} is ErrInvalidEvent.
Rebuild(s, e) ==
    IF /\ e.revision = s.revision + 1
       /\ e.point \in Accepted(s, e.actor)
       /\ accepted(s, e.actor, e.point) = e
    THEN {Played(s, e.actor, e.point)}
    ELSE {}

Init == snapshot = initial

\* What an action of u leads to: the event and the snapshot it returns.
Turns(u) ==
    {[event |-> accepted(snapshot, u, p), next |-> Played(snapshot, u, p)] : p \in Accepted(snapshot, u)}

Apply(u) == \E t \in Turns(u) : snapshot' = t.next

Next == \E u \in Users : Apply(u)

Spec == Init /\ [][Next]_snapshot

-----------------------------------------------------------------------------
(* Properties. *)

\* A move of c brackets a straight line of the other's discs: said of the
\* board as a whole, without the walk from a cell that flips makes.
CanMove(b, c) ==
    \E p \in Points, d \in Directions, n \in 2 .. BoardSize - 1 :
        /\ b[p] = Empty
        /\ color(b, Along(p, d, n)) = c
        /\ \A i \in 1 .. n - 1 : color(b, Along(p, d, i)) = opposite(c)

\* No legal play leads to a snapshot the rules then refuse to read, which
\* would wedge the match (decodeSnapshot, called on every move and replay).
Readable == decodeSnapshot(snapshot)

\* Nobody who can move is passed over, nobody who cannot is asked to, and the
\* match ends when neither can: profiles/reversi.md, "forced pass".
TurnsAreFair ==
    LET c == snapshot.next
        o == opposite(c)
        b == snapshot'.board
    IN  snapshot'.next = CASE CanMove(b, o) -> o
                           [] ~CanMove(b, o) /\ CanMove(b, c) -> c
                           [] OTHER -> None
=============================================================================
