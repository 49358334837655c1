------------------------------- MODULE Gomoku -------------------------------
(* games/gomoku: the rules of one match.  `snapshot' is the state the rules  *)
(* hand back to the platform; the JSON around it is left out.                *)
EXTENDS Integers, FiniteSets

CONSTANTS
    Points,      \* the cells of the board (15 by 15), pairs of coordinates
    LineLength,  \* stones in a row that win (5)
    Users,
    None

VARIABLE snapshot

Black == "black"
White == "white"
Empty == "empty"
Colors == {Black, White}
opposite(c) == IF c = Black THEN White ELSE Black

-----------------------------------------------------------------------------
(* The board. *)

Directions == {<<1, 0>>, <<0, 1>>, <<1, 1>>, <<1, -1>>}

Along(p, d, i) == <<p[1] + i * d[1], p[2] + i * d[2]>>
color(b, p) == IF p \in DOMAIN b THEN b[p] ELSE Empty

\* Stones of colour c next to one another from p on, p itself not counted.
run(b, p, d, c) ==
    CHOOSE n \in 0 .. Cardinality(DOMAIN b) :
        /\ \A i \in 1 .. n : color(b, Along(p, d, i)) = c
        /\ color(b, Along(p, d, n + 1)) # c

\* Mutant: a longer line does not win.
winsExactly(b, p, c) ==
    \E d \in Directions :
        1 + run(b, p, d, c) + run(b, p, <<-d[1], -d[2]>>, c) = LineLength

wins(b, p, c) ==
    \E d \in Directions :
        1 + run(b, p, d, c) + run(b, p, <<-d[1], -d[2]>>, c) >= LineLength

hasFive(b, c) == \E p \in Points : b[p] = c /\ wins(b, p, c)

Stones(b, c) == Cardinality({p \in Points : b[p] = c})
Full(b) == \A p \in Points : b[p] # Empty

-----------------------------------------------------------------------------
(* Snapshots. *)

initialSnapshot ==
    [revision |-> 0, status |-> "active", board |-> [p \in Points |-> Empty],
     id |-> [c \in Colors |-> None], next |-> Black,
     winner |-> None, result |-> None]

\* What the rules accept as a snapshot: everything else is ErrInvalidSnapshot.
decodeSnapshot(s) ==
    LET black == Stones(s.board, Black)
        white == Stones(s.board, White)
    IN  /\ s.revision = black + white
        /\ black - white \in {0, 1}
        /\ s.id[Black] # None => s.id[Black] # s.id[White]
        /\ (black > 0) = (s.id[Black] # None)
        /\ (white > 0) = (s.id[White] # None)
        /\ s.next = IF black > white THEN White ELSE Black
        /\ \/ /\ s.status = "active"
              /\ s.result = None /\ s.winner = None
              /\ ~Full(s.board)
              /\ ~hasFive(s.board, Black) /\ ~hasFive(s.board, White)
           \/ /\ s.status = "finished" /\ s.result = "five"
              /\ s.winner # None
              /\ \/ /\ s.winner = s.id[Black] /\ black = white + 1
                    /\ hasFive(s.board, Black) /\ ~hasFive(s.board, White)
                 \/ /\ s.winner = s.id[White] /\ black = white
                    /\ hasFive(s.board, White) /\ ~hasFive(s.board, Black)
           \/ /\ s.status = "finished" /\ s.result = "draw"
              /\ Full(s.board) /\ s.winner = None
              /\ ~hasFive(s.board, Black) /\ ~hasFive(s.board, White)

-----------------------------------------------------------------------------
(* Moves. *)

\* The colour to move belongs to u, or is free and u does not hold the other.
MayMove(s, u) ==
    IF s.id[s.next] # None THEN s.id[s.next] = u ELSE s.id[opposite(s.next)] # u

Accepts(s, u, p) ==
    /\ s.status = "active"
    /\ MayMove(s, u)
    /\ s.board[p] = Empty
    /\ decodeSnapshot(s)

\* Mutant: a full board is a draw, whatever the last stone does.
applyMoveDrawFirst(s, u, p) ==
    LET c == s.next
        placed == [s.board EXCEPT ![p] = c]
        won == wins(placed, p, c) /\ ~Full(placed)
        over == won \/ Full(placed)
    IN  [revision |-> s.revision + 1, board |-> placed,
         id |-> [s.id EXCEPT ![c] = u],
         next |-> opposite(c),
         status |-> IF over THEN "finished" ELSE "active",
         winner |-> IF won THEN u ELSE None,
         result |-> CASE won -> "five"
                      [] ~won /\ over -> "draw"
                      [] OTHER -> None]

applyMove(s, u, p) ==
    LET c == s.next
        placed == [s.board EXCEPT ![p] = c]
        won == wins(placed, p, c)
        over == won \/ Full(placed)
    IN  [revision |-> s.revision + 1, board |-> placed,
         id |-> [s.id EXCEPT ![c] = u],
         next |-> opposite(c),
         status |-> IF over THEN "finished" ELSE "active",
         winner |-> IF won THEN u ELSE None,
         result |-> CASE won -> "five"
                      [] ~won /\ over -> "draw"
                      [] OTHER -> None]

\* The event appended to the log.
accepted(s, u, p) ==
    [revision |-> s.revision + 1, actor |-> u, point |-> p, color |-> s.next]

\* One turn of the loop that replays the log; {} is ErrInvalidEvent.
Rebuild(s, e) ==
    IF e.revision = s.revision + 1 /\ e.color = s.next /\ Accepts(s, e.actor, e.point)
    THEN {applyMove(s, e.actor, e.point)}
    ELSE {}

Init == snapshot = initialSnapshot

\* What an action of u leads to: the event and the snapshot it returns.
Turns(u) ==
    {[event |-> accepted(snapshot, u, p), next |-> applyMove(snapshot, u, p)] :
        p \in {q \in Points : Accepts(snapshot, u, q)}}

Apply(u) == \E t \in Turns(u) : snapshot' = t.next

Next == \E u \in Users : Apply(u)

Spec == Init /\ [][Next]_snapshot

-----------------------------------------------------------------------------
(* Properties. *)

\* A run of LineLength cells of one colour, read off the board as a whole.
Line(b, c) ==
    \E p \in Points, d \in Directions :
        \A i \in 0 .. LineLength - 1 : color(b, Along(p, d, i)) = c

\* No legal play leads to a snapshot the rules then refuse to read, which
\* would wedge the match (decodeSnapshot, called on every move and replay).
Readable == decodeSnapshot(snapshot)

\* The look along four directions from the last stone decides as the whole
\* board does: the match is over when somebody has a line, who then has won,
\* or when the board is full.
LineDecides ==
    /\ (snapshot.status = "finished") =
          (Line(snapshot.board, Black) \/ Line(snapshot.board, White)
             \/ Full(snapshot.board))
    /\ \A c \in Colors : Line(snapshot.board, c) => snapshot.winner = snapshot.id[c]
    /\ snapshot.winner # None =>
          \E c \in Colors : Line(snapshot.board, c) /\ snapshot.winner = snapshot.id[c]
=============================================================================
