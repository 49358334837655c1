----------------------------- MODULE FlightChess ----------------------------
(* games/flightchess: aeroplane chess for two.  A die is rolled and recorded, *)
(* then a piece is moved.  The rules have changed while matches were being    *)
(* played: Rebuild also has to replay what older rules wrote.                 *)
EXTENDS Integers, FiniteSets

CONSTANTS
    Users,
    None,
    PieceCount,   \* pieces of a colour (4)
    CaptureLimit  \* captures of a colour a snapshot may count (2048)

VARIABLE snapshot

Black == "black"
White == "white"
Colors == {Black, White}
opposite(c) == IF c = Black THEN White ELSE Black

MainCellCount == 52
HomeCellCount == 5
Slots == 0 .. PieceCount - 1
Die == 1 .. 6

Piece(zone, index) == [zone |-> zone, index |-> index]
Finished == Piece("finished", 0)

-----------------------------------------------------------------------------
(* The course: 50 cells of the ring as seen from a colour's own start, then  *)
(* its home lane.                                                            *)

startIndices == [c \in Colors |-> IF c = Black THEN 26 ELSE 0]

indexForProgress(c, progress) == (startIndices[c] + progress - 1) % MainCellCount
progressForIndex(c, index) ==
    ((index - startIndices[c] + MainCellCount) % MainCellCount) + 1

\* Where a piece comes to rest on the ring, and why.
resolveMainProgress(c, progress) ==
    LET at(p, effect) == [to |-> Piece("main", indexForProgress(c, p)), effect |-> effect]
    IN  CASE progress = 18 -> at(30, "shortcut")
          [] progress = 14 -> at(30, "jump_shortcut")
          [] progress % 4 = 2 /\ progress \notin {14, 18, 50} -> at(progress + 4, "jump")
          [] OTHER -> at(progress, "none")

InLane(index) ==
    [to |-> IF index = HomeCellCount THEN Finished ELSE Piece("home", index),
     effect |-> "none"]

\* Progress 51 is the first cell of the home lane, 56 its end.
resolveProgress(c, progress) ==
    IF progress <= 50 THEN resolveMainProgress(c, progress) ELSE InLane(progress - 51)

\* In the home lane a roll that is too high bounces off the end.
Bounced(target) ==
    IF target > HomeCellCount THEN 2 * HomeCellCount - target ELSE target

CanMove(piece, roll) ==
    /\ piece.zone = "hangar" => roll \in {5, 6}
    /\ piece.zone # "finished"

\* Mutant: the launch pad counts as the first cell of the ring.
resolveMoveShort(c, piece, roll) ==
    CASE piece.zone = "hangar" -> [to |-> Piece("launch", 0), effect |-> "none"]
      [] piece.zone = "launch" -> resolveProgress(c, roll - 1)
      [] piece.zone = "main" -> resolveProgress(c, progressForIndex(c, piece.index) + roll)
      [] piece.zone = "home" -> InLane(Bounced(piece.index + roll))

resolveMove(c, piece, roll) ==
    CASE piece.zone = "hangar" -> [to |-> Piece("launch", 0), effect |-> "none"]
      [] piece.zone = "launch" -> resolveProgress(c, roll)
      [] piece.zone = "main" -> resolveProgress(c, progressForIndex(c, piece.index) + roll)
      [] piece.zone = "home" -> InLane(Bounced(piece.index + roll))

movablePieces(pieces, roll) == {i \in Slots : CanMove(pieces[i], roll)}

allFinished(pieces) == \A i \in Slots : pieces[i] = Finished

\* The cells a move touches down on: not those it passes over.
landingCells(resolution) ==
    LET offsets == CASE resolution.effect = "jump" -> {4, 0}
                     [] resolution.effect = "shortcut" -> {12, 0}
                     [] resolution.effect = "jump_shortcut" -> {16, 12, 0}
                     [] OTHER -> {0}
    IN  IF resolution.to.zone # "main" THEN {}
        ELSE {Piece("main", (resolution.to.index - o + MainCellCount) % MainCellCount) :
                o \in offsets}

-----------------------------------------------------------------------------
(* Snapshots. *)

initialState ==
    [status |-> "active", phase |-> "awaiting_roll",
     id |-> [c \in Colors |-> None], next |-> Black, dice |-> 0,
     pieces |-> [c \in Colors |-> [i \in Slots |-> Piece("hangar", i)]],
     captures |-> [c \in Colors |-> 0], winner |-> None, result |-> None]

validPiece(piece, slot) ==
    CASE piece.zone = "hangar" -> piece.index = slot
      [] piece.zone \in {"launch", "finished"} -> piece.index = 0
      [] piece.zone = "main" -> piece.index \in 0 .. MainCellCount - 1
      [] piece.zone = "home" -> piece.index \in 0 .. HomeCellCount - 1
      [] OTHER -> FALSE

\* What may be stored and read back (encodeSnapshot, decodeSnapshot).
validState(s) ==
    /\ \A c \in Colors : s.captures[c] \in 0 .. CaptureLimit
    /\ s.next \in Colors
    /\ s.id[Black] # None => s.id[Black] # s.id[White]
    /\ \A c \in Colors, i \in Slots :
          LET p == s.pieces[c][i] IN
          /\ validPiece(p, i)
          /\ p.zone = "main" => progressForIndex(c, p.index) <= 50
    /\ \/ s.phase = "awaiting_roll" /\ s.dice = 0
       \/ /\ s.phase = "awaiting_move" /\ s.dice \in Die
          /\ movablePieces(s.pieces[s.next], s.dice) # {}
    /\ \/ /\ s.status = "active" /\ s.result = None /\ s.winner = None
          /\ \A c \in Colors : ~allFinished(s.pieces[c])
       \/ /\ s.status = "finished" /\ s.result = "goal" /\ s.winner # None
          /\ s.phase = "awaiting_roll"
          /\ \E c \in Colors : s.winner = s.id[c] /\ allFinished(s.pieces[c])

-----------------------------------------------------------------------------
(* Rolls and moves.  The options name the generations of the rules: whether  *)
(* a piece may bounce and may leave the hangar on a five; whether a capture  *)
(* is made on every landing or on the last cell only, and in the home lane   *)
(* that a shortcut crosses.                                                  *)

RollOptions == <<[bounce |-> TRUE, five |-> TRUE], [bounce |-> TRUE, five |-> FALSE],
                 [bounce |-> FALSE, five |-> TRUE], [bounce |-> FALSE, five |-> FALSE]>>
MoveOptions == <<[landings |-> TRUE, crossing |-> TRUE],
                 [landings |-> TRUE, crossing |-> FALSE],
                 [landings |-> FALSE, crossing |-> FALSE]>>

\* The colour to move belongs to u, or is free and u does not hold the other.
bindAndValidateActor(s, u) ==
    IF s.id[s.next] # None THEN s.id[s.next] = u ELSE s.id[opposite(s.next)] # u

Movable(s, v, o) ==
    {i \in movablePieces(s.pieces[s.next], v) :
        LET p == s.pieces[s.next][i] IN
        /\ o.bounce \/ p.zone # "home" \/ p.index + v <= HomeCellCount
        /\ o.five \/ v # 5 \/ p.zone # "hangar"}

Rolled(s, u, v, o) ==
    LET bound == [s EXCEPT !.id[s.next] = u] IN
    IF Movable(s, v, o) # {}
    THEN [bound EXCEPT !.phase = "awaiting_move", !.dice = v]
    ELSE IF v # 6 THEN [bound EXCEPT !.next = opposite(@)] ELSE bound

rollAccepted(s, u, v, o) ==
    [type |-> "roll", actor |-> u, color |-> s.next, value |-> v,
     movable |-> Movable(s, v, o)]

Destinations(s, i, o) ==
    LET r == resolveMove(s.next, s.pieces[s.next][i], s.dice)
    IN  (IF o.landings THEN landingCells(r)
         ELSE IF r.to.zone = "main" THEN {r.to} ELSE {})
        \cup (IF o.crossing /\ r.effect \in {"shortcut", "jump_shortcut"}
              THEN {Piece("home", 2)} ELSE {})

Captured(s, i, o) ==
    {j \in Slots : s.pieces[opposite(s.next)][j] \in Destinations(s, i, o)}

Moved(s, u, i, o) ==
    LET c == s.next
        to == resolveMove(c, s.pieces[c][i], s.dice).to
        captured == Captured(s, i, o)
        pieces == [s.pieces EXCEPT
                     ![c][i] = to,
                     ![opposite(c)] = [j \in Slots |-> IF j \in captured
                                          THEN Piece("hangar", j) ELSE @[j]]]
        moved == [s EXCEPT !.id[c] = u, !.pieces = pieces,
                           !.captures[c] = @ + Cardinality(captured),
                           !.dice = 0, !.phase = "awaiting_roll"]
    IN  IF allFinished(pieces[c])
        THEN [moved EXCEPT !.status = "finished", !.winner = u, !.result = "goal"]
        ELSE IF s.dice # 6 THEN [moved EXCEPT !.next = opposite(c)] ELSE moved

moveAccepted(s, u, i, o) ==
    [type |-> "move", actor |-> u, color |-> s.next, piece |-> i, roll |-> s.dice,
     from |-> s.pieces[s.next][i],
     resolution |-> resolveMove(s.next, s.pieces[s.next][i], s.dice),
     captured |-> Captured(s, i, o)]

MayRoll(s, u) ==
    s.status = "active" /\ s.phase = "awaiting_roll" /\ bindAndValidateActor(s, u)

Options(generations) == {generations[k] : k \in DOMAIN generations}

MayMove(s, u, i) ==
    /\ s.status = "active" /\ s.phase = "awaiting_move"
    /\ bindAndValidateActor(s, u)
    /\ CanMove(s.pieces[s.next][i], s.dice)

\* One turn of the loop that replays the log.  The rules of today are tried
\* first and must not fail; then the older ones, until one writes the very
\* event; {} is ErrInvalidEvent.
First(stored, same) ==
    {k \in same : 1 \in stored /\ \A n \in same : k <= n}

Rebuild(s, e) ==
    IF e.type = "roll"
    THEN LET rolled == [k \in DOMAIN RollOptions |-> Rolled(s, e.actor, e.value, RollOptions[k])]
             stored == {k \in DOMAIN rolled : MayRoll(s, e.actor) /\ validState(rolled[k])}
             same == {k \in stored : rollAccepted(s, e.actor, e.value, RollOptions[k]) = e}
         IN  {rolled[k] : k \in First(stored, same)}
    ELSE LET moved == [k \in DOMAIN MoveOptions |-> Moved(s, e.actor, e.piece, MoveOptions[k])]
             stored == {k \in DOMAIN moved : MayMove(s, e.actor, e.piece) /\ validState(moved[k])}
             same == {k \in stored : moveAccepted(s, e.actor, e.piece, MoveOptions[k]) = e}
         IN  {moved[k] : k \in First(stored, same)}

Init == snapshot = initialState

\* What an action of u leads to under the rules of any generation: the event
\* and the snapshot, which must be one that can be stored.
RollTurns(u) ==
    {t \in {[event |-> rollAccepted(snapshot, u, v, o), next |-> Rolled(snapshot, u, v, o)] :
              v \in IF MayRoll(snapshot, u) THEN Die ELSE {}, o \in Options(RollOptions)} :
       validState(t.next)}

MoveTurns(u) ==
    {t \in {[event |-> moveAccepted(snapshot, u, i, o), next |-> Moved(snapshot, u, i, o)] :
              i \in {j \in Slots : MayMove(snapshot, u, j)}, o \in Options(MoveOptions)} :
       validState(t.next)}

Turns(u) == RollTurns(u) \cup MoveTurns(u)

ApplyRandom(u) == \E t \in RollTurns(u) : snapshot' = t.next

Apply(u) == \E t \in MoveTurns(u) : snapshot' = t.next

Next == \E u \in Users : ApplyRandom(u) \/ Apply(u)

Spec == Init /\ [][Next]_snapshot

-----------------------------------------------------------------------------
(* Properties. *)

\* The log is too short for as many captures as the limit allows.
BelowLimit == \A c \in Colors : snapshot.captures[c] + PieceCount <= CaptureLimit

\* No legal play leads to a snapshot that could not be stored or read back.
Readable == validState(snapshot)

\* Short of the capture limit the server never refuses to store what its own
\* rules produce, which would leave the player with a roll nobody can play.
NothingRefused ==
    BelowLimit =>
        \A u \in Users :
            /\ \A v \in Die, o \in Options(RollOptions) : MayRoll(snapshot, u) =>
                  validState(Rolled(snapshot, u, v, o))
            /\ \A i \in Slots, o \in Options(MoveOptions) : MayMove(snapshot, u, i) =>
                  validState(Moved(snapshot, u, i, o))

\* Opposing pieces never share a cell of the ring, whatever jumps and
\* shortcuts brought them there (captureAt).
CellsExclusive ==
    \A i, j \in Slots :
        snapshot.pieces[Black][i].zone = "main" =>
            snapshot.pieces[Black][i] # snapshot.pieces[White][j]
=============================================================================
