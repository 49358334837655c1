-------------------------------- MODULE Games -------------------------------
(* One match of any registered game, as the match service plays it on the    *)
(* rules of the game (games/registry.go, matches/service.go): whose action   *)
(* is let through, what is logged, and how a log is read back.  MatchService *)
(* models the match around it, where the rules are left abstract.            *)
EXTENDS Integers, FiniteSets

CONSTANTS
    BlackPlayer, WhitePlayer,          \* the seats, by the colour drawn for them
    None,
    GomokuCells, GomokuLine,           \* Gomoku: the board, stones of a line
    ReversiSize,                       \* Reversi: side of the board
    CampDepth, PathLimit, CampReach,   \* ChineseCheckers
    PieceCount, CaptureLimit,          \* FlightChess
    RoundLimit                         \* Rps

ASSUME SeatsAssumption ==
    BlackPlayer # WhitePlayer /\ None \notin {BlackPlayer, WhitePlayer}

\* Boards that the rules can set up: room for a stone, the four discs in the
\* middle with a ring of cells around them, a camp of one piece at least.
ASSUME BoardsAssumption ==
    /\ GomokuCells # {} /\ IsFiniteSet(GomokuCells)
    /\ \A p \in GomokuCells : p = <<p[1], p[2]>> /\ p[1] \in Int /\ p[2] \in Int
    /\ GomokuLine \in Nat \ {0}
    /\ ReversiSize \in Nat /\ ReversiSize % 2 = 0 /\ ReversiSize >= 4
    /\ CampDepth \in Nat \ {0} /\ PathLimit \in Nat
    /\ PieceCount \in Nat \ {0} /\ CaptureLimit \in Nat
    /\ RoundLimit \in Nat

VARIABLES
    game,      \* matches.game_id
    snapshot,  \* state of the game; what the log rebuilds to
    told       \* Rps: choices shown to each player
vars == <<game, snapshot, told>>

Users == {BlackPlayer, WhitePlayer}

GomokuRules == INSTANCE Gomoku WITH Points <- GomokuCells, LineLength <- GomokuLine
ReversiRules == INSTANCE Reversi WITH BoardSize <- ReversiSize
CheckersRules == INSTANCE ChineseCheckers
                   WITH Depth <- CampDepth, MaxPath <- PathLimit, Reach <- CampReach
FlightRules == INSTANCE FlightChess
RpsRules == INSTANCE Rps WITH MaxRounds <- RoundLimit

\* NewRegistry: the rules that Lookup finds.
Registry == {"gomoku", "reversi", "chinese_checkers", "flight_chess", "rps"}

Player == [c \in {"black", "white"} |-> IF c = "black" THEN BlackPlayer ELSE WhitePlayer]
ColorOf(u) == IF u = BlackPlayer THEN "black" ELSE "white"
ByParity(revision) == IF revision % 2 = 1 THEN "white" ELSE "black"

-----------------------------------------------------------------------------
(* Playing. *)

\* The state of the game before any event, as Rebuild of an empty log.
NewSnapshot ==
    CASE game = "gomoku" -> snapshot = GomokuRules!initialSnapshot
      [] game = "reversi" -> snapshot = ReversiRules!initial
      [] game = "chinese_checkers" -> snapshot = CheckersRules!initialSnapshot
      [] game = "flight_chess" -> snapshot = FlightRules!initialState
      [] game = "rps" -> \E f \in RpsRules!Formats : snapshot = RpsRules!initialSnapshot(f)

\* The service asks whose turn it is before it asks the rules.
MayAct(u) ==
    CASE game \in {"gomoku", "reversi", "flight_chess"} -> snapshot.next = ColorOf(u)
      [] game = "chinese_checkers" -> ByParity(snapshot.revision) = ColorOf(u)
      [] game = "rps" -> TRUE

Turns(u) ==
    CASE game = "gomoku" -> GomokuRules!Turns(u)
      [] game = "reversi" -> ReversiRules!Turns(u)
      [] game = "chinese_checkers" -> CheckersRules!Turns(u)
      [] game = "flight_chess" -> FlightRules!Turns(u)
      [] game = "rps" -> RpsRules!Turns(u)

\* The event must name the actor and, where there are colours, its colour.
validateProduced(u, e) ==
    e.actor = u /\ (game # "rps" => e.color = ColorOf(u))

-----------------------------------------------------------------------------
(* Reading a log back: the turn of the loop for event e, and what is then    *)
(* checked of the state.  {} is an error, which makes every later read of    *)
(* the match fail.                                                           *)

\* Black has moved, and then white.
SeatsTaken(s) ==
    /\ s.id["black"] = (IF s.revision = 0 THEN None ELSE BlackPlayer)
    /\ s.id["white"] = (IF s.revision <= 1 THEN None ELSE WhitePlayer)

\* Mutant: the colours of Reversi alternate like those of Gomoku.
rebuildBoardByParity(e) ==
    {s \in IF game = "gomoku" THEN GomokuRules!Rebuild(snapshot, e)
           ELSE ReversiRules!Rebuild(snapshot, e) :
        /\ e.actor = Player[e.color] /\ e.color = ByParity(e.revision - 1)
        /\ SeatsTaken(s)
        /\ game = "gomoku" => s.next = ByParity(s.revision)}

\* Gomoku and Reversi; a revision of Reversi does not tell whose turn it is.
rebuildBoard(e) ==
    {s \in IF game = "gomoku" THEN GomokuRules!Rebuild(snapshot, e)
           ELSE ReversiRules!Rebuild(snapshot, e) :
        /\ e.actor = Player[e.color]
        /\ SeatsTaken(s)
        /\ game = "gomoku" =>
             e.color = ByParity(e.revision - 1) /\ s.next = ByParity(s.revision)}

rebuildChineseCheckers(e) ==
    {s \in CheckersRules!Rebuild(snapshot, e) :
        /\ e.actor = Player[e.color] /\ e.color = ByParity(e.revision - 1)
        /\ SeatsTaken(s) /\ s.next = ByParity(s.revision)}

rebuildFlightChess(e) ==
    {s \in FlightRules!Rebuild(snapshot, e) :
        /\ e.actor \in Users /\ e.color = ColorOf(e.actor)
        /\ s.id["black"] = BlackPlayer /\ s.id["white"] \in {None, WhitePlayer}}

rebuildRps(e) ==
    IF e.type = "revealed" /\ e.actor \notin DOMAIN e.reveal.choices THEN {}
    ELSE {s \in RpsRules!Rebuild(snapshot, e) : e.actor \in Users}

rebuildSnapshot(e) ==
    CASE game \in {"gomoku", "reversi"} -> rebuildBoard(e)
      [] game = "chinese_checkers" -> rebuildChineseCheckers(e)
      [] game = "flight_chess" -> rebuildFlightChess(e)
      [] game = "rps" -> rebuildRps(e)

-----------------------------------------------------------------------------

Init ==
    /\ game \in Registry
    /\ NewSnapshot
    /\ told = [u \in Users |-> {}]

\* An action of u that the service and the rules accept is committed and
\* its event published.
Play(u) ==
    /\ MayAct(u)
    /\ \E t \in Turns(u) :
         /\ validateProduced(u, t.event)
         /\ snapshot' = t.next
         /\ IF game = "rps" THEN RpsRules!Publish(t.event) ELSE UNCHANGED told
    /\ UNCHANGED game

\* A player of Rps asks for the snapshot.
Look(u) ==
    /\ game = "rps"
    /\ RpsRules!Look(u)
    /\ UNCHANGED game

Next == \E u \in Users : Play(u) \/ Look(u)

Spec == Init /\ [][Next]_vars

-----------------------------------------------------------------------------
(* Properties. *)

\* The rules read back every snapshot that legal play leads to: a snapshot
\* they refuse would wedge the match (decodeSnapshot of each game).
Readable ==
    CASE game = "gomoku" -> GomokuRules!Readable
      [] game = "reversi" -> ReversiRules!Readable
      [] game = "chinese_checkers" -> CheckersRules!Readable
      [] game = "flight_chess" -> FlightRules!Readable
      [] game = "rps" -> RpsRules!Readable

\* Every event that is committed, by the rules of today or by older ones, is
\* read back to the very state it was committed with (rebuildSnapshot and its
\* siblings against ApplyAction).
LogReplays ==
    (game = "flight_chess" => FlightRules!BelowLimit) =>
        \A u \in Users : MayAct(u) => \A t \in Turns(u) : rebuildSnapshot(t.event) = {t.next}

\* Short of the capture limit the rules store what they produce (flight chess).
NothingRefused == game = "flight_chess" => FlightRules!NothingRefused

\* A match that was committed can be read back, and goes on, whatever was
\* played (decodeSnapshot, rebuildSnapshot, validState).
GamesReplay == game \in Registry => Readable /\ LogReplays /\ NothingRefused

\* Who has won, what stands where and what the score is, computed step by
\* step from the last move, is what the whole board or the whole match says
\* (board.wins, captureAt, Rules.apply): see Gomoku, FlightChess and Rps.
GamesOutcomesFit ==
    /\ game = "gomoku" => GomokuRules!LineDecides
    /\ game = "flight_chess" => FlightRules!CellsExclusive
    /\ game = "rps" => RpsRules!ScoresAddUp

\* Nobody's choice is shown before its round is over: see Rps.
RevealedTogether == game = "rps" => RpsRules!RevealedTogether

\* Whose turn follows (Rules.Apply of Reversi) and where a piece may come to
\* rest (validMovePath of Chinese checkers): see there.
MovesAreFair ==
    [][/\ game = "reversi" => ReversiRules!TurnsAreFair
       /\ game = "chinese_checkers" => CheckersRules!CampsRespected]_snapshot
=============================================================================
