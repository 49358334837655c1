--------------------------- MODULE ChineseCheckers --------------------------
(* games/chinesecheckers: two players on the star board.  Cells are named by *)
(* their coordinates, which the source keeps in a table of 121 points.       *)
EXTENDS Integers, Sequences, FiniteSets

CONSTANTS
    Depth,     \* rows of a camp (4)
    Users,
    None,
    MaxPath,   \* bound: cells of a path a client sends
    Reach      \* bound: where each colour is taken to in an instance

VARIABLE snapshot

Black == "black"
White == "white"
Empty == "empty"
Colors == {Black, White}
opposite(c) == IF c = Black THEN White ELSE Black

-----------------------------------------------------------------------------
(* The board: two triangles, one pointing up and one pointing down, whose    *)
(* six tips are the camps.                                                   *)

\* Every other x of a row is a cell.
Row(first, last, y) == {p \in (first .. last) \X {y} : (p[1] - first) % 2 = 0}
Up == UNION {Row(3 * Depth - y, 3 * Depth + y, y) : y \in 0 .. 3 * Depth}
Down == UNION {Row(y - Depth, 7 * Depth - y, y) : y \in Depth .. 4 * Depth}
Cells == Up \cup Down

InTop(p) == p[2] < Depth
InBottom(p) == p[2] > 3 * Depth

isTargetCamp(p, c) == IF c = Black THEN InBottom(p) ELSE InTop(p)

\* A tip to the left or to the right belongs to one triangle only.
isNeutralCamp(p) ==
    /\ ~InTop(p) /\ ~InBottom(p)
    /\ \/ p[1] \notin 3 * Depth - p[2] .. 3 * Depth + p[2]
       \/ p[1] \notin p[2] - Depth .. 7 * Depth - p[2]

Adjacent == {<<-2, 0>>, <<2, 0>>, <<-1, -1>>, <<-1, 1>>, <<1, -1>>, <<1, 1>>}
Jump == {<<2 * d[1], 2 * d[2]>> : d \in Adjacent}
Delta(p, q) == <<q[1] - p[1], q[2] - p[2]>>
Middle(p, q) == <<(p[1] + q[1]) \div 2, (p[2] + q[2]) \div 2>>

\* One hop from p over an occupied cell to the empty cell q.
Hops(b, p, q) ==
    /\ Delta(p, q) \in Jump
    /\ Middle(p, q) \in DOMAIN b
    /\ b[Middle(p, q)] # Empty
    /\ b[q] = Empty

\* Mutant: a piece may leave the camp it has reached.
validMovePathOut(b, c, path) ==
    LET source == path[1]
        destination == path[Len(path)]
        lifted == [b EXCEPT ![source] = Empty]
    IN  /\ path \in Seq(DOMAIN b) /\ Len(path) >= 2
        /\ \A i, j \in 1 .. Len(path) : i # j => path[i] # path[j]
        /\ b[source] = c
        /\ b[destination] = Empty
        /\ ~isNeutralCamp(destination)
        /\ \/ /\ Len(path) = 2
              /\ Delta(source, destination) \in Adjacent
           \/ \A i \in 1 .. Len(path) - 1 : Hops(lifted, path[i], path[i + 1])

validMovePath(b, c, path) ==
    LET source == path[1]
        destination == path[Len(path)]
        lifted == [b EXCEPT ![source] = Empty]
    IN  /\ path \in Seq(DOMAIN b) /\ Len(path) >= 2
        /\ \A i, j \in 1 .. Len(path) : i # j => path[i] # path[j]
        /\ b[source] = c
        /\ b[destination] = Empty
        /\ ~isNeutralCamp(destination)
        /\ isTargetCamp(source, c) => isTargetCamp(destination, c)
        /\ \/ /\ Len(path) = 2
              /\ Delta(source, destination) \in Adjacent
           \/ \A i \in 1 .. Len(path) - 1 : Hops(lifted, path[i], path[i + 1])

hasCompletedCamp(b, c) == \A p \in DOMAIN b : isTargetCamp(p, c) => b[p] = c

initialBoard ==
    [p \in Cells |-> IF InTop(p) THEN Black ELSE IF InBottom(p) THEN White ELSE Empty]

-----------------------------------------------------------------------------
(* Snapshots. *)

initialSnapshot ==
    [revision |-> 0, status |-> "active", board |-> initialBoard,
     id |-> [c \in Colors |-> None], next |-> Black,
     winner |-> None, result |-> None]

Pieces(b, c) == {p \in DOMAIN b : b[p] = c}

\* What the rules accept as a snapshot: everything else is ErrInvalidSnapshot.
\* A "resignation" result is accepted by the source and produced by nothing.
decodeSnapshot(s) ==
    LET complete == {c \in Colors : hasCompletedCamp(s.board, c)} IN
    /\ \A c \in Colors : Cardinality(Pieces(s.board, c)) = (Depth * (Depth + 1)) \div 2
    /\ s.id[Black] # None => s.id[Black] # s.id[White]
    /\ (s.revision >= 1) = (s.id[Black] # None)
    /\ (s.revision >= 2) = (s.id[White] # None)
    /\ s.next = IF s.revision % 2 = 1 THEN White ELSE Black
    /\ \/ /\ s.status = "active"
          /\ s.winner = None /\ s.result = None
          /\ complete = {}
       \/ /\ s.status = "finished" /\ s.result = "goal"
          /\ s.winner # None
          /\ \E c \in Colors : complete = {c} /\ s.winner = s.id[c]

-----------------------------------------------------------------------------
(* Moves. *)

\* The colour to move belongs to u, or is free and u does not hold the other.
MayMove(s, u) ==
    IF s.id[s.next] # None THEN s.id[s.next] = u ELSE s.id[opposite(s.next)] # u

Accepts(s, u, path) ==
    /\ s.status = "active"
    /\ MayMove(s, u)
    /\ validMovePath(s.board, s.next, path)
    /\ decodeSnapshot(s)

\* The rules look at a revision's parity and whether it is 0, 1 or more: two
\* is added to and subtracted from it without a difference.
NextRevision(n) == IF n = 3 THEN 2 ELSE n + 1

applyMove(s, u, path) ==
    LET c == s.next
        b == [s.board EXCEPT ![path[1]] = Empty, ![path[Len(path)]] = c]
        won == hasCompletedCamp(b, c)
    IN  [revision |-> NextRevision(s.revision), board |-> b,
         id |-> [s.id EXCEPT ![c] = u], next |-> opposite(c),
         status |-> IF won THEN "finished" ELSE "active",
         winner |-> IF won THEN u ELSE None,
         result |-> IF won THEN "goal" ELSE None]

\* The event appended to the log.
accepted(s, u, path) ==
    [revision |-> NextRevision(s.revision), actor |-> u, path |-> path, color |-> s.next]

\* One turn of the loop that replays the log; {} is ErrInvalidEvent.
Rebuild(s, e) ==
    IF e.revision = NextRevision(s.revision) /\ e.color = s.next /\ Accepts(s, e.actor, e.path)
    THEN {applyMove(s, e.actor, e.path)}
    ELSE {}

Init == snapshot = initialSnapshot

\* What a client may send: any step or hop of one of its pieces, allowed or
\* not, and any chain of hops.
Near(p) == {<<p[1] + d[1], p[2] + d[2]>> : d \in Adjacent \cup Jump} \cap Cells
Paths(s) ==
    LET f[n \in 2 .. MaxPath] ==
          IF n = 2
          THEN UNION {{<<p, q>> : q \in Near(p) \cap Reach[s.next]} :
                        p \in Pieces(s.board, s.next)}
          ELSE f[n - 1] \cup
               UNION {{Append(path, q) : q \in {r \in Near(path[n - 1]) \cap Reach[s.next] :
                                                  Hops(s.board, path[n - 1], r)}} :
                        path \in {x \in f[n - 1] : Len(x) = n - 1}}
    IN  f[MaxPath]

\* What an action of u leads to: the event and the snapshot it returns.
Turns(u) ==
    {[event |-> accepted(snapshot, u, path), next |-> applyMove(snapshot, u, path)] :
        path \in {x \in Paths(snapshot) : Accepts(snapshot, u, x)}}

Apply(u) == \E t \in Turns(u) : snapshot' = t.next

Next == \E u \in Users : Apply(u)

Spec == Init /\ [][Next]_snapshot

-----------------------------------------------------------------------------
(* Properties. *)

\* No legal play leads to a snapshot the rules then refuse to read, which
\* would wedge the match (decodeSnapshot, called on every move and replay).
Readable == decodeSnapshot(snapshot)

\* A path of any length moves one piece of the player to move and nothing
\* else, never to rest in a camp of neither player, and never out of the camp
\* it has reached (validMovePath).
CampsRespected ==
    LET c == snapshot.next
        left == Pieces(snapshot.board, c) \ Pieces(snapshot'.board, c)
        came == Pieces(snapshot'.board, c) \ Pieces(snapshot.board, c)
    IN  /\ Pieces(snapshot'.board, opposite(c)) = Pieces(snapshot.board, opposite(c))
        /\ Cardinality(left) = 1 /\ Cardinality(came) = 1
        /\ \A p \in came : ~isNeutralCamp(p)
        /\ \A p \in left, q \in came : isTargetCamp(p, c) => isTargetCamp(q, c)
=============================================================================
