--------------------------------- MODULE Rps --------------------------------
(* games/rps: rounds of rock, paper, scissors, and what the hub tells the    *)
(* two players of them (matches/hub.go).  `told' records every choice that   *)
(* has been shown to a player, by whatever message.                          *)
EXTENDS Integers, FiniteSets

CONSTANTS
    Users,      \* the two players of a match
    None,
    MaxRounds   \* bound on rounds; drawn rounds do not count towards a win

VARIABLES snapshot, told
vars == <<snapshot, told>>

Formats == {"single_round", "best_of_three"}
Choices == {"rock", "paper", "scissors"}
Beats == {<<"rock", "scissors">>, <<"paper", "rock">>, <<"scissors", "paper">>}

Extend(f, u, x) == [v \in DOMAIN f \cup {u} |-> IF v = u THEN x ELSE f[v]]
Score(scores, u) == IF u \in DOMAIN scores THEN scores[u] ELSE 0

-----------------------------------------------------------------------------
(* Snapshots: choices holds the locked choices of the current round, scores  *)
(* the players who have won one.                                             *)

initialSnapshot(format) ==
    [revision |-> 0, status |-> "active", format |-> format, round |-> 1,
     choices |-> <<>>, scores |-> <<>>, lastReveal |-> None,
     winner |-> None, result |-> None]

\* What the rules accept as a snapshot: everything else is ErrInvalidSnapshot.
decodeState(s, format) ==
    /\ s.format = format
    /\ s.status \in {"active", "finished"}
    /\ s.round >= 1
    /\ Cardinality(DOMAIN s.choices) <= 2 /\ Cardinality(DOMAIN s.scores) <= 2
    /\ \A u \in DOMAIN s.choices : s.choices[u] \in Choices
    /\ \A u \in DOMAIN s.scores : s.scores[u] \in 0 .. 2

-----------------------------------------------------------------------------
(* Choosing.  The first choice of a round is locked, the second reveals both. *)

Accepts(s, u) ==
    /\ decodeState(s, s.format)
    /\ s.status = "active"
    /\ u \notin DOMAIN s.choices
    /\ Cardinality(DOMAIN s.choices) < 2

\* The players whose choice beats the other one: one, or none in a draw.
RoundWinners(choices) ==
    {u \in DOMAIN choices : \E v \in DOMAIN choices : <<choices[u], choices[v]>> \in Beats}

\* Mutant: the match is decided on the scores before the round.
RevealLate(s, choices) ==
    LET winners == RoundWinners(choices)
        scores == IF winners = {} THEN s.scores
                  ELSE LET w == CHOOSE u \in winners : TRUE
                       IN  Extend(s.scores, w, Score(s.scores, w) + 1)
        decided == {u \in winners : s.format = "single_round" \/ Score(s.scores, u) >= 2}
    IN  [round |-> s.round, choices |-> choices, scores |-> scores,
         roundWinner |-> IF winners = {} THEN None ELSE CHOOSE u \in winners : TRUE,
         matchWinner |-> IF decided = {} THEN None ELSE CHOOSE u \in decided : TRUE]

\* The reveal of the round that the choices of both settle.
Reveal(s, choices) ==
    LET winners == RoundWinners(choices)
        scores == IF winners = {} THEN s.scores
                  ELSE LET w == CHOOSE u \in winners : TRUE
                       IN  Extend(s.scores, w, Score(s.scores, w) + 1)
        decided == {u \in winners : s.format = "single_round" \/ scores[u] >= 2}
    IN  [round |-> s.round, choices |-> choices, scores |-> scores,
         roundWinner |-> IF winners = {} THEN None ELSE CHOOSE u \in winners : TRUE,
         matchWinner |-> IF decided = {} THEN None ELSE CHOOSE u \in decided : TRUE]

apply(s, u, choice) ==
    LET choices == Extend(s.choices, u, choice)
        r == Reveal(s, choices)
        over == r.matchWinner # None
    IN  IF Cardinality(DOMAIN choices) = 1
        THEN [s EXCEPT !.revision = @ + 1, !.choices = choices]
        ELSE [s EXCEPT !.revision = @ + 1, !.choices = <<>>, !.scores = r.scores,
                       !.lastReveal = r,
                       !.round = IF over THEN @ ELSE @ + 1,
                       !.status = IF over THEN "finished" ELSE @,
                       !.winner = r.matchWinner,
                       !.result = IF over THEN "rounds" ELSE None]

\* The event appended to the log.
accepted(s, u, choice) ==
    LET choices == Extend(s.choices, u, choice)
    IN  IF Cardinality(DOMAIN choices) = 1
        THEN [type |-> "locked", revision |-> s.revision + 1, actor |-> u,
              round |-> s.round, choice |-> choice]
        ELSE [type |-> "revealed", revision |-> s.revision + 1, actor |-> u,
              reveal |-> Reveal(s, choices)]

\* One turn of the loop that replays the log: a reveal does not say which of
\* the two choices was the last, its actor does.  {} is ErrInvalidEvent.
Rebuild(s, e) ==
    LET choice == IF e.type = "locked" THEN e.choice ELSE e.reveal.choices[e.actor]
    IN  IF Accepts(s, e.actor) /\ accepted(s, e.actor, choice) = e
        THEN {apply(s, e.actor, choice)}
        ELSE {}

-----------------------------------------------------------------------------
(* What the players are told. *)

Shown(reveal) == {<<reveal.round, v, reveal.choices[v]>> : v \in DOMAIN reveal.choices}

\* Mutant: the event is broadcast as it is logged.
eventEnvelopeWhole(e) ==
    IF e.type = "locked" THEN {<<e.round, e.actor, e.choice>>} ELSE Shown(e.reveal)

\* The event as it is broadcast: that a choice is locked, not which.
eventEnvelope(e) == IF e.type = "locked" THEN {} ELSE Shown(e.reveal)

\* The snapshot as it is sent to viewer u, who sees a choice of its own.
rpsSnapshotEnvelope(s, u) ==
    (IF u \in DOMAIN s.choices THEN {<<s.round, u, s.choices[u]>>} ELSE {})
    \cup (IF s.lastReveal = None THEN {} ELSE Shown(s.lastReveal))

Init ==
    /\ \E format \in Formats : snapshot = initialSnapshot(format)
    /\ told = [u \in Users |-> {}]

\* What an action of u leads to: the event and the snapshot it returns.
Turns(u) ==
    {[event |-> accepted(snapshot, u, choice), next |-> apply(snapshot, u, choice)] :
        choice \in IF Accepts(snapshot, u) /\ snapshot.round <= MaxRounds
                   THEN Choices ELSE {}}

\* The event of an action is broadcast to both players.
Publish(e) == told' = [v \in Users |-> told[v] \cup eventEnvelope(e)]

Apply(u) == \E t \in Turns(u) : snapshot' = t.next /\ Publish(t.event)

\* A player connects, or asks for the snapshot again, at any moment.
Look(u) ==
    /\ told' = [told EXCEPT ![u] = @ \cup rpsSnapshotEnvelope(snapshot, u)]
    /\ UNCHANGED snapshot

Next == \E u \in Users : Apply(u) \/ Look(u)

Spec == Init /\ [][Next]_vars

-----------------------------------------------------------------------------
(* Properties. *)

\* No legal play leads to a snapshot the rules then refuse to read, which
\* would wedge the match (decodeState, called on every choice and replay).
Readable == decodeState(snapshot, snapshot.format)

\* Nobody is shown the other's choice of a round before both are locked,
\* neither by the broadcast nor by a snapshot asked for in between.
RevealedTogether ==
    \A u \in Users : \A x \in told[u] :
        x[2] # u => x[1] < snapshot.round \/ snapshot.status = "finished"

\* Read off everything both players have been shown, a score is the number
\* of rounds won, and the match ends with the first to win one or two.
Won(u) ==
    {r \in 1 .. MaxRounds : \E v \in Users, a, b \in Choices :
        /\ <<r, u, a>> \in told[u] /\ <<r, v, b>> \in told[u]
        /\ <<a, b>> \in Beats}
ScoresAddUp ==
    LET needed == IF snapshot.format = "single_round" THEN 1 ELSE 2
    IN  /\ \A u \in Users : Score(snapshot.scores, u) = Cardinality(Won(u))
        /\ (snapshot.status = "finished") =
             (\E u \in Users : Cardinality(Won(u)) >= needed)
        /\ snapshot.winner # None => Cardinality(Won(snapshot.winner)) = needed
=============================================================================
