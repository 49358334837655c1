------------------------------- MODULE MCLive -------------------------------
(* What must eventually happen: to the presence of a match's players, to the *)
(* client of a match, and to an account on its way between two devices.      *)
(* They share no state here, and a behaviour is one of them.                 *)
EXTENDS MatchClient, Presence, DeviceTransfer

VARIABLE part

all == <<part, vars, presenceVars, transferVars>>

MCInit == /\ part \in {"players", "client", "account"}
          /\ Init /\ PresenceInit /\ TransferInit

ClientStep(A) == part = "client" /\ A /\ UNCHANGED <<part, presenceVars, transferVars>>
PlayersStep(A) == part = "players" /\ A /\ UNCHANGED <<part, vars, transferVars>>
AccountStep(A) == part = "account" /\ A /\ UNCHANGED <<part, vars, presenceVars>>

MCNext == ClientStep(Next) \/ PlayersStep(PresenceNext) \/ AccountStep(TransferNext)

\* As in MatchClient, Presence and DeviceTransfer.
MCFairness ==
    /\ WF_all(ClientStep(Poll)) /\ WF_all(ClientStep(Tick))
    /\ WF_all(ClientStep(Due)) /\ WF_all(ClientStep(Hub))
    /\ \A c \in Conns : WF_all(PlayersStep(Connection(c)))
    /\ WF_all(PlayersStep(Sweep)) /\ WF_all(PlayersStep(Deliver))
    /\ WF_all(PlayersStep(Delivered)) /\ WF_all(PlayersStep(Abandon))
    /\ WF_all(PlayersStep(TimePasses))
    /\ \A d \in Devices : /\ WF_all(AccountStep(Proceed(d)))
                          /\ WF_all(AccountStep(Contact(d)))

MCSpec == MCInit /\ [][MCNext]_all /\ MCFairness

\* A match whose players have left is abandoned, when a behaviour is about one
\* (Daemon.abandonLoop, AbandonExpired): see Presence.
LeftMatchesEnd == part = "players" => LeftMatchEnds
=============================================================================
