---------------------------- MODULE MatchFeed ----------------------------
(***************************************************************************)
(* What the fan-out of one match promises its players, whatever the hub's  *)
(* connections, queues and restarts do in between: the match has a durable *)
(* revision that only grows by one action at a time, and each player's     *)
(* board follows it: it never runs ahead of what is durable, and it never  *)
(* goes back.                                                              *)
(***************************************************************************)
EXTENDS Naturals

CONSTANTS Users,        \* the players of the match
          MaxRevision   \* bound on the revisions a behaviour reaches

VARIABLES head,   \* the match's durable revision
          view    \* for each player, the revision its board shows

TypeOK == /\ head \in 0..MaxRevision
          /\ view \in [Users -> 0..MaxRevision]

Init == /\ head = 0
        /\ view = [u \in Users |-> 0]

\* One more action of the match is durable.
Commit == /\ head < MaxRevision
          /\ head' = head + 1
          /\ UNCHANGED view

\* u's board moves on, by one event or by a snapshot.
Follow(u) == /\ \E r \in view[u]+1..head : view' = [view EXCEPT ![u] = r]
             /\ UNCHANGED head

Next == Commit \/ \E u \in Users : Follow(u)

vars == <<head, view>>

Spec == Init /\ [][Next]_vars
============================================================================
