----------------------------- MODULE HubProofs -----------------------------
(***************************************************************************)
(* Theorems about Hub for any number of players, connections, queue sizes, *)
(* revisions, revocations and notifications.  The types, and that the hub  *)
(* implements MatchFeed, follow from one invariant: nothing the hub holds  *)
(* for anybody - in a queue, set aside, in a handler's hands or waiting    *)
(* for its predecessor - is ahead of the durable revision.  Then that no   *)
(* transport which should be closed stays open, and what is delivered:     *)
(* every stream is unbroken, and no player and no event is left behind.    *)
(***************************************************************************)
EXTENDS Hub, FiniteSetTheorems, SequenceTheorems, TLAPS

MessagesTo(h) == [kind : Kinds, rev : 0..h]

ConnectionTo(h) ==
  [user : Users \cup {None}, at : Stages, held : 0..h, valid : BOOLEAN,
   ready : BOOLEAN, rev : 0..h, queue : Seq(MessagesTo(h)), pending : Seq(0..h),
   told : SUBSET Users, doomed : BOOLEAN, shut : BOOLEAN]

(* The connections whose messages and revisions are durable at revision h. *)
Sound(h) == {k \in ConnectionTo(h) : /\ Len(k.queue) <= QueueCap
                                     /\ Len(k.pending) <= PendingCap}

-----------------------------------------------------------------------------
(* Sequences.                                                              *)

LEMMA Fitting ==
  ASSUME NEW S, NEW s \in Seq(S), NEW n \in Nat
  PROVE  /\ SubSeq(s, 1, Smaller(n, Len(s))) \in Seq(S)
         /\ Len(SubSeq(s, 1, Smaller(n, Len(s)))) = Smaller(n, Len(s))
         /\ Smaller(n, Len(s)) \in Nat
         /\ Smaller(n, Len(s)) <= n /\ Smaller(n, Len(s)) <= Len(s)
<1> DEFINE m == Smaller(n, Len(s))
<1>1. Len(s) \in Nat
  BY LenProperties
<1>2. m \in Nat /\ m <= n /\ m <= Len(s)
  BY <1>1 DEF Smaller
<1>3. \A i \in 1..m : s[i] \in S
  BY <1>1, <1>2, ElementOfSeq
<1> HIDE DEF m
<1>4. /\ SubSeq(s, 1, m) \in Seq(S)
      /\ Len(SubSeq(s, 1, m)) = IF 1 <= m THEN m - 1 + 1 ELSE 0
  BY <1>2, <1>3, SubSeqProperties
<1>5. Len(SubSeq(s, 1, m)) = m
  BY <1>2, <1>4
<1> QED BY <1>2, <1>4, <1>5 DEF m

LEMMA Joined ==
  ASSUME NEW S, NEW s \in Seq(S), NEW t \in Seq(S), NEW cap \in Nat,
         Len(s) + Len(t) <= cap
  PROVE  s \o t \in Seq(S) /\ Len(s \o t) <= cap
BY ConcatProperties

LEMMA AfterType ==
  ASSUME NEW h \in Nat, NEW revs \in Seq(0..h), NEW r \in 0..h
  PROVE  After(revs, r) \in Seq(0..h)
<1> DEFINE D == {i \in DOMAIN revs : revs[i] <= r}
<1>1. Len(revs) \in Nat /\ DOMAIN revs = 1..Len(revs)
  BY LenProperties
<1>2. Cardinality(D) \in Nat
  <2>1. D \in SUBSET (1..Len(revs)) /\ IsFiniteSet(1..Len(revs))
    BY <1>1, FS_Interval
  <2>2. IsFiniteSet(D)
    BY <2>1, FS_Subset
  <2> QED BY <2>2, FS_CardinalityType
<1>3. \A i \in 1 + Cardinality(D) .. Len(revs) : revs[i] \in 0..h
  BY <1>1, <1>2, ElementOfSeq
<1> HIDE DEF D
<1>4. SubSeq(revs, 1 + Cardinality(D), Len(revs)) \in Seq(0..h)
  BY <1>1, <1>2, <1>3, SubSeqProperties
<1> QED BY <1>4 DEF After, D

(* Delivering what waits does not pass the durable revision.               *)
LEMMA RunType ==
  ASSUME NEW h \in Nat, NEW p \in 0..h, NEW ev \in SUBSET (1..h)
  PROVE  /\ Run(p, ev) \in Seq(0..h)
         /\ p + Len(Run(p, ev)) \in 0..h
<1> DEFINE R == {r \in ev : r > p /\ p+1..r \subseteq ev}
           n == Cardinality(R)
<1>1. R \in SUBSET (p+1..h)
  <2>1. \A r \in R : r \in 1..h /\ r > p
    OBVIOUS
  <2> HIDE DEF R
  <2> QED BY <2>1
<1>2. IsFiniteSet(p+1..h) /\ Cardinality(p+1..h) = IF p+1 > h THEN 0 ELSE h - (p+1) + 1
  BY FS_Interval
<1>3. IsFiniteSet(R) /\ Cardinality(R) <= Cardinality(p+1..h)
  BY <1>1, <1>2, FS_Subset
<1>4. Cardinality(R) \in Nat
  BY <1>3, FS_CardinalityType
<1>5. n \in Nat /\ n <= h - p
  BY <1>2, <1>3, <1>4
<1>6. Run(p, ev) = [i \in 1..n |-> p + i]
  BY DEF Run
<1> HIDE DEF n
<1>7. \A i \in 1..n : p + i \in 0..h
  BY <1>5
<1>8. Run(p, ev) \in [1..n -> 0..h]
  BY <1>6, <1>7
<1>9. Run(p, ev) \in Seq(0..h)
  BY <1>5, <1>8, SeqDef
<1>10. Len(Run(p, ev)) = n
  BY <1>5, <1>8, <1>9, LenProperties
<1> QED BY <1>5, <1>9, <1>10

-----------------------------------------------------------------------------
(* Connections.                                                            *)

LEMMA SoundColumns ==
  ASSUME NEW h \in Nat, NEW k \in Sound(h)
  PROVE  /\ k.user \in Users \cup {None} /\ k.at \in Stages
         /\ k.held \in 0..h /\ k.rev \in 0..h
         /\ k.queue \in Seq(MessagesTo(h)) /\ k.pending \in Seq(0..h)
         /\ k.told \in SUBSET Users
         /\ Len(k.queue) \in Nat /\ Len(k.pending) \in Nat
         /\ Len(k.queue) <= QueueCap /\ Len(k.pending) <= PendingCap
         /\ Room(k) \in Nat /\ Room(k) = QueueCap - Len(k.queue)
<1>1. /\ k.user \in Users \cup {None} /\ k.at \in Stages
      /\ k.held \in 0..h /\ k.rev \in 0..h
      /\ k.queue \in Seq(MessagesTo(h)) /\ k.pending \in Seq(0..h)
      /\ k.told \in SUBSET Users
      /\ Len(k.queue) <= QueueCap /\ Len(k.pending) <= PendingCap
  BY DEF Sound, ConnectionTo
<1>2. Len(k.queue) \in Nat /\ Len(k.pending) \in Nat
  BY <1>1, LenProperties
<1> QED BY <1>1, <1>2, HubAssumption DEF Room

LEMMA SoundFlags ==
  ASSUME NEW h, NEW k \in Sound(h)
  PROVE  /\ k.valid \in BOOLEAN /\ k.ready \in BOOLEAN
         /\ k.doomed \in BOOLEAN /\ k.shut \in BOOLEAN
BY DEF Sound, ConnectionTo

(* What is durable stays durable.                                          *)
LEMMA SoundGrows ==
  ASSUME NEW h \in Nat, NEW k \in Sound(h)
  PROVE  k \in Sound(h + 1)
<1>1. 0..h \subseteq 0..(h + 1)
  OBVIOUS
<1>2. MessagesTo(h) \subseteq MessagesTo(h + 1)
  BY <1>1 DEF MessagesTo
<1>3. \A q \in Seq(MessagesTo(h)) : q \in Seq(MessagesTo(h + 1))
  BY <1>2, SeqMonotonic
<1>4. \A q \in Seq(0..h) : q \in Seq(0..(h + 1))
  BY <1>1, SeqMonotonic
<1>5. k \in ConnectionTo(h + 1)
  BY <1>1, <1>3, <1>4 DEF Sound, ConnectionTo
<1> QED BY <1>5 DEF Sound

LEMMA FreshSound ==
  ASSUME NEW h \in Nat
  PROVE  Fresh \in Sound(h)
<1>1. <<>> \in Seq(MessagesTo(h)) /\ <<>> \in Seq(0..h) /\ Len(<<>>) = 0
  BY EmptySeq
<1> QED BY <1>1, HubAssumption DEF Fresh, Sound, ConnectionTo, Stages

(* A connection with another queue, another revision.                      *)
LEMMA QueueOnly ==
  ASSUME NEW h \in Nat, NEW k \in Sound(h),
         NEW q \in Seq(MessagesTo(h)), Len(q) <= QueueCap
  PROVE  [k EXCEPT !.queue = q] \in Sound(h)
BY DEF Sound, ConnectionTo

LEMMA QueueAndRevision ==
  ASSUME NEW h \in Nat, NEW k \in Sound(h),
         NEW q \in Seq(MessagesTo(h)), Len(q) <= QueueCap, NEW r \in 0..h
  PROVE  [k EXCEPT !.queue = q, !.rev = r] \in Sound(h)
BY DEF Sound, ConnectionTo

(* A connection whose handler has moved on, with something in hand or not. *)
LEMMA MovedSound ==
  ASSUME NEW h \in Nat, NEW k \in Sound(h), NEW a \in Stages
  PROVE  /\ [k EXCEPT !.at = a] \in Sound(h)
         /\ [k EXCEPT !.at = a, !.doomed = TRUE] \in Sound(h)
         /\ [k EXCEPT !.doomed = TRUE, !.at = a] \in Sound(h)
BY DEF Sound, ConnectionTo

LEMMA HoldingSound ==
  ASSUME NEW h \in Nat, NEW k \in Sound(h), NEW a \in Stages, NEW x \in 0..h
  PROVE  /\ [k EXCEPT !.held = x] \in Sound(h)
         /\ [k EXCEPT !.at = a, !.held = x] \in Sound(h)
BY DEF Sound, ConnectionTo

LEMMA MarkedSound ==
  ASSUME NEW h \in Nat, NEW k \in Sound(h)
  PROVE  /\ [k EXCEPT !.doomed = TRUE] \in Sound(h)
         /\ [k EXCEPT !.ready = FALSE, !.doomed = TRUE] \in Sound(h)
         /\ [k EXCEPT !.valid = FALSE] \in Sound(h)
BY DEF Sound, ConnectionTo

LEMMA ToldSound ==
  ASSUME NEW h \in Nat, NEW k \in Sound(h), NEW t \in SUBSET Users
  PROVE  [k EXCEPT !.told = t] \in Sound(h)
BY DEF Sound, ConnectionTo

LEMMA ReturnedSound ==
  ASSUME NEW h \in Nat, NEW k \in Sound(h)
  PROVE  Returned(k) \in Sound(h)
<1>1. [k EXCEPT !.at = "ending", !.doomed = TRUE] \in Sound(h)
  <2>1. "ending" \in Stages
    BY DEF Stages
  <2> QED BY <2>1, MovedSound, Zenon
<1>2. CASE k.shut
  BY <1>2, FreshSound DEF Returned
<1>3. CASE ~k.shut
  BY <1>1, <1>3 DEF Returned
<1> QED BY <1>2, <1>3

LEMMA PutSound ==
  ASSUME NEW h \in Nat, NEW k \in Sound(h), NEW s \in Seq(MessagesTo(h))
  PROVE  Put(k, s) \in Sound(h)
<1> DEFINE sent == SubSeq(s, 1, Smaller(Room(k), Len(s)))
<1>1. /\ sent \in Seq(MessagesTo(h)) /\ Len(sent) <= Room(k) /\ Len(sent) \in Nat
      /\ k.queue \in Seq(MessagesTo(h)) /\ Len(k.queue) \in Nat
      /\ Room(k) = QueueCap - Len(k.queue)
  BY SoundColumns, Fitting
<1> HIDE DEF sent
<1>2. k.queue \o sent \in Seq(MessagesTo(h)) /\ Len(k.queue \o sent) <= QueueCap
  BY <1>1, Joined, HubAssumption
<1>3. Put(k, s) = [k EXCEPT !.queue = k.queue \o sent]
  BY DEF Put, sent
<1> QED BY <1>2, <1>3, QueueOnly, Zenon

LEMMA PutEventsSound ==
  ASSUME NEW h \in Nat, NEW k \in Sound(h), NEW run \in Seq(0..h)
  PROVE  PutEvents(k, run) \in Sound(h)
<1> DEFINE news == After(run, k.rev)
           sent == SubSeq(news, 1, Smaller(Room(k), Len(news)))
           shown == [i \in 1..Len(sent) |-> Message("event", sent[i])]
           last == IF sent = <<>> THEN k.rev ELSE sent[Len(sent)]
           slow == k.doomed \/ Len(news) > Room(k)
<1>1. /\ k.queue \in Seq(MessagesTo(h)) /\ Len(k.queue) \in Nat
      /\ Room(k) = QueueCap - Len(k.queue) /\ Room(k) \in Nat
      /\ k.rev \in 0..h
  BY SoundColumns
<1>2. news \in Seq(0..h)
  BY <1>1, AfterType
<1> HIDE DEF news
<1>3. sent \in Seq(0..h) /\ Len(sent) \in Nat /\ Len(sent) <= Room(k)
  BY <1>1, <1>2, Fitting
<1> HIDE DEF sent
<1>4. \A i \in 1..Len(sent) : Message("event", sent[i]) \in MessagesTo(h)
  BY <1>3, ElementOfSeq DEF Message, MessagesTo, Kinds
<1>5. shown \in [1..Len(sent) -> MessagesTo(h)]
  BY <1>4
<1>6. shown \in Seq(MessagesTo(h)) /\ Len(shown) = Len(sent)
  BY <1>3, <1>5, SeqDef, LenProperties
<1> HIDE DEF shown
<1>7. k.queue \o shown \in Seq(MessagesTo(h)) /\ Len(k.queue \o shown) <= QueueCap
  BY <1>1, <1>3, <1>6, Joined, HubAssumption
<1>8. last \in 0..h
  BY <1>1, <1>3, EmptySeq, ElementOfSeq
<1>9. slow \in BOOLEAN
  OBVIOUS
<1>10. PutEvents(k, run) = [k EXCEPT !.queue = k.queue \o shown, !.rev = last, !.doomed = slow]
  BY DEF PutEvents, news, sent, shown
<1> DEFINE q == k.queue \o shown
<1> HIDE DEF last, slow, q
<1>11. [k EXCEPT !.queue = q, !.rev = last, !.doomed = slow] \in Sound(h)
  BY <1>7, <1>8, <1>9 DEF Sound, ConnectionTo, q
<1> QED BY <1>10, <1>11 DEF q

LEMMA HoldSound ==
  ASSUME NEW h \in Nat, NEW k \in Sound(h), NEW run \in Seq(0..h)
  PROVE  Hold(k, run) \in Sound(h)
<1> DEFINE room == PendingCap - Len(k.pending)
           kept == Smaller(room, Len(run))
           slow == k.doomed \/ kept < Len(run)
<1>1. room \in Nat /\ k.pending \in Seq(0..h) /\ Len(k.pending) \in Nat
  BY SoundColumns, HubAssumption
<1>2. /\ SubSeq(run, 1, kept) \in Seq(0..h)
      /\ Len(SubSeq(run, 1, kept)) <= room /\ Len(SubSeq(run, 1, kept)) \in Nat
  <2> HIDE DEF room
  <2> QED BY <1>1, Fitting
<1> DEFINE more == SubSeq(run, 1, kept)
<1> HIDE DEF kept
<1> HIDE DEF more
<1>3. k.pending \o more \in Seq(0..h) /\ Len(k.pending \o more) <= PendingCap
  BY <1>1, <1>2, Joined, HubAssumption DEF more
<1>4. slow \in BOOLEAN
  OBVIOUS
<1>5. Hold(k, run) = [k EXCEPT !.pending = k.pending \o more, !.doomed = slow]
  BY DEF Hold, kept, more
<1> DEFINE q == k.pending \o more
<1> HIDE DEF slow, q
<1>6. [k EXCEPT !.pending = q, !.doomed = slow] \in Sound(h)
  BY <1>3, <1>4 DEF Sound, ConnectionTo, q
<1> QED BY <1>5, <1>6 DEF q

LEMMA PutStateSound ==
  ASSUME NEW h \in Nat, NEW k \in Sound(h), NEW s \in 0..h, Room(k) >= 1
  PROVE  PutState(k, s) \in Sound(h)
<1>1. Message("snapshot", s) \in MessagesTo(h)
  BY DEF Message, MessagesTo, Kinds
<1>2. /\ k.queue \in Seq(MessagesTo(h)) /\ Len(k.queue) \in Nat
      /\ Room(k) = QueueCap - Len(k.queue)
  BY SoundColumns
<1>3. /\ Append(k.queue, Message("snapshot", s)) \in Seq(MessagesTo(h))
      /\ Len(Append(k.queue, Message("snapshot", s))) = Len(k.queue) + 1
  BY <1>1, <1>2, AppendProperties
<1>4. Len(Append(k.queue, Message("snapshot", s))) <= QueueCap
  BY <1>2, <1>3, HubAssumption
<1>5. PutState(k, s) = [k EXCEPT !.queue = Append(k.queue, Message("snapshot", s)), !.rev = s]
  BY DEF PutState
<1>6. [k EXCEPT !.queue = Append(k.queue, Message("snapshot", s)), !.rev = s] \in Sound(h)
  BY <1>3, <1>4, QueueAndRevision, Zenon
<1> QED BY <1>5, <1>6

LEMMA ResnapshotSound ==
  ASSUME NEW h \in Nat, NEW k \in Sound(h), NEW s \in 0..h
  PROVE  Resnapshot(k, s) \in Sound(h)
<1>1. CASE k.rev >= s
  BY <1>1 DEF Resnapshot
<1>2. CASE ~(k.rev >= s) /\ StateFits(k, s)
  BY <1>2, PutStateSound DEF Resnapshot, StateFits
<1>3. CASE ~(k.rev >= s) /\ ~StateFits(k, s)
  <2>1. [k EXCEPT !.ready = FALSE, !.doomed = TRUE] \in Sound(h)
    BY MarkedSound
  <2> QED BY <1>3, <2>1 DEF Resnapshot
<1> QED BY <1>1, <1>2, <1>3

LEMMA NotesType ==
  ASSUME NEW h \in Nat, NEW n \in Nat
  PROVE  /\ <<NoticeMessage>> \in Seq(MessagesTo(h))
         /\ [i \in 1..n |-> NoticeMessage] \in Seq(MessagesTo(h))
<1>1. NoticeMessage \in MessagesTo(h)
  BY DEF NoticeMessage, Message, MessagesTo, Kinds
<1>2. [i \in 1..n |-> NoticeMessage] \in [1..n -> MessagesTo(h)]
  BY <1>1
<1>3. [i \in 1..n |-> NoticeMessage] \in Seq(MessagesTo(h))
  BY <1>2, SeqDef
<1> QED BY <1>1, <1>3

LEMMA ReplaySound ==
  ASSUME NEW h \in Nat, NEW k \in Sound(h), NEW s \in 0..h
  PROVE  Replay(k, s) \in Sound(h)
<1> DEFINE caught == PutEvents(k, After(k.pending, s))
           full == caught.doomed /\ ~k.doomed
           notes == [i \in 1..Cardinality(k.told) |-> NoticeMessage]
           queued == ~full /\ Len(notes) <= Room(caught)
           out == Put(caught, IF full THEN <<>> ELSE notes)
           slow == out.doomed \/ ~queued
<1>1. k.pending \in Seq(0..h) /\ k.told \in SUBSET Users
  BY SoundColumns
<1>2. caught \in Sound(h)
  BY <1>1, AfterType, PutEventsSound
<1> HIDE DEF caught
<1>3. Cardinality(k.told) \in Nat
  BY <1>1, FS_Subset, FS_CardinalityType, HubAssumption
<1>4. notes \in Seq(MessagesTo(h)) /\ <<>> \in Seq(MessagesTo(h))
  BY <1>3, NotesType, EmptySeq
<1> HIDE DEF notes
<1>5. out \in Sound(h)
  BY <1>2, <1>4, PutSound
<1>6. <<>> \in Seq(0..h) /\ Len(<<>>) = 0
  BY EmptySeq
<1>7. queued \in BOOLEAN /\ slow \in BOOLEAN /\ {} \in SUBSET Users /\ "reading" \in Stages
  BY DEF Stages
<1>8. Replay(k, s) = [out EXCEPT !.pending = <<>>, !.told = {}, !.ready = queued,
                                 !.at = "reading", !.doomed = slow]
  BY DEF Replay, caught, notes
<1> HIDE DEF out, queued, slow
<1>9. [out EXCEPT !.pending = <<>>, !.told = {}, !.ready = queued,
                  !.at = "reading", !.doomed = slow] \in Sound(h)
  <2> DEFINE none == <<>>
             new == [out EXCEPT !.pending = none, !.told = {}, !.ready = queued,
                                !.at = "reading", !.doomed = slow]
  <2> HIDE DEF none
  <2>1. none \in Seq(0..h) /\ Len(none) <= PendingCap
    BY <1>6, HubAssumption DEF none
  <2>2. new \in ConnectionTo(h)
    BY <1>5, <1>7, <2>1 DEF Sound, ConnectionTo
  <2>3. new.queue = out.queue /\ new.pending = none
    BY <1>5 DEF Sound, ConnectionTo
  <2>4. Len(out.queue) <= QueueCap
    BY <1>5, SoundColumns
  <2> HIDE DEF new
  <2>5. new \in Sound(h)
    BY <2>1, <2>2, <2>3, <2>4 DEF Sound
  <2> QED BY <2>5 DEF new, none
<1> QED BY <1>8, <1>9

-----------------------------------------------------------------------------
(* The invariant.                                                          *)

Bounds ==
  /\ head \in 0..MaxRevision /\ outside \in 0..head
  /\ members \subseteq Conns
  /\ published \in 0..head /\ events \in SUBSET (1..head)
  /\ conn \in [Conns -> Sound(head)]
  /\ link \in [Users -> Conns \cup {None}]
  /\ view \in [Users -> 0..head]
  /\ sweeping \in SUBSET Users
  /\ notices \in 0..NoticeLimit /\ revocations \in 0..RevokeLimit

Flags == closed \in BOOLEAN /\ stopped \in BOOLEAN

LEMMA BoundsGiveTypes == Bounds /\ Flags => TypeOK
<1> SUFFICES ASSUME Bounds, Flags PROVE TypeOK
  OBVIOUS
<1>1. head \in Nat /\ 0..head \subseteq 0..MaxRevision /\ 1..head \subseteq 1..MaxRevision
  BY HubAssumption DEF Bounds
<1>2. MessagesTo(head) \subseteq Messages
  BY <1>1 DEF MessagesTo, Messages
<1>3. \A q \in Seq(MessagesTo(head)) : q \in Seq(Messages)
  BY <1>2, SeqMonotonic
<1>4. \A q \in Seq(0..head) : q \in Seq(0..MaxRevision)
  BY <1>1, SeqMonotonic
<1>5. ASSUME NEW k \in Sound(head)
      PROVE  k \in Connection /\ Len(k.queue) <= QueueCap /\ Len(k.pending) <= PendingCap
  <2>1. k \in Connection
    BY <1>1, <1>3, <1>4 DEF Sound, ConnectionTo, Connection
  <2> QED BY <2>1 DEF Sound
<1>6. /\ conn \in [Conns -> Connection]
      /\ \A c \in Conns : /\ Len(conn[c].queue) <= QueueCap
                          /\ Len(conn[c].pending) <= PendingCap
  BY <1>5 DEF Bounds
<1>7. view \in [Users -> 0..MaxRevision]
  BY <1>1 DEF Bounds
<1>8. closed \in BOOLEAN /\ stopped \in BOOLEAN
  BY DEF Flags
<1> QED BY <1>1, <1>6, <1>7, <1>8 DEF Bounds, TypeOK

LEMMA InitBounds == Init => Bounds
<1> SUFFICES ASSUME Init PROVE Bounds
  OBVIOUS
<1>1. conn \in [Conns -> Sound(0)] /\ head = 0
  BY FreshSound DEF Init
<1> QED BY <1>1, HubAssumption DEF Init, Bounds

(* flushPublishedLocked. *)
LEMMA FlushSound ==
  ASSUME NEW h \in Nat, NEW p \in 0..h, NEW ev \in SUBSET (1..h),
         NEW cs \in [Conns -> Sound(h)], Flush(p, ev, cs)
  PROVE  /\ published' \in 0..h /\ events' \in SUBSET (1..h)
         /\ conn' \in [Conns -> Sound(h)]
<1> DEFINE run == Run(p, ev)
<1>1. run \in Seq(0..h) /\ p + Len(run) \in 0..h
  BY RunType
<1> HIDE DEF run
<1>2. \A c \in Conns : /\ cs[c] \in Sound(h)
                       /\ PutEvents(cs[c], run) \in Sound(h)
                       /\ Hold(cs[c], run) \in Sound(h)
  BY <1>1, PutEventsSound, HoldSound
<1>3. conn' = [c \in Conns |->
                 CASE c \notin members -> cs[c]
                   [] c \in members /\ cs[c].ready -> PutEvents(cs[c], run)
                   [] OTHER -> Hold(cs[c], run)]
  BY DEF Flush, run
<1>4. conn' \in [Conns -> Sound(h)]
  BY <1>2, <1>3
<1>5. published' = p + Len(run) /\ events' = {r \in ev : r > p + Len(run)}
  BY DEF Flush, run
<1> QED BY <1>1, <1>4, <1>5

LEMMA PublishSound ==
  ASSUME Bounds, NEW r \in 0..head, NEW cs \in [Conns -> Sound(head)],
         PublishEvent(r, cs)
  PROVE  /\ published' \in 0..head /\ events' \in SUBSET (1..head)
         /\ conn' \in [Conns -> Sound(head)]
<1>1. CASE closed \/ members = {} \/ r <= published
  BY <1>1 DEF PublishEvent, Bounds
<1>2. CASE ~(closed \/ members = {} \/ r <= published)
  <2>1. Flush(published, events \cup {r}, cs)
    BY <1>2 DEF PublishEvent
  <2>2. r > published /\ published \in 0..head /\ head \in Nat /\ events \in SUBSET (1..head)
    BY <1>2, HubAssumption DEF Bounds
  <2>3. events \cup {r} \in SUBSET (1..head)
    BY <2>2
  <2> QED BY <2>1, <2>2, <2>3, FlushSound
<1> QED BY <1>1, <1>2

(* markReady, with the resnapshots of the peers and the replay.            *)
\* What markReady writes once it goes through, its local variables by name.
LEMMA MarkReadyGoesOn ==
  ASSUME NEW c \in Conns, MarkReady(c), members # {}, ~(conn[c].held < published)
  PROVE  LET s == conn[c].held
             cs == Resnapshotted(c, s)
             run == Run(s, {r \in events : r > s})
             mine == Replay(IF c \in members THEN Hold(cs[c], run) ELSE cs[c], s)
         IN /\ published' = s + Len(run)
            /\ events' = {r \in events : r > s + Len(run)}
            /\ conn' = [d \in Conns |->
                          CASE d = c -> IF mine.ready THEN mine ELSE Returned(mine)
                            [] d # c /\ d \in members /\ cs[d].ready
                                 -> PutEvents(cs[d], run)
                            [] d # c /\ d \in members /\ ~cs[d].ready
                                 -> Hold(cs[d], run)
                            [] OTHER -> cs[d]]
<1> DEFINE s == conn[c].held
           ev == {r \in events : r > s}
           Written(cs, run, mine) ==
             /\ published' = s + Len(run)
             /\ events' = {r \in events : r > s + Len(run)}
             /\ conn' = [d \in Conns |->
                           CASE d = c -> IF mine.ready THEN mine ELSE Returned(mine)
                             [] d # c /\ d \in members /\ cs[d].ready
                                  -> PutEvents(cs[d], run)
                             [] d # c /\ d \in members /\ ~cs[d].ready
                                  -> Hold(cs[d], run)
                             [] OTHER -> cs[d]]
<1>1. \E cs \in {Resnapshotted(c, s)}, run \in {Run(s, ev)} :
        \E held \in {IF c \in members THEN Hold(cs[c], run) ELSE cs[c]} :
        \E mine \in {Replay(held, s)} : Written(cs, run, mine)
  BY DEF MarkReady
<1> HIDE DEF Written, s, ev
<1>2. PICK cs \in {Resnapshotted(c, s)}, run \in {Run(s, ev)} :
        \E held \in {IF c \in members THEN Hold(cs[c], run) ELSE cs[c]} :
        \E mine \in {Replay(held, s)} : Written(cs, run, mine)
  BY <1>1
<1>3. PICK held \in {IF c \in members THEN Hold(cs[c], run) ELSE cs[c]} :
        \E mine \in {Replay(held, s)} : Written(cs, run, mine)
  BY <1>2
<1>4. Written(cs, run, Replay(held, s))
  BY <1>3
<1>5. /\ cs = Resnapshotted(c, s) /\ run = Run(s, ev)
      /\ held = IF c \in members THEN Hold(cs[c], run) ELSE cs[c]
  BY <1>2, <1>3
<1> QED BY <1>4, <1>5, Zenon DEF Written, s, ev

LEMMA MarkReadySound ==
  ASSUME Bounds, NEW c \in Conns, MarkReady(c)
  PROVE  /\ published' \in 0..head /\ events' \in SUBSET (1..head)
         /\ conn' \in [Conns -> Sound(head)]
<1> DEFINE s == conn[c].held
<1>1. /\ head \in Nat /\ published \in 0..head /\ events \in SUBSET (1..head)
      /\ conn \in [Conns -> Sound(head)]
  BY HubAssumption DEF Bounds
<1>2. \A d \in Conns : conn[d] \in Sound(head) /\ conn[d].held \in 0..head
  BY <1>1, SoundColumns
<1>3. CASE members = {} /\ Returns(c) /\ UNCHANGED <<published, events>>
  <2>1. Returned(conn[c]) \in Sound(head)
    BY <1>1, <1>2, ReturnedSound
  <2> QED BY <1>1, <1>3, <2>1 DEF Returns
<1>4. CASE /\ conn' = [conn EXCEPT ![c].at = "refreshing"]
           /\ UNCHANGED <<published, events>>
  <2>1. "refreshing" \in Stages
    BY DEF Stages
  <2>2. [conn[c] EXCEPT !.at = "refreshing"] \in Sound(head)
    BY <1>1, <1>2, <2>1, MovedSound, Zenon
  <2> QED BY <1>1, <1>4, <2>2
<1>5. CASE members # {} /\ s >= published
  <2> DEFINE cs == Resnapshotted(c, s)
             later == {r \in events : r > s}
             run == Run(s, later)
             held == IF c \in members THEN Hold(cs[c], run) ELSE cs[c]
  <2>1. \A d \in Conns : Resnapshot(conn[d], s) \in Sound(head)
    BY <1>1, <1>2, ResnapshotSound
  <2>2. cs = [d \in Conns |-> IF d # c /\ d \in members /\ conn[d].ready /\ s > published
                              THEN Resnapshot(conn[d], s) ELSE conn[d]]
    BY DEF Resnapshotted
  <2>3. cs \in [Conns -> Sound(head)]
    BY <1>2, <2>1, <2>2
  <2>4. run \in Seq(0..head) /\ s + Len(run) \in 0..head
    <3>1. later \in SUBSET (1..head) /\ s \in 0..head
      BY <1>1, <1>2
    <3> QED BY <1>1, <3>1, RunType
  <2> HIDE DEF cs, run
  <2>5. \A d \in Conns : /\ cs[d] \in Sound(head)
                         /\ PutEvents(cs[d], run) \in Sound(head)
                         /\ Hold(cs[d], run) \in Sound(head)
    BY <1>1, <2>3, <2>4, PutEventsSound, HoldSound
  <2>6. held \in Sound(head)
    BY <2>5
  <2> HIDE DEF held
  <2>7. Replay(held, s) \in Sound(head)
    BY <1>1, <1>2, <2>6, ReplaySound
  <2>8. Returned(Replay(held, s)) \in Sound(head)
    BY <1>1, <2>7, ReturnedSound
  <2>9. /\ published' = s + Len(run)
        /\ events' = {r \in events : r > s + Len(run)}
        /\ conn' = [d \in Conns |->
                      CASE d = c -> IF Replay(held, s).ready THEN Replay(held, s)
                                                     ELSE Returned(Replay(held, s))
                        [] d # c /\ d \in members /\ cs[d].ready
                             -> PutEvents(cs[d], run)
                        [] d # c /\ d \in members /\ ~cs[d].ready
                             -> Hold(cs[d], run)
                        [] OTHER -> cs[d]]
    <3>1. ~(s < published)
      BY <1>1, <1>2, <1>5
    <3> QED BY <1>5, <3>1, MarkReadyGoesOn, Zenon DEF cs, run, held, later
  <2>10. conn' \in [Conns -> Sound(head)]
    BY <2>5, <2>7, <2>8, <2>9
  <2> QED BY <1>1, <2>4, <2>9, <2>10
<1> QED BY <1>3, <1>4, <1>5 DEF MarkReady

-----------------------------------------------------------------------------
(* Every step keeps to the durable revision.                               *)

(* A step that only gives one connection another value.                    *)
LEMMA OneConnection ==
  ASSUME Bounds, NEW c \in Conns, NEW k \in Sound(head),
         conn' = [conn EXCEPT ![c] = k],
         UNCHANGED <<feed, members, published, events, sweeping, notices, revocations>>,
         link' \in [Users -> Conns \cup {None}], view' \in [Users -> 0..head]
  PROVE  Bounds'
<1>1. conn' \in [Conns -> Sound(head)]
  BY DEF Bounds
<1> QED BY <1>1 DEF Bounds, feed

(* A step that gives every connection a value.                             *)
LEMMA AllConnections ==
  ASSUME Bounds, conn' \in [Conns -> Sound(head)],
         members' \subseteq Conns, UNCHANGED head, outside' \in 0..head,
         published' \in 0..head, events' \in SUBSET (1..head),
         link' \in [Users -> Conns \cup {None}], UNCHANGED view,
         sweeping' \in SUBSET Users,
         notices' \in 0..NoticeLimit, revocations' \in 0..RevokeLimit
  PROVE  Bounds'
BY DEF Bounds

(* A commit that leaves the connections alone.                             *)
LEMMA CommitBounds ==
  ASSUME Bounds, head < MaxRevision, head' = head + 1, outside' \in {outside, head + 1},
         conn' \in [Conns -> Sound(head + 1)],
         UNCHANGED <<match, client, sweeping, notices, revocations>>
  PROVE  Bounds'
<1>1. head \in Nat /\ head' \in 0..MaxRevision
  BY HubAssumption DEF Bounds
<1>2. 0..head \subseteq 0..(head + 1) /\ 1..head \subseteq 1..(head + 1)
  BY <1>1
<1>3. outside' \in 0..head'
  BY <1>1, <1>2 DEF Bounds
<1>4. view' \in [Users -> 0..head']
  BY <1>2 DEF Bounds, client
<1> QED BY <1>1, <1>2, <1>3, <1>4 DEF Bounds, match, client

LEMMA ConnsGrow ==
  ASSUME Bounds
  PROVE  conn \in [Conns -> Sound(head + 1)]
<1>1. head \in Nat
  BY HubAssumption DEF Bounds
<1>2. \A k \in Sound(head) : k \in Sound(head + 1)
  BY <1>1, SoundGrows
<1> QED BY <1>2 DEF Bounds

LEMMA ServeBounds ==
  ASSUME Bounds, NEW c \in Conns,
         \/ \E u \in Users : Accept(c, u)
         \/ Refuse(c) \/ Register(c) \/ Greet(c) \/ Restate(c)
  PROVE  Bounds'
<1>0. /\ head \in Nat /\ conn \in [Conns -> Sound(head)]
      /\ conn[c] \in Sound(head)
      /\ link \in [Users -> Conns \cup {None}] /\ view \in [Users -> 0..head]
  BY HubAssumption DEF Bounds
<1>1. ASSUME NEW u \in Users, Accept(c, u) PROVE Bounds'
  <2> DEFINE k == [Fresh EXCEPT !.user = u, !.at = "serving", !.valid = TRUE]
  <2>1. k \in Sound(head)
    BY <1>0, FreshSound DEF Sound, ConnectionTo, Stages
  <2> HIDE DEF k
  <2> QED BY <1>0, <1>1, <2>1, OneConnection DEF Accept, k, match, admin
<1>2. CASE Refuse(c)
  BY <1>0, <1>2, FreshSound, OneConnection DEF Refuse, match, client, admin
<1>3. CASE Register(c)
  <2>1. \A d \in Conns : [conn[d] EXCEPT !.doomed = TRUE] \in Sound(head)
    BY <1>0, MarkedSound
  <2>2. [conn[c] EXCEPT !.at = "registered"] \in Sound(head)
    <3>1. "registered" \in Stages
      BY DEF Stages
    <3> QED BY <1>0, <3>1, MovedSound, Zenon
  <2>3. conn' \in [Conns -> Sound(head)]
    BY <1>0, <1>3, <2>1, <2>2, FreshSound DEF Register
  <2>4. members' \subseteq Conns
    BY <1>3 DEF Register, Bounds
  <2> QED BY <1>3, <2>3, <2>4, AllConnections DEF Register, Bounds, feed, client, admin
<1>4. CASE Greet(c)
  <2> DEFINE hello == <<NoticeMessage, Message("snapshot", head)>>
             k == [Put(conn[c], hello) EXCEPT !.rev = head, !.held = head, !.at = "readying"]
  <2>1. hello \in Seq(MessagesTo(head))
    BY <1>0 DEF NoticeMessage, Message, MessagesTo, Kinds
  <2> HIDE DEF hello
  <2>2. Put(conn[c], hello) \in Sound(head)
    BY <1>0, <2>1, PutSound
  <2>3. k \in Sound(head)
    <3>1. head \in 0..head /\ "readying" \in Stages
      BY <1>0 DEF Stages
    <3> QED BY <2>2, <3>1 DEF Sound, ConnectionTo
  <2>4. Returned(conn[c]) \in Sound(head)
    BY <1>0, ReturnedSound
  <2> HIDE DEF k
  <2>5. conn' = [conn EXCEPT ![c] = Returned(conn[c])] \/ conn' = [conn EXCEPT ![c] = k]
    BY <1>4 DEF Greet, Returns, k, hello
  <2> QED BY <1>0, <1>4, <2>3, <2>4, <2>5, OneConnection DEF Greet, match, client, admin
<1>5. CASE Restate(c)
  <2> DEFINE k == [PutState(conn[c], head) EXCEPT !.held = head, !.at = "readying"]
  <2>1. Returned(conn[c]) \in Sound(head)
    BY <1>0, ReturnedSound
  <2>2. CASE conn' = [conn EXCEPT ![c] = Returned(conn[c])]
    BY <1>0, <1>5, <2>1, <2>2, OneConnection DEF Restate, match, client, admin
  <2>3. CASE StateFits(conn[c], head) /\ conn' = [conn EXCEPT ![c] = k]
    <3>1. PutState(conn[c], head) \in Sound(head)
      BY <1>0, <2>3, PutStateSound DEF StateFits
    <3>2. k \in Sound(head)
      <4>1. head \in 0..head /\ "readying" \in Stages
        BY <1>0 DEF Stages
      <4> QED BY <3>1, <4>1 DEF Sound, ConnectionTo
    <3> HIDE DEF k
    <3> QED BY <1>0, <1>5, <2>3, <3>2, OneConnection DEF Restate, match, client, admin
  <2> QED BY <1>5, <2>2, <2>3 DEF Restate, Returns
<1> QED BY <1>1, <1>2, <1>3, <1>4, <1>5

LEMMA ReadBounds ==
  ASSUME Bounds, NEW c \in Conns,
         \/ ReadFails(c) \/ Unauthorized(c) \/ Act(c) \/ Repeat(c)
         \/ Reject(c) \/ Request(c) \/ Answer(c)
  PROVE  Bounds'
<1>0. /\ head \in Nat /\ conn \in [Conns -> Sound(head)]
      /\ conn[c] \in Sound(head) /\ conn[c].held \in 0..head
      /\ head \in 0..head
      /\ link \in [Users -> Conns \cup {None}] /\ view \in [Users -> 0..head]
  <2>1. head \in Nat /\ conn \in [Conns -> Sound(head)] /\ conn[c] \in Sound(head)
    BY HubAssumption DEF Bounds
  <2>2. conn[c].held \in 0..head
    BY <2>1, SoundColumns
  <2> QED BY <2>1, <2>2 DEF Bounds
<1>1. CASE ReadFails(c) \/ Unauthorized(c)
  <2>1. Returned(conn[c]) \in Sound(head)
    BY <1>0, ReturnedSound
  <2> QED BY <1>0, <1>1, <2>1, OneConnection
         DEF ReadFails, Unauthorized, Returns, match, client, admin
<1>2. CASE Act(c)
  <2> DEFINE k == [conn[c] EXCEPT !.at = "publishing", !.held = head + 1]
  <2>1. k \in Sound(head + 1)
    <3>1. "publishing" \in Stages /\ head + 1 \in 0..(head + 1) /\ head + 1 \in Nat
      BY <1>0 DEF Stages
    <3>2. conn[c] \in Sound(head + 1)
      BY <1>0, SoundGrows
    <3> QED BY <3>1, <3>2, HoldingSound, Zenon
  <2>2. conn' = [conn EXCEPT ![c] = k]
    BY <1>2 DEF Act
  <2> HIDE DEF k
  <2>3. conn' \in [Conns -> Sound(head + 1)]
    BY <2>1, <2>2, ConnsGrow
  <2> QED BY <1>2, <2>3, CommitBounds DEF Act, admin
<1>3. CASE Repeat(c)
  <2>1. PICK r \in 1..head :
          conn' = [conn EXCEPT ![c] = [conn[c] EXCEPT !.at = "publishing", !.held = r]]
    BY <1>3 DEF Repeat
  <2>2. [conn[c] EXCEPT !.at = "publishing", !.held = r] \in Sound(head)
    <3>1. "publishing" \in Stages /\ r \in 0..head
      BY <1>0 DEF Stages
    <3> QED BY <1>0, <3>1, HoldingSound, Zenon
  <2> QED BY <1>0, <1>3, <2>1, <2>2, OneConnection DEF Repeat, match, client, admin
<1>4. CASE Reject(c)
  <2>1. Put(conn[c], <<NoticeMessage>>) \in Sound(head)
    <3>1. <<NoticeMessage>> \in Seq(MessagesTo(head))
      BY <1>0, NotesType
    <3> QED BY <1>0, <3>1, PutSound
  <2>2. [conn[c] EXCEPT !.doomed = TRUE] \in Sound(head)
    BY <1>0, MarkedSound
  <2>3. \/ conn' = [conn EXCEPT ![c] = Put(conn[c], <<NoticeMessage>>)]
        \/ conn' = [conn EXCEPT ![c] = [conn[c] EXCEPT !.doomed = TRUE]]
    BY <1>4 DEF Reject
  <2> QED BY <1>0, <1>4, <2>1, <2>2, <2>3, OneConnection DEF Reject, match, client, admin
<1>5. CASE Request(c)
  <2>1. [conn[c] EXCEPT !.at = "answering", !.held = head] \in Sound(head)
    <3>1. "answering" \in Stages
      BY DEF Stages
    <3> QED BY <1>0, <3>1, HoldingSound, Zenon
  <2>2. conn' = [conn EXCEPT ![c] = [conn[c] EXCEPT !.at = "answering", !.held = head]]
    BY <1>5 DEF Request
  <2> QED BY <1>0, <1>5, <2>1, <2>2, OneConnection DEF Request, match, client, admin
<1>6. CASE Answer(c)
  <2>1. PICK apology \in {<<>>, <<NoticeMessage>>} :
          LET k == conn[c] IN
          conn' = [conn EXCEPT ![c] =
            IF StateStale(k, k.held) /\ ~k.shut THEN [k EXCEPT !.held = head]
            ELSE IF StateStale(k, k.held) THEN [k EXCEPT !.at = "reading"]
            ELSE IF Room(k) < Len(apology) + 1 THEN [k EXCEPT !.doomed = TRUE, !.at = "reading"]
            ELSE [PutState(Put(k, apology), k.held) EXCEPT !.at = "reading"]]
    BY <1>6 DEF Answer
  <2>2. "reading" \in Stages
    BY DEF Stages
  <2>3. /\ [conn[c] EXCEPT !.at = "reading"] \in Sound(head)
        /\ [conn[c] EXCEPT !.doomed = TRUE, !.at = "reading"] \in Sound(head)
    BY <1>0, <2>2, MovedSound, Zenon
  <2>4. [conn[c] EXCEPT !.held = head] \in Sound(head)
    BY <1>0, <2>2, HoldingSound, Zenon
  <2>5. ASSUME ~(Room(conn[c]) < Len(apology) + 1)
        PROVE  [PutState(Put(conn[c], apology), conn[c].held) EXCEPT !.at = "reading"] \in Sound(head)
    <3>1. apology \in Seq(MessagesTo(head)) /\ Len(apology) \in Nat
      BY <1>0, NotesType, EmptySeq, LenProperties
    <3>2. Put(conn[c], apology) \in Sound(head)
      BY <1>0, <3>1, PutSound
    <3>3. Room(Put(conn[c], apology)) >= 1
      <4> DEFINE k == conn[c]
                 sent == SubSeq(apology, 1, Smaller(Room(k), Len(apology)))
      <4>1. /\ k.queue \in Seq(MessagesTo(head)) /\ Len(k.queue) \in Nat
            /\ Room(k) \in Nat /\ Room(k) = QueueCap - Len(k.queue)
        BY <1>0, SoundColumns
      <4>2. sent \in Seq(MessagesTo(head)) /\ Len(sent) \in Nat /\ Len(sent) <= Len(apology)
        <5> DEFINE room == Room(k)
                   fits == SubSeq(apology, 1, Smaller(room, Len(apology)))
        <5>1. room \in Nat
          BY <4>1
        <5>2. sent = fits
          OBVIOUS
        <5> HIDE DEF room, sent, k
        <5>3. fits \in Seq(MessagesTo(head)) /\ Len(fits) \in Nat /\ Len(fits) <= Len(apology)
          <6>1. /\ fits \in Seq(MessagesTo(head)) /\ Len(fits) = Smaller(room, Len(apology))
                /\ Smaller(room, Len(apology)) \in Nat
                /\ Smaller(room, Len(apology)) <= Len(apology)
            BY ONLY <3>1, <5>1, Fitting
          <6> QED BY <6>1
        <5> QED BY <5>2, <5>3
      <4>3. Put(k, apology) = [k EXCEPT !.queue = k.queue \o sent]
        BY DEF Put
      <4> HIDE DEF sent
      <4>4. Len(k.queue \o sent) = Len(k.queue) + Len(sent)
        BY <4>1, <4>2, ConcatProperties
      <4>5. Put(k, apology).queue = k.queue \o sent
        BY <1>0, <4>3 DEF Sound, ConnectionTo
      <4> QED BY <2>5, <3>1, <4>1, <4>2, <4>4, <4>5, HubAssumption DEF Room
    <3>4. PutState(Put(conn[c], apology), conn[c].held) \in Sound(head)
      BY <1>0, <3>2, <3>3, PutStateSound
    <3> QED BY <1>0, <2>2, <3>4, MovedSound, Zenon
  <2>6. PICK k \in Sound(head) : conn' = [conn EXCEPT ![c] = k]
    BY <2>1, <2>3, <2>4, <2>5
  <2> QED BY <1>0, <1>6, <2>6, OneConnection DEF Answer, match, client, admin
<1> QED BY <1>1, <1>2, <1>3, <1>4, <1>5, <1>6

LEMMA DeliverBounds ==
  ASSUME Bounds, NEW c \in Conns,
         \/ MarkReady(c) \/ Publish(c) \/ Write(c) \/ Heartbeat(c)
         \/ TransportFails(c) \/ Close(c)
  PROVE  Bounds'
<1>0. /\ head \in Nat /\ conn \in [Conns -> Sound(head)]
      /\ conn[c] \in Sound(head) /\ conn[c].held \in 0..head
      /\ link \in [Users -> Conns \cup {None}] /\ view \in [Users -> 0..head]
  <2>1. head \in Nat /\ conn \in [Conns -> Sound(head)] /\ conn[c] \in Sound(head)
    BY HubAssumption DEF Bounds
  <2>2. conn[c].held \in 0..head
    BY <2>1, SoundColumns
  <2> QED BY <2>1, <2>2 DEF Bounds
<1>1. CASE MarkReady(c)
  <2>1. UNCHANGED <<feed, members, client, admin>>
    BY <1>1 DEF MarkReady
  <2> QED BY <1>1, <2>1, MarkReadySound, AllConnections DEF Bounds, feed, client, admin
<1>2. CASE Publish(c)
  <2> DEFINE cs == [conn EXCEPT ![c].at = "reading"]
  <2>1. [conn[c] EXCEPT !.at = "reading"] \in Sound(head)
    <3>1. "reading" \in Stages
      BY DEF Stages
    <3> QED BY <1>0, <3>1, MovedSound, Zenon
  <2>2. cs \in [Conns -> Sound(head)]
    BY <1>0, <2>1
  <2>3. PublishEvent(conn[c].held, cs) /\ UNCHANGED <<feed, members, client, admin>>
    BY <1>2 DEF Publish
  <2> HIDE DEF cs
  <2>4. /\ published' \in 0..head /\ events' \in SUBSET (1..head)
        /\ conn' \in [Conns -> Sound(head)]
    BY <1>0, <2>2, <2>3, PublishSound
  <2> QED BY <2>3, <2>4, AllConnections DEF Bounds, feed, client, admin
<1>3. CASE Write(c)
  <2> DEFINE q == Tail(conn[c].queue)
             m == Head(conn[c].queue)
             u == conn[c].user
  <2>1. /\ conn[c].queue \in Seq(MessagesTo(head)) /\ conn[c].queue # <<>>
        /\ Len(conn[c].queue) <= QueueCap /\ Len(conn[c].queue) \in Nat
    BY <1>0, <1>3, SoundColumns DEF Write
  <2>2. /\ m \in MessagesTo(head) /\ q \in Seq(MessagesTo(head))
        /\ Len(q) = Len(conn[c].queue) - 1
    BY <2>1, HeadTailProperties
  <2>3. Len(q) <= QueueCap
    BY <2>1, <2>2, HubAssumption
  <2>4. conn' = [conn EXCEPT ![c] = [conn[c] EXCEPT !.queue = q]]
    BY <1>3 DEF Write
  <2>5. m.rev \in 0..head
    BY <2>2 DEF MessagesTo
  <2>6. \/ view' = [view EXCEPT ![u] = m.rev] /\ UNCHANGED link
        \/ link' = [link EXCEPT ![u] = None] /\ UNCHANGED view
        \/ UNCHANGED <<link, view>>
    BY <1>3 DEF Write, client
  <2> HIDE DEF q, m, u
  <2>7. [conn[c] EXCEPT !.queue = q] \in Sound(head)
    BY <1>0, <2>2, <2>3, QueueOnly, Zenon
  <2>8. link' \in [Users -> Conns \cup {None}] /\ view' \in [Users -> 0..head]
    BY <1>0, <2>5, <2>6
  <2> QED BY <1>3, <2>4, <2>7, <2>8, OneConnection DEF Write, match, admin
<1>4. CASE Heartbeat(c) \/ TransportFails(c)
  <2>1. [conn[c] EXCEPT !.doomed = TRUE] \in Sound(head)
    BY <1>0, MarkedSound
  <2>2. conn' = [conn EXCEPT ![c] = [conn[c] EXCEPT !.doomed = TRUE]]
    BY <1>4 DEF Heartbeat, TransportFails
  <2> QED BY <1>0, <1>4, <2>1, <2>2, OneConnection
         DEF Heartbeat, TransportFails, match, client, admin
<1>5. CASE Close(c)
  <2> DEFINE k == [conn[c] EXCEPT !.shut = TRUE, !.queue = <<>>]
  <2>1. k \in Sound(head)
    <3> DEFINE none == <<>>
               new == [conn[c] EXCEPT !.shut = TRUE, !.queue = none]
    <3>1. none \in Seq(MessagesTo(head)) /\ Len(none) <= QueueCap
      BY EmptySeq, HubAssumption
    <3> HIDE DEF none
    <3>2. new \in ConnectionTo(head)
      BY <1>0, <3>1 DEF Sound, ConnectionTo
    <3>3. new.queue = none /\ new.pending = conn[c].pending
      BY <1>0 DEF Sound, ConnectionTo
    <3>4. Len(conn[c].pending) <= PendingCap
      BY <1>0, SoundColumns
    <3> HIDE DEF new
    <3>5. new \in Sound(head)
      BY <3>1, <3>2, <3>3, <3>4 DEF Sound
    <3> QED BY <3>5 DEF new, none
  <2>2. conn' = [conn EXCEPT ![c] = IF conn[c].at = "ending" THEN Fresh ELSE k]
    BY <1>5 DEF Close
  <2> HIDE DEF k
  <2>3. conn' \in [Conns -> Sound(head)]
    BY <1>0, <2>1, <2>2, FreshSound
  <2>4. published' \in 0..head /\ events' \in SUBSET (1..head) /\ members' \subseteq Conns
    BY <1>0, <1>5 DEF Close, Bounds
  <2> QED BY <1>5, <2>3, <2>4, AllConnections DEF Close, Bounds, feed, client, admin
<1> QED BY <1>1, <1>2, <1>3, <1>4, <1>5

LEMMA OutsideBounds ==
  ASSUME Bounds, CancelCommit \/ AbandonCommit \/ PublishOutside
  PROVE  Bounds'
<1>0. head \in Nat /\ conn \in [Conns -> Sound(head)] /\ outside \in 0..head
  BY HubAssumption DEF Bounds
<1>1. CASE CancelCommit
  <2>1. head' = head + 1 /\ outside' = head + 1 /\ head < MaxRevision
    BY <1>1 DEF CancelCommit
  <2>2. conn' \in [Conns -> Sound(head + 1)]
    BY <1>1, ConnsGrow DEF CancelCommit
  <2> QED BY <1>1, <2>1, <2>2, CommitBounds DEF CancelCommit, admin
<1>2. CASE AbandonCommit
  <2>1. conn' \in [Conns -> Sound(head + 1)]
    BY <1>2, ConnsGrow DEF AbandonCommit
  <2> QED BY <1>2, <2>1, CommitBounds DEF AbandonCommit, admin
<1>3. CASE PublishOutside
  <2>1. /\ published' \in 0..head /\ events' \in SUBSET (1..head)
        /\ conn' \in [Conns -> Sound(head)]
    BY <1>0, <1>3, PublishSound DEF PublishOutside
  <2>2. outside' \in 0..head /\ UNCHANGED <<head, members, client, admin>>
    BY <1>0, <1>3 DEF PublishOutside
  <2> QED BY <2>1, <2>2, AllConnections DEF Bounds, client, admin
<1> QED BY <1>1, <1>2, <1>3

LEMMA PlayerBounds ==
  ASSUME Bounds, NEW u \in Users,
         PresenceChanged(u) \/ Hangup(u) \/ Notice(u) \/ Revoke(u) \/ Sweep(u)
  PROVE  Bounds'
<1>0. /\ head \in Nat /\ conn \in [Conns -> Sound(head)]
      /\ \A c \in Conns : conn[c] \in Sound(head)
      /\ notices \in 0..NoticeLimit /\ revocations \in 0..RevokeLimit
      /\ sweeping \in SUBSET Users
      /\ link \in [Users -> Conns \cup {None}] /\ view \in [Users -> 0..head]
  BY HubAssumption DEF Bounds
<1>1. CASE PresenceChanged(u)
  <2>1. \A c \in Conns : Put(conn[c], <<NoticeMessage>>) \in Sound(head)
    <3>1. <<NoticeMessage>> \in Seq(MessagesTo(head))
      BY <1>0, NotesType
    <3> QED BY <1>0, <3>1, PutSound
  <2>2. \A c \in Conns : [conn[c] EXCEPT !.ready = FALSE, !.doomed = TRUE] \in Sound(head)
    BY <1>0, MarkedSound
  <2>3. ASSUME NEW c \in Conns
        PROVE  [conn[c] EXCEPT !.told = conn[c].told \cup {u}] \in Sound(head)
    <3>1. conn[c].told \cup {u} \in SUBSET Users
      BY <1>0, SoundColumns
    <3> QED BY <1>0, <3>1, ToldSound, Zenon
  <2>4. conn' = [c \in Conns |->
          CASE c \notin members -> conn[c]
            [] c \in members /\ ~conn[c].ready -> [conn[c] EXCEPT !.told = conn[c].told \cup {u}]
            [] c \in members /\ conn[c].ready /\ Room(conn[c]) >= 1
                 -> Put(conn[c], <<NoticeMessage>>)
            [] OTHER -> [conn[c] EXCEPT !.ready = FALSE, !.doomed = TRUE]]
    BY <1>1 DEF PresenceChanged
  <2>5. conn' \in [Conns -> Sound(head)]
    BY <1>0, <2>1, <2>2, <2>3, <2>4
  <2>6. notices' \in 0..NoticeLimit
    <3>1. notices' = notices + 1 /\ notices < NoticeLimit
      BY <1>1 DEF PresenceChanged
    <3> QED BY <1>0, <3>1, HubAssumption
  <2> QED BY <1>1, <2>5, <2>6, AllConnections
         DEF PresenceChanged, Bounds, feed, match, client
<1>2. CASE Hangup(u) \/ Notice(u)
  <2>1. link' \in [Users -> Conns \cup {None}]
    BY <1>0, <1>2 DEF Hangup, Notice
  <2> QED BY <1>2, <2>1, AllConnections DEF Hangup, Notice, Bounds, feed, match, admin
<1>3. CASE Revoke(u)
  <2>1. \A c \in Conns : [conn[c] EXCEPT !.valid = FALSE] \in Sound(head)
    BY <1>0, MarkedSound
  <2>2. conn' \in [Conns -> Sound(head)]
    BY <1>0, <1>3, <2>1 DEF Revoke
  <2>3. revocations' \in 0..RevokeLimit /\ sweeping' \in SUBSET Users
    BY <1>0, <1>3, HubAssumption DEF Revoke
  <2> QED BY <1>3, <2>2, <2>3, AllConnections DEF Revoke, Bounds, feed, match, client
<1>4. CASE Sweep(u)
  <2>1. \A c \in Conns : [conn[c] EXCEPT !.doomed = TRUE] \in Sound(head)
    BY <1>0, MarkedSound
  <2>2. conn' \in [Conns -> Sound(head)]
    BY <1>0, <1>4, <2>1 DEF Sweep
  <2>3. sweeping' \in SUBSET Users
    BY <1>0, <1>4 DEF Sweep
  <2> QED BY <1>4, <2>2, <2>3, AllConnections DEF Sweep, Bounds, feed, match, client
<1> QED BY <1>1, <1>2, <1>3, <1>4

LEMMA ProcessBounds ==
  ASSUME Bounds, Shutdown \/ ShutdownDone \/ Restart
  PROVE  Bounds'
<1>0. /\ head \in Nat /\ conn \in [Conns -> Sound(head)]
      /\ \A c \in Conns : conn[c] \in Sound(head)
  BY HubAssumption DEF Bounds
<1>1. CASE Shutdown
  <2>1. \A c \in Conns : [conn[c] EXCEPT !.doomed = TRUE] \in Sound(head)
    BY <1>0, MarkedSound
  <2>2. conn' \in [Conns -> Sound(head)]
    BY <1>0, <1>1, <2>1 DEF Shutdown
  <2> QED BY <1>1, <2>2, AllConnections DEF Shutdown, Bounds, feed, match, client
<1>2. CASE ShutdownDone
  BY <1>0, <1>2, AllConnections DEF ShutdownDone, Bounds, feed, match, client
<1>3. CASE Restart
  <2>1. conn' \in [Conns -> Sound(head)]
    BY <1>0, <1>3, FreshSound DEF Restart
  <2>2. /\ outside' \in 0..head /\ published' \in 0..head /\ events' \in SUBSET (1..head)
        /\ members' \subseteq Conns /\ link' \in [Users -> Conns \cup {None}]
        /\ sweeping' \in SUBSET Users
    BY <1>0, <1>3 DEF Restart
  <2> QED BY <1>3, <2>1, <2>2, AllConnections DEF Restart, Bounds
<1> QED BY <1>1, <1>2, <1>3

LEMMA StepBounds ==
  ASSUME Bounds, [Next]_vars
  PROVE  Bounds'
<1>1. ASSUME NEW c \in Conns,
             \/ \E u \in Users : Accept(c, u)
             \/ Refuse(c) \/ Handler(c) \/ Incoming(c) \/ Writer(c) \/ Close(c)
      PROVE  Bounds'
  BY <1>1, ServeBounds, ReadBounds, DeliverBounds
     DEF Handler, Handshake, Incoming, Writer
<1>2. CASE UNCHANGED vars
  BY <1>2 DEF vars, Bounds
<1> QED BY <1>1, <1>2, OutsideBounds, PlayerBounds, ProcessBounds DEF Next

LEMMA StepFlags ==
  ASSUME Flags, [Next]_vars
  PROVE  Flags'
<1>1. CASE Shutdown \/ ShutdownDone \/ Restart
  BY <1>1 DEF Flags, Shutdown, ShutdownDone, Restart
<1>2. CASE UNCHANGED <<closed, stopped>>
  BY <1>2 DEF Flags
<1>3. ASSUME NEW c \in Conns,
             \/ \E u \in Users : Accept(c, u)
             \/ Refuse(c) \/ Handler(c) \/ Incoming(c) \/ Writer(c) \/ Close(c)
      PROVE  UNCHANGED <<closed, stopped>>
  BY <1>3 DEF Accept, Refuse, Handler, Handshake, Register, Greet, MarkReady,
     Restate, ReadFails, Answer, Publish, Incoming, Unauthorized, Act, Repeat,
     Reject, Request, Writer, Write, Heartbeat, TransportFails, Close, admin
<1>4. ASSUME NEW u \in Users,
             PresenceChanged(u) \/ Hangup(u) \/ Notice(u) \/ Revoke(u) \/ Sweep(u)
      PROVE  UNCHANGED <<closed, stopped>>
  BY <1>4 DEF PresenceChanged, Hangup, Notice, Revoke, Sweep, admin
<1>5. CASE CancelCommit \/ AbandonCommit \/ PublishOutside
  BY <1>2, <1>5 DEF CancelCommit, AbandonCommit, PublishOutside, admin
<1>6. CASE UNCHANGED vars
  BY <1>2, <1>6 DEF vars
<1> QED BY <1>1, <1>2, <1>3, <1>4, <1>5, <1>6 DEF Next

(* Every message, queue and revision of the hub keeps to its values, and   *)
(* no queue or backlog outgrows its limit (webSocketSendQueueSize and      *)
(* webSocketPendingLimit).                                                 *)
THEOREM TypeCorrect == Spec => []TypeOK
<1>1. Init => Bounds /\ Flags
  BY InitBounds DEF Init, Flags
<1>2. Bounds /\ Flags /\ [Next]_vars => Bounds' /\ Flags'
  BY StepBounds, StepFlags
<1> QED BY <1>1, <1>2, BoundsGiveTypes, PTL DEF Spec

-----------------------------------------------------------------------------
(***************************************************************************)
(* Refinement.  A commit of the hub's match is a commit of the feed; a     *)
(* message that a board takes is a step of the player that follows it; the *)
(* rest is not seen.                                                       *)
(***************************************************************************)
LEMMA WriteFollows ==
  ASSUME Bounds, NEW c \in Conns, Write(c)
  PROVE  [Feed!Next]_Feed!vars
<1> DEFINE u == conn[c].user
           m == Head(conn[c].queue)
<1>1. /\ m.rev \in 0..head /\ head \in Nat /\ view \in [Users -> 0..head]
      /\ UNCHANGED head
  <2>1. conn[c] \in Sound(head) /\ head \in Nat
    BY HubAssumption DEF Bounds
  <2>2. conn[c].queue \in Seq(MessagesTo(head)) /\ conn[c].queue # <<>>
    BY <2>1, SoundColumns DEF Write
  <2>3. m \in MessagesTo(head)
    BY <2>2, HeadTailProperties
  <2> QED BY <2>1, <2>3 DEF MessagesTo, Bounds, Write, feed
<1>2. \/ m.rev >= view[u] /\ view' = [view EXCEPT ![u] = m.rev]
      \/ m.rev = view[u] + 1 /\ view' = [view EXCEPT ![u] = m.rev]
      \/ UNCHANGED view
  BY DEF Write, client
<1> HIDE DEF u, m
<1>3. CASE UNCHANGED view
  BY <1>1, <1>3 DEF Feed!vars
<1>4. CASE view' = [view EXCEPT ![u] = m.rev] /\ u \notin Users
  BY <1>1, <1>4 DEF Feed!vars
<1>5. CASE /\ view' = [view EXCEPT ![u] = m.rev] /\ u \in Users
           /\ m.rev >= view[u] \/ m.rev = view[u] + 1
  <2>1. CASE m.rev = view[u]
    BY <1>1, <1>5, <2>1 DEF Feed!vars
  <2>2. CASE m.rev # view[u]
    <3>1. m.rev \in view[u]+1..head
      BY <1>1, <1>5, <2>2
    <3>2. Feed!Follow(u)
      BY <1>1, <1>5, <3>1 DEF Feed!Follow
    <3> QED BY <1>5, <3>2 DEF Feed!Next
  <2> QED BY <2>1, <2>2
<1> QED BY <1>2, <1>3, <1>4, <1>5

LEMMA StepRefines ==
  ASSUME Bounds, [Next]_vars
  PROVE  [Feed!Next]_Feed!vars
<1>1. CASE head < MaxRevision /\ head' = head + 1 /\ UNCHANGED view
  BY <1>1 DEF Feed!Next, Feed!Commit
<1>2. CASE UNCHANGED <<head, view>>
  BY <1>2 DEF Feed!vars
<1>3. ASSUME NEW c \in Conns, Act(c)
      PROVE  [Feed!Next]_Feed!vars
  BY <1>1, <1>3 DEF Act, client
<1>4. CASE CancelCommit \/ AbandonCommit
  <2>1. head < MaxRevision /\ head' = head + 1 /\ UNCHANGED view
    BY <1>4, HubAssumption DEF CancelCommit, AbandonCommit, client, Bounds
  <2> QED BY <1>1, <2>1
<1>5. ASSUME NEW c \in Conns,
             \/ \E u \in Users : Accept(c, u)
             \/ Refuse(c) \/ Handler(c) \/ Close(c)
             \/ Unauthorized(c) \/ Repeat(c) \/ Reject(c) \/ Request(c)
             \/ Heartbeat(c) \/ TransportFails(c)
      PROVE  UNCHANGED <<head, view>>
  BY <1>5 DEF Accept, Refuse, Handler, Handshake, Register, Greet, MarkReady,
     Restate, ReadFails, Answer, Publish, Unauthorized, Repeat, Reject, Request,
     Heartbeat, TransportFails, Close, feed, client
<1>6. ASSUME NEW u \in Users,
             PresenceChanged(u) \/ Hangup(u) \/ Notice(u) \/ Revoke(u) \/ Sweep(u)
      PROVE  UNCHANGED <<head, view>>
  BY <1>6 DEF PresenceChanged, Hangup, Notice, Revoke, Sweep, feed, client
<1>7. CASE PublishOutside \/ Shutdown \/ ShutdownDone \/ Restart
  BY <1>2, <1>7 DEF PublishOutside, Shutdown, ShutdownDone, Restart, feed, client
<1>8. CASE UNCHANGED vars
  BY <1>2, <1>8 DEF vars
<1> QED BY <1>2, <1>3, <1>4, <1>5, <1>6, <1>7, <1>8, WriteFollows DEF Next, Incoming, Writer

(* The hub implements the feed: a board never runs ahead of what is        *)
(* durable and never goes back, whatever is queued, overtaken, dropped,    *)
(* repeated, revoked or restarted, for any number of connections and any   *)
(* sizes of queues.                                                        *)
THEOREM FeedImplemented == Spec => FeedSpec
<1>1. Init => Feed!Init
  BY DEF Init, Feed!Init
<1>2. Init => Bounds
  BY InitBounds
<1>3. Bounds /\ [Next]_vars => Bounds' /\ [Feed!Next]_Feed!vars
  BY StepBounds, StepRefines
<1> QED BY <1>1, <1>2, <1>3, PTL DEF Spec, FeedSpec, Feed!Spec

-----------------------------------------------------------------------------
(***************************************************************************)
(* What a step does to the connections.                                    *)
(***************************************************************************)
(* A slot nobody uses is fresh, a handler that has not registered has sent *)
(* nothing, and a registered one has neither begun nor been closed.        *)
Slots ==
  \A c \in Conns :
    /\ conn[c].at = "idle" => conn[c] = Fresh
    /\ conn[c].at = "serving" =>
         /\ conn[c].user \in Users /\ ~conn[c].ready /\ ~conn[c].doomed /\ ~conn[c].shut
         /\ conn[c].queue = <<>> /\ conn[c].pending = <<>>
    /\ c \in members =>
         conn[c].at \notin {"idle", "serving"} /\ ~conn[c].shut /\ conn[c].user \in Users

Base == Bounds /\ Flags /\ Slots

(* What a step of another handler may do to a connection: its own handler  *)
(* stays where it is, and nothing reopens.                                 *)
Calm(k, l) ==
  /\ l.user = k.user /\ l.valid = k.valid /\ l.shut = k.shut
  /\ k.doomed => l.doomed
Peer(k, l) == Calm(k, l) /\ l.at = k.at /\ l.held = k.held /\ (l.ready => k.ready)

-----------------------------------------------------------------------------
(* The operators on connections.                                           *)

LEMMA WholeSeq ==
  ASSUME NEW S, NEW s \in Seq(S)
  PROVE  SubSeq(s, 1, Len(s)) = s
OBVIOUS

LEMMA PutIs ==
  ASSUME NEW h \in Nat, NEW k \in Sound(h), NEW s
  PROVE  /\ Peer(k, Put(k, s)) /\ Put(k, s).rev = k.rev /\ Put(k, s).ready = k.ready
         /\ Put(k, s).pending = k.pending /\ Put(k, s).doomed = k.doomed
         /\ Put(k, s).queue = k.queue \o SubSeq(s, 1, Smaller(Room(k), Len(s)))
BY DEF Sound, ConnectionTo, Put, Peer, Calm

LEMMA PutEventsIs ==
  ASSUME NEW h \in Nat, NEW k \in Sound(h), NEW run
  PROVE  /\ Peer(k, PutEvents(k, run)) /\ PutEvents(k, run).ready = k.ready
         /\ PutEvents(k, run).pending = k.pending
         /\ PutEvents(k, run).doomed = (k.doomed \/ Len(After(run, k.rev)) > Room(k))
<1> DEFINE news == After(run, k.rev)
           sent == SubSeq(news, 1, Smaller(Room(k), Len(news)))
           q == k.queue \o [i \in 1..Len(sent) |-> Message("event", sent[i])]
           last == IF sent = <<>> THEN k.rev ELSE sent[Len(sent)]
           slow == k.doomed \/ Len(news) > Room(k)
<1>1. PutEvents(k, run) = [k EXCEPT !.queue = q, !.rev = last, !.doomed = slow]
  BY DEF PutEvents
<1>2. slow \in BOOLEAN /\ (k.doomed => slow)
  OBVIOUS
<1>3. slow = (k.doomed \/ Len(After(run, k.rev)) > Room(k))
  OBVIOUS
<1> HIDE DEF news, sent, q, last, slow
<1> QED BY <1>1, <1>2, <1>3 DEF Sound, ConnectionTo, Peer, Calm

LEMMA HoldIs ==
  ASSUME NEW h \in Nat, NEW k \in Sound(h), NEW run
  PROVE  /\ Peer(k, Hold(k, run)) /\ Hold(k, run).ready = k.ready
         /\ Hold(k, run).rev = k.rev /\ Hold(k, run).queue = k.queue
         /\ Hold(k, run).pending = k.pending
              \o SubSeq(run, 1, Smaller(PendingCap - Len(k.pending), Len(run)))
         /\ Hold(k, run).doomed
              = (k.doomed \/ Smaller(PendingCap - Len(k.pending), Len(run)) < Len(run))
<1> DEFINE kept == Smaller(PendingCap - Len(k.pending), Len(run))
           q == k.pending \o SubSeq(run, 1, kept)
           slow == k.doomed \/ kept < Len(run)
<1>1. Hold(k, run) = [k EXCEPT !.pending = q, !.doomed = slow]
  BY DEF Hold
<1>2. slow \in BOOLEAN /\ (k.doomed => slow)
  OBVIOUS
<1>3. /\ slow = (k.doomed \/ Smaller(PendingCap - Len(k.pending), Len(run)) < Len(run))
      /\ q = k.pending \o SubSeq(run, 1, Smaller(PendingCap - Len(k.pending), Len(run)))
  OBVIOUS
<1> HIDE DEF kept, q, slow
<1> QED BY <1>1, <1>2, <1>3 DEF Sound, ConnectionTo, Peer, Calm

LEMMA PutStateIs ==
  ASSUME NEW h \in Nat, NEW k \in Sound(h), NEW s
  PROVE  /\ Peer(k, PutState(k, s)) /\ PutState(k, s).rev = s /\ PutState(k, s).ready = k.ready
         /\ PutState(k, s).pending = k.pending /\ PutState(k, s).doomed = k.doomed
         /\ PutState(k, s).queue = Append(k.queue, Message("snapshot", s))
BY DEF Sound, ConnectionTo, PutState, Peer, Calm

LEMMA ResnapshotIs ==
  ASSUME NEW h \in Nat, NEW k \in Sound(h), NEW s \in 0..h
  PROVE  /\ Peer(k, Resnapshot(k, s)) /\ Resnapshot(k, s).pending = k.pending
         /\ \/ k.rev >= s /\ Resnapshot(k, s) = k
            \/ ~(k.rev >= s) /\ Room(k) >= 1 /\ Resnapshot(k, s) = PutState(k, s)
            \/ Resnapshot(k, s).doomed /\ ~Resnapshot(k, s).ready
<1>1. CASE k.rev >= s
  BY <1>1 DEF Resnapshot, Peer, Calm
<1>2. CASE ~(k.rev >= s) /\ StateFits(k, s)
  BY <1>2, PutStateIs DEF Resnapshot, StateFits
<1>3. CASE ~(k.rev >= s) /\ ~StateFits(k, s)
  <2>1. Resnapshot(k, s) = [k EXCEPT !.ready = FALSE, !.doomed = TRUE]
    BY <1>3 DEF Resnapshot
  <2> QED BY <2>1 DEF Sound, ConnectionTo, Peer, Calm
<1> QED BY <1>1, <1>2, <1>3

LEMMA ReplayIs ==
  ASSUME NEW h \in Nat, NEW k \in Sound(h), NEW s \in 0..h
  PROVE  LET caught == PutEvents(k, After(k.pending, s))
             notes == [i \in 1..Cardinality(k.told) |-> NoticeMessage]
             mine == Replay(k, s)
         IN /\ Calm(k, mine) /\ mine.at = "reading" /\ mine.pending = <<>>
            /\ mine.rev = caught.rev
            /\ (~mine.ready => mine.doomed) /\ (caught.doomed => mine.doomed)
            /\ mine.queue = Put(caught, notes).queue \/ mine.doomed
<1> DEFINE caught == PutEvents(k, After(k.pending, s))
           full == caught.doomed /\ ~k.doomed
           notes == [i \in 1..Cardinality(k.told) |-> NoticeMessage]
           queued == ~full /\ Len(notes) <= Room(caught)
           out == Put(caught, IF full THEN <<>> ELSE notes)
           slow == out.doomed \/ ~queued
           mine == Replay(k, s)
<1>1. k.pending \in Seq(0..h)
  BY SoundColumns
<1>2. caught \in Sound(h)
  BY <1>1, AfterType, PutEventsSound
<1>3. Calm(k, caught)
  BY PutEventsIs DEF Peer
<1>4. mine = [out EXCEPT !.pending = <<>>, !.told = {}, !.ready = queued,
                         !.at = "reading", !.doomed = slow]
  BY DEF Replay
<1> HIDE DEF caught, notes
<1>5. out \in Sound(h) /\ Calm(caught, out) /\ out.rev = caught.rev /\ out.doomed = caught.doomed
  <2>1. (IF full THEN <<>> ELSE notes) \in Seq(MessagesTo(h))
    <3>1. k.told \in SUBSET Users
      BY SoundColumns
    <3>2. Cardinality(k.told) \in Nat
      BY <3>1, FS_Subset, FS_CardinalityType, HubAssumption
    <3>3. notes \in Seq(MessagesTo(h)) /\ <<>> \in Seq(MessagesTo(h))
      BY <3>2, NotesType, EmptySeq DEF notes
    <3> QED BY <3>3
  <2>2. out \in Sound(h)
    BY <1>2, <2>1, PutSound
  <2> QED BY <1>2, <2>2, PutIs DEF Peer
<1>6. queued \in BOOLEAN /\ slow \in BOOLEAN /\ (~queued => slow) /\ (out.doomed => slow)
  OBVIOUS
<1>7. queued => out.queue = Put(caught, notes).queue
  OBVIOUS
<1> HIDE DEF out, queued, slow, mine
<1>8. /\ mine.at = "reading" /\ mine.pending = <<>> /\ mine.rev = out.rev
      /\ mine.ready = queued /\ mine.doomed = slow /\ mine.queue = out.queue
      /\ mine.user = out.user /\ mine.valid = out.valid /\ mine.shut = out.shut
  BY <1>4, <1>5 DEF Sound, ConnectionTo
<1>9. Calm(k, mine)
  BY <1>3, <1>5, <1>6, <1>8 DEF Calm
<1> QED BY <1>3, <1>5, <1>6, <1>7, <1>8, <1>9 DEF caught, notes, mine

LEMMA ReturnedIs ==
  ASSUME NEW h \in Nat, NEW k \in Sound(h)
  PROVE  /\ k.shut => Returned(k) = Fresh
         /\ ~k.shut => /\ Calm(k, Returned(k)) /\ Returned(k).at = "ending"
                       /\ Returned(k).doomed /\ Returned(k).ready = k.ready
                       /\ Returned(k).pending = k.pending /\ Returned(k).rev = k.rev
BY DEF Sound, ConnectionTo, Returned, Calm

-----------------------------------------------------------------------------
(* The steps of a handler, its writer and its close(): what they do to its *)
(* connection and to the others.                                           *)

HandlerStep(c) ==
  /\ conn[c].at # "idle"
  /\ members' \in {members, members \ {c}} /\ UNCHANGED <<closed, stopped, sweeping>>
  /\ \A d \in Conns \ {c} :
       Peer(conn[d], conn'[d]) /\ (d \notin members => conn'[d] = conn[d])
  /\ conn'[c].at = "idle" => conn'[c] = Fresh
  /\ conn'[c].at # "serving"
  /\ c \in members' =>
       /\ Calm(conn[c], conn'[c]) /\ conn'[c].at # "idle"
       /\ conn'[c].at = "registered" => conn[c].at = "registered"
       /\ conn[c].at = "registered" /\ conn'[c].at # "registered"
            => conn[c].valid \/ conn'[c].doomed

LEMMA PeerSelf == \A k : Peer(k, k) /\ Calm(k, k)
BY DEF Peer, Calm

LEMMA FlushIs ==
  ASSUME NEW h \in Nat, NEW p \in 0..h, NEW ev \in SUBSET (1..h),
         NEW cs \in [Conns -> Sound(h)], Flush(p, ev, cs)
  PROVE  \A d \in Conns : Peer(cs[d], conn'[d]) /\ (d \notin members => conn'[d] = cs[d])
<1> DEFINE run == Run(p, ev)
<1>1. conn' = [c \in Conns |->
                 CASE c \notin members -> cs[c]
                   [] c \in members /\ cs[c].ready -> PutEvents(cs[c], run)
                   [] OTHER -> Hold(cs[c], run)]
  BY DEF Flush
<1> HIDE DEF run
<1>2. \A d \in Conns : Peer(cs[d], PutEvents(cs[d], run)) /\ Peer(cs[d], Hold(cs[d], run))
  BY PutEventsIs, HoldIs
<1> QED BY <1>1, <1>2, PeerSelf

LEMMA PublishEventIs ==
  ASSUME Bounds, NEW r \in 0..head, NEW cs \in [Conns -> Sound(head)],
         PublishEvent(r, cs)
  PROVE  \A d \in Conns : Peer(cs[d], conn'[d]) /\ (d \notin members => conn'[d] = cs[d])
<1>1. CASE closed \/ members = {} \/ r <= published
  BY <1>1, PeerSelf DEF PublishEvent
<1>2. CASE ~(closed \/ members = {} \/ r <= published)
  <2>1. Flush(published, events \cup {r}, cs)
    BY <1>2 DEF PublishEvent
  <2>2. r > published /\ published \in 0..head /\ head \in Nat /\ events \in SUBSET (1..head)
    BY <1>2, HubAssumption DEF Bounds
  <2>3. events \cup {r} \in SUBSET (1..head)
    BY <2>2
  <2> QED BY <2>1, <2>2, <2>3, FlushIs
<1> QED BY <1>1, <1>2

LEMMA SoundHere ==
  ASSUME Bounds
  PROVE  /\ head \in Nat /\ conn \in [Conns -> Sound(head)]
         /\ \A c \in Conns : conn[c] \in Sound(head) /\ conn[c].held \in 0..head
<1>1. head \in Nat /\ conn \in [Conns -> Sound(head)]
  BY HubAssumption DEF Bounds
<1>2. \A c \in Conns : conn[c] \in Sound(head) /\ conn[c].held \in 0..head
  BY <1>1, SoundColumns
<1> QED BY <1>1, <1>2

(* A step that changes one connection and no membership. *)
LEMMA OneTurn ==
  ASSUME Base, NEW c \in Conns, NEW l, conn' = [conn EXCEPT ![c] = l], conn[c].at # "idle",
         UNCHANGED <<members, closed, stopped, sweeping>>,
         \/ l = Fresh /\ c \notin members
         \/ l.at \notin {"idle", "serving", "registered"} /\ Calm(conn[c], l)
              /\ (conn[c].at = "registered" => conn[c].valid \/ l.doomed)
         \/ l.at = conn[c].at /\ l.at # "serving" /\ Calm(conn[c], l)
  PROVE  HandlerStep(c)
<1>1. Fresh.at = "idle"
  BY DEF Fresh
<1>2. conn'[c] = l /\ \A d \in Conns \ {c} : conn'[d] = conn[d]
  BY DEF Base, Bounds
<1> QED BY <1>1, <1>2, PeerSelf DEF HandlerStep

\* A handler that returns.
LEMMA ReturnTurn ==
  ASSUME Base, NEW c \in Conns, Returns(c), conn[c].at # "idle",
         UNCHANGED <<members, closed, stopped, sweeping>>
  PROVE  HandlerStep(c)
<1>1. conn' = [conn EXCEPT ![c] = Returned(conn[c])]
  BY DEF Returns
<1>2. conn[c] \in Sound(head) /\ head \in Nat
  BY SoundHere DEF Base
<1>3. CASE conn[c].shut
  <2>1. Returned(conn[c]) = Fresh /\ c \notin members
    BY <1>2, <1>3, ReturnedIs DEF Base, Slots
  <2> QED BY <1>1, <2>1, OneTurn
<1>4. CASE ~conn[c].shut
  <2>1. /\ Calm(conn[c], Returned(conn[c])) /\ Returned(conn[c]).at = "ending"
        /\ Returned(conn[c]).doomed
    BY <1>2, <1>4, ReturnedIs
  <2> QED BY <1>1, <2>1, OneTurn
<1> QED BY <1>3, <1>4

LEMMA HandshakeTurns ==
  ASSUME Base, NEW c \in Conns, Refuse(c) \/ Greet(c) \/ Restate(c)
  PROVE  HandlerStep(c)
<1>0. conn[c] \in Sound(head) /\ head \in Nat /\ conn \in [Conns -> Sound(head)]
  BY SoundHere DEF Base
<1>1. CASE Refuse(c)
  <2>1. c \notin members
    BY <1>1 DEF Refuse, Base, Slots
  <2> QED BY <1>1, <2>1, OneTurn DEF Refuse, match, admin
<1>2. CASE Greet(c)
  <2>1. conn[c].at = "registered" /\ UNCHANGED <<members, closed, stopped, sweeping>>
    BY <1>2 DEF Greet, match, admin
  <2>2. CASE Returns(c)
    BY <2>1, <2>2, ReturnTurn
  <2>3. CASE ~Returns(c)
    <3> DEFINE hello == <<NoticeMessage, Message("snapshot", head)>>
               k == Put(conn[c], hello)
               l == [k EXCEPT !.rev = head, !.held = head, !.at = "readying"]
    <3>1. conn[c].valid /\ conn' = [conn EXCEPT ![c] = l]
      BY <1>2, <2>3 DEF Greet
    <3>2. k \in Sound(head) /\ Calm(conn[c], k)
      <4>1. hello \in Seq(MessagesTo(head))
        BY <1>0 DEF NoticeMessage, Message, MessagesTo, Kinds
      <4> HIDE DEF hello
      <4> QED BY <1>0, <4>1, PutSound, PutIs DEF Peer
    <3> HIDE DEF k
    <3>3. l.at = "readying" /\ Calm(conn[c], l)
      BY <3>2 DEF Sound, ConnectionTo, Calm
    <3> HIDE DEF l
    <3> QED BY <2>1, <3>1, <3>3, OneTurn
  <2> QED BY <2>2, <2>3
<1>3. CASE Restate(c)
  <2>1. conn[c].at = "refreshing" /\ UNCHANGED <<members, closed, stopped, sweeping>>
    BY <1>3 DEF Restate, match, admin
  <2>2. CASE Returns(c)
    BY <2>1, <2>2, ReturnTurn
  <2>3. CASE ~Returns(c)
    <3> DEFINE k == PutState(conn[c], head)
               l == [k EXCEPT !.held = head, !.at = "readying"]
    <3>1. StateFits(conn[c], head) /\ conn' = [conn EXCEPT ![c] = l]
      BY <1>3, <2>3 DEF Restate
    <3>2. k \in Sound(head) /\ Calm(conn[c], k)
      BY <1>0, <3>1, PutStateSound, PutStateIs DEF Peer, StateFits
    <3> HIDE DEF k
    <3>3. l.at = "readying" /\ Calm(conn[c], l)
      BY <3>2 DEF Sound, ConnectionTo, Calm
    <3> HIDE DEF l
    <3> QED BY <2>1, <3>1, <3>3, OneTurn
  <2> QED BY <2>2, <2>3
<1> QED BY <1>1, <1>2, <1>3

LEMMA TakenUp ==
  ASSUME Bounds, NEW c \in Conns, Act(c) \/ Repeat(c) \/ Request(c)
  PROVE  \E a \in {"publishing", "answering"}, x \in Int :
           conn' = [conn EXCEPT ![c] = [conn[c] EXCEPT !.at = a, !.held = x]]
<1>0. head \in Nat
  BY SoundHere
<1>1. CASE Act(c)
  <2>1. conn' = [conn EXCEPT ![c] = [conn[c] EXCEPT !.at = "publishing", !.held = head + 1]]
    BY <1>1 DEF Act
  <2>2. head + 1 \in Int
    BY <1>0
  <2> QED BY <2>1, <2>2
<1>2. CASE Repeat(c)
  <2>1. PICK r \in 1..head : conn' = [conn EXCEPT ![c] =
          [conn[c] EXCEPT !.at = "publishing", !.held = r]]
    BY <1>2 DEF Repeat
  <2>2. r \in Int
    BY <1>0
  <2> QED BY <2>1, <2>2
<1>3. CASE Request(c)
  <2>1. conn' = [conn EXCEPT ![c] = [conn[c] EXCEPT !.at = "answering", !.held = head]]
    BY <1>3 DEF Request
  <2>2. head \in Int
    BY <1>0
  <2> QED BY <2>1, <2>2
<1> QED BY <1>1, <1>2, <1>3

LEMMA ReadTurns ==
  ASSUME Base, NEW c \in Conns,
         \/ ReadFails(c) \/ Unauthorized(c) \/ Act(c) \/ Repeat(c)
         \/ Reject(c) \/ Request(c)
  PROVE  HandlerStep(c)
<1>0. conn[c] \in Sound(head) /\ head \in Nat /\ conn \in [Conns -> Sound(head)]
  BY SoundHere DEF Base
<1>1. conn[c].at = "reading" /\ UNCHANGED <<members, closed, stopped, sweeping>>
  BY DEF ReadFails, Unauthorized, Act, Repeat, Reject, Request, Reading, match, admin
<1>2. CASE ReadFails(c) \/ Unauthorized(c)
  BY <1>1, <1>2, ReturnTurn DEF ReadFails, Unauthorized
<1>3. CASE Act(c) \/ Repeat(c) \/ Request(c)
  <2>1. PICK a \in {"publishing", "answering"}, x \in Int :
          conn' = [conn EXCEPT ![c] = [conn[c] EXCEPT !.at = a, !.held = x]]
    BY <1>3, TakenUp DEF Base
  <2> DEFINE l == [conn[c] EXCEPT !.at = a, !.held = x]
  <2>2. l.at = a /\ Calm(conn[c], l)
    BY <1>0 DEF Sound, ConnectionTo, Calm
  <2> HIDE DEF l
  <2> QED BY <1>1, <2>1, <2>2, OneTurn DEF l
<1>4. CASE Reject(c)
  <2>1. PICK l \in {Put(conn[c], <<NoticeMessage>>), [conn[c] EXCEPT !.doomed = TRUE]} :
          conn' = [conn EXCEPT ![c] = l]
    BY <1>4 DEF Reject
  <2>2. Calm(conn[c], l) /\ l.at = "reading"
    <3>1. CASE l = Put(conn[c], <<NoticeMessage>>)
      BY <1>0, <1>1, <3>1, PutIs DEF Peer
    <3>2. CASE l = [conn[c] EXCEPT !.doomed = TRUE]
      BY <1>0, <1>1, <3>2 DEF Sound, ConnectionTo, Calm
    <3> QED BY <2>1, <3>1, <3>2
  <2> QED BY <1>1, <2>1, <2>2, OneTurn
<1> QED BY <1>2, <1>3, <1>4

\* The four ways an answer goes: read again, given up, too much, sent.
LEMMA AnswerIs ==
  ASSUME Bounds, NEW c \in Conns, Answer(c)
  PROVE  \E apology \in {<<>>, <<NoticeMessage>>} : \E l :
           LET k == conn[c]  said == Put(k, apology) IN
           /\ conn' = [conn EXCEPT ![c] = l]
           /\ l.at \in {"reading", "answering"} /\ Calm(k, l) /\ l.pending = k.pending
           /\ l.ready = k.ready
           /\ \/ l.queue = k.queue /\ l.rev = k.rev
              \/ /\ k.held >= k.rev /\ l.rev = k.held /\ said.queue = k.queue \o apology
                 /\ l.queue = Append(said.queue, Message("snapshot", k.held))
<1> DEFINE k == conn[c]
<1>0. k \in Sound(head) /\ head \in Nat /\ k.held \in 0..head /\ k.rev \in 0..head
  BY SoundHere, SoundColumns
<1>1. PICK apology \in {<<>>, <<NoticeMessage>>} :
        conn' = [conn EXCEPT ![c] =
          IF StateStale(k, k.held) /\ ~k.shut THEN [k EXCEPT !.held = head]
          ELSE IF StateStale(k, k.held) THEN [k EXCEPT !.at = "reading"]
          ELSE IF Room(k) < Len(apology) + 1 THEN [k EXCEPT !.doomed = TRUE, !.at = "reading"]
          ELSE [PutState(Put(k, apology), k.held) EXCEPT !.at = "reading"]]
  BY DEF Answer
<1>2. k.at = "answering"
  BY DEF Answer
<1> DEFINE said == Put(k, apology)
           l4 == [PutState(said, k.held) EXCEPT !.at = "reading"]
<1>3. CASE StateStale(k, k.held) \/ Room(k) < Len(apology) + 1
  <2>1. PICK l \in {[k EXCEPT !.held = head], [k EXCEPT !.at = "reading"],
                    [k EXCEPT !.doomed = TRUE, !.at = "reading"]} :
          conn' = [conn EXCEPT ![c] = l]
    BY <1>1, <1>3
  <2>2. /\ l.at \in {"reading", "answering"} /\ Calm(k, l) /\ l.pending = k.pending
        /\ l.ready = k.ready /\ l.queue = k.queue /\ l.rev = k.rev
    <3> HIDE DEF k
    <3> QED BY <1>0, <1>2, <2>1 DEF Sound, ConnectionTo, Calm
  <2> HIDE DEF k
  <2> QED BY <2>1, <2>2 DEF k
<1>4. CASE ~(StateStale(k, k.held) \/ Room(k) < Len(apology) + 1)
  <2>1. conn' = [conn EXCEPT ![c] = l4]
    BY <1>1, <1>4
  <2>2. apology \in Seq(MessagesTo(head)) /\ Len(apology) \in Nat
    BY <1>0, NotesType, EmptySeq, LenProperties
  <2>3. said \in Sound(head)
    BY <1>0, <2>2, PutSound
  <2>4. Room(k) \in Nat /\ Len(apology) <= Room(k)
    <3>1. Room(k) \in Nat
      BY <1>0, SoundColumns
    <3> QED BY <1>4, <2>2, <3>1
  <2>5. said.queue = k.queue \o apology
    <3>1. Smaller(Room(k), Len(apology)) = Len(apology)
      BY <2>2, <2>4 DEF Smaller
    <3>2. SubSeq(apology, 1, Len(apology)) = apology
      BY <2>2
    <3>3. Put(k, apology).queue = k.queue \o SubSeq(apology, 1, Smaller(Room(k), Len(apology)))
      <4> HIDE DEF k
      <4> QED BY <1>0, PutIs
    <3> QED BY <3>1, <3>2, <3>3
  <2> HIDE DEF said
  <2>6. /\ Calm(said, PutState(said, k.held)) /\ PutState(said, k.held).rev = k.held
        /\ PutState(said, k.held).ready = said.ready
        /\ PutState(said, k.held).pending = said.pending
        /\ PutState(said, k.held).queue = Append(said.queue, Message("snapshot", k.held))
    BY <1>0, <2>3, PutStateIs DEF Peer
  <2>7. Calm(k, said) /\ said.ready = k.ready /\ said.pending = k.pending
    BY <1>0, PutIs DEF Peer, said
  <2>8. /\ l4.at = "reading" /\ l4.user = PutState(said, k.held).user
        /\ l4.valid = PutState(said, k.held).valid /\ l4.shut = PutState(said, k.held).shut
        /\ l4.doomed = PutState(said, k.held).doomed
        /\ l4.rev = PutState(said, k.held).rev /\ l4.ready = PutState(said, k.held).ready
        /\ l4.pending = PutState(said, k.held).pending
        /\ l4.queue = PutState(said, k.held).queue
    <3>1. DOMAIN PutState(said, k.held) = DOMAIN said
      BY DEF PutState
    <3> HIDE DEF k
    <3> QED BY <2>3, <3>1 DEF Sound, ConnectionTo, PutState
  <2>9. k.held >= k.rev
    BY <1>0, <1>4 DEF StateStale
  <2>10. Calm(k, l4)
    <3> HIDE DEF l4, k
    <3> QED BY <2>6, <2>7, <2>8 DEF Calm
  <2>11. /\ l4.at \in {"reading", "answering"} /\ l4.pending = k.pending /\ l4.ready = k.ready
         /\ l4.rev = k.held /\ l4.queue = Append(said.queue, Message("snapshot", k.held))
    <3> HIDE DEF l4, k
    <3> QED BY <2>6, <2>7, <2>8
  <2>12. \E l : /\ conn' = [conn EXCEPT ![c] = l]
                /\ l.at \in {"reading", "answering"} /\ Calm(k, l) /\ l.pending = k.pending
                /\ l.ready = k.ready
                /\ k.held >= k.rev /\ l.rev = k.held /\ said.queue = k.queue \o apology
                /\ l.queue = Append(said.queue, Message("snapshot", k.held))
    <3> HIDE DEF l4, k
    <3> QED BY <2>1, <2>5, <2>9, <2>10, <2>11
  <2> QED BY <2>12 DEF said
<1> QED BY <1>3, <1>4

LEMMA AnswerTurn ==
  ASSUME Base, NEW c \in Conns, Answer(c)
  PROVE  HandlerStep(c)
<1>1. conn[c].at = "answering" /\ UNCHANGED <<members, closed, stopped, sweeping>>
  BY DEF Answer, match, admin
<1>2. PICK l : /\ conn' = [conn EXCEPT ![c] = l]
               /\ l.at \in {"reading", "answering"} /\ Calm(conn[c], l)
  BY AnswerIs DEF Base
<1> QED BY <1>1, <1>2, OneTurn

(* What markReady works with: the peers after their resnapshots, the run   *)
(* that follows the snapshot in hand, and the connection itself.           *)
Resent(c) == Resnapshotted(c, conn[c].held)
Caught(c) == Run(conn[c].held, {r \in events : r > conn[c].held})
Backed(c) == IF c \in members THEN Hold(conn[c], Caught(c)) ELSE conn[c]
Mine(c) == Replay(Backed(c), conn[c].held)

LEMMA MarkReadyIs ==
  ASSUME Bounds, NEW c \in Conns, MarkReady(c), members # {}, conn[c].held >= published
  PROVE  /\ published' = conn[c].held + Len(Caught(c))
         /\ events' = {r \in events : r > conn[c].held + Len(Caught(c))}
         /\ conn'[c] = IF Mine(c).ready THEN Mine(c) ELSE Returned(Mine(c))
         /\ \A d \in Conns \ {c} :
              /\ d \notin members => conn'[d] = conn[d]
              /\ d \in members /\ Resent(c)[d].ready
                   => conn'[d] = PutEvents(Resent(c)[d], Caught(c))
              /\ d \in members /\ ~Resent(c)[d].ready
                   => conn'[d] = Hold(Resent(c)[d], Caught(c))
              /\ Resent(c)[d] = IF d \in members /\ conn[d].ready /\ conn[c].held > published
                                THEN Resnapshot(conn[d], conn[c].held) ELSE conn[d]
<1> DEFINE s == conn[c].held
           cs == Resnapshotted(c, s)
           run == Run(s, {r \in events : r > s})
           mine == Replay(IF c \in members THEN Hold(cs[c], run) ELSE cs[c], s)
<1>1. ~(s < published)
  BY SoundHere, HubAssumption DEF Bounds
<1>2. /\ published' = s + Len(run)
      /\ events' = {r \in events : r > s + Len(run)}
      /\ conn' = [d \in Conns |->
                    CASE d = c -> IF mine.ready THEN mine ELSE Returned(mine)
                      [] d # c /\ d \in members /\ cs[d].ready
                           -> PutEvents(cs[d], run)
                      [] d # c /\ d \in members /\ ~cs[d].ready
                           -> Hold(cs[d], run)
                      [] OTHER -> cs[d]]
  BY <1>1, MarkReadyGoesOn, Zenon
<1>3. cs = [d \in Conns |-> IF d # c /\ d \in members /\ conn[d].ready /\ s > published
                            THEN Resnapshot(conn[d], s) ELSE conn[d]]
  BY DEF Resnapshotted
<1>4. cs[c] = conn[c]
  BY <1>3
<1>5. mine = Mine(c) /\ run = Caught(c) /\ cs = Resent(c)
  BY <1>4 DEF Mine, Backed, Caught, Resent
<1> HIDE DEF cs, run, mine
<1> QED BY <1>2, <1>3, <1>5

LEMMA BackedSound ==
  ASSUME Bounds, NEW c \in Conns
  PROVE  /\ Caught(c) \in Seq(0..head) /\ conn[c].held + Len(Caught(c)) \in 0..head
         /\ Backed(c) \in Sound(head) /\ Peer(conn[c], Backed(c))
         /\ Mine(c) \in Sound(head)
<1>1. /\ head \in Nat /\ events \in SUBSET (1..head) /\ conn[c] \in Sound(head)
      /\ conn[c].held \in 0..head
  BY SoundHere DEF Bounds
<1>2. Caught(c) \in Seq(0..head) /\ conn[c].held + Len(Caught(c)) \in 0..head
  <2>1. {r \in events : r > conn[c].held} \in SUBSET (1..head)
    BY <1>1
  <2> QED BY <1>1, <2>1, RunType DEF Caught
<1>3. Backed(c) \in Sound(head) /\ Peer(conn[c], Backed(c))
  <2>1. CASE c \in members
    BY <1>1, <1>2, <2>1, HoldSound, HoldIs DEF Backed
  <2>2. CASE c \notin members
    BY <1>1, <2>2, PeerSelf DEF Backed
  <2> QED BY <2>1, <2>2
<1> QED BY <1>1, <1>2, <1>3, ReplaySound DEF Mine

LEMMA ResentIs ==
  ASSUME Bounds, NEW c \in Conns, NEW d \in Conns \ {c},
         Resent(c)[d] = IF d \in members /\ conn[d].ready /\ conn[c].held > published
                        THEN Resnapshot(conn[d], conn[c].held) ELSE conn[d]
  PROVE  Resent(c)[d] \in Sound(head) /\ Peer(conn[d], Resent(c)[d])
<1>1. head \in Nat /\ conn[d] \in Sound(head) /\ conn[c].held \in 0..head
  BY SoundHere
<1>2. Resnapshot(conn[d], conn[c].held) \in Sound(head)
  BY <1>1, ResnapshotSound
<1>3. Peer(conn[d], Resnapshot(conn[d], conn[c].held))
  BY <1>1, ResnapshotIs
<1> QED BY <1>1, <1>2, <1>3, PeerSelf

LEMMA MarkReadyTurn ==
  ASSUME Base, NEW c \in Conns, MarkReady(c)
  PROVE  HandlerStep(c)
<1>1. conn[c].at = "readying" /\ UNCHANGED <<members, closed, stopped, sweeping>>
  BY DEF MarkReady, admin
<1>2. /\ head \in Nat /\ published \in 0..head /\ conn[c] \in Sound(head)
      /\ conn[c].held \in 0..head
  BY SoundHere DEF Base, Bounds
<1>3. CASE Returns(c)
  BY <1>1, <1>3, ReturnTurn
<1>4. CASE conn' = [conn EXCEPT ![c].at = "refreshing"]
  <2> DEFINE l == [conn[c] EXCEPT !.at = "refreshing"]
  <2>1. l.at = "refreshing" /\ Calm(conn[c], l)
    BY <1>2 DEF Sound, ConnectionTo, Calm
  <2>2. conn' = [conn EXCEPT ![c] = l]
    BY <1>4
  <2> HIDE DEF l
  <2> QED BY <1>1, <2>1, <2>2, OneTurn
<1>5. CASE members # {} /\ conn[c].held >= published
  <2>1. ASSUME NEW d \in Conns \ {c}
        PROVE  Peer(conn[d], conn'[d]) /\ (d \notin members => conn'[d] = conn[d])
    <3>1. Resent(c)[d] \in Sound(head) /\ Peer(conn[d], Resent(c)[d])
      BY <1>5, MarkReadyIs, ResentIs DEF Base
    <3>2. \/ conn'[d] = conn[d]
          \/ d \in members /\ conn'[d] = PutEvents(Resent(c)[d], Caught(c))
          \/ d \in members /\ conn'[d] = Hold(Resent(c)[d], Caught(c))
      BY <1>5, MarkReadyIs DEF Base
    <3>3. /\ Peer(Resent(c)[d], PutEvents(Resent(c)[d], Caught(c)))
          /\ Peer(Resent(c)[d], Hold(Resent(c)[d], Caught(c)))
      BY <1>2, <3>1, PutEventsIs, HoldIs
    <3>4. \A x, y, z : Peer(x, y) /\ Peer(y, z) => Peer(x, z)
      BY DEF Peer, Calm
    <3>5. d \notin members => conn'[d] = conn[d]
      BY <1>5, MarkReadyIs DEF Base
    <3> QED BY <3>1, <3>2, <3>3, <3>4, <3>5, PeerSelf
  <2>2. Mine(c) \in Sound(head) /\ Calm(conn[c], Mine(c)) /\ Mine(c).at = "reading"
    <3>1. Backed(c) \in Sound(head) /\ Peer(conn[c], Backed(c)) /\ Mine(c) \in Sound(head)
      BY BackedSound DEF Base
    <3>2. Calm(Backed(c), Mine(c)) /\ Mine(c).at = "reading"
      BY <1>2, <3>1, ReplayIs DEF Mine
    <3> QED BY <3>1, <3>2 DEF Peer, Calm
  <2>3. conn'[c] = IF Mine(c).ready THEN Mine(c) ELSE Returned(Mine(c))
    BY <1>5, MarkReadyIs DEF Base
  <2>4. c \in members => ~conn[c].shut
    BY DEF Base, Slots
  <2>5. /\ Fresh.at = "idle"
        /\ Mine(c).shut => Returned(Mine(c)) = Fresh
        /\ ~Mine(c).shut => /\ Calm(Mine(c), Returned(Mine(c)))
                            /\ Returned(Mine(c)).at = "ending"
    BY <1>2, <2>2, ReturnedIs DEF Fresh
  <2> QED BY <1>1, <2>1, <2>2, <2>3, <2>4, <2>5 DEF HandlerStep, Calm
<1>6. \/ Returns(c) \/ conn' = [conn EXCEPT ![c].at = "refreshing"]
      \/ members # {} /\ conn[c].held >= published
  BY DEF MarkReady
<1> QED BY <1>3, <1>4, <1>5, <1>6

LEMMA PublishTurn ==
  ASSUME Base, NEW c \in Conns, Publish(c)
  PROVE  HandlerStep(c)
<1> DEFINE k == [conn[c] EXCEPT !.at = "reading"]
           cs == [conn EXCEPT ![c] = k]
<1>1. /\ conn[c].at = "publishing" /\ UNCHANGED <<members, closed, stopped, sweeping>>
      /\ PublishEvent(conn[c].held, cs)
  BY DEF Publish, admin
<1>2. /\ head \in Nat /\ conn \in [Conns -> Sound(head)] /\ conn[c] \in Sound(head)
      /\ conn[c].held \in 0..head
  BY SoundHere DEF Base
<1>3. k \in Sound(head) /\ k.at = "reading" /\ Calm(conn[c], k)
  BY <1>2 DEF Sound, ConnectionTo, Calm, Stages
<1> HIDE DEF k
<1>4. cs \in [Conns -> Sound(head)] /\ cs[c] = k /\ \A d \in Conns \ {c} : cs[d] = conn[d]
  BY <1>2, <1>3
<1> HIDE DEF cs
<1>5. \A d \in Conns : Peer(cs[d], conn'[d]) /\ (d \notin members => conn'[d] = cs[d])
  BY <1>1, <1>2, <1>4, PublishEventIs DEF Base
<1>6. conn'[c].at = "reading" /\ Calm(conn[c], conn'[c])
  BY <1>3, <1>4, <1>5 DEF Peer, Calm
<1> QED BY <1>1, <1>4, <1>5, <1>6 DEF HandlerStep

LEMMA WriterTurns ==
  ASSUME Base, NEW c \in Conns, Writer(c)
  PROVE  HandlerStep(c)
<1>1. /\ conn[c].at \notin {"idle", "serving"}
      /\ UNCHANGED <<members, closed, stopped, sweeping>>
  BY DEF Writer, Write, Heartbeat, TransportFails, Writing, match, admin
<1>2. conn[c] \in Sound(head)
  BY SoundHere DEF Base
<1>3. PICK l \in {[conn[c] EXCEPT !.queue = Tail(conn[c].queue)],
                  [conn[c] EXCEPT !.doomed = TRUE]} : conn' = [conn EXCEPT ![c] = l]
  BY DEF Writer, Write, Heartbeat, TransportFails
<1>4. Calm(conn[c], l) /\ l.at = conn[c].at
  BY <1>2, <1>3 DEF Sound, ConnectionTo, Calm
<1> QED BY <1>1, <1>3, <1>4, OneTurn

LEMMA CloseTurn ==
  ASSUME Base, NEW c \in Conns, Close(c)
  PROVE  HandlerStep(c)
<1>1. /\ conn[c].doomed /\ members' = members \ {c} /\ UNCHANGED <<closed, stopped, sweeping>>
      /\ conn' = [conn EXCEPT ![c] = IF conn[c].at = "ending" THEN Fresh
                             ELSE [conn[c] EXCEPT !.shut = TRUE, !.queue = <<>>]]
  BY DEF Close, admin
<1>2. conn[c].at \notin {"idle", "serving"}
  BY <1>1 DEF Base, Slots, Fresh
<1>3. PICK l \in {Fresh, [conn[c] EXCEPT !.shut = TRUE, !.queue = <<>>]} :
        conn' = [conn EXCEPT ![c] = l]
  BY <1>1
<1>4. conn[c] \in Sound(head)
  BY SoundHere DEF Base
<1>5. l = Fresh \/ l.at = conn[c].at
  BY <1>3, <1>4 DEF Sound, ConnectionTo
<1>6. conn'[c] = l /\ \A d \in Conns \ {c} : conn'[d] = conn[d]
  BY <1>3 DEF Base, Bounds
<1>7. Fresh.at = "idle"
  BY DEF Fresh
<1> QED BY <1>1, <1>2, <1>5, <1>6, <1>7, PeerSelf DEF HandlerStep

LEMMA Turns ==
  ASSUME Base, NEW c \in Conns,
         \/ Refuse(c) \/ Greet(c) \/ MarkReady(c) \/ Restate(c) \/ ReadFails(c)
         \/ Answer(c) \/ Publish(c) \/ Incoming(c) \/ Writer(c) \/ Close(c)
  PROVE  HandlerStep(c)
BY HandshakeTurns, ReadTurns, AnswerTurn, MarkReadyTurn, PublishTurn, WriterTurns, CloseTurn
   DEF Incoming

-----------------------------------------------------------------------------
(***************************************************************************)
(* No stray transport.  The three parts of the property are inductive with *)
(* the slots: a connection that is being closed is never reopened, the     *)
(* steps that supersede, revoke or shut down doom what is registered, and  *)
(* what registers later is turned away by its own checks.                  *)
(***************************************************************************)
Stray == NoStrayTransport /\ (stopped => closed)

LEMMA TurnKeepsSlots ==
  ASSUME Base, NEW c \in Conns, HandlerStep(c)
  PROVE  Slots'
<1>1. members' \subseteq members
  BY DEF HandlerStep
<1>2. ASSUME NEW d \in Conns \ {c}
      PROVE  /\ conn'[d].at = "idle" => conn'[d] = Fresh
             /\ conn'[d].at = "serving" => conn'[d] = conn[d]
             /\ d \in members' => /\ d \in members /\ conn'[d].at = conn[d].at
                                  /\ conn'[d].shut = conn[d].shut
                                  /\ conn'[d].user = conn[d].user
  BY <1>1, <1>2 DEF HandlerStep, Peer, Calm, Base, Slots
<1>3. c \in members' => c \in members /\ Calm(conn[c], conn'[c])
  BY <1>1 DEF HandlerStep
<1>4. ASSUME NEW d \in Conns
      PROVE  /\ conn'[d].at = "idle" => conn'[d] = Fresh
             /\ conn'[d].at = "serving" => d # c /\ conn'[d] = conn[d]
             /\ d \in members' => /\ conn'[d].at \notin {"idle", "serving"}
                                  /\ ~conn'[d].shut /\ conn'[d].user \in Users
  <2>1. CASE d = c
    BY <1>3, <2>1 DEF HandlerStep, Calm, Base, Slots
  <2>2. CASE d # c
    BY <1>2, <2>2 DEF Base, Slots
  <2> QED BY <2>1, <2>2
<1> QED BY <1>4 DEF Slots, Base

LEMMA TurnKeepsStray ==
  ASSUME Base, Stray, NEW c \in Conns, HandlerStep(c)
  PROVE  Stray'
<1>1. members' \subseteq members /\ members \subseteq Conns
  BY DEF HandlerStep, Base, Bounds
<1>2. ASSUME NEW d \in members'
      PROVE  /\ conn'[d].user = conn[d].user /\ conn'[d].valid = conn[d].valid
             /\ conn[d].doomed => conn'[d].doomed
             /\ conn[d].at # "registered" => conn'[d].at # "registered"
             /\ conn[d].at = "registered" /\ conn'[d].at # "registered"
                  => conn[d].valid \/ conn'[d].doomed
  BY <1>1, <1>2 DEF HandlerStep, Peer, Calm
<1>3. OneTransport'
  BY <1>1, <1>2 DEF Stray, NoStrayTransport, OneTransport
<1>4. RevokedIsCutOff'
  BY <1>1, <1>2 DEF Stray, NoStrayTransport, RevokedIsCutOff, HandlerStep
<1>5. NothingOutlivesHub' /\ (stopped => closed)'
  <2>1. ~stopped /\ UNCHANGED <<closed, stopped>>
    BY DEF HandlerStep, Stray, NoStrayTransport, NothingOutlivesHub
  <2> QED BY <1>1, <1>2, <2>1 DEF Stray, NoStrayTransport, NothingOutlivesHub
<1> QED BY <1>3, <1>4, <1>5 DEF Stray, NoStrayTransport

\* A step that leaves every handler where it is and closes no more than it opens.
LEMMA CalmKeeps ==
  ASSUME Base, Stray, UNCHANGED <<members, stopped, sweeping>>, closed => closed',
         stopped => closed',
         \A d \in Conns : Peer(conn[d], conn'[d]) /\ (d \notin members => conn'[d] = conn[d]),
         closed' => closed \/ \A d \in members : conn'[d].doomed
  PROVE  Slots' /\ Stray'
<1>1. members \subseteq Conns
  BY DEF Base, Bounds
<1>2. Slots'
  BY <1>1 DEF Base, Slots, Peer, Calm
<1>3. ASSUME NEW d \in members
      PROVE  /\ conn'[d].user = conn[d].user /\ conn'[d].valid = conn[d].valid
             /\ conn[d].doomed => conn'[d].doomed
             /\ conn'[d].at = conn[d].at
  BY <1>1, <1>3 DEF Peer, Calm
<1>4. OneTransport' /\ RevokedIsCutOff'
  BY <1>3 DEF Stray, NoStrayTransport, OneTransport, RevokedIsCutOff
<1>5. NothingOutlivesHub' /\ (stopped => closed)'
  BY <1>1, <1>3 DEF Stray, NoStrayTransport, NothingOutlivesHub, Peer, Calm
<1> QED BY <1>2, <1>4, <1>5 DEF Stray, NoStrayTransport

LEMMA AcceptKeeps ==
  ASSUME Base, Stray, NEW c \in Conns, NEW u \in Users, Accept(c, u)
  PROVE  Slots' /\ Stray'
<1> DEFINE k == [Fresh EXCEPT !.user = u, !.at = "serving", !.valid = TRUE]
<1>1. /\ conn[c].at = "idle" /\ ~closed /\ conn' = [conn EXCEPT ![c] = k]
      /\ UNCHANGED <<members, closed, stopped, sweeping>>
  BY DEF Accept, match, admin
<1>2. /\ k.user \in Users /\ k.at = "serving" /\ ~k.ready /\ ~k.doomed /\ ~k.shut
      /\ k.queue = <<>> /\ k.pending = <<>>
  BY DEF Fresh
<1> HIDE DEF k
<1>3. conn'[c] = k /\ (\A d \in Conns \ {c} : conn'[d] = conn[d]) /\ c \notin members
      /\ members \subseteq Conns
  BY <1>1 DEF Base, Bounds, Slots
<1>4. Slots'
  BY <1>1, <1>2, <1>3 DEF Base, Slots
<1>5. OneTransport' /\ RevokedIsCutOff'
  BY <1>1, <1>3 DEF Stray, NoStrayTransport, OneTransport, RevokedIsCutOff
<1>6. NothingOutlivesHub' /\ (stopped => closed)'
  BY <1>1, <1>3 DEF Stray, NoStrayTransport, NothingOutlivesHub
<1> QED BY <1>4, <1>5, <1>6 DEF Stray, NoStrayTransport

LEMMA RegisterKeeps ==
  ASSUME Base, Stray, NEW c \in Conns, Register(c)
  PROVE  Slots' /\ Stray'
<1>0. /\ conn \in [Conns -> Sound(head)] /\ conn[c].at = "serving" /\ c \notin members
      /\ members \subseteq Conns /\ conn[c] \in Sound(head)
      /\ UNCHANGED <<closed, stopped, sweeping>>
  BY SoundHere DEF Base, Bounds, Slots, Register, admin
<1>1. CASE closed
  <2>1. conn' = [conn EXCEPT ![c] = Fresh] /\ members' = members
    BY <1>1 DEF Register
  <2>2. HandlerStep(c)
    BY <1>0, <2>1, OneTurn
  <2> QED BY <2>2, TurnKeepsSlots, TurnKeepsStray
<1>2. CASE ~closed
  <2> DEFINE k == [conn[c] EXCEPT !.at = "registered"]
  <2>1. /\ conn'[c] = k /\ members' = members \cup {c}
        /\ \A d \in Conns \ {c} :
             conn'[d] = IF d \in members /\ conn[d].user = conn[c].user
                        THEN [conn[d] EXCEPT !.doomed = TRUE] ELSE conn[d]
    BY <1>2 DEF Register
  <2>2. /\ k.at = "registered" /\ k.user = conn[c].user /\ ~k.shut
        /\ k.valid = conn[c].valid
    BY <1>0 DEF Sound, ConnectionTo, Base, Slots
  <2>3. conn[c].user \in Users
    BY <1>0 DEF Base, Slots
  <2> HIDE DEF k
  <2>4. ASSUME NEW d \in Conns \ {c}
        PROVE  /\ conn'[d].at = conn[d].at /\ conn'[d].user = conn[d].user
               /\ conn'[d].valid = conn[d].valid /\ conn'[d].shut = conn[d].shut
               /\ conn[d].doomed => conn'[d].doomed
               /\ d \notin members => conn'[d] = conn[d]
               /\ d \in members /\ conn[d].user = conn[c].user => conn'[d].doomed
    <3>1. conn[d] \in Sound(head)
      BY <1>0
    <3>2. CASE d \in members /\ conn[d].user = conn[c].user
      <4>1. conn'[d] = [conn[d] EXCEPT !.doomed = TRUE]
        BY <2>1, <3>2
      <4> QED BY <3>1, <3>2, <4>1 DEF Sound, ConnectionTo
    <3>3. CASE ~(d \in members /\ conn[d].user = conn[c].user)
      BY <2>1, <3>3
    <3> QED BY <3>2, <3>3
  <2>5. Slots'
    BY <1>0, <2>1, <2>2, <2>3, <2>4 DEF Base, Slots
  <2>6. OneTransport'
    BY <1>0, <2>1, <2>2, <2>4 DEF Stray, NoStrayTransport, OneTransport
  <2>7. RevokedIsCutOff'
    BY <1>0, <2>1, <2>2, <2>4 DEF Stray, NoStrayTransport, RevokedIsCutOff
  <2>8. NothingOutlivesHub' /\ (stopped => closed)'
    BY <1>0, <1>2 DEF Stray, NoStrayTransport, NothingOutlivesHub
  <2> QED BY <2>5, <2>6, <2>7, <2>8 DEF Stray, NoStrayTransport
<1> QED BY <1>1, <1>2

\* A player's presence changes: whoever cannot be told is closed.
LEMMA PresenceChangedIs ==
  ASSUME Bounds, NEW u \in Users, PresenceChanged(u)
  PROVE  \A d \in Conns : /\ Peer(conn[d], conn'[d]) /\ (d \notin members => conn'[d] = conn[d])
                          /\ conn'[d].pending = conn[d].pending /\ conn'[d].rev = conn[d].rev
                          /\ \/ conn'[d].queue = conn[d].queue
                             \/ /\ conn'[d].queue = Append(conn[d].queue, NoticeMessage)
                                /\ conn[d].ready
                          /\ conn[d].ready => conn'[d].ready \/ conn'[d].doomed
<1> SUFFICES ASSUME NEW d \in Conns
             PROVE  /\ Peer(conn[d], conn'[d]) /\ (d \notin members => conn'[d] = conn[d])
                    /\ conn'[d].pending = conn[d].pending /\ conn'[d].rev = conn[d].rev
                    /\ \/ conn'[d].queue = conn[d].queue
                       \/ /\ conn'[d].queue = Append(conn[d].queue, NoticeMessage)
                          /\ conn[d].ready
                    /\ conn[d].ready => conn'[d].ready \/ conn'[d].doomed
  OBVIOUS
<1>0. conn[d] \in Sound(head) /\ head \in Nat
  BY SoundHere
<1>1. conn'[d] = LET k == conn[d] IN
       CASE d \notin members -> k
         [] d \in members /\ ~k.ready -> [k EXCEPT !.told = @ \cup {u}]
         [] d \in members /\ k.ready /\ Room(k) >= 1 -> Put(k, <<NoticeMessage>>)
         [] OTHER -> [k EXCEPT !.ready = FALSE, !.doomed = TRUE]
  BY DEF PresenceChanged
<1>2. CASE d \notin members
  BY <1>1, <1>2, PeerSelf
<1>3. CASE d \in members /\ ~conn[d].ready
  <2>1. conn'[d] = [conn[d] EXCEPT !.told = @ \cup {u}]
    BY <1>1, <1>3
  <2> QED BY <1>0, <1>3, <2>1 DEF Sound, ConnectionTo, Peer, Calm
<1>4. CASE d \in members /\ conn[d].ready /\ Room(conn[d]) >= 1
  <2>1. conn'[d] = Put(conn[d], <<NoticeMessage>>)
    BY <1>1, <1>4
  <2>2. SubSeq(<<NoticeMessage>>, 1, Smaller(Room(conn[d]), Len(<<NoticeMessage>>)))
          = <<NoticeMessage>>
    <3>1. Room(conn[d]) \in Nat
      BY <1>0, SoundColumns
    <3>2. <<NoticeMessage>> \in Seq(MessagesTo(head)) /\ Len(<<NoticeMessage>>) = 1
      BY <1>0, NotesType
    <3>3. Smaller(Room(conn[d]), Len(<<NoticeMessage>>)) = Len(<<NoticeMessage>>)
      BY <1>4, <3>1, <3>2 DEF Smaller
    <3>4. SubSeq(<<NoticeMessage>>, 1, Len(<<NoticeMessage>>)) = <<NoticeMessage>>
      BY <3>2, WholeSeq
    <3> QED BY <3>3, <3>4
  <2>3. conn'[d].queue = Append(conn[d].queue, NoticeMessage)
    <3>1. conn[d].queue \in Seq(MessagesTo(head))
      BY <1>0, SoundColumns
    <3>2. conn'[d].queue = conn[d].queue \o <<NoticeMessage>>
      <4>1. Put(conn[d], <<NoticeMessage>>).queue = conn[d].queue
              \o SubSeq(<<NoticeMessage>>, 1, Smaller(Room(conn[d]), Len(<<NoticeMessage>>)))
        BY <1>0, PutIs
      <4> QED BY <2>1, <2>2, <4>1
    <3>3. \A q \in Seq(MessagesTo(head)) : q \o <<NoticeMessage>> = Append(q, NoticeMessage)
      OBVIOUS
    <3> QED BY <3>1, <3>2, <3>3
  <2>4. LET k == conn[d]  l == Put(conn[d], <<NoticeMessage>>)
        IN Peer(k, l) /\ l.rev = k.rev /\ l.ready = k.ready /\ l.pending = k.pending
    BY <1>0, PutIs
  <2> QED BY <1>4, <2>1, <2>3, <2>4
<1>5. CASE d \in members /\ conn[d].ready /\ ~(Room(conn[d]) >= 1)
  <2>1. conn'[d] = [conn[d] EXCEPT !.ready = FALSE, !.doomed = TRUE]
    BY <1>1, <1>5
  <2> QED BY <1>0, <1>5, <2>1 DEF Sound, ConnectionTo, Peer, Calm
<1> QED BY <1>2, <1>3, <1>4, <1>5

\* A connection that a revocation or the shutdown marks.
LEMMA MarkIs ==
  ASSUME NEW h, NEW k \in Sound(h)
  PROVE  /\ Peer(k, [k EXCEPT !.doomed = TRUE]) /\ [k EXCEPT !.doomed = TRUE].doomed
         /\ LET l == [k EXCEPT !.valid = FALSE]
            IN /\ l.user = k.user /\ l.at = k.at /\ l.held = k.held /\ l.ready = k.ready
               /\ l.doomed = k.doomed /\ l.shut = k.shut /\ ~l.valid
               /\ l.queue = k.queue /\ l.pending = k.pending /\ l.rev = k.rev
BY DEF Sound, ConnectionTo, Peer, Calm

LEMMA PlayerKeeps ==
  ASSUME Base, Stray, NEW u \in Users,
         PresenceChanged(u) \/ Hangup(u) \/ Notice(u) \/ Revoke(u) \/ Sweep(u)
  PROVE  Slots' /\ Stray'
<1>0. /\ conn \in [Conns -> Sound(head)] /\ \A d \in Conns : conn[d] \in Sound(head)
      /\ members \subseteq Conns
  BY SoundHere DEF Base, Bounds
<1>1. CASE PresenceChanged(u)
  <2>1. UNCHANGED <<members, closed, stopped, sweeping>>
    BY <1>1 DEF PresenceChanged, match
  <2>2. stopped => closed
    BY DEF Stray
  <2> QED BY <1>1, <2>1, <2>2, PresenceChangedIs, CalmKeeps DEF Base
<1>2. CASE Hangup(u) \/ Notice(u)
  <2>1. UNCHANGED <<members, conn, closed, stopped, sweeping>>
    BY <1>2 DEF Hangup, Notice, match, admin
  <2>2. stopped => closed
    BY DEF Stray
  <2> QED BY <2>1, <2>2, PeerSelf, CalmKeeps
<1>3. CASE Revoke(u)
  <2>1. /\ sweeping' = sweeping \cup {u} /\ UNCHANGED <<members, closed, stopped>>
        /\ \A d \in Conns : conn'[d] = IF conn[d].user = u THEN [conn[d] EXCEPT !.valid = FALSE]
                                                           ELSE conn[d]
    BY <1>3 DEF Revoke, match
  <2>2. ASSUME NEW d \in Conns
        PROVE  /\ conn'[d].user = conn[d].user /\ conn'[d].at = conn[d].at
               /\ conn'[d].ready = conn[d].ready
               /\ conn'[d].doomed = conn[d].doomed /\ conn'[d].shut = conn[d].shut
               /\ conn'[d].queue = conn[d].queue /\ conn'[d].pending = conn[d].pending
               /\ conn[d].user # u => conn'[d] = conn[d]
    <3>1. conn[d] \in Sound(head)
      BY <1>0
    <3>2. CASE conn[d].user = u
      <4>1. conn'[d] = [conn[d] EXCEPT !.valid = FALSE]
        BY <2>1, <3>2
      <4> QED BY <3>1, <3>2, <4>1, MarkIs
    <3>3. CASE conn[d].user # u
      BY <2>1, <3>3
    <3> QED BY <3>2, <3>3
  <2>3. Fresh.user \notin Users
    BY HubAssumption DEF Fresh
  <2>4. Slots'
    BY <2>1, <2>2, <2>3 DEF Base, Slots
  <2>5. OneTransport'
    BY <1>0, <2>1, <2>2 DEF Stray, NoStrayTransport, OneTransport
  <2>6. RevokedIsCutOff'
    BY <1>0, <2>1, <2>2 DEF Stray, NoStrayTransport, RevokedIsCutOff
  <2>7. NothingOutlivesHub' /\ (stopped => closed)'
    BY <1>0, <2>1, <2>2 DEF Stray, NoStrayTransport, NothingOutlivesHub
  <2> QED BY <2>4, <2>5, <2>6, <2>7 DEF Stray, NoStrayTransport
<1>4. CASE Sweep(u)
  <2>1. /\ sweeping' = sweeping \ {u} /\ UNCHANGED <<members, closed, stopped>>
        /\ \A d \in Conns :
             conn'[d] = IF d \in members /\ conn[d].user = u /\ ~conn[d].valid
                        THEN [conn[d] EXCEPT !.doomed = TRUE] ELSE conn[d]
    BY <1>4 DEF Sweep, match
  <2>2. ASSUME NEW d \in Conns
        PROVE  /\ Peer(conn[d], conn'[d]) /\ (d \notin members => conn'[d] = conn[d])
               /\ d \in members /\ conn[d].user = u /\ ~conn[d].valid => conn'[d].doomed
    <3>1. /\ Peer(conn[d], [conn[d] EXCEPT !.doomed = TRUE])
          /\ [conn[d] EXCEPT !.doomed = TRUE].doomed
      BY <1>0, MarkIs
    <3> QED BY <2>1, <3>1, PeerSelf
  <2>3. Slots'
    BY <1>0, <2>1, <2>2 DEF Base, Slots, Peer, Calm
  <2>4. OneTransport'
    BY <1>0, <2>1, <2>2 DEF Stray, NoStrayTransport, OneTransport, Peer, Calm
  <2>5. RevokedIsCutOff'
    BY <1>0, <2>1, <2>2 DEF Stray, NoStrayTransport, RevokedIsCutOff, Peer, Calm
  <2>6. NothingOutlivesHub' /\ (stopped => closed)'
    BY <1>0, <2>1, <2>2 DEF Stray, NoStrayTransport, NothingOutlivesHub, Peer, Calm
  <2> QED BY <2>3, <2>4, <2>5, <2>6 DEF Stray, NoStrayTransport
<1> QED BY <1>1, <1>2, <1>3, <1>4

LEMMA ProcessKeeps ==
  ASSUME Base, Stray,
         \/ CancelCommit \/ AbandonCommit \/ PublishOutside
         \/ Shutdown \/ ShutdownDone \/ Restart
  PROVE  Slots' /\ Stray'
<1>0. /\ conn \in [Conns -> Sound(head)] /\ \A d \in Conns : conn[d] \in Sound(head)
      /\ members \subseteq Conns /\ outside \in 0..head
  BY SoundHere DEF Base, Bounds
<1>1. stopped => closed
  BY DEF Stray
<1>2. CASE CancelCommit \/ AbandonCommit
  <2>1. UNCHANGED <<members, conn, closed, stopped, sweeping>>
    BY <1>2 DEF CancelCommit, AbandonCommit, match, admin
  <2> QED BY <1>1, <2>1, PeerSelf, CalmKeeps
<1>3. CASE PublishOutside
  <2>1. PublishEvent(outside, conn) /\ UNCHANGED <<members, closed, stopped, sweeping>>
    BY <1>3 DEF PublishOutside, admin
  <2>2. \A d \in Conns : Peer(conn[d], conn'[d]) /\ (d \notin members => conn'[d] = conn[d])
    BY <1>0, <2>1, PublishEventIs DEF Base
  <2> QED BY <1>1, <2>1, <2>2, CalmKeeps
<1>4. CASE Shutdown
  <2>1. /\ closed' /\ UNCHANGED <<members, stopped, sweeping>>
        /\ \A d \in Conns : conn'[d] = IF d \in members THEN [conn[d] EXCEPT !.doomed = TRUE]
                                                        ELSE conn[d]
    BY <1>4 DEF Shutdown, match
  <2>2. ASSUME NEW d \in Conns
        PROVE  /\ Peer(conn[d], conn'[d]) /\ (d \notin members => conn'[d] = conn[d])
               /\ d \in members => conn'[d].doomed
    <3>1. /\ Peer(conn[d], [conn[d] EXCEPT !.doomed = TRUE])
          /\ [conn[d] EXCEPT !.doomed = TRUE].doomed
      BY <1>0, MarkIs
    <3> QED BY <2>1, <3>1, PeerSelf
  <2> QED BY <1>0, <2>1, <2>2, CalmKeeps
<1>5. CASE ShutdownDone
  <2>1. closed /\ UNCHANGED <<members, conn, closed, sweeping>> /\ \A c \in Conns : conn[c].at = "idle"
    BY <1>5 DEF ShutdownDone, match
  <2>2. members = {}
    BY <1>0, <2>1 DEF Base, Slots
  <2>3. Slots'
    BY <2>1 DEF Base, Slots
  <2>4. OneTransport' /\ RevokedIsCutOff' /\ NothingOutlivesHub' /\ (stopped => closed)'
    BY <2>1, <2>2 DEF OneTransport, RevokedIsCutOff, NothingOutlivesHub
  <2> QED BY <2>3, <2>4 DEF Stray, NoStrayTransport
<1>6. CASE Restart
  <2>1. closed' = FALSE /\ stopped' = FALSE /\ members' = {} /\ \A d \in Conns : conn'[d] = Fresh
    BY <1>6 DEF Restart
  <2>2. Slots'
    <3>1. Fresh.at = "idle"
      BY DEF Fresh
    <3> QED BY <2>1, <3>1 DEF Slots
  <2>3. OneTransport' /\ RevokedIsCutOff' /\ NothingOutlivesHub' /\ (stopped => closed)'
    BY <2>1 DEF OneTransport, RevokedIsCutOff, NothingOutlivesHub
  <2> QED BY <2>2, <2>3 DEF Stray, NoStrayTransport
<1> QED BY <1>2, <1>3, <1>4, <1>5, <1>6

LEMMA StepKeepsStray ==
  ASSUME Base, Stray, [Next]_vars
  PROVE  Slots' /\ Stray'
<1>1. ASSUME NEW c \in Conns,
             \/ \E u \in Users : Accept(c, u)
             \/ Refuse(c) \/ Handler(c) \/ Incoming(c) \/ Writer(c) \/ Close(c)
      PROVE  Slots' /\ Stray'
  <2>1. CASE (\E u \in Users : Accept(c, u)) \/ Register(c)
    BY <2>1, AcceptKeeps, RegisterKeeps
  <2>2. CASE ~((\E u \in Users : Accept(c, u)) \/ Register(c))
    BY <1>1, <2>2, Turns, TurnKeepsSlots, TurnKeepsStray DEF Handler, Handshake
  <2> QED BY <2>1, <2>2
<1>2. CASE UNCHANGED vars
  <2>1. UNCHANGED <<members, conn, closed, stopped, sweeping>> /\ (stopped => closed)
    BY <1>2 DEF vars, Stray
  <2> QED BY <2>1, PeerSelf, CalmKeeps
<1> QED BY <1>1, <1>2, PlayerKeeps, ProcessKeeps DEF Next

LEMMA InitStray == Init => Base /\ Stray
<1>1. Init => Bounds /\ Flags
  BY InitBounds DEF Init, Flags
<1>2. Init => Slots /\ Stray
  BY DEF Init, Slots, Fresh, Stray, NoStrayTransport, OneTransport, RevokedIsCutOff,
     NothingOutlivesHub
<1> QED BY <1>1, <1>2 DEF Base

LEMMA StrayKept == Base /\ Stray /\ [Next]_vars => Base' /\ Stray'
BY StepBounds, StepFlags, StepKeepsStray DEF Base

(* A transport that is superseded, revoked or of a closed hub is being     *)
(* closed, wherever its handshake was, and none is left when the shutdown  *)
(* is done (Hub.register, the second credential check of ServeHTTP,        *)
(* DisconnectRevokedUser, Hub.Close).                                      *)
THEOREM StrayCorrect == Spec => []NoStrayTransport
<1>1. Base /\ Stray => NoStrayTransport
  BY DEF Stray
<1> QED BY <1>1, InitStray, StrayKept, PTL DEF Spec

(***************************************************************************)
(* Streams.  A stream that is unbroken and ends at r stays so when a       *)
(* notice, a snapshot that is not older than r or the events that follow r *)
(* are queued, and when the client takes its oldest message.               *)
(***************************************************************************)
Good(s, r) == Unbroken(s) /\ EndsAt(s, r)

LEMMA Concatenated ==
  ASSUME NEW S, NEW s \in Seq(S), NEW t \in Seq(S)
  PROVE  /\ s \o t \in Seq(S) /\ Len(s) \in Nat /\ Len(t) \in Nat
         /\ Len(s \o t) = Len(s) + Len(t) /\ DOMAIN (s \o t) = 1..Len(s) + Len(t)
         /\ DOMAIN s = 1..Len(s)
         /\ \A i \in 1..Len(s) : (s \o t)[i] = s[i]
         /\ \A i \in Len(s) + 1 .. Len(s) + Len(t) : (s \o t)[i] = t[i - Len(s)]
BY ConcatProperties, LenProperties

LEMMA GoodNotices ==
  ASSUME NEW S, NEW s \in Seq(S), NEW t \in Seq(S), NEW r, Good(s, r),
         \A i \in 1..Len(t) : ~IsState(t[i])
  PROVE  Good(s \o t, r)
<1> DEFINE w == s \o t
<1>1. /\ Len(s) \in Nat /\ Len(t) \in Nat /\ Len(w) = Len(s) + Len(t)
      /\ DOMAIN w = 1..Len(s) + Len(t) /\ DOMAIN s = 1..Len(s)
      /\ \A i \in 1..Len(s) : w[i] = s[i]
      /\ \A i \in Len(s) + 1 .. Len(s) + Len(t) : w[i] = t[i - Len(s)]
  BY Concatenated
<1> HIDE DEF w
<1>2. \A i \in DOMAIN w : IsState(w[i]) => i \in 1..Len(s) /\ w[i] = s[i]
  <2> SUFFICES ASSUME NEW i \in DOMAIN w, i \notin 1..Len(s) PROVE ~IsState(w[i])
    BY <1>1
  <2>1. i - Len(s) \in 1..Len(t) /\ w[i] = t[i - Len(s)]
    BY <1>1
  <2> QED BY <2>1
<1>3. \A i \in 1..Len(s), j \in 1..Len(s) : NoneBetween(w, i, j) => NoneBetween(s, i, j)
  BY <1>1 DEF NoneBetween
<1>4. \A i \in 1..Len(s) : NoneBetween(w, i, Len(w) + 1) => NoneBetween(s, i, Len(s) + 1)
  BY <1>1 DEF NoneBetween
<1>5. Unbroken(w)
  BY <1>1, <1>2, <1>3 DEF Good, Unbroken
<1>6. EndsAt(w, r)
  BY <1>1, <1>2, <1>4 DEF Good, EndsAt
<1> QED BY <1>5, <1>6 DEF Good, w

LEMMA GoodEvents ==
  ASSUME NEW S, NEW s \in Seq(S), NEW r \in Nat, NEW n \in Nat, Good(s, r),
         NEW t \in Seq(S), t = [i \in 1..n |-> Message("event", r + i)]
  PROVE  Good(s \o t, r + n)
<1> DEFINE w == s \o t
<1>0. Len(t) = n
  BY LenProperties
<1>1. /\ Len(s) \in Nat /\ Len(w) = Len(s) + n
      /\ DOMAIN w = 1..Len(s) + n /\ DOMAIN s = 1..Len(s)
      /\ \A i \in 1..Len(s) : w[i] = s[i]
      /\ \A i \in Len(s) + 1 .. Len(s) + n : w[i] = t[i - Len(s)]
  BY <1>0, Concatenated
<1> HIDE DEF w
<1>2. \A i \in Len(s) + 1 .. Len(s) + n :
        IsState(w[i]) /\ w[i].kind = "event" /\ w[i].rev = r + (i - Len(s))
  <2> SUFFICES ASSUME NEW i \in Len(s) + 1 .. Len(s) + n
               PROVE  IsState(w[i]) /\ w[i].kind = "event" /\ w[i].rev = r + (i - Len(s))
    OBVIOUS
  <2>1. i - Len(s) \in 1..n /\ w[i] = t[i - Len(s)]
    BY <1>1
  <2> QED BY <2>1 DEF IsState, Message
<1>3. \A i \in 1..Len(s), j \in 1..Len(s) + 1 : NoneBetween(w, i, j) => NoneBetween(s, i, j)
  BY <1>1 DEF NoneBetween
<1>4. ASSUME NEW i \in DOMAIN w, NEW j \in DOMAIN w, i < j, IsState(w[i]), IsState(w[j]),
             NoneBetween(w, i, j)
      PROVE  IF w[j].kind = "event" THEN w[j].rev = w[i].rev + 1 ELSE w[j].rev >= w[i].rev
  <2>1. CASE j <= Len(s)
    <3>1. i \in 1..Len(s) /\ j \in 1..Len(s) /\ j \in 1..Len(s) + 1
      BY <1>1, <1>4, <2>1
    <3>2. w[i] = s[i] /\ w[j] = s[j] /\ NoneBetween(s, i, j)
      BY <1>1, <1>3, <1>4, <3>1
    <3> QED BY <1>1, <1>4, <3>1, <3>2 DEF Good, Unbroken
  <2>2. CASE i <= Len(s) /\ j > Len(s)
    <3>1. j = Len(s) + 1
      <4> SUFFICES ASSUME j # Len(s) + 1 PROVE FALSE
        OBVIOUS
      <4>1. Len(s) + 1 \in i+1 .. j-1 /\ Len(s) + 1 \in Len(s) + 1 .. Len(s) + n
        BY <1>1, <2>2
      <4> QED BY <1>2, <1>4, <4>1 DEF NoneBetween
    <3>2. s[i].rev = r /\ w[i] = s[i]
      BY <1>1, <1>3, <1>4, <2>2, <3>1 DEF Good, EndsAt
    <3> QED BY <1>1, <1>2, <2>2, <3>1, <3>2
  <2>3. CASE i > Len(s)
    <3>1. j = i + 1
      <4> SUFFICES ASSUME j # i + 1 PROVE FALSE
        OBVIOUS
      <4>1. i + 1 \in i+1 .. j-1 /\ i + 1 \in Len(s) + 1 .. Len(s) + n
        BY <1>1, <1>4, <2>3
      <4> QED BY <1>2, <1>4, <4>1 DEF NoneBetween
    <3>2. i \in Len(s) + 1 .. Len(s) + n /\ j \in Len(s) + 1 .. Len(s) + n
      BY <1>1, <2>3, <3>1
    <3> QED BY <1>1, <1>2, <3>1, <3>2
  <2> QED BY <1>1, <2>1, <2>2, <2>3
<1>5. Unbroken(w)
  BY <1>4 DEF Unbroken
<1>6. EndsAt(w, r + n)
  <2> SUFFICES ASSUME NEW i \in DOMAIN w, IsState(w[i]), NoneBetween(w, i, Len(w) + 1)
               PROVE  w[i].rev = r + n
    BY DEF EndsAt
  <2>1. CASE n = 0
    BY <1>1, <1>3, <2>1 DEF Good, EndsAt
  <2>2. CASE n # 0
    <3>1. i = Len(s) + n
      <4> SUFFICES ASSUME i # Len(s) + n PROVE FALSE
        OBVIOUS
      <4>0. i \in Int /\ i < Len(s) + n
        BY <1>1
      <4>1. Len(s) + n \in i+1 .. Len(w) + 1 - 1 /\ Len(s) + n \in Len(s) + 1 .. Len(s) + n
        BY <1>1, <2>2, <4>0
      <4>2. IsState(w[Len(s) + n])
        BY <1>2, <4>1
      <4> QED BY <4>1, <4>2 DEF NoneBetween
    <3> QED BY <1>1, <1>2, <2>2, <3>1
  <2> QED BY <2>1, <2>2
<1> QED BY <1>5, <1>6 DEF Good, w

LEMMA GoodSnapshot ==
  ASSUME NEW S, NEW s \in Seq(S), NEW r \in Nat, NEW x \in Nat, x >= r, Good(s, r),
         Message("snapshot", x) \in S
  PROVE  Good(Append(s, Message("snapshot", x)), x)
<1> DEFINE w == Append(s, Message("snapshot", x))
           n == Len(s)
<1>1. /\ n \in Nat /\ Len(w) = n + 1 /\ DOMAIN w = 1..n + 1 /\ DOMAIN s = 1..n
      /\ \A i \in 1..n : w[i] = s[i]
      /\ w[n + 1] = Message("snapshot", x)
  BY AppendProperties, LenProperties
<1>2. IsState(w[n + 1]) /\ w[n + 1].kind = "snapshot" /\ w[n + 1].rev = x
  BY <1>1 DEF IsState, Message
<1> HIDE DEF w, n
<1>3. \A i \in 1..n, j \in 1..n + 1 : NoneBetween(w, i, j) => NoneBetween(s, i, j)
  BY <1>1 DEF NoneBetween
<1>4. ASSUME NEW i \in DOMAIN w, NEW j \in DOMAIN w, i < j, IsState(w[i]), IsState(w[j]),
             NoneBetween(w, i, j)
      PROVE  IF w[j].kind = "event" THEN w[j].rev = w[i].rev + 1 ELSE w[j].rev >= w[i].rev
  <2>1. CASE j # n + 1
    BY <1>1, <1>3, <1>4, <2>1 DEF Good, Unbroken
  <2>2. CASE j = n + 1
    <3>1. s[i].rev = r /\ w[i] = s[i]
      BY <1>1, <1>3, <1>4, <2>2 DEF Good, EndsAt, n
    <3> QED BY <1>2, <2>2, <3>1
  <2> QED BY <2>1, <2>2
<1>5. Unbroken(w)
  BY <1>4 DEF Unbroken
<1>6. EndsAt(w, x)
  <2> SUFFICES ASSUME NEW i \in DOMAIN w, IsState(w[i]), NoneBetween(w, i, Len(w) + 1)
               PROVE  w[i].rev = x
    BY DEF EndsAt
  <2>1. i = n + 1
    <3> SUFFICES ASSUME i # n + 1 PROVE FALSE
      OBVIOUS
    <3>1. n + 1 \in i+1 .. Len(w) + 1 - 1
      BY <1>1
    <3> QED BY <1>2, <3>1 DEF NoneBetween
  <2> QED BY <1>2, <2>1
<1> QED BY <1>5, <1>6 DEF Good, w

LEMMA StreamIs ==
  ASSUME NEW S, NEW q \in Seq(S), NEW v, Message("snapshot", v) \in S
  PROVE  /\ Stream(v, q) \in Seq(S) /\ Len(q) \in Nat
         /\ Len(Stream(v, q)) = Len(q) + 1 /\ DOMAIN Stream(v, q) = 1..Len(q) + 1
         /\ Stream(v, q)[1] = Message("snapshot", v)
         /\ \A i \in 2..Len(q) + 1 : Stream(v, q)[i] = q[i - 1]
<1>1. /\ <<Message("snapshot", v)>> \in Seq(S) /\ Len(<<Message("snapshot", v)>>) = 1
      /\ <<Message("snapshot", v)>>[1] = Message("snapshot", v)
  OBVIOUS
<1> QED BY <1>1, Concatenated DEF Stream

LEMMA StreamJoined ==
  ASSUME NEW S, NEW q \in Seq(S), NEW t \in Seq(S), NEW v, Message("snapshot", v) \in S
  PROVE  Stream(v, q \o t) = Stream(v, q) \o t
<1>1. q \o t \in Seq(S)
  BY Concatenated
<1>2. \A a, b, c \in Seq(S) : a \o (b \o c) = (a \o b) \o c
  OBVIOUS
<1>3. <<Message("snapshot", v)>> \in Seq(S)
  OBVIOUS
<1> QED BY <1>2, <1>3 DEF Stream

LEMMA StreamTail ==
  ASSUME NEW h \in Nat, NEW q \in Seq(MessagesTo(h)), q # <<>>, NEW v \in 0..h, NEW r,
         Good(Stream(v, q), r)
  PROVE  LET m == Head(q) IN
         /\ ~IsState(m) => Good(Stream(v, Tail(q)), r)
         /\ IsState(m) => /\ IF m.kind = "event" THEN m.rev = v + 1 ELSE m.rev >= v
                          /\ Good(Stream(m.rev, Tail(q)), r)
<1> DEFINE m == Head(q)
           t == Tail(q)
           x == IF IsState(m) THEN m.rev ELSE v
           w == Stream(v, q)
           z == Stream(x, t)
<1>1. /\ m \in MessagesTo(h) /\ t \in Seq(MessagesTo(h)) /\ Len(t) = Len(q) - 1 /\ m = q[1]
      /\ \A i \in 1..Len(t) : t[i] = q[i + 1]
  BY HeadTailProperties
<1>2. m.rev \in 0..h /\ x \in 0..h
  BY <1>1 DEF MessagesTo
<1>3. \A y \in 0..h : Message("snapshot", y) \in MessagesTo(h)
  BY DEF Message, MessagesTo, Kinds
<1>4. /\ Len(q) \in Nat /\ Len(t) \in Nat /\ Len(q) = Len(t) + 1
      /\ Len(w) = Len(q) + 1 /\ DOMAIN w = 1..Len(q) + 1
      /\ w[1] = Message("snapshot", v) /\ \A i \in 2..Len(q) + 1 : w[i] = q[i - 1]
      /\ Len(z) = Len(t) + 1 /\ DOMAIN z = 1..Len(t) + 1
      /\ z[1] = Message("snapshot", x) /\ \A i \in 2..Len(t) + 1 : z[i] = t[i - 1]
  <2> HIDE DEF t, x, m
  <2>1. /\ Len(q) \in Nat /\ Len(w) = Len(q) + 1 /\ DOMAIN w = 1..Len(q) + 1
        /\ w[1] = Message("snapshot", v) /\ \A i \in 2..Len(q) + 1 : w[i] = q[i - 1]
    BY <1>3, StreamIs
  <2>2. /\ Len(t) \in Nat /\ Len(z) = Len(t) + 1 /\ DOMAIN z = 1..Len(t) + 1
        /\ z[1] = Message("snapshot", x) /\ \A i \in 2..Len(t) + 1 : z[i] = t[i - 1]
    <3>1. t \in Seq(MessagesTo(h)) /\ Message("snapshot", x) \in MessagesTo(h)
      BY <1>1, <1>2, <1>3
    <3> QED BY ONLY <3>1, StreamIs
  <2>3. Len(q) = Len(t) + 1
    BY <1>1, <2>1, <2>2
  <2> QED BY <2>1, <2>2, <2>3
<1>5. /\ w[2] = m
      /\ \A i \in 2..Len(t) + 1 : z[i] = w[i + 1]
  BY <1>1, <1>4
<1>6. /\ IsState(w[1]) /\ w[1].rev = v /\ IsState(z[1]) /\ z[1].rev = x /\ z[1].kind = "snapshot"
  BY <1>4 DEF IsState, Message
<1>7. IsState(m) => IF m.kind = "event" THEN m.rev = v + 1 ELSE m.rev >= v
  <2> SUFFICES ASSUME IsState(m) PROVE IF m.kind = "event" THEN m.rev = v + 1 ELSE m.rev >= v
    OBVIOUS
  <2>1. 1 \in DOMAIN w /\ 2 \in DOMAIN w /\ NoneBetween(w, 1, 2)
    BY <1>4 DEF NoneBetween
  <2> HIDE DEF m, w
  <2> QED BY <1>5, <1>6, <2>1 DEF Good, Unbroken, w
\* The place in the longer stream of the i-th message of the shorter one.
<1> DEFINE at(i) == IF i = 1 /\ ~IsState(m) THEN 1 ELSE i + 1
<1> HIDE DEF m, t, x, w, z
<1>8. \A i \in 1..Len(t) + 1 :
        /\ at(i) \in DOMAIN w /\ at(i) \in i..i+1
        /\ IsState(w[at(i)]) <=> IsState(z[i])
        /\ w[at(i)].rev = z[i].rev
        /\ i > 1 => w[at(i)] = z[i]
  <2> SUFFICES ASSUME NEW i \in 1..Len(t) + 1
               PROVE  /\ at(i) \in DOMAIN w /\ at(i) \in i..i+1
                      /\ IsState(w[at(i)]) <=> IsState(z[i])
                      /\ w[at(i)].rev = z[i].rev
                      /\ i > 1 => w[at(i)] = z[i]
    OBVIOUS
  <2>1. CASE i = 1
    BY <1>4, <1>5, <1>6, <2>1 DEF x
  <2>2. CASE i > 1
    BY <1>4, <1>5, <2>2
  <2> QED BY <2>1, <2>2
<1>9. ASSUME NEW i \in 1..Len(t) + 1, NEW j \in 2..Len(t) + 2, i < j, NoneBetween(z, i, j)
      PROVE  NoneBetween(w, at(i), j + 1)
  <2> SUFFICES ASSUME NEW n \in at(i) + 1 .. (j + 1) - 1 PROVE ~IsState(w[n])
    BY DEF NoneBetween
  <2>1. CASE n = 2
    <3>1. i = 1 /\ ~IsState(m)
      BY <1>8, <2>1
    <3> QED BY <1>5, <2>1, <3>1
  <2>2. CASE n # 2
    <3>1. n - 1 \in 2..Len(t) + 1 /\ n - 1 \in i + 1 .. j - 1
      BY <1>4, <1>8, <2>2
    <3>2. z[n - 1] = w[n]
      BY <1>5, <3>1
    <3> QED BY <1>9, <3>1, <3>2 DEF NoneBetween
  <2> QED BY <2>1, <2>2
<1>10. Unbroken(z)
  <2> SUFFICES ASSUME NEW i \in DOMAIN z, NEW j \in DOMAIN z, i < j, IsState(z[i]), IsState(z[j]),
                      NoneBetween(z, i, j)
               PROVE  IF z[j].kind = "event" THEN z[j].rev = z[i].rev + 1 ELSE z[j].rev >= z[i].rev
    BY DEF Unbroken
  <2>1. i \in 1..Len(t) + 1 /\ j \in 2..Len(t) + 1
    BY <1>4
  <2>2. /\ at(i) \in DOMAIN w /\ j + 1 \in DOMAIN w /\ at(i) < j + 1
        /\ w[j + 1] = z[j] /\ w[at(i)].rev = z[i].rev /\ IsState(w[at(i)])
    <3>1. /\ at(i) \in DOMAIN w /\ at(i) \in i..i+1
          /\ w[at(i)].rev = z[i].rev /\ IsState(w[at(i)])
      BY <1>8, <2>1
    <3>2. w[j + 1] = z[j]
      BY <1>5, <2>1
    <3> HIDE DEF at
    <3>3. j + 1 \in DOMAIN w /\ at(i) < j + 1
      BY <1>4, <2>1, <3>1
    <3> QED BY <3>1, <3>2, <3>3
  <2>3. NoneBetween(w, at(i), j + 1)
    BY <1>9, <2>1, <1>4
  <2> HIDE DEF at
  <2> QED BY <2>2, <2>3 DEF Good, Unbroken, w
<1>11. EndsAt(z, r)
  <2> SUFFICES ASSUME NEW i \in DOMAIN z, IsState(z[i]), NoneBetween(z, i, Len(z) + 1)
               PROVE  z[i].rev = r
    BY DEF EndsAt
  <2>1. i \in 1..Len(t) + 1 /\ Len(z) + 1 \in 2..Len(t) + 2 /\ i < Len(z) + 1
        /\ (Len(z) + 1) + 1 = Len(w) + 1
    BY <1>4
  <2>2. NoneBetween(w, at(i), Len(w) + 1)
    BY <1>9, <2>1
  <2>3. at(i) \in DOMAIN w /\ IsState(w[at(i)]) /\ w[at(i)].rev = z[i].rev
    BY <1>8, <2>1
  <2> HIDE DEF at
  <2> QED BY <2>2, <2>3 DEF Good, EndsAt, w
<1> QED BY <1>7, <1>10, <1>11 DEF Good, m, t, x, z

-----------------------------------------------------------------------------
(* Runs of events: which revisions a flush delivers, and to whom.          *)
Consecutive(p, n) == [i \in 1..n |-> p + i]

\* The run that follows p is p + 1 .. p + n, and nothing that waits follows it.
LEMMA RunIs ==
  ASSUME NEW h \in Nat, NEW p \in 0..h, NEW ev \in SUBSET (1..h)
  PROVE  /\ Len(Run(p, ev)) \in Nat /\ p + Len(Run(p, ev)) \in 0..h
         /\ Run(p, ev) = Consecutive(p, Len(Run(p, ev)))
         /\ p + Len(Run(p, ev)) + 1 \notin ev
<1> DEFINE R == {r \in ev : r > p /\ p+1..r \subseteq ev}
           n == Cardinality(R)
<1>1. R \in SUBSET (p+1..h) /\ \A r \in R : p+1..r \subseteq R
  <2>1. \A r \in R : r \in p+1..h
    OBVIOUS
  <2>2. ASSUME NEW r \in R, NEW x \in p+1..r PROVE x \in R
    BY <2>1
  <2> HIDE DEF R
  <2> QED BY <2>1, <2>2
<1>2. IsFiniteSet(p+1..h) /\ IsFiniteSet(R) /\ n \in Nat
  <2>1. IsFiniteSet(p+1..h)
    BY FS_Interval
  <2> HIDE DEF R
  <2>2. IsFiniteSet(R)
    BY <1>1, <2>1, FS_Subset
  <2> QED BY <2>1, <2>2, FS_CardinalityType
<1>3. Run(p, ev) = [i \in 1..n |-> p + i]
  BY DEF Run
<1>4. p + n + 1 \notin ev
  <2> SUFFICES ASSUME p + n + 1 \in ev PROVE FALSE
    OBVIOUS
  <2>1. CASE p + n + 1 \in R
    <3>1. p+1..p+n+1 \in SUBSET R
      BY <1>1, <2>1
    <3>2. Cardinality(p+1..p+n+1) = n + 1
      <4> HIDE DEF n
      <4>1. p + 1 \in Int /\ p + n + 1 \in Int /\ p + 1 <= p + n + 1
        BY <1>2
      <4> QED BY <1>2, <4>1, FS_Interval
    <3>3. Cardinality(p+1..p+n+1) <= n
      <4> HIDE DEF R
      <4> QED BY <1>2, <3>1, FS_Subset
    <3> QED BY <1>2, <3>2, <3>3
  <2>2. CASE p + n + 1 \notin R
    <3>1. PICK x \in p+1..p+n : x \notin ev
      <4>1. p + n + 1 > p
        BY <1>2
      <4>2. ~(p+1..p+n+1 \subseteq ev)
        BY <2>2, <4>1
      <4>3. PICK x \in p+1..p+n+1 : x \notin ev
        BY <4>2
      <4> HIDE DEF n
      <4>4. x \in p+1..p+n
        BY <1>2, <4>3
      <4> QED BY <4>3, <4>4
    <3>2. R \in SUBSET (p+1..x-1)
      <4>1. ASSUME NEW r \in R PROVE r \in p+1..x-1
        <5>1. r \in p+1..h /\ x \notin p+1..r
          BY <1>1, <3>1
        <5> HIDE DEF n
        <5> QED BY <1>2, <3>1, <5>1
      <4> HIDE DEF R
      <4> QED BY <4>1
    <3> HIDE DEF R
    <3>3. n <= Cardinality(p+1..x-1)
      <4>1. IsFiniteSet(p+1..x-1)
        <5> HIDE DEF n
        <5>1. p + 1 \in Int /\ x - 1 \in Int
          BY <1>2, <3>1
        <5> QED BY <5>1, FS_Interval
      <4> QED BY <3>2, <4>1, FS_Subset
    <3> HIDE DEF n
    <3>4. x \in Int /\ p + 1 <= x /\ x <= p + n
      BY <1>2, <3>1
    <3>5. Cardinality(p+1..x-1) = IF p + 1 > x - 1 THEN 0 ELSE (x - 1) - (p + 1) + 1
      BY <3>4, FS_Interval
    <3> QED BY <1>2, <3>3, <3>4, <3>5
  <2> QED BY <2>1, <2>2
<1> HIDE DEF n, R
<1>5. Run(p, ev) \in Seq(0..h) /\ p + Len(Run(p, ev)) \in 0..h
  BY RunType
<1>6. Len(Run(p, ev)) = n
  BY <1>2, <1>3, <1>5, LenProperties
<1> QED BY <1>2, <1>3, <1>4, <1>5, <1>6 DEF Consecutive

\* What a connection at r has not been told of that run.
LEMMA AfterRun ==
  ASSUME NEW h \in Nat, NEW p \in 0..h, NEW n \in Nat, p + n <= h,
         NEW run, run = Consecutive(p, n),
         NEW r \in 0..h, r >= p
  PROVE  \E m \in Nat : /\ After(run, r) = Consecutive(r, m)
                        /\ m = IF r >= p + n THEN 0 ELSE p + n - r
<1> DEFINE d == IF r >= p + n THEN n ELSE r - p
           m == n - d
<1>1. d \in 0..n /\ m \in Nat /\ m = IF r >= p + n THEN 0 ELSE p + n - r
  OBVIOUS
<1>2. run \in Seq(0..h) /\ Len(run) = n /\ DOMAIN run = 1..n
  <2>1. run \in [1..n -> 0..h]
    BY DEF Consecutive
  <2>2. run \in Seq(0..h)
    BY <2>1, SeqDef
  <2> QED BY <2>1, <2>2, LenProperties
<1>3. {i \in DOMAIN run : run[i] <= r} = 1..d
  BY <1>2 DEF Consecutive
<1>4. Cardinality(1..d) = d
  <2> HIDE DEF d
  <2> QED BY <1>1, FS_Interval
<1>5. After(run, r) = SubSeq(run, 1 + d, n)
  BY <1>2, <1>3, <1>4 DEF After
<1>6. \A i \in 1 + d .. n : run[i] = p + i /\ run[i] \in 0..h
  BY <1>1 DEF Consecutive
<1>7. d < n => d = r - p
  OBVIOUS
<1> HIDE DEF d
<1>8. /\ SubSeq(run, 1 + d, n) \in Seq(0..h)
      /\ Len(SubSeq(run, 1 + d, n)) = m
      /\ \A i \in 1..m : SubSeq(run, 1 + d, n)[i] = run[d + i]
  <2>1. 1 + d \in Int /\ n \in Int
    BY <1>1
  <2>2. /\ SubSeq(run, 1 + d, n) \in Seq(0..h)
        /\ Len(SubSeq(run, 1 + d, n)) = IF 1 + d <= n THEN n - (1 + d) + 1 ELSE 0
        /\ \A i \in 1 .. n - (1 + d) + 1 : SubSeq(run, 1 + d, n)[i] = run[(1 + d) + i - 1]
    BY <1>6, <2>1, SubSeqProperties
  <2>3. \A i \in Int : (1 + d) + i - 1 = d + i
    BY <1>1
  <2> QED BY <1>1, <2>2, <2>3
<1>9. \A i \in 1..m : SubSeq(run, 1 + d, n)[i] = r + i
  <2> SUFFICES ASSUME NEW i \in 1..m PROVE SubSeq(run, 1 + d, n)[i] = r + i
    OBVIOUS
  <2>1. d + i \in 1 + d .. n /\ d < n
    BY <1>1
  <2> QED BY <1>6, <1>7, <1>8, <2>1
<1>10. SubSeq(run, 1 + d, n) = [i \in 1..m |-> r + i]
  <2> DEFINE t == SubSeq(run, 1 + d, n)
  <2>1. DOMAIN t = 1..m /\ t = [i \in DOMAIN t |-> t[i]]
    BY <1>8, LenProperties
  <2> HIDE DEF t, m
  <2> QED BY <1>9, <2>1 DEF t
<1> QED BY <1>1, <1>5, <1>10 DEF Consecutive

\* Of a backlog up to x and a run beyond x, the run is what is after x.
LEMMA AfterJoined ==
  ASSUME NEW h \in Nat, NEW s \in Seq(0..h), NEW t \in Seq(0..h), NEW x \in 0..h,
         \A i \in 1..Len(s) : s[i] <= x, \A i \in 1..Len(t) : t[i] > x
  PROVE  After(s \o t, x) = t
<1> DEFINE w == s \o t
           D == {i \in DOMAIN w : w[i] <= x}
<1>1. /\ w \in Seq(0..h) /\ Len(s) \in Nat /\ Len(t) \in Nat
      /\ Len(w) = Len(s) + Len(t) /\ DOMAIN w = 1..Len(s) + Len(t)
      /\ \A i \in 1..Len(s) : w[i] = s[i]
      /\ \A i \in Len(s) + 1 .. Len(s) + Len(t) : w[i] = t[i - Len(s)]
  BY Concatenated
<1> HIDE DEF w
<1>2. ASSUME NEW i \in 1..Len(s) + Len(t), i \notin 1..Len(s)
      PROVE  ~(w[i] <= x)
  <2>1. i \in Len(s) + 1 .. Len(s) + Len(t) /\ i - Len(s) \in 1..Len(t)
    BY <1>1, <1>2
  <2>2. w[i] = t[i - Len(s)] /\ t[i - Len(s)] > x /\ t[i - Len(s)] \in 0..h
    BY <1>1, <2>1, ElementOfSeq
  <2> QED BY <2>2
<1>3. D = 1..Len(s)
  <2>1. ASSUME NEW i \in 1..Len(s) PROVE i \in DOMAIN w /\ w[i] <= x
    <3>1. i \in 1..Len(s) + Len(t)
      BY <1>1
    <3>2. w[i] = s[i] /\ s[i] <= x
      BY <1>1
    <3> QED BY <1>1, <3>1, <3>2
  <2>2. \A i \in D : i \in 1..Len(s)
    BY <1>1, <1>2
  <2> QED BY <2>1, <2>2
<1>4. Cardinality(1..Len(s)) = Len(s)
  <2>1. \A n \in Nat : Cardinality(1..n) = n
    <3> SUFFICES ASSUME NEW n \in Nat PROVE Cardinality(1..n) = n
      OBVIOUS
    <3> QED BY ONLY n \in Nat, FS_Interval
  <2> QED BY <1>1, <2>1
<1>5. After(w, x) = SubSeq(w, 1 + Len(s), Len(s) + Len(t))
  BY <1>1, <1>3, <1>4 DEF After
<1> HIDE DEF D
<1>6. /\ SubSeq(w, 1 + Len(s), Len(s) + Len(t)) \in Seq(0..h)
      /\ Len(SubSeq(w, 1 + Len(s), Len(s) + Len(t))) = Len(t)
      /\ \A i \in 1..Len(t) : SubSeq(w, 1 + Len(s), Len(s) + Len(t))[i] = w[Len(s) + i]
  <2>1. \A i \in 1 + Len(s) .. Len(s) + Len(t) : w[i] \in 0..h
    <3>1. \A i \in 1..Len(w) : w[i] \in 0..h
      BY <1>1, ElementOfSeq
    <3>2. \A i \in 1 + Len(s) .. Len(s) + Len(t) : i \in 1..Len(w)
      BY <1>1
    <3> QED BY <3>1, <3>2
  <2>2. 1 + Len(s) \in Int /\ Len(s) + Len(t) \in Int
    BY <1>1
  <2> DEFINE a == 1 + Len(s)
             b == Len(s) + Len(t)
  <2>3. /\ SubSeq(w, a, b) \in Seq(0..h)
        /\ Len(SubSeq(w, a, b)) = IF a <= b THEN b - a + 1 ELSE 0
        /\ \A i \in 1 .. b - a + 1 : SubSeq(w, a, b)[i] = w[a + i - 1]
    <3> HIDE DEF a, b
    <3> QED BY <2>1, <2>2, SubSeqProperties DEF a, b
  <2>4. b - a + 1 = Len(t) /\ \A i \in Int : a + i - 1 = Len(s) + i
    BY <1>1
  <2>5. Len(SubSeq(w, a, b)) = Len(t)
    BY <1>1, <2>3, <2>4
  <2> QED BY <2>3, <2>4, <2>5
<1>7. \A i \in 1..Len(t) : SubSeq(w, 1 + Len(s), Len(s) + Len(t))[i] = t[i]
  <2> SUFFICES ASSUME NEW i \in 1..Len(t)
               PROVE  SubSeq(w, 1 + Len(s), Len(s) + Len(t))[i] = t[i]
    OBVIOUS
  <2>1. Len(s) + i \in Len(s) + 1 .. Len(s) + Len(t) /\ (Len(s) + i) - Len(s) = i
    BY <1>1
  <2> QED BY <1>1, <1>6, <2>1
<1>8. SubSeq(w, 1 + Len(s), Len(s) + Len(t)) = t
  BY <1>6, <1>7, SeqEqual
<1> QED BY <1>5, <1>8 DEF w

-----------------------------------------------------------------------------
(* What the operators on connections add to a stream.                      *)
\* l's queue carries on where k's leaves off.
Continues(h, k, l) ==
  /\ l.rev >= k.rev
  /\ \A v \in 0..h : Good(Stream(v, k.queue), k.rev) => Good(Stream(v, l.queue), l.rev)

LEMMA SnapshotMessages ==
  ASSUME NEW h \in Nat
  PROVE  /\ \A v \in 0..h : Message("snapshot", v) \in MessagesTo(h)
         /\ \A v \in 0..h : Message("event", v) \in MessagesTo(h)
         /\ NoticeMessage \in MessagesTo(h) /\ ~IsState(NoticeMessage)
BY DEF Message, NoticeMessage, MessagesTo, Kinds, IsState

LEMMA ContinuesSame ==
  ASSUME NEW h \in Nat, NEW k \in Sound(h), NEW l, l.queue = k.queue, l.rev = k.rev
  PROVE  Continues(h, k, l)
<1>1. k.rev \in 0..h
  BY SoundColumns
<1> QED BY <1>1 DEF Continues

LEMMA ContinuesOn ==
  ASSUME NEW h \in Nat, NEW k \in Sound(h), NEW l \in Sound(h), NEW m \in Sound(h),
         Continues(h, k, l), Continues(h, l, m)
  PROVE  Continues(h, k, m)
<1>1. k.rev \in 0..h /\ l.rev \in 0..h /\ m.rev \in 0..h
  BY SoundColumns
<1> QED BY <1>1 DEF Continues

LEMMA NoticesContinue ==
  ASSUME NEW h \in Nat, NEW k \in Sound(h), NEW l, NEW t \in Seq(MessagesTo(h)),
         \A i \in 1..Len(t) : ~IsState(t[i]), l.queue = k.queue \o t, l.rev = k.rev
  PROVE  Continues(h, k, l)
<1>1. k.queue \in Seq(MessagesTo(h)) /\ k.rev \in 0..h
  BY SoundColumns
<1>2. ASSUME NEW v \in 0..h, Good(Stream(v, k.queue), k.rev)
      PROVE  Good(Stream(v, l.queue), l.rev)
  <2>1. Message("snapshot", v) \in MessagesTo(h)
    BY SnapshotMessages
  <2>2. Stream(v, k.queue) \in Seq(MessagesTo(h))
    BY <1>1, <2>1, StreamIs
  <2>3. Stream(v, l.queue) = Stream(v, k.queue) \o t
    BY <1>1, <2>1, StreamJoined
  <2> QED BY <1>2, <2>2, <2>3, GoodNotices
<1> QED BY <1>1, <1>2 DEF Continues

LEMMA SnapshotContinues ==
  ASSUME NEW h \in Nat, NEW k \in Sound(h), NEW l, NEW x \in 0..h, x >= k.rev,
         l.queue = Append(k.queue, Message("snapshot", x)), l.rev = x
  PROVE  Continues(h, k, l)
<1>1. k.queue \in Seq(MessagesTo(h)) /\ k.rev \in 0..h
  BY SoundColumns
<1>2. ASSUME NEW v \in 0..h, Good(Stream(v, k.queue), k.rev)
      PROVE  Good(Stream(v, l.queue), l.rev)
  <2>1. Message("snapshot", v) \in MessagesTo(h) /\ Message("snapshot", x) \in MessagesTo(h)
    BY SnapshotMessages
  <2>2. Stream(v, k.queue) \in Seq(MessagesTo(h))
    BY <1>1, <2>1, StreamIs
  <2>3. \A s \in Seq(MessagesTo(h)) :
          Append(s, Message("snapshot", x)) = s \o <<Message("snapshot", x)>>
    BY <2>1, AppendIsConcat
  <2>4. <<Message("snapshot", x)>> \in Seq(MessagesTo(h))
    BY <2>1
  <2>5. Stream(v, l.queue) = Stream(v, k.queue) \o <<Message("snapshot", x)>>
    <3>1. l.queue = k.queue \o <<Message("snapshot", x)>>
      BY <1>1, <2>3
    <3> DEFINE one == <<Message("snapshot", x)>>
    <3>2. one \in Seq(MessagesTo(h)) /\ l.queue = k.queue \o one
      BY <2>4, <3>1
    <3> DEFINE q == k.queue
    <3> HIDE DEF one, q
    <3>3. Stream(v, q \o one) = Stream(v, q) \o one
      <4>1. q \in Seq(MessagesTo(h)) /\ one \in Seq(MessagesTo(h))
        BY <1>1, <3>2 DEF q
      <4> QED BY ONLY <2>1, <4>1, StreamJoined
    <3> QED BY <3>2, <3>3 DEF one, q
  <2>6. Stream(v, l.queue) = Append(Stream(v, k.queue), Message("snapshot", x))
    BY <2>2, <2>3, <2>5
  <2>7. k.rev \in Nat /\ x \in Nat
    BY <1>1
  <2> QED BY <1>2, <2>1, <2>2, <2>6, <2>7, GoodSnapshot
<1> QED BY <1>1, <1>2 DEF Continues

LEMMA EventsContinue ==
  ASSUME NEW h \in Nat, NEW k \in Sound(h), NEW l, NEW m \in Nat, k.rev + m <= h,
         l.queue = k.queue \o [i \in 1..m |-> Message("event", k.rev + i)], l.rev = k.rev + m
  PROVE  Continues(h, k, l)
<1> DEFINE t == [i \in 1..m |-> Message("event", k.rev + i)]
<1>1. k.queue \in Seq(MessagesTo(h)) /\ k.rev \in 0..h
  BY SoundColumns
<1>2. t \in Seq(MessagesTo(h))
  <2>1. \A i \in 1..m : k.rev + i \in 0..h
    BY <1>1
  <2>2. \A i \in 1..m : Message("event", k.rev + i) \in MessagesTo(h)
    BY <2>1, SnapshotMessages
  <2>3. t \in [1..m -> MessagesTo(h)]
    BY <2>2
  <2> HIDE DEF t
  <2> QED BY <2>3, SeqDef
<1>3. ASSUME NEW v \in 0..h, Good(Stream(v, k.queue), k.rev)
      PROVE  Good(Stream(v, l.queue), l.rev)
  <2>1. Message("snapshot", v) \in MessagesTo(h)
    BY SnapshotMessages
  <2>2. Stream(v, k.queue) \in Seq(MessagesTo(h)) /\ k.rev \in Nat
    BY <1>1, <2>1, StreamIs
  <2>3. Stream(v, l.queue) = Stream(v, k.queue) \o t
    <3> DEFINE q == k.queue
    <3> HIDE DEF t, q
    <3>1. l.queue = q \o t
      BY DEF t, q
    <3>2. q \in Seq(MessagesTo(h))
      BY <1>1 DEF q
    <3>3. Stream(v, q \o t) = Stream(v, q) \o t
      BY ONLY <1>2, <2>1, <3>2, StreamJoined
    <3> QED BY <3>1, <3>3 DEF q
  <2>4. t = [i \in 1..m |-> Message("event", k.rev + i)]
    OBVIOUS
  <2> HIDE DEF t
  <2>5. Good(Stream(v, k.queue) \o t, k.rev + m)
    BY <1>2, <1>3, <2>2, <2>4, GoodEvents
  <2> QED BY <2>3, <2>5
<1>4. l.rev >= k.rev
  BY <1>1
<1> QED BY <1>3, <1>4 DEF Continues

\* A connection that is told a run: it carries on, and unless it is being
\* closed it has been told all of it.
LEMMA Delivered ==
  ASSUME NEW h \in Nat, NEW k \in Sound(h), NEW p \in 0..h, NEW n \in Nat, p + n <= h,
         NEW run, run = Consecutive(p, n), k.rev >= p
  PROVE  /\ Continues(h, k, PutEvents(k, run))
         /\ PutEvents(k, run).doomed \/ PutEvents(k, run).rev >= p + n
<1> DEFINE news == After(run, k.rev)
           sent == SubSeq(news, 1, Smaller(Room(k), Len(news)))
           shown == [i \in 1..Len(sent) |-> Message("event", sent[i])]
           last == IF sent = <<>> THEN k.rev ELSE sent[Len(sent)]
           slow == k.doomed \/ Len(news) > Room(k)
           l == PutEvents(k, run)
<1>1. k.rev \in 0..h /\ Room(k) \in Nat /\ k.queue \in Seq(MessagesTo(h))
  BY SoundColumns
<1>2. PICK m \in Nat : /\ news = Consecutive(k.rev, m)
                       /\ m = IF k.rev >= p + n THEN 0 ELSE p + n - k.rev
  <2> DEFINE r == k.rev
  <2>1. r \in 0..h /\ r >= p
    BY <1>1
  <2> HIDE DEF r
  <2>2. \E m \in Nat : /\ After(run, r) = Consecutive(r, m)
                       /\ m = IF r >= p + n THEN 0 ELSE p + n - r
    BY <2>1, AfterRun
  <2> QED BY <2>2 DEF r
<1>3. l = [k EXCEPT !.queue = k.queue \o shown, !.rev = last, !.doomed = slow]
  BY DEF PutEvents
<1> HIDE DEF news
<1>4. k.rev + m <= h /\ (k.rev + m >= p + n)
  BY <1>1, <1>2
<1>5. news \in Seq(0..h) /\ Len(news) = m /\ \A i \in 1..m : news[i] = k.rev + i
  <2>1. news \in [1..m -> 0..h]
    <3>1. \A i \in 1..m : k.rev + i \in 0..h
      BY <1>1, <1>4
    <3> QED BY <1>2, <3>1 DEF Consecutive
  <2>2. news \in Seq(0..h)
    BY <2>1, SeqDef
  <2> QED BY <1>2, <2>1, <2>2, LenProperties DEF Consecutive
<1> DEFINE j == Smaller(Room(k), m)
<1>6. j \in Nat /\ j <= m /\ (j < m => m > Room(k))
  BY <1>1 DEF Smaller
<1>7. sent \in Seq(0..h) /\ Len(sent) = j /\ \A i \in 1..j : sent[i] = k.rev + i
  <2>1. /\ sent \in Seq(0..h) /\ Len(sent) = j
    BY <1>1, <1>5, Fitting
  <2>2. \A i \in 1..j : news[i] \in 0..h
    BY <1>5, <1>6, ElementOfSeq
  <2> HIDE DEF j
  <2>3. \A i \in 1 .. j - 1 + 1 : SubSeq(news, 1, j)[i] = news[1 + i - 1]
    BY <1>6, <2>2, SubSeqProperties
  <2>4. \A i \in 1..j : i \in 1..m /\ i \in 1..j-1+1 /\ 1 + i - 1 = i
    BY <1>6
  <2>5. \A i \in 1..j : SubSeq(news, 1, j)[i] = k.rev + i
    BY <1>5, <2>3, <2>4
  <2>6. sent = SubSeq(news, 1, j)
    BY <1>5 DEF j
  <2> QED BY <2>1, <2>5, <2>6
<1> HIDE DEF sent, j
<1>8. shown = [i \in 1..j |-> Message("event", k.rev + i)]
  BY <1>7
<1>9. last = k.rev + j
  <2>1. CASE j = 0
    <3>1. sent = <<>>
      BY <1>7, <2>1, EmptySeq
    <3> QED BY <1>1, <2>1, <3>1
  <2>2. CASE j # 0
    <3>1. sent # <<>> /\ j \in 1..j
      BY <1>6, <1>7, <2>2, EmptySeq
    <3> QED BY <1>7, <3>1
  <2> QED BY <2>1, <2>2
<1>10. slow \in BOOLEAN /\ (slow \/ j = m)
  BY <1>1, <1>5, <1>6
<1> DEFINE q == k.queue \o shown
<1> HIDE DEF shown, last, slow, l, q
<1>11. l.queue = q /\ l.rev = last /\ l.doomed = slow
  BY <1>3 DEF Sound, ConnectionTo, q
<1>12. Continues(h, k, l)
  <2>1. l.queue = k.queue \o [i \in 1..j |-> Message("event", k.rev + i)]
    BY <1>8, <1>11 DEF q
  <2>2. l.rev = k.rev + j /\ k.rev + j <= h
    BY <1>1, <1>4, <1>6, <1>9, <1>11
  <2> QED BY <1>6, <2>1, <2>2, EventsContinue
<1>13. l.doomed \/ l.rev >= p + n
  BY <1>4, <1>9, <1>10, <1>11
<1> QED BY <1>12, <1>13 DEF l

-----------------------------------------------------------------------------
(***************************************************************************)
(* The invariant of the streams, and what a step may make of one.          *)
(***************************************************************************)
(* A connection at publishedRevision p: it is not ready before its         *)
(* handshake ends, its backlog is of what has been published, and once it  *)
(* is ready it has been told of that too.                                  *)
InStep(k, p) ==
  /\ k.at \in {"registered", "readying", "refreshing"} => ~k.ready
  /\ k.at = "registered" => k.queue = <<>>
  /\ k.at = "readying" => k.held = k.rev
  /\ \A i \in 1..Len(k.pending) : k.pending[i] <= p
  /\ k.ready /\ ~k.doomed => k.rev >= p

Together == \A c \in members : InStep(conn[c], published)

(* Where the property speaks of a connection, and what a step may make of  *)
(* it: it carries on, or it begins with a whole snapshot.                  *)
Streaming(k) == ~k.doomed /\ k.at \notin {"registered", "ending"}

Moves(h, k, l) ==
  Streaming(l) => \/ Streaming(k) /\ Continues(h, k, l)
                  \/ \A v \in 0..h : Good(Stream(v, l.queue), l.rev)

LEMMA MovesSame ==
  ASSUME NEW h \in Nat, NEW k \in Sound(h), NEW l, l.queue = k.queue, l.rev = k.rev,
         Streaming(l) => Streaming(k)
  PROVE  Moves(h, k, l)
BY ContinuesSame DEF Moves

LEMMA FlushedPeer ==
  ASSUME NEW h \in Nat, NEW k \in Sound(h), NEW p \in 0..h, NEW n \in Nat, p + n <= h,
         NEW run \in Seq(0..h), run = Consecutive(p, n), Len(run) = n, InStep(k, p),
         NEW l, l = IF k.ready THEN PutEvents(k, run) ELSE Hold(k, run)
  PROVE  InStep(l, p + n) /\ (Streaming(l) => Streaming(k) /\ Continues(h, k, l))
<1>1. CASE k.ready
  <2>1. l = PutEvents(k, run)
    BY <1>1
  <2>2. /\ Peer(k, l) /\ l.ready = k.ready /\ l.pending = k.pending
        /\ l.doomed = (k.doomed \/ Len(After(run, k.rev)) > Room(k))
    BY <2>1, PutEventsIs
  <2>3. ~l.doomed => k.rev >= p /\ ~k.doomed
    BY <1>1, <2>2 DEF InStep
  <2>4. ~l.doomed => Continues(h, k, l) /\ l.rev >= p + n
    BY <2>1, <2>3, Delivered
  <2>5. \A i \in 1..Len(l.pending) : l.pending[i] <= p + n
    <3>1. k.pending \in Seq(0..h) /\ Len(k.pending) \in Nat
      BY SoundColumns
    <3>2. \A i \in 1..Len(k.pending) : k.pending[i] \in 0..h /\ k.pending[i] <= p
      BY <3>1, ElementOfSeq DEF InStep
    <3> QED BY <2>2, <3>2
  <2> QED BY <1>1, <2>2, <2>4, <2>5 DEF InStep, Streaming, Peer, Calm
<1>2. CASE ~k.ready
  <2> DEFINE kept == Smaller(PendingCap - Len(k.pending), Len(run))
             more == SubSeq(run, 1, kept)
  <2>1. l = Hold(k, run)
    BY <1>2
  <2>2. /\ Peer(k, l) /\ l.ready = k.ready /\ l.rev = k.rev /\ l.queue = k.queue
        /\ l.pending = k.pending \o more
    <3> DEFINE j == Hold(k, run)
    <3>1. /\ Peer(k, j) /\ j.ready = k.ready /\ j.rev = k.rev /\ j.queue = k.queue
          /\ j.pending = k.pending
               \o SubSeq(run, 1, Smaller(PendingCap - Len(k.pending), Len(run)))
      BY HoldIs
    <3> HIDE DEF j
    <3>2. j = l
      BY <2>1 DEF j
    <3> QED BY <3>1, <3>2
  <2>3. /\ k.pending \in Seq(0..h) /\ PendingCap - Len(k.pending) \in Nat
    <3>1. /\ k.pending \in Seq(0..h) /\ Len(k.pending) \in Nat
          /\ Len(k.pending) <= PendingCap
      BY SoundColumns
    <3> QED BY <3>1, HubAssumption
  <2>4. more \in Seq(0..h) /\ Len(more) = kept /\ kept \in Nat /\ kept <= n
    <3> DEFINE room == PendingCap - Len(k.pending)
    <3>1. room \in Nat
      BY <2>3
    <3> HIDE DEF room
    <3> QED BY <3>1, Fitting DEF room
  <2>5. \A i \in 1..kept : more[i] <= p + n
    <3>1. \A i \in 1..kept : run[i] \in 0..h /\ run[i] = p + i
      BY <2>4, ElementOfSeq DEF Consecutive
    <3> HIDE DEF kept
    <3>2. \A i \in 1..kept - 1 + 1 : more[i] = run[1 + i - 1]
      BY <2>4, <3>1, SubSeqProperties
    <3>3. \A i \in 1..kept : i \in 1..kept - 1 + 1 /\ 1 + i - 1 = i
      BY <2>4
    <3>4. \A i \in 1..kept : more[i] = run[i]
      BY <3>2, <3>3
    <3> HIDE DEF more
    <3> QED BY <2>4, <3>1, <3>4
  <2> HIDE DEF more, kept
  <2>6. \A i \in 1..Len(l.pending) : l.pending[i] <= p + n
    <3>1. /\ Len(k.pending) \in Nat /\ Len(l.pending) = Len(k.pending) + kept
          /\ \A i \in 1..Len(k.pending) : l.pending[i] = k.pending[i]
          /\ \A i \in Len(k.pending) + 1 .. Len(k.pending) + kept :
               l.pending[i] = more[i - Len(k.pending)]
      <4> DEFINE a == k.pending
      <4>1. a \in Seq(0..h) /\ l.pending = a \o more
        BY <2>2, <2>3
      <4> HIDE DEF a
      <4>2. /\ Len(a) \in Nat /\ Len(a \o more) = Len(a) + Len(more)
            /\ \A i \in 1..Len(a) : (a \o more)[i] = a[i]
            /\ \A i \in Len(a) + 1 .. Len(a) + Len(more) : (a \o more)[i] = more[i - Len(a)]
        <5>1. more \in Seq(0..h)
          BY <2>4
        <5> QED BY ONLY <4>1, <5>1, Concatenated
      <4> QED BY <2>4, <4>1, <4>2 DEF a
    <3>2. \A i \in 1..Len(k.pending) : k.pending[i] \in 0..h /\ k.pending[i] <= p
      BY <2>3, ElementOfSeq DEF InStep
    <3>3. ASSUME NEW i \in 1..Len(l.pending) PROVE l.pending[i] <= p + n
      <4>1. CASE i <= Len(k.pending)
        <5>1. i \in 1..Len(k.pending)
          BY <2>4, <3>1, <4>1
        <5>2. l.pending[i] = k.pending[i] /\ k.pending[i] \in 0..h /\ k.pending[i] <= p
          BY <3>1, <3>2, <5>1
        <5> QED BY <5>2
      <4>2. CASE i > Len(k.pending)
        <5>1. i - Len(k.pending) \in 1..kept
          BY <2>4, <3>1, <4>2
        <5>2. l.pending[i] = more[i - Len(k.pending)]
          BY <2>4, <3>1, <4>2
        <5> QED BY <2>5, <5>1, <5>2
      <4>3. i \in Int /\ Len(k.pending) \in Int
        BY <2>4, <3>1
      <4> QED BY <4>1, <4>2, <4>3
    <3> QED BY <3>3
  <2>7. Continues(h, k, l)
    BY <2>2, ContinuesSame
  <2> QED BY <1>2, <2>2, <2>6, <2>7 DEF InStep, Streaming, Peer, Calm
<1> QED BY <1>1, <1>2

\* publishedRevision moves on and a connection stays as it is.
LEMMA InStepLater ==
  ASSUME NEW h \in Nat, NEW k \in Sound(h), NEW p \in 0..h, NEW q \in 0..h, q >= p,
         InStep(k, p), k.ready /\ ~k.doomed => k.rev >= q
  PROVE  InStep(k, q)
<1>1. k.pending \in Seq(0..h)
  BY SoundColumns
<1>2. \A i \in 1..Len(k.pending) : k.pending[i] \in 0..h /\ k.pending[i] <= p
  BY <1>1, ElementOfSeq DEF InStep
<1>3. \A i \in 1..Len(k.pending) : k.pending[i] <= q
  BY <1>2
<1> QED BY <1>3 DEF InStep

-----------------------------------------------------------------------------
(***************************************************************************)
(* Every step but a delivery to the client keeps the connections in step   *)
(* and their streams going: the handshake, readLoop, ...                   *)
(***************************************************************************)
Served == \A d \in members' : InStep(conn'[d], published') /\ Moves(head, conn[d], conn'[d])

\* A step that changes one connection.
LEMMA OneServed ==
  ASSUME Base, Together, NEW c \in Conns, NEW l, conn' = [conn EXCEPT ![c] = l],
         UNCHANGED <<members, published>>,
         c \in members => InStep(l, published) /\ Moves(head, conn[c], l)
  PROVE  Served
<1>1. conn'[c] = l /\ (\A d \in Conns \ {c} : conn'[d] = conn[d]) /\ members \subseteq Conns
  BY DEF Base, Bounds
<1>2. \A d \in Conns : Moves(head, conn[d], conn[d])
  BY SoundHere, MovesSame DEF Base
<1> QED BY <1>1, <1>2 DEF Served, Together

LEMMA ReturnServed ==
  ASSUME Base, Together, NEW c \in Conns, Returns(c), conn[c].at # "idle",
         UNCHANGED <<members, published>>
  PROVE  Served
<1>1. conn' = [conn EXCEPT ![c] = Returned(conn[c])]
  BY DEF Returns
<1>2. conn[c] \in Sound(head) /\ head \in Nat
  BY SoundHere DEF Base
<1>3. ASSUME c \in members
      PROVE  InStep(Returned(conn[c]), published) /\ Moves(head, conn[c], Returned(conn[c]))
  <2>1. ~conn[c].shut /\ InStep(conn[c], published)
    BY <1>3 DEF Base, Slots, Together
  <2>2. /\ Returned(conn[c]).at = "ending" /\ Returned(conn[c]).doomed
        /\ Returned(conn[c]).pending = conn[c].pending
    BY <1>2, <2>1, ReturnedIs
  <2> QED BY <2>1, <2>2 DEF InStep, Moves, Streaming
<1> QED BY <1>1, <1>3, OneServed

\* A connection that is marked.
LEMMA MarkServed ==
  ASSUME Base, Together, NEW c \in Conns,
         conn' = [conn EXCEPT ![c] = [conn[c] EXCEPT !.doomed = TRUE]],
         UNCHANGED <<members, published>>
  PROVE  Served
<1> DEFINE l == [conn[c] EXCEPT !.doomed = TRUE]
<1>1. /\ l.at = conn[c].at /\ l.ready = conn[c].ready /\ l.queue = conn[c].queue
      /\ l.held = conn[c].held /\ l.rev = conn[c].rev /\ l.pending = conn[c].pending
      /\ l.doomed
  BY SoundHere DEF Base, Sound, ConnectionTo
<1> HIDE DEF l
<1>2. c \in members => InStep(l, published) /\ Moves(head, conn[c], l)
  BY <1>1 DEF Together, InStep, Moves, Streaming
<1> QED BY <1>2, OneServed DEF l

\* As many of some notices as fit.
LEMMA NoticesFit ==
  ASSUME NEW h \in Nat, NEW r \in Nat, NEW notes \in Seq({NoticeMessage})
  PROVE  LET t == SubSeq(notes, 1, Smaller(r, Len(notes)))
         IN t \in Seq(MessagesTo(h)) /\ \A i \in 1..Len(t) : ~IsState(t[i])
<1> DEFINE S == {NoticeMessage}
           t == SubSeq(notes, 1, Smaller(r, Len(notes)))
<1>1. t \in Seq(S)
  <2> HIDE DEF S
  <2>1. notes \in Seq(S)
    BY DEF S
  <2> QED BY <2>1, Fitting
<1>2. S \subseteq MessagesTo(h) /\ \A m \in S : ~IsState(m)
  BY SnapshotMessages
<1> HIDE DEF S, t
<1>3. \A i \in 1..Len(t) : t[i] \in S
  BY <1>1, ElementOfSeq
<1>4. t \in Seq(MessagesTo(h))
  BY <1>1, <1>2, SeqMonotonic
<1> QED BY <1>2, <1>3, <1>4 DEF t

\* The two messages of a handshake are an unbroken stream on any board that is
\* not ahead of them.
LEMMA HelloGood ==
  ASSUME NEW h \in Nat, NEW v \in 0..h
  PROVE  Good(Stream(v, <<NoticeMessage, Message("snapshot", h)>>), h)
<1> DEFINE a == Message("snapshot", v)
           n == NoticeMessage
           b == Message("snapshot", h)
           s == <<a>>
<1>1. a \in MessagesTo(h) /\ b \in MessagesTo(h) /\ n \in MessagesTo(h) /\ ~IsState(n)
  BY SnapshotMessages
<1>2. IsState(a) /\ a.rev = v
  BY DEF IsState, Message
<1> HIDE DEF a, n, b
<1>3. s \in Seq(MessagesTo(h)) /\ <<n>> \in Seq(MessagesTo(h)) /\ Len(s) = 1 /\ s[1] = a
      /\ DOMAIN s = {1}
  BY <1>1
<1>4. Good(s, v)
  BY <1>2, <1>3 DEF Good, Unbroken, EndsAt
<1>5. \A i \in 1..Len(<<n>>) : ~IsState(<<n>>[i])
  BY <1>1
<1> HIDE DEF s
<1>6. Good(s \o <<n>>, v) /\ s \o <<n>> \in Seq(MessagesTo(h))
  BY <1>3, <1>4, <1>5, GoodNotices, Concatenated
<1>7. Good(Append(s \o <<n>>, b), h)
  <2>1. h >= v /\ v \in Nat
    OBVIOUS
  <2> QED BY <1>1, <1>6, <2>1, GoodSnapshot DEF b
<1>8. Append(s \o <<n>>, b) = s \o <<n, b>>
  BY <1>1 DEF s
<1> QED BY <1>7, <1>8 DEF s, a, b, n, Stream

LEMMA HandshakeServed ==
  ASSUME Base, Together, NEW c \in Conns, Refuse(c) \/ Greet(c) \/ Restate(c)
  PROVE  Served
<1>0. conn[c] \in Sound(head) /\ head \in Nat /\ conn \in [Conns -> Sound(head)]
  BY SoundHere DEF Base
<1>1. CASE Refuse(c)
  <2>1. c \notin members
    BY <1>1 DEF Refuse, Base, Slots
  <2> QED BY <1>1, <2>1, OneServed DEF Refuse, match
<1>2. CASE Greet(c)
  <2>1. conn[c].at = "registered" /\ UNCHANGED <<members, published>>
    BY <1>2 DEF Greet, match
  <2>2. CASE Returns(c)
    BY <2>1, <2>2, ReturnServed
  <2>3. CASE ~Returns(c)
    <3> DEFINE hello == <<NoticeMessage, Message("snapshot", head)>>
               k == Put(conn[c], hello)
               l == [k EXCEPT !.rev = head, !.held = head, !.at = "readying"]
    <3>1. ~(Room(conn[c]) < 2) /\ conn' = [conn EXCEPT ![c] = l]
      BY <1>2, <2>3 DEF Greet
    <3>2. hello \in Seq(MessagesTo(head)) /\ Len(hello) = 2
      BY <1>0 DEF NoticeMessage, Message, MessagesTo, Kinds
    <3>3. /\ k \in Sound(head) /\ k.ready = conn[c].ready /\ k.pending = conn[c].pending
          /\ k.queue = conn[c].queue \o SubSeq(hello, 1, Smaller(Room(conn[c]), Len(hello)))
      <4> HIDE DEF hello
      <4> QED BY <1>0, <3>2, PutSound, PutIs
    <3>4. SubSeq(hello, 1, Smaller(Room(conn[c]), Len(hello))) = hello
      <4>1. Room(conn[c]) \in Nat
        BY <1>0, SoundColumns
      <4> HIDE DEF hello
      <4>2. Smaller(Room(conn[c]), Len(hello)) = Len(hello)
        BY <3>1, <3>2, <4>1 DEF Smaller
      <4> QED BY <3>2, <4>2, WholeSeq
    <3> HIDE DEF k
    <3>5. /\ l.at = "readying" /\ l.held = l.rev /\ l.rev = head
          /\ l.ready = k.ready /\ l.pending = k.pending /\ l.queue = k.queue
      BY <3>3 DEF Sound, ConnectionTo
    <3>6. ASSUME c \in members PROVE InStep(l, published) /\ Moves(head, conn[c], l)
      <4>1. InStep(conn[c], published)
        BY <3>6 DEF Together
      <4>2. ~conn[c].ready /\ conn[c].queue = <<>>
        BY <2>1, <4>1 DEF InStep
      <4>3. l.queue = hello
        <5>1. <<>> \o hello = hello
          BY <3>2
        <5> HIDE DEF hello, l
        <5> QED BY <3>3, <3>4, <3>5, <4>2, <5>1
      <4> HIDE DEF l
      <4>4. InStep(l, published)
        BY <3>3, <3>5, <4>1, <4>2 DEF InStep
      <4>5. \A v \in 0..head : Good(Stream(v, l.queue), l.rev)
        BY <1>0, <3>5, <4>3, HelloGood
      <4> QED BY <4>4, <4>5 DEF Moves
    <3> HIDE DEF l
    <3> QED BY <2>1, <3>1, <3>6, OneServed
  <2> QED BY <2>2, <2>3
<1>3. CASE Restate(c)
  <2>1. conn[c].at = "refreshing" /\ UNCHANGED <<members, published>>
    BY <1>3 DEF Restate, match
  <2>2. CASE Returns(c)
    BY <2>1, <2>2, ReturnServed
  <2>3. CASE ~Returns(c)
    <3> DEFINE k == PutState(conn[c], head)
               l == [k EXCEPT !.held = head, !.at = "readying"]
    <3>1. StateFits(conn[c], head) /\ conn' = [conn EXCEPT ![c] = l]
      BY <1>3, <2>3 DEF Restate
    <3>2. /\ k \in Sound(head) /\ k.ready = conn[c].ready /\ k.pending = conn[c].pending
          /\ k.doomed = conn[c].doomed /\ k.rev = head
          /\ k.queue = Append(conn[c].queue, Message("snapshot", head))
      BY <1>0, <3>1, PutStateSound, PutStateIs DEF StateFits
    <3> HIDE DEF k
    <3>3. /\ l.at = "readying" /\ l.held = l.rev /\ l.rev = head
          /\ l.ready = k.ready /\ l.pending = k.pending /\ l.queue = k.queue
          /\ l.doomed = k.doomed
      BY <3>2 DEF Sound, ConnectionTo
    <3> HIDE DEF l
    <3>4. ASSUME c \in members PROVE InStep(l, published) /\ Moves(head, conn[c], l)
      <4>1. InStep(conn[c], published)
        BY <3>4 DEF Together
      <4>2. InStep(l, published)
        BY <2>1, <3>2, <3>3, <4>1 DEF InStep
      <4>3. conn[c].rev \in 0..head
        BY <1>0, SoundColumns
      <4>4. Continues(head, conn[c], l)
        <5>1. head \in 0..head /\ head >= conn[c].rev
          BY <1>0, <4>3
        <5> QED BY <1>0, <3>2, <3>3, <5>1, SnapshotContinues
      <4> QED BY <2>1, <3>2, <3>3, <4>2, <4>4 DEF Moves, Streaming
    <3> QED BY <2>1, <3>1, <3>4, OneServed
  <2> QED BY <2>2, <2>3
<1> QED BY <1>1, <1>2, <1>3

LEMMA ReadServed ==
  ASSUME Base, Together, NEW c \in Conns,
         \/ ReadFails(c) \/ Unauthorized(c) \/ Act(c) \/ Repeat(c)
         \/ Reject(c) \/ Request(c)
  PROVE  Served
<1>0. conn[c] \in Sound(head) /\ head \in Nat /\ conn \in [Conns -> Sound(head)]
  BY SoundHere DEF Base
<1>1. conn[c].at = "reading" /\ UNCHANGED <<members, published>>
  BY DEF ReadFails, Unauthorized, Act, Repeat, Reject, Request, Reading, match
<1>2. CASE ReadFails(c) \/ Unauthorized(c)
  BY <1>1, <1>2, ReturnServed DEF ReadFails, Unauthorized
<1>3. CASE Act(c) \/ Repeat(c) \/ Request(c)
  <2>1. PICK a \in {"publishing", "answering"}, x \in Int :
          conn' = [conn EXCEPT ![c] = [conn[c] EXCEPT !.at = a, !.held = x]]
    BY <1>3, TakenUp DEF Base
  <2> DEFINE l == [conn[c] EXCEPT !.at = a, !.held = x]
  <2>2. /\ l.at = a /\ l.queue = conn[c].queue /\ l.rev = conn[c].rev /\ l.ready = conn[c].ready
        /\ l.pending = conn[c].pending /\ l.doomed = conn[c].doomed
    BY <1>0 DEF Sound, ConnectionTo
  <2> HIDE DEF l
  <2>3. c \in members => InStep(l, published)
    BY <1>1, <2>2 DEF InStep, Together
  <2>4. Moves(head, conn[c], l)
    BY <1>0, <1>1, <2>2, MovesSame DEF Streaming
  <2> QED BY <1>1, <2>1, <2>3, <2>4, OneServed DEF l
<1>4. CASE Reject(c)
  <2>1. \/ conn' = [conn EXCEPT ![c] = [conn[c] EXCEPT !.doomed = TRUE]]
        \/ conn' = [conn EXCEPT ![c] = Put(conn[c], <<NoticeMessage>>)]
    BY <1>4 DEF Reject
  <2>2. CASE conn' = [conn EXCEPT ![c] = [conn[c] EXCEPT !.doomed = TRUE]]
    BY <1>1, <2>2, MarkServed
  <2>3. CASE conn' = [conn EXCEPT ![c] = Put(conn[c], <<NoticeMessage>>)]
    <3> DEFINE l == Put(conn[c], <<NoticeMessage>>)
    <3>1. c \in members => InStep(conn[c], published)
      BY DEF Together
    <3>2. /\ l.at = "reading" /\ l.ready = conn[c].ready /\ l.doomed = conn[c].doomed
          /\ l.rev = conn[c].rev /\ l.pending = conn[c].pending
          /\ l.queue = conn[c].queue
               \o SubSeq(<<NoticeMessage>>, 1, Smaller(Room(conn[c]), Len(<<NoticeMessage>>)))
      <4> DEFINE a == <<NoticeMessage>>
                 k == conn[c]
                 p == Put(k, a)
      <4>1. k \in Sound(head)
        BY <1>0
      <4> HIDE DEF a, k
      <4>2. /\ Peer(k, p) /\ p.rev = k.rev /\ p.ready = k.ready
            /\ p.pending = k.pending /\ p.doomed = k.doomed
            /\ p.queue = k.queue \o SubSeq(a, 1, Smaller(Room(k), Len(a)))
        BY ONLY <1>0, <4>1, PutIs
      <4> HIDE DEF p
      <4> QED BY <1>1, <4>2 DEF Peer, a, k, p
    <3> DEFINE t == SubSeq(<<NoticeMessage>>, 1, Smaller(Room(conn[c]), Len(<<NoticeMessage>>)))
    <3>3. t \in Seq(MessagesTo(head)) /\ \A i \in 1..Len(t) : ~IsState(t[i])
      <4>1. <<NoticeMessage>> \in Seq({NoticeMessage}) /\ Room(conn[c]) \in Nat
        BY <1>0, SoundColumns
      <4> HIDE DEF l
      <4> QED BY <1>0, <4>1, NoticesFit
    <3> HIDE DEF l, t
    <3>4. Continues(head, conn[c], l)
      BY <1>0, <3>2, <3>3, NoticesContinue DEF t
    <3>5. c \in members => InStep(l, published) /\ Moves(head, conn[c], l)
      BY <1>1, <3>1, <3>2, <3>4 DEF InStep, Moves, Streaming
    <3> QED BY <1>1, <2>3, <3>5, OneServed DEF l
  <2> QED BY <2>1, <2>2, <2>3
<1> QED BY <1>2, <1>3, <1>4

(* ... an answer, a publication and markReady for the peers, ...            *)

LEMMA AnswerServed ==
  ASSUME Base, Together, NEW c \in Conns, Answer(c)
  PROVE  Served
<1> DEFINE k == conn[c]
<1>0. /\ k \in Sound(head) /\ head \in Nat /\ k.held \in 0..head /\ k.rev \in 0..head
      /\ k.queue \in Seq(MessagesTo(head)) /\ conn' \in [Conns -> Sound(head)]
  <2>1. k \in Sound(head) /\ head \in Nat /\ head' = head
    BY SoundHere DEF Base, Answer, feed
  <2>2. Bounds'
    BY ReadBounds DEF Base
  <2>3. conn' \in [Conns -> Sound(head)]
    BY <2>1, <2>2 DEF Bounds
  <2> QED BY <2>1, <2>3, SoundColumns
<1>1. k.at = "answering" /\ UNCHANGED <<members, published>>
  BY DEF Answer, match
<1>1a. PICK apology \in {<<>>, <<NoticeMessage>>} : \E l :
          /\ conn' = [conn EXCEPT ![c] = l]
          /\ l.at \in {"reading", "answering"} /\ Calm(k, l) /\ l.pending = k.pending
          /\ l.ready = k.ready
          /\ \/ l.queue = k.queue /\ l.rev = k.rev
             \/ /\ k.held >= k.rev /\ l.rev = k.held
                /\ Put(k, apology).queue = k.queue \o apology
                /\ l.queue = Append(Put(k, apology).queue, Message("snapshot", k.held))
  BY AnswerIs DEF Base
<1>2. PICK l :
        /\ conn' = [conn EXCEPT ![c] = l]
        /\ l.at \in {"reading", "answering"} /\ Calm(k, l) /\ l.pending = k.pending
        /\ l.ready = k.ready
        /\ \/ l.queue = k.queue /\ l.rev = k.rev
           \/ /\ k.held >= k.rev /\ l.rev = k.held
              /\ Put(k, apology).queue = k.queue \o apology
              /\ l.queue = Append(Put(k, apology).queue, Message("snapshot", k.held))
  BY <1>1a
<1>3. apology \in Seq(MessagesTo(head)) /\ \A i \in 1..Len(apology) : ~IsState(apology[i])
  <2>1. ~IsState(NoticeMessage) /\ head \in Nat
    BY <1>0, SnapshotMessages
  <2>2. CASE apology = <<>>
    BY <2>2, EmptySeq
  <2>3. CASE apology = <<NoticeMessage>>
    BY <2>1, <2>3, NotesType
  <2> QED BY <1>1a, <2>2, <2>3
<1> HIDE DEF k
<1>4. Continues(head, k, l)
  <2>1. CASE l.queue = k.queue /\ l.rev = k.rev
    BY <1>0, <2>1, ContinuesSame
  <2>2. CASE /\ k.held >= k.rev /\ l.rev = k.held
             /\ Put(k, apology).queue = k.queue \o apology
             /\ l.queue = Append(Put(k, apology).queue, Message("snapshot", k.held))
    <3> DEFINE j == Put(k, apology)
    <3>1. j \in Sound(head) /\ j.rev = k.rev
      BY <1>0, <1>3, PutSound, PutIs
    <3>2. Continues(head, k, j)
      <4> HIDE DEF j
      <4>1. j.queue = k.queue \o apology
        BY <2>2 DEF j
      <4> QED BY <1>0, <1>3, <3>1, <4>1, NoticesContinue
    <3>3. Continues(head, j, l)
      <4> HIDE DEF j
      <4>1. l.queue = Append(j.queue, Message("snapshot", k.held))
        BY <2>2 DEF j
      <4>2. k.held \in 0..head /\ k.held >= j.rev /\ l.rev = k.held
        BY <1>0, <2>2, <3>1
      <4> QED BY <1>0, <3>1, <4>1, <4>2, SnapshotContinues
    <3>4. l.rev >= k.rev
      BY <2>2
    <3> QED BY <3>1, <3>2, <3>3, <3>4 DEF Continues
  <2> QED BY <1>2, <2>1, <2>2
<1>5. c \in members => InStep(k, published)
  BY DEF Together, k
<1>6. InStep(k, published) => InStep(l, published)
  <2>1. l.rev >= k.rev /\ (l.ready => k.ready) /\ (~l.doomed => ~k.doomed)
    BY <1>2, <1>4 DEF Continues, Calm
  <2>2. l.rev \in Int /\ k.rev \in Int /\ published \in Int
    <3>1. l.rev = k.rev \/ l.rev = k.held
      BY <1>2
    <3> QED BY <1>0, <3>1 DEF Base, Bounds
  <2>3. InStep(k, published) => (l.ready /\ ~l.doomed => l.rev >= published)
    BY <2>1, <2>2 DEF InStep
  <2> QED BY <1>2, <2>3 DEF InStep
<1>7. Moves(head, k, l)
  BY <1>1, <1>2, <1>4 DEF Moves, Streaming, Calm
<1> QED BY <1>1, <1>2, <1>5, <1>6, <1>7, OneServed DEF k

\* Every connection is given the run, as flushPublishedLocked does.
LEMMA FlushServed ==
  ASSUME Bounds, NEW p \in 0..head, NEW ev \in SUBSET (1..head),
         NEW cs \in [Conns -> Sound(head)], Flush(p, ev, cs),
         NEW d \in members, InStep(cs[d], p)
  PROVE  InStep(conn'[d], published')
         /\ (Streaming(conn'[d]) => Streaming(cs[d]) /\ Continues(head, cs[d], conn'[d]))
<1> DEFINE run == Run(p, ev)
           n == Len(run)
<1>1. head \in Nat /\ d \in Conns /\ cs[d] \in Sound(head)
  BY SoundHere DEF Bounds
<1>2. run \in Seq(0..head) /\ n \in Nat /\ p + n \in 0..head /\ run = Consecutive(p, n)
  BY <1>1, RunType, RunIs
<1>3. /\ published' = p + n
      /\ conn'[d] = IF cs[d].ready THEN PutEvents(cs[d], run) ELSE Hold(cs[d], run)
  BY <1>1 DEF Flush
<1> HIDE DEF run
<1> QED BY <1>1, <1>2, <1>3, FlushedPeer

LEMMA PublishServed ==
  ASSUME Base, NEW r \in 0..head, NEW cs \in [Conns -> Sound(head)], PublishEvent(r, cs),
         NEW d \in members, InStep(cs[d], published)
  PROVE  InStep(conn'[d], published')
         /\ (Streaming(conn'[d]) => Streaming(cs[d]) /\ Continues(head, cs[d], conn'[d]))
<1>0. d \in Conns /\ cs[d] \in Sound(head) /\ head \in Nat
  BY SoundHere DEF Base, Bounds
<1>1. CASE closed \/ members = {} \/ r <= published
  <2>1. conn' = cs /\ UNCHANGED published
    BY <1>1 DEF PublishEvent
  <2> QED BY <1>0, <2>1, ContinuesSame
<1>2. CASE ~(closed \/ members = {} \/ r <= published)
  <2>1. Flush(published, events \cup {r}, cs)
    BY <1>2 DEF PublishEvent
  <2>2. r > published /\ published \in 0..head /\ head \in Nat /\ events \in SUBSET (1..head)
    BY <1>2, HubAssumption DEF Base, Bounds
  <2>3. events \cup {r} \in SUBSET (1..head)
    BY <2>2
  <2> QED BY <2>1, <2>2, <2>3, FlushServed DEF Base
<1> QED BY <1>1, <1>2

LEMMA PublishesServed ==
  ASSUME Base, Together, (\E c \in Conns : Publish(c)) \/ PublishOutside
  PROVE  Served
<1>0. head \in Nat /\ conn \in [Conns -> Sound(head)] /\ members \subseteq Conns
      /\ outside \in 0..head
  BY SoundHere DEF Base, Bounds
<1>1. ASSUME NEW c \in Conns, Publish(c)
      PROVE  Served
  <2> DEFINE k == [conn[c] EXCEPT !.at = "reading"]
             cs == [conn EXCEPT ![c] = k]
  <2>1. conn[c].at = "publishing" /\ PublishEvent(conn[c].held, cs) /\ UNCHANGED members
    BY <1>1 DEF Publish
  <2>2. conn[c] \in Sound(head) /\ conn[c].held \in 0..head
    BY SoundHere DEF Base
  <2>3. /\ k \in Sound(head) /\ k.at = "reading" /\ k.ready = conn[c].ready
        /\ k.queue = conn[c].queue /\ k.held = conn[c].held /\ k.rev = conn[c].rev
        /\ k.pending = conn[c].pending /\ k.doomed = conn[c].doomed
    BY <2>2 DEF Sound, ConnectionTo, Stages
  <2> HIDE DEF k
  <2>4. cs \in [Conns -> Sound(head)] /\ cs[c] = k /\ \A d \in Conns \ {c} : cs[d] = conn[d]
    BY <1>0, <2>3
  <2> HIDE DEF cs
  <2>5. ASSUME NEW d \in members
        PROVE  /\ InStep(cs[d], published) /\ conn[d] \in Sound(head)
               /\ cs[d].queue = conn[d].queue /\ cs[d].rev = conn[d].rev
               /\ Streaming(cs[d]) => Streaming(conn[d])
    <3>1. InStep(conn[d], published) /\ d \in Conns /\ conn[d] \in Sound(head)
      BY <1>0, SoundHere DEF Together, Base
    <3>2. CASE d = c
      BY <2>1, <2>3, <2>4, <3>1, <3>2 DEF InStep, Streaming
    <3>3. CASE d # c
      BY <2>4, <3>1, <3>3
    <3> QED BY <3>2, <3>3
  <2>6. ASSUME NEW d \in members
        PROVE  InStep(conn'[d], published') /\ Moves(head, conn[d], conn'[d])
    <3>1. /\ InStep(conn'[d], published')
          /\ (Streaming(conn'[d]) => Streaming(cs[d]) /\ Continues(head, cs[d], conn'[d]))
      BY <2>1, <2>2, <2>4, <2>5, PublishServed
    <3>2. Continues(head, cs[d], conn'[d]) => Continues(head, conn[d], conn'[d])
      BY <2>5 DEF Continues
    <3> QED BY <2>5, <3>1, <3>2 DEF Moves
  <2> QED BY <2>1, <2>6 DEF Served
<1>2. CASE PublishOutside
  <2>1. PublishEvent(outside, conn) /\ UNCHANGED members
    BY <1>2 DEF PublishOutside
  <2>2. ASSUME NEW d \in members
        PROVE  InStep(conn'[d], published') /\ Moves(head, conn[d], conn'[d])
    <3>1. InStep(conn[d], published)
      BY DEF Together
    <3> QED BY <1>0, <2>1, <3>1, PublishServed DEF Moves
  <2> QED BY <2>1, <2>2 DEF Served
<1> QED BY <1>1, <1>2

\* markReady: a peer that was behind has the snapshot, then the run ...
LEMMA PeerServed ==
  ASSUME Base, Together, NEW c \in Conns, MarkReady(c), members # {}, conn[c].held >= published,
         NEW d \in members \ {c}
  PROVE  InStep(conn'[d], published') /\ Moves(head, conn[d], conn'[d])
<1> DEFINE s == conn[c].held
           k == conn[d]
           j == Resent(c)[d]
           n == Len(Caught(c))
<1>0. /\ head \in Nat /\ s \in 0..head /\ d \in Conns \ {c} /\ k \in Sound(head)
      /\ published \in 0..head /\ InStep(k, published)
      /\ events \in SUBSET (1..head) /\ {r \in events : r > s} \in SUBSET (1..head)
  BY SoundHere DEF Base, Bounds, Together
<1>1. /\ published' = s + n
      /\ j = IF k.ready /\ s > published THEN Resnapshot(k, s) ELSE k
      /\ conn'[d] = IF j.ready THEN PutEvents(j, Caught(c)) ELSE Hold(j, Caught(c))
  BY <1>0, MarkReadyIs DEF Base
<1>2. /\ Caught(c) \in Seq(0..head) /\ n \in Nat /\ s + n \in 0..head
      /\ Caught(c) = Consecutive(s, n)
  <2>1. Caught(c) \in Seq(0..head) /\ s + n \in 0..head
    BY BackedSound DEF Base
  <2>2. n \in Nat /\ Caught(c) = Consecutive(s, n)
    BY <1>0, RunIs DEF Caught
  <2> QED BY <2>1, <2>2
<1>3. j \in Sound(head) /\ Peer(k, j)
  BY <1>0, <1>1, ResentIs DEF Base
<1> HIDE DEF n
<1>4. /\ InStep(j, s) /\ (Streaming(j) => Streaming(k) /\ Continues(head, k, j))
  <2>1. CASE j = k /\ (k.ready => s = published)
    <3>1. k.ready /\ ~k.doomed => k.rev >= s
      BY <1>0, <2>1 DEF InStep
    <3> HIDE DEF k, j
    <3> QED BY <1>0, <2>1, <3>1, InStepLater, ContinuesSame
  <2>2. CASE k.ready /\ s > published
    <3>1. j = Resnapshot(k, s)
      BY <1>1, <2>2
    <3> HIDE DEF k, j, s
    <3>2. /\ j.pending = k.pending
          /\ \/ k.rev >= s /\ j = k
             \/ ~(k.rev >= s) /\ j = PutState(k, s)
             \/ j.doomed /\ ~j.ready
      BY <1>0, <3>1, ResnapshotIs
    <3>3. \A i \in 1..Len(j.pending) : j.pending[i] <= s
      <4>1. k.pending \in Seq(0..head)
        BY <1>0, SoundColumns
      <4>2. \A i \in 1..Len(k.pending) : k.pending[i] \in 0..head /\ k.pending[i] <= published
        BY <1>0, <4>1, ElementOfSeq DEF InStep
      <4> QED BY <1>0, <2>2, <3>2, <4>2
    <3>4. CASE k.rev >= s /\ j = k
      <4>1. InStep(j, s)
        BY <1>0, <3>3, <3>4 DEF InStep
      <4>2. Continues(head, k, j)
        BY <1>0, <3>4, ContinuesSame
      <4> QED BY <3>4, <4>1, <4>2
    <3>5. CASE ~(k.rev >= s) /\ j = PutState(k, s)
      <4>1. /\ j.rev = s /\ j.ready = k.ready /\ j.doomed = k.doomed
            /\ j.queue = Append(k.queue, Message("snapshot", s))
        BY <1>0, <3>5, PutStateIs
      <4>2. s >= k.rev
        BY <1>0, <3>5, SoundColumns
      <4>3. Continues(head, k, j)
        BY <1>0, <4>1, <4>2, SnapshotContinues
      <4>4. j.rev >= s
        BY <1>0, <4>1
      <4> QED BY <1>0, <1>3, <2>2, <3>3, <4>1, <4>3, <4>4 DEF InStep, Streaming, Peer
    <3>6. CASE j.doomed /\ ~j.ready
      BY <1>0, <1>3, <2>2, <3>3, <3>6 DEF InStep, Streaming, Peer
    <3> QED BY <3>2, <3>4, <3>5, <3>6
  <2>3. ~(k.ready /\ s > published) => j = k /\ (k.ready => s = published)
    BY <1>0, <1>1
  <2> QED BY <2>1, <2>2, <2>3
<1> HIDE DEF k, j, s
<1> DEFINE l == conn'[d]
<1>5. /\ InStep(l, s + n) /\ (Streaming(l) => Streaming(j) /\ Continues(head, j, l))
  <2>1. l = IF j.ready THEN PutEvents(j, Caught(c)) ELSE Hold(j, Caught(c))
    BY <1>1
  <2>2. Len(Caught(c)) = n /\ s + n <= head
    BY <1>0, <1>2 DEF n
  <2> HIDE DEF l
  <2> QED BY <1>0, <1>2, <1>3, <1>4, <2>1, <2>2, FlushedPeer
<1>6. l \in Sound(head)
  <2>1. Bounds' /\ UNCHANGED head
    BY DeliverBounds DEF MarkReady, feed, Base
  <2> QED BY <1>0, <2>1 DEF Bounds
<1>7. Streaming(l) => Streaming(k) /\ Continues(head, k, l)
  <2> HIDE DEF l
  <2> QED BY <1>0, <1>3, <1>4, <1>5, <1>6, ContinuesOn
<1> QED BY <1>1, <1>5, <1>7 DEF Moves, k

(* ... markReady for the connection itself, ...                             *)

\* ... and the connection itself has its backlog and the run, or is closed.
LEMMA OwnServed ==
  ASSUME Base, Together, NEW c \in members, MarkReady(c), conn[c].held >= published
  PROVE  InStep(conn'[c], published') /\ Moves(head, conn[c], conn'[c])
<1> DEFINE s == conn[c].held
           k == conn[c]
           run == Caught(c)
           n == Len(run)
           b == Backed(c)
           mine == Mine(c)
           caught == PutEvents(b, After(b.pending, s))
           notes == [i \in 1..Cardinality(b.told) |-> NoticeMessage]
<1>0. /\ head \in Nat /\ s \in 0..head /\ c \in Conns /\ k \in Sound(head)
      /\ published \in 0..head /\ InStep(k, published) /\ k.at = "readying" /\ ~k.shut
      /\ members # {} /\ events \in SUBSET (1..head) /\ {r \in events : r > s} \in SUBSET (1..head)
  BY SoundHere DEF Base, Bounds, Together, MarkReady, Slots
<1>1. /\ published' = s + n
      /\ conn'[c] = IF mine.ready THEN mine ELSE Returned(mine)
  BY <1>0, MarkReadyIs DEF Base
<1>2. /\ run \in Seq(0..head) /\ n \in Nat /\ s + n \in 0..head /\ run = Consecutive(s, n)
      /\ b \in Sound(head) /\ Peer(k, b) /\ mine \in Sound(head)
  <2>1. /\ run \in Seq(0..head) /\ s + n \in 0..head
        /\ b \in Sound(head) /\ Peer(k, b) /\ mine \in Sound(head)
    BY <1>0, BackedSound DEF Base
  <2>2. n \in Nat /\ run = Consecutive(s, n)
    BY <1>0, RunIs DEF Caught
  <2> QED BY <2>1, <2>2
<1>3. /\ Calm(b, mine) /\ mine.at = "reading" /\ mine.pending = <<>>
      /\ mine.rev = caught.rev
      /\ (~mine.ready => mine.doomed) /\ (caught.doomed => mine.doomed)
      /\ mine.queue = Put(caught, notes).queue \/ mine.doomed
  <2>1. mine = Replay(b, s)
    BY DEF Mine
  <2> HIDE DEF b, s, mine
  <2> QED BY <1>0, <1>2, <2>1, ReplayIs
<1> HIDE DEF mine, n
<1>4. CASE mine.doomed
  <2> DEFINE l == conn'[c]
  <2>1. l.doomed /\ l.pending = <<>> /\ l.at \in {"reading", "ending"}
    <3>1. ~mine.shut
      BY <1>0, <1>2, <1>3 DEF Peer, Calm
    <3>2. /\ Returned(mine).at = "ending" /\ Returned(mine).doomed
          /\ Returned(mine).pending = mine.pending
      BY <1>0, <1>2, <3>1, ReturnedIs
    <3> QED BY <1>1, <1>3, <1>4, <3>2
  <2>2. Len(<<>>) = 0 /\ 1..0 = {}
    OBVIOUS
  <2> HIDE DEF l
  <2>3. InStep(l, published') /\ Moves(head, k, l)
    BY <2>1, <2>2 DEF InStep, Moves, Streaming
  <2> QED BY <2>3 DEF l
<1>5. CASE ~mine.doomed
  <2>1. /\ conn'[c] = mine /\ ~caught.doomed /\ ~b.doomed /\ mine.ready
        /\ mine.queue = Put(caught, notes).queue
    BY <1>1, <1>3, <1>5 DEF Calm
  <2>2. /\ b.rev = k.rev /\ k.rev = s /\ b.queue = k.queue
        /\ b.pending = k.pending \o run
    <3> DEFINE room == PendingCap - Len(k.pending)
               kept == Smaller(room, Len(run))
    <3>1. /\ b.rev = k.rev /\ b.queue = k.queue
          /\ b.pending = k.pending \o SubSeq(run, 1, kept)
          /\ b.doomed = (k.doomed \/ kept < Len(run))
      <4>1. b = Hold(k, run)
        BY DEF Backed
      <4> HIDE DEF b, k, run
      <4> QED BY <1>0, <4>1, HoldIs
    <3>2. room \in Nat
      <4> HIDE DEF k
      <4> QED BY <1>0, SoundColumns, HubAssumption
    <3> HIDE DEF room
    <3>3. kept \in Nat /\ kept <= Len(run)
      <4> HIDE DEF run
      <4> QED BY <1>2, <3>2, Fitting
    <3>4. Len(run) \in Nat
      BY <1>2 DEF n
    <3> HIDE DEF b, k, run
    <3>5. kept = Len(run)
      <4> HIDE DEF kept
      <4>1. ~(kept < Len(run))
        BY <2>1, <3>1
      <4> QED BY <3>3, <3>4, <4>1
    <3>6. SubSeq(run, 1, Len(run)) = run
      BY <1>2, WholeSeq
    <3>7. k.rev = s
      BY <1>0 DEF InStep, k
    <3> QED BY <3>1, <3>5, <3>6, <3>7
  <2>3. After(b.pending, s) = run
    <3>1. k.pending \in Seq(0..head)
      <4> HIDE DEF k
      <4> QED BY <1>0, SoundColumns
    <3>2. \A i \in 1..Len(k.pending) : k.pending[i] <= s
      <4>1. \A i \in 1..Len(k.pending) : k.pending[i] \in 0..head /\ k.pending[i] <= published
        BY <1>0, <3>1, ElementOfSeq DEF InStep
      <4> HIDE DEF k
      <4> QED BY <1>0, <4>1
    <3>3. \A i \in 1..Len(run) : run[i] > s
      <4>1. \A i \in 1..n : s + i > s
        BY <1>0, <1>2
      <4> HIDE DEF run
      <4> QED BY <1>2, <4>1 DEF Consecutive, n
    <3> DEFINE x == k.pending
    <3> HIDE DEF x, run, s, b
    <3>4. After(x \o run, s) = run
      BY <1>0, <1>2, <3>1, <3>2, <3>3, AfterJoined DEF x
    <3> QED BY <2>2, <3>4 DEF x
  <2> DEFINE told == PutEvents(b, run)
  <2>4. told \in Sound(head) /\ Continues(head, b, told) /\ (told.doomed \/ told.rev >= s + n)
    <3>1. s + n <= head /\ b.rev >= s
      BY <1>0, <1>2, <2>2
    <3> HIDE DEF b, s, run
    <3> QED BY <1>0, <1>2, <3>1, PutEventsSound, Delivered
  <2>5. /\ ~told.doomed /\ mine.rev = told.rev /\ mine.queue = Put(told, notes).queue
    BY <1>3, <2>1, <2>3
  <2>6. Continues(head, told, mine)
    <3>1. notes \in Seq({NoticeMessage})
      <4>1. b.told \in SUBSET Users
        <5> HIDE DEF b
        <5> QED BY <1>0, <1>2, SoundColumns
      <4>2. Cardinality(b.told) \in Nat
        BY <4>1, FS_Subset, FS_CardinalityType, HubAssumption
      <4>3. notes \in [1..Cardinality(b.told) -> {NoticeMessage}]
        OBVIOUS
      <4> QED BY <4>2, <4>3, SeqDef
    <3> HIDE DEF told, notes
    <3> DEFINE t == SubSeq(notes, 1, Smaller(Room(told), Len(notes)))
    <3>2. Room(told) \in Nat
      BY <1>0, <2>4, SoundColumns
    <3>3. t \in Seq(MessagesTo(head)) /\ \A i \in 1..Len(t) : ~IsState(t[i])
      <4> DEFINE r == Room(told)
      <4> HIDE DEF r
      <4>1. r \in Nat
        BY <3>2 DEF r
      <4> QED BY <1>0, <3>1, <4>1, NoticesFit DEF r
    <3>4. Put(told, notes).queue = told.queue \o t
      BY <1>0, <2>4, PutIs
    <3> HIDE DEF t
    <3> QED BY <1>0, <2>4, <2>5, <3>3, <3>4, NoticesContinue
  <2> HIDE DEF told, b, k, s, run, notes, caught
  <2>7. Continues(head, k, mine)
    <3>1. Continues(head, k, b)
      BY <1>0, <2>2, ContinuesSame
    <3>2. Continues(head, k, told)
      BY <1>0, <1>2, <2>4, <3>1, ContinuesOn
    <3> QED BY <1>0, <1>2, <2>4, <2>6, <3>2, ContinuesOn
  <2>8. mine.rev >= published'
    BY <1>1, <2>4, <2>5
  <2>9. InStep(mine, published')
    <3>1. Len(<<>>) = 0 /\ 1..0 = {}
      OBVIOUS
    <3> QED BY <1>3, <2>8, <3>1 DEF InStep
  <2>10. Streaming(mine) => Streaming(k)
    BY <1>0, <1>2, <1>3 DEF Streaming, Peer, Calm
  <2> QED BY <2>1, <2>7, <2>9, <2>10 DEF Moves, k
<1> QED BY <1>4, <1>5

LEMMA MarkReadyServed ==
  ASSUME Base, Together, NEW c \in Conns, MarkReady(c)
  PROVE  Served
<1>1. conn[c].at = "readying" /\ UNCHANGED members
  BY DEF MarkReady
<1>2. conn[c] \in Sound(head) /\ head \in Nat
  BY SoundHere DEF Base
<1>3. CASE Returns(c) /\ UNCHANGED published
  BY <1>1, <1>3, ReturnServed
<1>4. CASE conn' = [conn EXCEPT ![c].at = "refreshing"] /\ UNCHANGED published
  <2> DEFINE l == [conn[c] EXCEPT !.at = "refreshing"]
  <2>1. /\ l.at = "refreshing" /\ l.ready = conn[c].ready /\ l.queue = conn[c].queue
        /\ l.rev = conn[c].rev /\ l.pending = conn[c].pending /\ l.doomed = conn[c].doomed
    BY <1>2 DEF Sound, ConnectionTo
  <2>2. conn' = [conn EXCEPT ![c] = l]
    BY <1>4
  <2> HIDE DEF l
  <2>3. c \in members => InStep(l, published) /\ Moves(head, conn[c], l)
    BY <1>1, <1>2, <2>1, MovesSame DEF InStep, Together, Streaming
  <2> QED BY <1>1, <1>4, <2>2, <2>3, OneServed
<1>5. CASE members # {} /\ conn[c].held >= published
  <2>1. ASSUME NEW d \in members
        PROVE  InStep(conn'[d], published') /\ Moves(head, conn[d], conn'[d])
    <3>1. CASE d = c
      BY <1>5, <3>1, OwnServed
    <3>2. CASE d # c
      BY <1>5, <3>2, PeerServed
    <3> QED BY <3>1, <3>2
  <2> QED BY <1>1, <2>1 DEF Served
<1>6. \/ Returns(c) /\ UNCHANGED published
      \/ conn' = [conn EXCEPT ![c].at = "refreshing"] /\ UNCHANGED published
      \/ members # {} /\ conn[c].held >= published
  BY DEF MarkReady
<1> QED BY <1>3, <1>4, <1>5, <1>6

(* ... what closes or marks connections, and the players' steps.  A         *)
(* delivery moves the board along its stream.                               *)

LEMMA CloseServed ==
  ASSUME Base, Together, NEW c \in Conns, Close(c)
  PROVE  Served
<1>1. /\ members' = members \ {c} /\ published' = IF members' = {} THEN 0 ELSE published
      /\ \A d \in Conns \ {c} : conn'[d] = conn[d]
      /\ members \subseteq Conns
  BY DEF Close, Base, Bounds
<1>2. \A d \in Conns : Moves(head, conn[d], conn[d])
  BY SoundHere, MovesSame DEF Base
<1> QED BY <1>1, <1>2 DEF Served, Together

LEMMA MarksServed ==
  ASSUME Base, Together, NEW c \in Conns, Heartbeat(c) \/ TransportFails(c)
  PROVE  Served
<1>1. /\ conn' = [conn EXCEPT ![c] = [conn[c] EXCEPT !.doomed = TRUE]]
      /\ UNCHANGED <<members, published>>
  BY DEF Heartbeat, TransportFails, match
<1> QED BY <1>1, MarkServed

LEMMA MarkedIs ==
  ASSUME NEW h, NEW k \in Sound(h), NEW p, InStep(k, p)
  PROVE  /\ InStep([k EXCEPT !.doomed = TRUE], p)
         /\ \A x : Moves(x, k, [k EXCEPT !.doomed = TRUE])
<1> DEFINE l == [k EXCEPT !.doomed = TRUE]
<1>1. /\ l.at = k.at /\ l.ready = k.ready /\ l.queue = k.queue
      /\ l.held = k.held /\ l.rev = k.rev /\ l.pending = k.pending /\ l.doomed
  BY DEF Sound, ConnectionTo
<1> HIDE DEF l
<1>2. InStep(l, p) /\ \A x : Moves(x, k, l)
  BY <1>1 DEF InStep, Moves, Streaming
<1> QED BY <1>2 DEF l

LEMMA RegisterServed ==
  ASSUME Base, Together, NEW c \in Conns, Register(c)
  PROVE  Served
<1>0. /\ conn \in [Conns -> Sound(head)] /\ conn[c].at = "serving" /\ c \notin members
      /\ members \subseteq Conns /\ conn[c] \in Sound(head)
      /\ UNCHANGED published
  BY SoundHere DEF Base, Bounds, Slots, Register
<1>1. CASE closed
  <2>1. conn' = [conn EXCEPT ![c] = Fresh] /\ members' = members
    BY <1>1 DEF Register
  <2> QED BY <1>0, <2>1, OneServed
<1>2. CASE ~closed
  <2> DEFINE k == [conn[c] EXCEPT !.at = "registered"]
  <2>1. /\ conn'[c] = k /\ members' = members \cup {c}
        /\ \A d \in Conns \ {c} :
             conn'[d] = IF d \in members /\ conn[d].user = conn[c].user
                        THEN [conn[d] EXCEPT !.doomed = TRUE] ELSE conn[d]
    BY <1>2 DEF Register
  <2>2. /\ k.at = "registered" /\ k.ready = conn[c].ready /\ k.queue = conn[c].queue
        /\ k.pending = conn[c].pending
    BY <1>0 DEF Sound, ConnectionTo
  <2>3. ~conn[c].ready /\ conn[c].queue = <<>> /\ conn[c].pending = <<>>
    BY <1>0 DEF Base, Slots
  <2>4. Len(<<>>) = 0 /\ 1..0 = {}
    OBVIOUS
  <2> HIDE DEF k
  <2>5. InStep(conn'[c], published') /\ Moves(head, conn[c], conn'[c])
    BY <2>1, <2>2, <2>3, <2>4 DEF InStep, Moves, Streaming
  <2>6. ASSUME NEW d \in members
        PROVE  InStep(conn'[d], published') /\ Moves(head, conn[d], conn'[d])
    <3>1. InStep(conn[d], published) /\ d \in Conns \ {c}
      BY <1>0 DEF Together
    <3>2. CASE conn'[d] = conn[d]
      BY <1>0, <3>1, <3>2, MovesSame, SoundHere DEF Base
    <3>3. CASE conn'[d] = [conn[d] EXCEPT !.doomed = TRUE]
      BY <1>0, <3>1, <3>3, MarkedIs
    <3> QED BY <2>1, <3>1, <3>2, <3>3
  <2> QED BY <2>1, <2>5, <2>6 DEF Served
<1> QED BY <1>1, <1>2

\* A step of a player or of the process: nothing moves, or connections are marked.
LEMMA CalmServed ==
  ASSUME Base, Together, UNCHANGED <<members, published>>,
         \A d \in members :
           \/ conn'[d] = conn[d]
           \/ conn'[d] = [conn[d] EXCEPT !.doomed = TRUE]
           \/ conn'[d] = [conn[d] EXCEPT !.valid = FALSE]
  PROVE  Served
<1> SUFFICES ASSUME NEW d \in members
             PROVE  InStep(conn'[d], published) /\ Moves(head, conn[d], conn'[d])
  BY DEF Served
<1>1. InStep(conn[d], published) /\ conn[d] \in Sound(head) /\ head \in Nat
  BY SoundHere DEF Together, Base, Bounds
<1>2. CASE conn'[d] = conn[d]
  BY <1>1, <1>2, MovesSame
<1>3. CASE conn'[d] = [conn[d] EXCEPT !.doomed = TRUE]
  BY <1>1, <1>3, MarkedIs
<1>4. CASE conn'[d] = [conn[d] EXCEPT !.valid = FALSE]
  <2> DEFINE k == conn[d]
             l == [k EXCEPT !.valid = FALSE]
  <2> HIDE DEF k
  <2>1. /\ l.user = k.user /\ l.at = k.at /\ l.held = k.held /\ l.ready = k.ready
        /\ l.doomed = k.doomed /\ l.queue = k.queue /\ l.pending = k.pending /\ l.rev = k.rev
    BY <1>1, MarkIs DEF k
  <2> HIDE DEF l
  <2>2. InStep(l, published) /\ Moves(head, k, l)
    BY <1>1, <2>1, MovesSame DEF InStep, Streaming, k
  <2> QED BY <1>4, <2>2 DEF k, l
<1> QED BY <1>2, <1>3, <1>4

LEMMA PresenceServed ==
  ASSUME Base, Together, NEW u \in Users, PresenceChanged(u)
  PROVE  Served
<1>1. UNCHANGED <<members, published>>
  BY DEF PresenceChanged, match
<1> SUFFICES ASSUME NEW d \in members
             PROVE  InStep(conn'[d], published) /\ Moves(head, conn[d], conn'[d])
  BY <1>1 DEF Served
<1> DEFINE k == conn[d]
           l == conn'[d]
<1>2. InStep(k, published) /\ k \in Sound(head) /\ head \in Nat /\ d \in Conns
  BY SoundHere DEF Together, Base, Bounds
<1>3. /\ Peer(k, l) /\ l.pending = k.pending /\ l.rev = k.rev
      /\ \/ l.queue = k.queue
         \/ l.queue = Append(k.queue, NoticeMessage) /\ k.ready
      /\ k.ready => l.ready \/ l.doomed
  BY <1>2, PresenceChangedIs DEF Base
<1> HIDE DEF k, l
<1>4. Continues(head, k, l)
  <2>1. CASE l.queue = k.queue
    BY <1>2, <1>3, <2>1, ContinuesSame
  <2>2. CASE l.queue = Append(k.queue, NoticeMessage)
    <3> DEFINE t == <<NoticeMessage>>
    <3>1. t \in Seq(MessagesTo(head)) /\ \A i \in 1..Len(t) : ~IsState(t[i])
      BY <1>2, SnapshotMessages
    <3>2. l.queue = k.queue \o t
      <4>1. k.queue \in Seq(MessagesTo(head)) /\ NoticeMessage \in MessagesTo(head)
        BY <1>2, SoundColumns, SnapshotMessages
      <4>2. \A q \in Seq(MessagesTo(head)) : Append(q, NoticeMessage) = q \o <<NoticeMessage>>
        BY <4>1, AppendIsConcat
      <4> QED BY <2>2, <4>1, <4>2
    <3> HIDE DEF t
    <3> QED BY <1>2, <1>3, <3>1, <3>2, NoticesContinue
  <2> QED BY <1>3, <2>1, <2>2
<1>5. InStep(l, published)
  BY <1>2, <1>3 DEF InStep, Peer, Calm
<1>6. Streaming(l) => Streaming(k)
  BY <1>3 DEF Streaming, Peer, Calm
<1> QED BY <1>4, <1>5, <1>6 DEF Moves, k, l

\* The writer takes the oldest message.
LEMMA WriteIs ==
  ASSUME Base, NEW c \in Conns, Write(c)
  PROVE  LET k == conn[c]  l == conn'[c] IN
         /\ UNCHANGED <<members, published>> /\ \A d \in Conns \ {c} : conn'[d] = conn[d]
         /\ k.queue \in Seq(MessagesTo(head)) /\ k.queue # <<>> /\ l.queue = Tail(k.queue)
         /\ l.user = k.user /\ l.at = k.at /\ l.held = k.held /\ l.ready = k.ready
         /\ l.rev = k.rev /\ l.pending = k.pending /\ l.doomed = k.doomed
<1>1. /\ UNCHANGED <<members, published>> /\ conn[c].queue # <<>>
      /\ conn' = [conn EXCEPT ![c] = [conn[c] EXCEPT !.queue = Tail(conn[c].queue)]]
  BY DEF Write, match
<1>2. conn[c] \in Sound(head) /\ head \in Nat
  BY SoundHere DEF Base
<1>3. conn[c].queue \in Seq(MessagesTo(head))
  BY <1>2, SoundColumns
<1>4. /\ \A d \in Conns \ {c} : conn'[d] = conn[d]
      /\ conn'[c] = [conn[c] EXCEPT !.queue = Tail(conn[c].queue)]
  BY <1>1 DEF Base, Bounds
<1> QED BY <1>1, <1>2, <1>3, <1>4 DEF Sound, ConnectionTo

LEMMA WriteTogether ==
  ASSUME Base, Together, NEW c \in Conns, Write(c)
  PROVE  Together'
<1>1. ASSUME NEW d \in members PROVE InStep(conn'[d], published)
  <2>1. InStep(conn[d], published) /\ d \in Conns
    BY DEF Together, Base, Bounds
  <2>2. CASE d = c
    BY <2>1, <2>2, WriteIs DEF InStep
  <2>3. CASE d # c
    BY <2>1, <2>3, WriteIs
  <2> QED BY <2>2, <2>3
<1> QED BY <1>1, WriteIs DEF Together

LEMMA WriteFeeds ==
  ASSUME Base, FeedUnbroken, NEW c \in Conns, Write(c)
  PROVE  FeedUnbroken'
<1> DEFINE u == conn[c].user
           m == Head(conn[c].queue)
<1>0. /\ head \in Nat /\ link \in [Users -> Conns \cup {None}] /\ view \in [Users -> 0..head]
      /\ members \subseteq Conns
  BY SoundHere DEF Base, Bounds
<1>1. \/ /\ link[u] = c /\ m.kind = "event" /\ m.rev = view[u] + 1
         /\ view' = [view EXCEPT ![u] = m.rev] /\ UNCHANGED link
      \/ /\ link[u] = c /\ m.kind = "snapshot" /\ m.rev >= view[u]
         /\ view' = [view EXCEPT ![u] = m.rev] /\ UNCHANGED link
      \/ /\ link[u] = c /\ m.kind = "snapshot" /\ m.rev < view[u]
         /\ link' = [link EXCEPT ![u] = None] /\ UNCHANGED view
      \/ /\ UNCHANGED <<link, view>>
         /\ ~(link[u] = c /\ m.kind = "event" /\ m.rev = view[u] + 1)
         /\ ~(link[u] = c /\ m.kind = "snapshot" /\ m.rev >= view[u])
         /\ ~(link[u] = c /\ m.kind = "snapshot" /\ m.rev < view[u])
  BY DEF Write, client
<1> SUFFICES ASSUME NEW d \in members', link'[conn'[d].user] = d, Streaming(conn'[d])
             PROVE  Good(Stream(view'[conn'[d].user], conn'[d].queue), conn'[d].rev)
  BY DEF FeedUnbroken, Streaming, Good
<1>2. d \in members /\ d \in Conns /\ conn'[d].user = conn[d].user /\ conn[d].user \in Users
      /\ (Streaming(conn'[d]) => Streaming(conn[d])) /\ conn'[d].rev = conn[d].rev
  <2>1. d \in members /\ d \in Conns /\ conn[d].user \in Users
    BY <1>0, WriteIs DEF Base, Slots
  <2> QED BY <2>1, WriteIs DEF Streaming
<1>3. link[conn[d].user] = d
  BY <1>0, <1>1, <1>2, HubAssumption
<1>4. Good(Stream(view[conn[d].user], conn[d].queue), conn[d].rev)
  BY <1>2, <1>3 DEF FeedUnbroken, Streaming, Good
<1>5. CASE d # c
  <2>1. conn'[d] = conn[d]
    BY <1>2, <1>5, WriteIs
  <2>2. view'[conn[d].user] = view[conn[d].user]
    BY <1>0, <1>1, <1>2, <1>3, <1>5
  <2> QED BY <1>4, <2>1, <2>2
<1>6. CASE d = c
  <2>1. /\ conn[c].queue \in Seq(MessagesTo(head)) /\ conn[c].queue # <<>>
        /\ conn'[c].queue = Tail(conn[c].queue) /\ view[u] \in 0..head /\ u \in Users
        /\ m \in MessagesTo(head)
    <3>1. /\ conn[c].queue \in Seq(MessagesTo(head)) /\ conn[c].queue # <<>>
          /\ conn'[c].queue = Tail(conn[c].queue)
      BY WriteIs
    <3> QED BY <1>0, <1>2, <1>6, <3>1, HeadTailProperties
  <2>2. /\ ~IsState(m) => Good(Stream(view[u], Tail(conn[c].queue)), conn[c].rev)
        /\ IsState(m) => /\ IF m.kind = "event" THEN m.rev = view[u] + 1 ELSE m.rev >= view[u]
                         /\ Good(Stream(m.rev, Tail(conn[c].queue)), conn[c].rev)
    BY <1>0, <1>4, <1>6, <2>1, StreamTail
  <2>3. m.rev \in 0..head /\ m.kind \in Kinds
    BY <2>1 DEF MessagesTo
  <2> HIDE DEF m, u
  <2>4. CASE IsState(m)
    <3>1. view'[u] = m.rev
      BY <1>0, <1>1, <1>3, <1>6, <2>1, <2>2, <2>3, <2>4 DEF IsState, Kinds, u
    <3> QED BY <1>2, <1>6, <2>1, <2>2, <2>4, <3>1 DEF u
  <2>5. CASE ~IsState(m)
    <3>1. view'[u] = view[u]
      BY <1>1, <2>5 DEF IsState
    <3> QED BY <1>2, <1>6, <2>1, <2>2, <2>5, <3>1 DEF u
  <2> QED BY <2>4, <2>5
<1> QED BY <1>5, <1>6

\* Every other step.
LEMMA FeedKept ==
  ASSUME Base, FeedUnbroken, Served, UNCHANGED view,
         \A d \in members' : Streaming(conn'[d]) => d \in members /\ conn'[d].user = conn[d].user,
         \A d \in members, u \in Users : link'[u] = d => link[u] = d
  PROVE  FeedUnbroken'
<1> SUFFICES ASSUME NEW d \in members', link'[conn'[d].user] = d, Streaming(conn'[d])
             PROVE  Good(Stream(view[conn'[d].user], conn'[d].queue), conn'[d].rev)
  BY DEF FeedUnbroken, Streaming, Good
<1>1. d \in members /\ conn'[d].user = conn[d].user /\ conn[d].user \in Users
      /\ view[conn[d].user] \in 0..head /\ link[conn[d].user] = d
  BY DEF Base, Bounds, Slots
<1>2. CASE \A v \in 0..head : Good(Stream(v, conn'[d].queue), conn'[d].rev)
  BY <1>1, <1>2
<1>3. CASE Streaming(conn[d]) /\ Continues(head, conn[d], conn'[d])
  <2>1. Good(Stream(view[conn[d].user], conn[d].queue), conn[d].rev)
    BY <1>1, <1>3 DEF FeedUnbroken, Streaming, Good
  <2> QED BY <1>1, <1>3, <2>1 DEF Continues
<1> QED BY <1>2, <1>3 DEF Served, Moves

-----------------------------------------------------------------------------
(***************************************************************************)
(* Every step keeps the invariant of the streams.                          *)
(***************************************************************************)
LEMMA MarkedUser ==
  ASSUME Base
  PROVE  \A d \in Conns : /\ [conn[d] EXCEPT !.doomed = TRUE].user = conn[d].user
                          /\ [conn[d] EXCEPT !.valid = FALSE].user = conn[d].user
BY SoundHere DEF Base, Sound, ConnectionTo

LEMMA AcceptServed ==
  ASSUME Base, Together, NEW c \in Conns, NEW u \in Users, Accept(c, u)
  PROVE  Served
<1>1. /\ UNCHANGED <<members, published>> /\ c \notin members
      /\ \A d \in Conns \ {c} : conn'[d] = conn[d]
      /\ members \subseteq Conns
  BY DEF Accept, match, Base, Bounds, Slots
<1> QED BY <1>1, CalmServed

LEMMA PlayerServed ==
  ASSUME Base, Together, NEW u \in Users,
         PresenceChanged(u) \/ Hangup(u) \/ Notice(u) \/ Revoke(u) \/ Sweep(u)
  PROVE  Served
<1>1. CASE PresenceChanged(u)
  BY <1>1, PresenceServed
<1>2. CASE Hangup(u) \/ Notice(u)
  BY <1>2, CalmServed DEF Hangup, Notice, match
<1>3. CASE Revoke(u) \/ Sweep(u)
  <2>1. members \subseteq Conns /\ UNCHANGED <<members, published>>
    BY <1>3 DEF Base, Bounds, Revoke, Sweep, match
  <2>2. \A d \in members : \/ conn'[d] = conn[d]
                           \/ conn'[d] = [conn[d] EXCEPT !.doomed = TRUE]
                           \/ conn'[d] = [conn[d] EXCEPT !.valid = FALSE]
    BY <1>3, <2>1 DEF Revoke, Sweep
  <2> QED BY <2>1, <2>2, CalmServed
<1> QED BY <1>1, <1>2, <1>3

LEMMA ProcessServed ==
  ASSUME Base, Together,
         \/ CancelCommit \/ AbandonCommit \/ Shutdown \/ ShutdownDone \/ Restart
         \/ UNCHANGED vars
  PROVE  Served
<1>1. CASE Restart
  BY <1>1 DEF Restart, Served
<1>2. CASE Shutdown
  <2>1. members \subseteq Conns /\ UNCHANGED <<members, published>>
    BY <1>2 DEF Base, Bounds, Shutdown, match
  <2>2. \A d \in members : conn'[d] = [conn[d] EXCEPT !.doomed = TRUE]
    BY <1>2, <2>1 DEF Shutdown
  <2> QED BY <2>1, <2>2, CalmServed
<1>3. CASE CancelCommit \/ AbandonCommit \/ ShutdownDone \/ UNCHANGED vars
  BY <1>3, CalmServed DEF CancelCommit, AbandonCommit, ShutdownDone, match, vars
<1> QED BY <1>1, <1>2, <1>3

(* A handler's own steps, those of its writer but the delivery, and its    *)
(* close().                                                                *)
Works(c) ==
  \/ Refuse(c) \/ Greet(c) \/ MarkReady(c) \/ Restate(c) \/ ReadFails(c)
  \/ Answer(c) \/ Publish(c) \/ Incoming(c) \/ Heartbeat(c) \/ TransportFails(c) \/ Close(c)

LEMMA WorksServed ==
  ASSUME Base, Together, NEW c \in Conns, Works(c)
  PROVE  Served
BY HandshakeServed, MarkReadyServed, ReadServed, AnswerServed, PublishesServed, MarksServed,
   CloseServed DEF Works, Incoming

(* The steps by what they do to the feed.                                  *)
LEMMA StepKinds ==
  ASSUME [Next]_vars
  PROVE  \/ \E c \in Conns : \/ \E u \in Users : Accept(c, u)
                             \/ Register(c) \/ Works(c) \/ Write(c)
         \/ \E u \in Users : \/ PresenceChanged(u) \/ Hangup(u) \/ Notice(u)
                             \/ Revoke(u) \/ Sweep(u)
         \/ PublishOutside
         \/ \/ CancelCommit \/ AbandonCommit \/ Shutdown \/ ShutdownDone \/ Restart
            \/ UNCHANGED vars
BY DEF Next, Handler, Handshake, Writer, Works

LEMMA TogetherKept ==
  ASSUME Base, Together, [Next]_vars
  PROVE  Together'
<1>1. Served => Together'
  BY DEF Served, Together
<1>2. ASSUME NEW c \in Conns, (\E u \in Users : Accept(c, u)) \/ Register(c) \/ Works(c)
      PROVE  Together'
  BY <1>1, <1>2, AcceptServed, RegisterServed, WorksServed
<1>3. ASSUME NEW c \in Conns, Write(c)
      PROVE  Together'
  BY <1>3, WriteTogether
<1>4. ASSUME NEW u \in Users, \/ PresenceChanged(u) \/ Hangup(u) \/ Notice(u)
                              \/ Revoke(u) \/ Sweep(u)
      PROVE  Together'
  BY <1>1, <1>4, PlayerServed
<1>5. CASE PublishOutside
  BY <1>1, <1>5, PublishesServed
<1>6. CASE \/ CancelCommit \/ AbandonCommit \/ Shutdown \/ ShutdownDone \/ Restart
           \/ UNCHANGED vars
  BY <1>1, <1>6, ProcessServed
<1> QED BY <1>2, <1>3, <1>4, <1>5, <1>6, StepKinds

LEMMA WorksFeeds ==
  ASSUME Base, Together, FeedUnbroken, NEW c \in Conns, Works(c)
  PROVE  FeedUnbroken'
<1>1. HandlerStep(c)
  BY Turns DEF Works, Writer
<1>2. UNCHANGED <<link, view>>
  <2>1. CASE Refuse(c) \/ Greet(c) \/ MarkReady(c) \/ Restate(c)
    BY <2>1 DEF Refuse, Greet, MarkReady, Restate, client
  <2>2. CASE ReadFails(c) \/ Answer(c) \/ Publish(c) \/ Incoming(c)
    BY <2>2 DEF ReadFails, Answer, Publish, Incoming, Unauthorized, Act, Repeat, Reject,
                Request, client
  <2>3. CASE Heartbeat(c) \/ TransportFails(c) \/ Close(c)
    BY <2>3 DEF Heartbeat, TransportFails, Close, client
  <2> QED BY <2>1, <2>2, <2>3 DEF Works
<1>3. \A d \in members' : d \in members /\ conn'[d].user = conn[d].user
  BY <1>1 DEF HandlerStep, Peer, Calm, Base, Bounds
<1>4. Served
  BY WorksServed
<1> QED BY <1>2, <1>3, <1>4, FeedKept

LEMMA RegisterFeeds ==
  ASSUME Base, Together, FeedUnbroken, NEW c \in Conns, Register(c)
  PROVE  FeedUnbroken'
<1>0. /\ conn \in [Conns -> Sound(head)] /\ conn[c].at = "serving" /\ c \notin members
      /\ members \subseteq Conns /\ UNCHANGED <<link, view>> /\ conn[c] \in Sound(head)
  BY SoundHere DEF Base, Bounds, Slots, Register, client
<1>1. CASE closed
  <2>1. conn' = [conn EXCEPT ![c] = Fresh] /\ members' = members
    BY <1>1 DEF Register
  <2>2. \A d \in members' : d \in members /\ conn'[d].user = conn[d].user
    BY <1>0, <2>1
  <2> QED BY <1>0, <2>2, RegisterServed, FeedKept
<1>2. CASE ~closed
  <2>1. /\ conn'[c] = [conn[c] EXCEPT !.at = "registered"] /\ members' = members \cup {c}
        /\ \A d \in Conns \ {c} :
             conn'[d] = conn[d] \/ conn'[d] = [conn[d] EXCEPT !.doomed = TRUE]
    BY <1>2 DEF Register
  <2>2. conn'[c].at = "registered"
    BY <1>0, <2>1 DEF Sound, ConnectionTo
  <2>3. \A d \in members : conn'[d].user = conn[d].user
    BY <1>0, <2>1, MarkedUser
  <2>4. \A d \in members' : Streaming(conn'[d]) => d \in members /\ conn'[d].user = conn[d].user
    BY <2>1, <2>2, <2>3 DEF Streaming
  <2> QED BY <1>0, <2>4, RegisterServed, FeedKept
<1> QED BY <1>1, <1>2

LEMMA AcceptFeeds ==
  ASSUME Base, Together, FeedUnbroken, NEW c \in Conns, NEW u \in Users, Accept(c, u)
  PROVE  FeedUnbroken'
<1>1. /\ UNCHANGED <<members, view>> /\ c \notin members
      /\ \A d \in Conns \ {c} : conn'[d] = conn[d]
      /\ members \subseteq Conns
      /\ \A v \in Users : link'[v] = link[v] \/ link'[v] = c
  BY DEF Accept, match, Base, Bounds, Slots
<1>2. \A d \in members' : d \in members /\ conn'[d].user = conn[d].user
  BY <1>1
<1> QED BY <1>1, <1>2, AcceptServed, FeedKept

LEMMA PlayerFeeds ==
  ASSUME Base, Together, FeedUnbroken, NEW u \in Users,
         PresenceChanged(u) \/ Hangup(u) \/ Notice(u) \/ Revoke(u) \/ Sweep(u)
  PROVE  FeedUnbroken'
<1>1. UNCHANGED <<members, view>> /\ members \subseteq Conns
  BY DEF PresenceChanged, Hangup, Notice, Revoke, Sweep, match, client, Base, Bounds
<1>2. \A d \in members, v \in Users : link'[v] = d => link[v] = d
  <2>1. CASE PresenceChanged(u) \/ Revoke(u) \/ Sweep(u)
    BY <2>1 DEF PresenceChanged, Revoke, Sweep, client
  <2>2. CASE Hangup(u) \/ Notice(u)
    <3>1. link' = [link EXCEPT ![u] = None] /\ link \in [Users -> Conns \cup {None}]
      BY <2>2 DEF Hangup, Notice, Base, Bounds
    <3> QED BY <1>1, <3>1, HubAssumption
  <2> QED BY <2>1, <2>2
<1>3. \A d \in members : conn'[d].user = conn[d].user
  <2>1. CASE PresenceChanged(u)
    BY <1>1, <2>1, PresenceChangedIs DEF Peer, Calm, Base
  <2>2. CASE Hangup(u) \/ Notice(u)
    BY <2>2 DEF Hangup, Notice
  <2>3. CASE Revoke(u) \/ Sweep(u)
    <3>1. \A d \in members : \/ conn'[d] = conn[d]
                             \/ conn'[d] = [conn[d] EXCEPT !.doomed = TRUE]
                             \/ conn'[d] = [conn[d] EXCEPT !.valid = FALSE]
      BY <1>1, <2>3 DEF Revoke, Sweep
    <3> QED BY <1>1, <3>1, MarkedUser
  <2> QED BY <2>1, <2>2, <2>3
<1> QED BY <1>1, <1>2, <1>3, PlayerServed, FeedKept

LEMMA ProcessFeeds ==
  ASSUME Base, Together, FeedUnbroken,
         \/ CancelCommit \/ AbandonCommit \/ Shutdown \/ ShutdownDone \/ Restart
         \/ UNCHANGED vars \/ PublishOutside
  PROVE  FeedUnbroken'
<1>0. members \subseteq Conns
  BY DEF Base, Bounds
<1>1. CASE Restart
  BY <1>1 DEF Restart, FeedUnbroken
<1>2. CASE Shutdown
  <2>1. UNCHANGED <<members, link, view>> /\ Served
    BY <1>2, ProcessServed DEF Shutdown, match, client
  <2>2. \A d \in members : conn'[d].user = conn[d].user
    <3>1. \A d \in members : conn'[d] = [conn[d] EXCEPT !.doomed = TRUE]
      BY <1>0, <1>2 DEF Shutdown
    <3> QED BY <1>0, <3>1, MarkedUser
  <2> QED BY <2>1, <2>2, FeedKept
<1>3. CASE CancelCommit \/ AbandonCommit \/ ShutdownDone \/ UNCHANGED vars
  <2>1. UNCHANGED <<members, conn, link, view>> /\ Served
    BY <1>3, ProcessServed DEF CancelCommit, AbandonCommit, ShutdownDone, match, client, vars
  <2> QED BY <2>1, FeedKept
<1>4. CASE PublishOutside
  <2>1. UNCHANGED <<members, link, view>> /\ Served
    BY <1>4, PublishesServed DEF PublishOutside, client
  <2>2. outside \in 0..head /\ PublishEvent(outside, conn) /\ conn \in [Conns -> Sound(head)]
    BY <1>4 DEF PublishOutside, Base, Bounds
  <2>3. \A d \in members : conn'[d].user = conn[d].user
    BY <1>0, <2>2, PublishEventIs DEF Peer, Calm, Base
  <2> QED BY <2>1, <2>3, FeedKept
<1> QED BY <1>1, <1>2, <1>3, <1>4

LEMMA StepFeeds ==
  ASSUME Base, Together, FeedUnbroken, [Next]_vars
  PROVE  FeedUnbroken'
BY StepKinds, AcceptFeeds, RegisterFeeds, WorksFeeds, WriteFeeds, PlayerFeeds, ProcessFeeds

LEMMA FeedStep ==
  Base /\ Stray /\ Together /\ FeedUnbroken /\ [Next]_vars => Together' /\ FeedUnbroken'
BY TogetherKept, StepFeeds

LEMMA InitTogether == Init => Together /\ FeedUnbroken
BY DEF Init, Together, FeedUnbroken

(* The stream of a connection that is not being closed has no gap and      *)
(* never goes back, and connection.revision is what its client will show,  *)
(* through handshakes, resnapshots of peers, repeated publications and     *)
(* full queues (hub.go:700-808).                                           *)
THEOREM FeedCorrect == Spec => []FeedUnbroken
<1>1. Init => Base /\ Stray /\ Together /\ FeedUnbroken
  BY InitStray, InitTogether
<1>2. Base /\ Stray /\ Together /\ FeedUnbroken /\ [Next]_vars
        => Base' /\ Stray' /\ Together' /\ FeedUnbroken'
  BY StrayKept, FeedStep
<1> QED BY <1>1, <1>2, PTL DEF Spec

-----------------------------------------------------------------------------
(***************************************************************************)
(* Nothing is held back.  Every durable revision is accounted for while    *)
(* somebody is ready: it is published, it waits, or it is in the hand of   *)
(* the one who committed it.  A handshake owes its client only what came   *)
(* after the snapshot in its hand.  And what waits is beyond a gap.        *)
(***************************************************************************)
Accounted(r) == r <= published \/ r \in events \/ InHand(r)

Accounting ==
  ~closed => \A c \in members :
    /\ conn[c].ready => \A r \in 1..head : Accounted(r)
    /\ conn[c].at = "readying" => \A r \in 1..head : r > conn[c].held => Accounted(r)

Gap == published + 1 \notin events /\ \A r \in events : r > published

LEMMA GapGivesCause ==
  ASSUME Base, Accounting, Gap
  PROVE  WaitingHasCause
<1> SUFFICES ASSUME NEW e \in events, ~closed, NEW c \in members, conn[c].ready
             PROVE  InHand(published + 1)
  BY DEF WaitingHasCause
<1>1. published \in Nat /\ e \in 1..head /\ head \in Nat /\ e > published
      /\ published + 1 \notin events
  BY SoundHere DEF Base, Bounds, Gap
<1>2. published + 1 \in 1..head
  BY <1>1
<1>3. Accounted(published + 1)
  BY <1>2 DEF Accounting
<1>4. ~(published + 1 <= published)
  BY <1>1
<1> QED BY <1>1, <1>3, <1>4 DEF Accounted

\* What is in a hand stays there while nobody publishes.
Hands == \A d \in Conns : conn[d].at = "publishing"
                            => conn'[d].at = "publishing" /\ conn'[d].held = conn[d].held

LEMMA HandsKept ==
  ASSUME Hands, UNCHANGED outside, NEW r, InHand(r)
  PROVE  InHand(r)'
BY DEF Hands, InHand

LEMMA AccountedKept ==
  ASSUME Hands, UNCHANGED <<outside, published, events>>, NEW r, Accounted(r)
  PROVE  Accounted(r)'
BY HandsKept DEF Accounted

\* A step that keeps the account; who becomes ready leaves its handshake with
\* nothing owed.
LEMMA AccountingKept ==
  ASSUME Base, Accounting, closed => closed', head' \in Nat,
         \A r \in 1..head : Accounted(r) => Accounted(r)',
         \A r \in 1..head' : r \in 1..head \/ Accounted(r)',
         published' \in Nat,
         \A d \in members' :
           /\ conn'[d].ready =>
                /\ d \in members
                /\ \/ conn[d].ready
                   \/ conn[d].at = "readying" /\ conn[d].held <= published'
           /\ conn'[d].at = "readying" =>
                \/ d \in members /\ conn[d].at = "readying" /\ conn'[d].held = conn[d].held
                \/ conn'[d].held = head'
  PROVE  Accounting'
<1> USE SoundHere DEF Base
<1>1. ASSUME ~closed', NEW d \in members', conn'[d].ready, NEW r \in 1..head'
      PROVE  Accounted(r)'
  <2>1. CASE d \in members /\ conn[d].ready
    BY <1>1, <2>1 DEF Accounting
  <2>2. CASE d \in members /\ conn[d].at = "readying" /\ conn[d].held <= published'
    <3>1. CASE r > conn[d].held
      BY <1>1, <2>2, <3>1 DEF Accounting
    <3>2. d \in Conns /\ conn[d].held \in 0..head /\ r \in Nat /\ head \in Nat
      BY <2>2 DEF Bounds
    <3>3. CASE r <= conn[d].held
      <4>1. r <= published'
        BY <2>2, <3>2, <3>3
      <4> QED BY <4>1 DEF Accounted
    <3>4. r > conn[d].held \/ r <= conn[d].held
      BY <3>2
    <3> QED BY <3>1, <3>3, <3>4
  <2> QED BY <1>1, <2>1, <2>2
<1>2. ASSUME ~closed', NEW d \in members', conn'[d].at = "readying", NEW r \in 1..head',
             r > conn'[d].held
      PROVE  Accounted(r)'
  <2>1. CASE d \in members /\ conn[d].at = "readying" /\ conn'[d].held = conn[d].held
    BY <1>2, <2>1 DEF Accounting
  <2>2. CASE conn'[d].held = head'
    BY <1>2, <2>2
  <2> QED BY <1>2, <2>1, <2>2
<1>3. ASSUME ~closed', NEW d \in members'
      PROVE  /\ conn'[d].ready => \A r \in 1..head' : Accounted(r)'
             /\ conn'[d].at = "readying"
                  => \A r \in 1..head' : r > conn'[d].held => Accounted(r)'
  BY <1>1, <1>2, <1>3
<1> QED BY ONLY <1>3 DEF Accounting

\* Steps that publish nothing and give nobody a handshake's end.
LEMMA QuietAccounting ==
  ASSUME Base, Accounting, Gap, UNCHANGED <<published, events, outside, head>>,
         closed => closed', Hands,
         \A d \in members' :
           /\ conn'[d].ready => d \in members /\ conn[d].ready
           /\ conn'[d].at = "readying" =>
                \/ d \in members /\ conn[d].at = "readying" /\ conn'[d].held = conn[d].held
                \/ conn'[d].held = head'
  PROVE  Accounting' /\ Gap'
<1>1. Gap'
  BY DEF Gap
<1>2. head' \in Nat /\ published' \in Nat /\ \A r \in 1..head : Accounted(r) => Accounted(r)'
  BY SoundHere, AccountedKept DEF Base, Bounds
<1> QED BY <1>1, <1>2, AccountingKept

LEMMA ChangeGivesQuiet ==
  ASSUME Base, Accounting, Gap, NEW c \in Conns, HandlerStep(c),
         UNCHANGED <<published, events, outside, head>>,
         conn[c].at = "publishing" => conn'[c].at = "publishing" /\ conn'[c].held = conn[c].held,
         c \in members' =>
           /\ conn'[c].ready => conn[c].ready
           /\ conn'[c].at = "readying" =>
                \/ conn[c].at = "readying" /\ conn'[c].held = conn[c].held
                \/ conn'[c].held = head'
  PROVE  Accounting' /\ Gap'
<1>1. members' \subseteq members /\ members \subseteq Conns /\ closed' = closed
      /\ \A d \in Conns \ {c} : Peer(conn[d], conn'[d])
  BY DEF HandlerStep, Base, Bounds
<1>2. Hands
  BY <1>1 DEF Hands, Peer
<1>3. ASSUME NEW d \in members'
      PROVE  /\ conn'[d].ready => d \in members /\ conn[d].ready
             /\ conn'[d].at = "readying" =>
                  \/ d \in members /\ conn[d].at = "readying" /\ conn'[d].held = conn[d].held
                  \/ conn'[d].held = head'
  BY <1>1 DEF Peer
<1> QED BY <1>1, <1>2, <1>3, QuietAccounting

\* Steps of one connection.
LEMMA OneQuiet ==
  ASSUME Base, Accounting, Gap, NEW c \in Conns, HandlerStep(c), NEW l,
         conn' = [conn EXCEPT ![c] = l],
         UNCHANGED <<published, events, outside, head>>,
         conn[c].at = "publishing" => l.at = "publishing" /\ l.held = conn[c].held,
         l.ready => conn[c].ready,
         l.at = "readying" =>
           \/ conn[c].at = "readying" /\ l.held = conn[c].held
           \/ l.held = head
  PROVE  Accounting' /\ Gap'
<1>1. conn'[c] = l
  BY DEF Base, Bounds
<1> QED BY <1>1, ChangeGivesQuiet

LEMMA ReturnsQuiet ==
  ASSUME Base, Accounting, Gap, NEW c \in Conns, HandlerStep(c), Returns(c),
         conn[c].at # "publishing", UNCHANGED <<published, events, outside, head>>
  PROVE  Accounting' /\ Gap'
<1>1. /\ ~Fresh.ready /\ Fresh.at = "idle"
  BY DEF Fresh
<1>2. conn[c] \in Sound(head) /\ head \in Nat
  BY SoundHere DEF Base
<1> DEFINE l == Returned(conn[c])
<1>3. /\ l.at # "readying" /\ (l.ready => conn[c].ready)
  BY <1>1, <1>2, ReturnedIs
<1>4. conn' = [conn EXCEPT ![c] = l]
  BY DEF Returns
<1> HIDE DEF l
<1> QED BY <1>3, <1>4, OneQuiet

LEMMA HandshakeAccounts ==
  ASSUME Base, Accounting, Gap, NEW c \in Conns, Refuse(c) \/ Greet(c) \/ Restate(c)
  PROVE  Accounting' /\ Gap'
<1>0. /\ HandlerStep(c) /\ UNCHANGED <<published, events, outside, head>>
      /\ conn[c].at # "publishing" /\ conn[c] \in Sound(head) /\ head \in Nat
  BY HandshakeTurns, SoundHere DEF Refuse, Greet, Restate, feed, match, Base
<1>1. CASE Refuse(c)
  BY <1>0, <1>1, OneQuiet DEF Refuse, Fresh
<1>2. CASE Returns(c)
  BY <1>0, <1>2, ReturnsQuiet
<1>3. CASE Greet(c) /\ ~Returns(c)
  <2> DEFINE p == Put(conn[c], <<NoticeMessage, Message("snapshot", head)>>)
             l == [p EXCEPT !.rev = head, !.held = head, !.at = "readying"]
  <2>1. conn' = [conn EXCEPT ![c] = l]
    BY <1>3 DEF Greet
  <2>2. p.ready = conn[c].ready /\ l.ready = p.ready /\ l.at = "readying" /\ l.held = head
    BY <1>0 DEF Put, Sound, ConnectionTo
  <2> HIDE DEF l, p
  <2> QED BY <1>0, <2>1, <2>2, OneQuiet
<1>4. CASE Restate(c) /\ ~Returns(c)
  <2> DEFINE p == PutState(conn[c], head)
             l == [p EXCEPT !.held = head, !.at = "readying"]
  <2>1. conn' = [conn EXCEPT ![c] = l]
    BY <1>4 DEF Restate
  <2>2. p.ready = conn[c].ready /\ l.ready = p.ready /\ l.at = "readying" /\ l.held = head
    BY <1>0 DEF PutState, Sound, ConnectionTo
  <2> HIDE DEF l, p
  <2> QED BY <1>0, <2>1, <2>2, OneQuiet
<1> QED BY <1>1, <1>2, <1>3, <1>4

LEMMA ReadAccounts ==
  ASSUME Base, Accounting, Gap, NEW c \in Conns,
         \/ ReadFails(c) \/ Unauthorized(c) \/ Repeat(c)
         \/ Reject(c) \/ Request(c)
  PROVE  Accounting' /\ Gap'
<1>0. /\ HandlerStep(c) /\ UNCHANGED <<published, events, outside, head>>
      /\ conn[c].at = "reading" /\ conn[c] \in Sound(head) /\ head \in Nat
  <2>1. HandlerStep(c)
    BY ReadTurns
  <2>2. UNCHANGED <<published, events, outside, head>> /\ conn[c].at = "reading"
    BY DEF ReadFails, Unauthorized, Repeat, Reject, Request, Reading, feed, match
  <2> QED BY <2>1, <2>2, SoundHere DEF Base
<1>1. CASE ReadFails(c) \/ Unauthorized(c)
  BY <1>0, <1>1, ReturnsQuiet DEF ReadFails, Unauthorized
<1>2. CASE Repeat(c) \/ Request(c)
  <2>1. PICK a \in {"publishing", "answering"}, x \in Int :
          conn' = [conn EXCEPT ![c] = [conn[c] EXCEPT !.at = a, !.held = x]]
    BY <1>2, TakenUp DEF Base
  <2> DEFINE l == [conn[c] EXCEPT !.at = a, !.held = x]
  <2>2. l.ready = conn[c].ready /\ l.at = a
    BY <1>0 DEF Sound, ConnectionTo
  <2> HIDE DEF l
  <2> QED BY <1>0, <2>1, <2>2, OneQuiet DEF l
<1>3. CASE Reject(c)
  <2> DEFINE l == IF Room(conn[c]) >= 1 THEN Put(conn[c], <<NoticeMessage>>)
                                        ELSE [conn[c] EXCEPT !.doomed = TRUE]
  <2>1. conn' = [conn EXCEPT ![c] = l]
    BY <1>3 DEF Reject
  <2>2. Peer(conn[c], l)
    BY <1>0, PutIs, MarkIs
  <2>3. l.at = conn[c].at /\ (l.ready => conn[c].ready)
    BY <2>2 DEF Peer
  <2> HIDE DEF l
  <2> QED BY <1>0, <2>1, <2>3, OneQuiet
<1> QED BY <1>1, <1>2, <1>3

LEMMA ActAccounts ==
  ASSUME Base, Accounting, Gap, NEW c \in Conns, Act(c)
  PROVE  Accounting' /\ Gap'
<1>0. /\ HandlerStep(c) /\ UNCHANGED <<published, events, outside>> /\ head' = head + 1
      /\ conn[c].at = "reading" /\ conn[c] \in Sound(head) /\ head \in Nat
      /\ published \in Nat /\ members \subseteq Conns
      /\ conn' = [conn EXCEPT ![c] = [conn[c] EXCEPT !.at = "publishing", !.held = head + 1]]
  <2>1. HandlerStep(c)
    BY ReadTurns
  <2>2. conn' = [conn EXCEPT ![c] = [conn[c] EXCEPT !.at = "publishing", !.held = head + 1]]
    BY SoundHere DEF Act, Base, Bounds, Sound, ConnectionTo
  <2>3. /\ UNCHANGED <<published, events, outside>> /\ head' = head + 1
        /\ conn[c].at = "reading" /\ members \subseteq Conns
    BY DEF Act, Reading, match, Base, Bounds
  <2>4. conn[c] \in Sound(head) /\ head \in Nat /\ published \in Nat
    BY SoundHere DEF Base, Bounds
  <2> QED BY <2>1, <2>2, <2>3, <2>4
<1>1. /\ conn'[c].at = "publishing" /\ conn'[c].held = head + 1
      /\ conn'[c].ready = conn[c].ready
      /\ \A d \in Conns \ {c} : conn'[d] = conn[d]
  BY <1>0 DEF Base, Bounds, Sound, ConnectionTo
<1>2. Hands /\ closed' = closed /\ members' \subseteq members
  BY <1>0, <1>1 DEF Hands, HandlerStep
<1>3. Gap'
  BY <1>0 DEF Gap
<1>4. \A r \in 1..head : Accounted(r) => Accounted(r)'
  BY <1>0, <1>2, AccountedKept
<1>5. ASSUME NEW r, r = head + 1
      PROVE  Accounted(r)'
  BY <1>1, <1>5 DEF Accounted, InHand
<1>6. ASSUME NEW r \in 1..head'
      PROVE  r \in 1..head \/ Accounted(r)'
  <2>1. r \in 1..head \/ r = head + 1
    BY <1>0
  <2> QED BY <1>5, <2>1
<1>7. ASSUME NEW d \in members'
      PROVE  /\ conn'[d].ready => d \in members /\ conn[d].ready
             /\ conn'[d].at = "readying" =>
                  d \in members /\ conn[d].at = "readying" /\ conn'[d].held = conn[d].held
  BY <1>0, <1>1, <1>2
<1>8. head' \in Nat /\ published' \in Nat
  BY <1>0
<1> QED BY <1>2, <1>3, <1>4, <1>6, <1>7, <1>8, AccountingKept

LEMMA AnswerAccounts ==
  ASSUME Base, Accounting, Gap, NEW c \in Conns, Answer(c)
  PROVE  Accounting' /\ Gap'
<1>0. /\ HandlerStep(c) /\ UNCHANGED <<published, events, outside, head>>
      /\ conn[c].at = "answering"
  BY AnswerTurn DEF Answer, feed, match
<1>1. PICK l : /\ conn' = [conn EXCEPT ![c] = l]
               /\ l.at \in {"reading", "answering"} /\ l.ready = conn[c].ready
  BY AnswerIs DEF Base
<1> QED BY <1>0, <1>1, OneQuiet

LEMMA WriterAccounts ==
  ASSUME Base, Accounting, Gap, NEW c \in Conns, Writer(c)
  PROVE  Accounting' /\ Gap'
<1>0. HandlerStep(c) /\ UNCHANGED <<published, events, outside, head>>
  BY WriterTurns DEF Writer, Write, Heartbeat, TransportFails, feed, match
<1>1. /\ conn'[c].at = conn[c].at /\ conn'[c].held = conn[c].held
      /\ conn'[c].ready = conn[c].ready
  <2>1. CASE Write(c)
    BY <2>1, WriteIs
  <2>2. CASE Heartbeat(c) \/ TransportFails(c)
    <3>1. conn'[c] = [conn[c] EXCEPT !.doomed = TRUE] /\ conn[c] \in Sound(head)
      BY <2>2, SoundHere DEF Heartbeat, TransportFails, Base, Bounds
    <3> QED BY <3>1 DEF Sound, ConnectionTo
  <2> QED BY <2>1, <2>2 DEF Writer
<1> QED BY <1>0, <1>1, ChangeGivesQuiet

LEMMA CloseAccounts ==
  ASSUME Base, Accounting, Gap, NEW c \in Conns, Close(c)
  PROVE  Accounting' /\ Gap'
<1>1. CASE members' = {}
  <2>1. published' = 0 /\ events' = {}
    BY <1>1 DEF Close
  <2> QED BY <1>1, <2>1 DEF Accounting, Gap
<1>2. CASE members' # {}
  <2>1. /\ HandlerStep(c) /\ UNCHANGED <<published, events, outside, head>>
        /\ members' = members \ {c} /\ conn[c] \in Sound(head)
        /\ conn'[c] = IF conn[c].at = "ending" THEN Fresh
                      ELSE [conn[c] EXCEPT !.shut = TRUE, !.queue = <<>>]
    <3>1. HandlerStep(c) /\ conn[c] \in Sound(head)
      BY CloseTurn, SoundHere DEF Base
    <3> QED BY <1>2, <3>1 DEF Close, feed, Base, Bounds
  <2>2. conn[c].at = "publishing" => conn'[c].at = "publishing" /\ conn'[c].held = conn[c].held
    BY <2>1 DEF Sound, ConnectionTo
  <2> QED BY <2>1, <2>2, ChangeGivesQuiet
<1> QED BY <1>1, <1>2

LEMMA RegisterAccounts ==
  ASSUME Base, Accounting, Gap, NEW c \in Conns, Register(c)
  PROVE  Accounting' /\ Gap'
<1>0. /\ UNCHANGED <<published, events, outside, head, closed>> /\ conn[c].at = "serving"
      /\ ~conn[c].ready /\ c \notin members /\ members \subseteq Conns
      /\ members' \subseteq members \cup {c}
      /\ \A d \in Conns : conn[d] \in Sound(head)
  <2>1. \A d \in Conns : conn[d] \in Sound(head)
    BY SoundHere DEF Base
  <2> QED BY <2>1 DEF Register, feed, admin, Base, Bounds, Slots
<1>1. \A d \in Conns \ {c} :
        conn'[d] = conn[d] \/ conn'[d] = [conn[d] EXCEPT !.doomed = TRUE]
  BY DEF Register, Base, Bounds
<1>2. conn'[c] = Fresh \/ conn'[c] = [conn[c] EXCEPT !.at = "registered"]
  BY DEF Register, Base, Bounds
<1>3. \A d \in Conns \ {c} : /\ conn'[d].at = conn[d].at /\ conn'[d].held = conn[d].held
                             /\ conn'[d].ready = conn[d].ready
  BY <1>0, <1>1 DEF Sound, ConnectionTo
<1>4. conn'[c].at \in {"idle", "registered"} /\ ~conn'[c].ready
  BY <1>0, <1>2 DEF Sound, ConnectionTo, Fresh
<1>5. Hands
  BY <1>0, <1>3 DEF Hands
<1>6. ASSUME NEW d \in members'
      PROVE  /\ conn'[d].ready => d \in members /\ conn[d].ready
             /\ conn'[d].at = "readying" =>
                  d \in members /\ conn[d].at = "readying" /\ conn'[d].held = conn[d].held
  BY <1>0, <1>3, <1>4
<1> QED BY <1>0, <1>5, <1>6, QuietAccounting

LEMMA AcceptAccounts ==
  ASSUME Base, Accounting, Gap, NEW c \in Conns, NEW u \in Users, Accept(c, u)
  PROVE  Accounting' /\ Gap'
<1>1. /\ UNCHANGED <<published, events, outside, head, closed, members>>
      /\ conn[c].at = "idle" /\ c \notin members
      /\ members \subseteq Conns
      /\ \A d \in Conns \ {c} : conn'[d] = conn[d]
  BY DEF Accept, feed, match, admin, Base, Bounds, Slots
<1>2. Hands
  BY <1>1 DEF Hands
<1> QED BY <1>1, <1>2, QuietAccounting

LEMMA PlayerAccounts ==
  ASSUME Base, Accounting, Gap, NEW u \in Users,
         PresenceChanged(u) \/ Hangup(u) \/ Notice(u) \/ Revoke(u) \/ Sweep(u)
  PROVE  Accounting' /\ Gap'
<1>1. UNCHANGED <<published, events, outside, head, closed, members>> /\ members \subseteq Conns
  BY DEF PresenceChanged, Hangup, Notice, Revoke, Sweep, feed, match, admin, Base, Bounds
<1>2. ASSUME NEW d \in Conns
      PROVE  /\ conn'[d].at = conn[d].at /\ conn'[d].held = conn[d].held
             /\ conn'[d].ready => conn[d].ready
  <2>1. CASE PresenceChanged(u)
    BY <2>1, PresenceChangedIs DEF Peer, Base
  <2>2. CASE Hangup(u) \/ Notice(u)
    BY <2>2 DEF Hangup, Notice
  <2>3. CASE Revoke(u) \/ Sweep(u)
    <3>1. \/ conn'[d] = conn[d]
          \/ conn'[d] = [conn[d] EXCEPT !.doomed = TRUE]
          \/ conn'[d] = [conn[d] EXCEPT !.valid = FALSE]
      BY <2>3 DEF Revoke, Sweep
    <3>2. conn[d] \in Sound(head)
      BY SoundHere DEF Base
    <3> QED BY <3>1, <3>2 DEF Sound, ConnectionTo
  <2> QED BY <2>1, <2>2, <2>3
<1>3. Hands
  BY <1>2 DEF Hands
<1> QED BY <1>1, <1>2, <1>3, QuietAccounting

LEMMA ProcessAccounts ==
  ASSUME Base, Accounting, Gap,
         \/ CancelCommit \/ AbandonCommit \/ Shutdown \/ ShutdownDone \/ Restart
         \/ UNCHANGED vars
  PROVE  Accounting' /\ Gap'
<1>0. members \subseteq Conns /\ head \in Nat /\ published \in Nat
  BY SoundHere DEF Base, Bounds
<1>1. CASE Restart
  <2>1. published' = 0 /\ events' = {} /\ members' = {}
    BY <1>1 DEF Restart
  <2> QED BY <2>1 DEF Accounting, Gap
<1>2. CASE Shutdown
  <2>1. closed' /\ UNCHANGED <<published, events>>
    BY <1>2 DEF Shutdown, match
  <2> QED BY <2>1 DEF Accounting, Gap
<1>3. CASE ShutdownDone \/ UNCHANGED vars
  <2>1. UNCHANGED <<published, events, outside, head, closed, members, conn>>
    BY <1>3 DEF ShutdownDone, feed, match, vars
  <2>2. Hands
    BY <2>1 DEF Hands
  <2> QED BY <2>1, <2>2, QuietAccounting
<1>4. CASE CancelCommit \/ AbandonCommit
  <2>1. /\ UNCHANGED <<published, events, closed, members, conn>>
        /\ outside = 0 /\ head' = head + 1 /\ outside' = head + 1
    BY <1>4 DEF CancelCommit, AbandonCommit, match, admin
  <2>2. ASSUME NEW r \in 1..head, Accounted(r)
        PROVE  Accounted(r)'
    <3>1. r # outside
      BY <2>1
    <3> QED BY <2>1, <2>2, <3>1 DEF Accounted, InHand
  <2>3. ASSUME NEW r \in 1..head'
        PROVE  r \in 1..head \/ Accounted(r)'
    <3>1. r \in 1..head \/ r = head + 1
      BY <1>0, <2>1
    <3>2. CASE r = head + 1
      BY <2>1, <3>2 DEF Accounted, InHand
    <3> QED BY <3>1, <3>2
  <2>4. Gap'
    BY <2>1 DEF Gap
  <2>5. head' \in Nat /\ published' \in Nat
    BY <1>0, <2>1
  <2> QED BY <2>1, <2>2, <2>3, <2>4, <2>5, AccountingKept
<1> QED BY <1>1, <1>2, <1>3, <1>4

\* Publishing takes a revision out of a hand, to where it is accounted for.
LEMMA PublishEventAccounts ==
  ASSUME Base, Gap, NEW r \in 0..head, NEW cs \in [Conns -> Sound(head)], PublishEvent(r, cs)
  PROVE  /\ Gap' /\ published' \in Nat
         /\ ~closed /\ members # {} => \A x \in 1..head :
              x <= published \/ x \in events \/ x = r => x <= published' \/ x \in events'
<1>0. head \in Nat /\ published \in 0..head /\ events \in SUBSET (1..head)
  BY SoundHere DEF Base, Bounds
<1>1. CASE closed \/ members = {} \/ r <= published
  <2>1. UNCHANGED <<published, events>>
    BY <1>1 DEF PublishEvent
  <2> QED BY <1>0, <1>1, <2>1 DEF Gap
<1>2. CASE ~(closed \/ members = {} \/ r <= published)
  <2> DEFINE ev == events \cup {r}
             n == Len(Run(published, ev))
  <2>1. ev \in SUBSET (1..head)
    BY <1>0, <1>2
  <2>2. published' = published + n /\ events' = {x \in ev : x > published + n}
    BY <1>2 DEF PublishEvent, Flush
  <2>3. n \in Nat /\ published + n + 1 \notin ev
    BY <1>0, <2>1, RunIs
  <2> HIDE DEF n
  <2>4. Gap' /\ published' \in Nat
    BY <1>0, <2>2, <2>3 DEF Gap
  <2>5. \A x \in 1..head : x <= published \/ x \in ev => x <= published' \/ x \in events'
    BY <1>0, <2>2, <2>3
  <2> QED BY <2>4, <2>5
<1> QED BY <1>1, <1>2

LEMMA PublishesAccount ==
  ASSUME Base, Accounting, Gap, NEW r \in 0..head, NEW cs \in [Conns -> Sound(head)],
         PublishEvent(r, cs), UNCHANGED <<head, members, closed>>,
         \A d \in Conns : /\ cs[d].ready => conn[d].ready
                          /\ cs[d].at = "readying" => conn[d].at = "readying"
                          /\ cs[d].held = conn[d].held,
         \A x \in 1..head : InHand(x) => x = r \/ InHand(x)'
  PROVE  Accounting' /\ Gap'
<1>1. /\ Gap' /\ published' \in Nat
      /\ ~closed /\ members # {} => \A x \in 1..head :
           x <= published \/ x \in events \/ x = r => x <= published' \/ x \in events'
  BY PublishEventAccounts
<1>2. CASE closed \/ members = {}
  BY <1>1, <1>2 DEF Accounting
<1>3. CASE ~closed /\ members # {}
  <2>1. \A x \in 1..head : Accounted(x) => Accounted(x)'
    BY <1>1, <1>3 DEF Accounted
  <2>2. \A d \in Conns : Peer(cs[d], conn'[d])
    BY PublishEventIs DEF Base
  <2>3. members \subseteq Conns /\ head \in Nat
    BY SoundHere DEF Base, Bounds
  <2>4. ASSUME NEW d \in members
        PROVE  /\ conn'[d].ready => conn[d].ready
               /\ conn'[d].at = "readying" =>
                    conn[d].at = "readying" /\ conn'[d].held = conn[d].held
    BY <2>2, <2>3 DEF Peer
  <2> QED BY <1>1, <2>1, <2>3, <2>4, AccountingKept
<1> QED BY <1>2, <1>3

LEMMA PublishAccounts ==
  ASSUME Base, Accounting, Gap, NEW c \in Conns, Publish(c)
  PROVE  Accounting' /\ Gap'
<1> DEFINE cs == [conn EXCEPT ![c] = [conn[c] EXCEPT !.at = "reading"]]
           r == conn[c].held
<1>1. /\ UNCHANGED <<head, members, closed, outside>> /\ conn[c].at = "publishing"
      /\ conn \in [Conns -> Sound(head)] /\ head \in Nat /\ conn[c] \in Sound(head)
      /\ r \in 0..head
  <2>1. conn[c] \in Sound(head) /\ head \in Nat /\ conn[c].held \in 0..head
        /\ conn \in [Conns -> Sound(head)]
    BY SoundHere DEF Base
  <2> QED BY <2>1 DEF Publish, feed, admin
<1>2. PublishEvent(r, cs)
  BY <1>1 DEF Publish
<1>3. cs[c] = [conn[c] EXCEPT !.at = "reading"] /\ \A d \in Conns \ {c} : cs[d] = conn[d]
  BY <1>1
<1>4. cs \in [Conns -> Sound(head)]
  BY <1>1, MovedSound DEF Stages
<1> HIDE DEF cs
<1>5. cs[c].at = "reading" /\ cs[c].held = conn[c].held /\ cs[c].ready = conn[c].ready
  BY <1>1, <1>3 DEF Sound, ConnectionTo
<1>6. \A d \in Conns : Peer(cs[d], conn'[d])
  BY <1>1, <1>2, <1>4, PublishEventIs DEF Base
<1>7. \A d \in Conns \ {c} : conn[d].at = "publishing"
                               => conn'[d].at = "publishing" /\ conn'[d].held = conn[d].held
  BY <1>3, <1>6 DEF Peer
<1>8. \A x \in 1..head : InHand(x) => x = r \/ InHand(x)'
  BY <1>1, <1>7 DEF InHand
<1>9. \A d \in Conns : /\ cs[d].ready => conn[d].ready
                       /\ cs[d].at = "readying" => conn[d].at = "readying"
                       /\ cs[d].held = conn[d].held
  BY <1>3, <1>5
<1> HIDE DEF r
<1> QED BY <1>1, <1>2, <1>4, <1>8, <1>9, PublishesAccount

LEMMA OutsideAccounts ==
  ASSUME Base, Accounting, Gap, PublishOutside
  PROVE  Accounting' /\ Gap'
<1>1. /\ UNCHANGED <<head, members, closed>> /\ outside \in 0..head
      /\ conn \in [Conns -> Sound(head)] /\ PublishEvent(outside, conn)
  BY DEF PublishOutside, admin, Base, Bounds
<1>2. \A d \in Conns : Peer(conn[d], conn'[d])
  BY <1>1, PublishEventIs DEF Base
<1>3. \A x \in 1..head : InHand(x) => x = outside \/ InHand(x)'
  BY <1>2 DEF InHand, Peer
<1> QED BY <1>1, <1>3, PublishesAccount

LEMMA MarkReadyAccounts ==
  ASSUME Base, Accounting, Gap, NEW c \in Conns, MarkReady(c)
  PROVE  Accounting' /\ Gap'
<1>0. /\ HandlerStep(c) /\ conn[c].at = "readying" /\ UNCHANGED <<outside, head, members, closed>>
      /\ conn[c] \in Sound(head) /\ head \in Nat /\ conn[c].held \in 0..head
      /\ published \in 0..head /\ events \in SUBSET (1..head) /\ members \subseteq Conns
  <2>1. HandlerStep(c) /\ conn[c] \in Sound(head) /\ head \in Nat /\ conn[c].held \in 0..head
    BY MarkReadyTurn, SoundHere DEF Base
  <2> QED BY <2>1 DEF MarkReady, feed, admin, Base, Bounds
<1>1. CASE members = {}
  <2>1. UNCHANGED <<published, events>>
    BY <1>1 DEF MarkReady
  <2> QED BY <1>0, <1>1, <2>1 DEF Accounting, Gap
<1>2. CASE members # {} /\ conn[c].held < published
  <2>1. /\ UNCHANGED <<published, events>>
        /\ conn' = [conn EXCEPT ![c] = [conn[c] EXCEPT !.at = "refreshing"]]
    <3>1. ~(conn[c].held >= published)
      BY <1>0, <1>2
    <3> QED BY <1>2, <3>1 DEF MarkReady
  <2> DEFINE l == [conn[c] EXCEPT !.at = "refreshing"]
  <2>2. l.at = "refreshing" /\ l.ready = conn[c].ready
    BY <1>0 DEF Sound, ConnectionTo
  <2> HIDE DEF l
  <2> QED BY <1>0, <2>1, <2>2, OneQuiet DEF l
<1>3. CASE members # {} /\ conn[c].held >= published
  <2> DEFINE n == Len(Caught(c))
             s == conn[c].held
  <2>1. /\ published' = s + n /\ events' = {r \in events : r > s + n}
        /\ conn'[c] = IF Mine(c).ready THEN Mine(c) ELSE Returned(Mine(c))
    BY <1>3, MarkReadyIs DEF Base
  <2>2. n \in Nat /\ s + n + 1 \notin {r \in events : r > s}
    <3>1. {r \in events : r > s} \in SUBSET (1..head)
      BY <1>0
    <3> QED BY <1>0, <3>1, RunIs DEF Caught
  <2>3. /\ ~Fresh.ready /\ Fresh.at = "idle"
    BY DEF Fresh
  <2>4. /\ Mine(c).at = "reading" /\ Mine(c) \in Sound(head)
    <3>1. Backed(c) \in Sound(head) /\ Mine(c) \in Sound(head)
      BY BackedSound DEF Base
    <3> QED BY <1>0, <3>1, ReplayIs DEF Mine
  <2>5. conn'[c].at # "readying"
    BY <1>0, <2>1, <2>3, <2>4, ReturnedIs
  <2> HIDE DEF n
  <2>6. Gap' /\ published' \in Nat /\ s <= published'
    BY <1>0, <1>3, <2>1, <2>2 DEF Gap
  <2>7. Hands
    BY <1>0 DEF Hands, HandlerStep, Peer
  <2>8. ASSUME NEW r \in 1..head, Accounted(r)
        PROVE  Accounted(r)'
    <3>1. CASE InHand(r)
      BY <1>0, <2>7, <3>1, HandsKept DEF Accounted
    <3>2. CASE r <= published \/ r \in events
      <4>1. r <= published' \/ r \in events'
        BY <1>0, <1>3, <2>1, <2>2, <3>2
      <4> QED BY <4>1 DEF Accounted
    <3> QED BY <2>8, <3>1, <3>2 DEF Accounted
  <2>9. ASSUME NEW d \in members'
        PROVE  /\ conn'[d].ready =>
                    /\ d \in members
                    /\ \/ conn[d].ready
                       \/ conn[d].at = "readying" /\ conn[d].held <= published'
               /\ conn'[d].at = "readying" =>
                    d \in members /\ conn[d].at = "readying" /\ conn'[d].held = conn[d].held
    <3>1. d \in members /\ d \in Conns
      BY <1>0
    <3>2. CASE d = c
      BY <1>0, <2>5, <2>6, <3>1, <3>2
    <3>3. CASE d # c
      <4>1. Peer(conn[d], conn'[d])
        BY <1>0, <3>1, <3>3 DEF HandlerStep
      <4> QED BY <3>1, <4>1 DEF Peer
    <3> QED BY <3>2, <3>3
  <2> HIDE DEF s
  <2> QED BY <1>0, <2>6, <2>8, <2>9, AccountingKept
<1>4. conn[c].held < published \/ conn[c].held >= published
  BY <1>0
<1> QED BY <1>1, <1>2, <1>3, <1>4

LEMMA StepAccounts ==
  ASSUME Base, Accounting, Gap, [Next]_vars
  PROVE  Accounting' /\ Gap'
<1>1. ASSUME NEW c \in Conns, Works(c)
      PROVE  Accounting' /\ Gap'
  BY <1>1, HandshakeAccounts, MarkReadyAccounts, ReadAccounts, ActAccounts, AnswerAccounts,
     PublishAccounts, WriterAccounts, CloseAccounts DEF Works, Incoming, Writer
<1>2. ASSUME NEW c \in Conns, (\E u \in Users : Accept(c, u)) \/ Register(c) \/ Write(c)
      PROVE  Accounting' /\ Gap'
  BY <1>2, AcceptAccounts, RegisterAccounts, WriterAccounts DEF Writer
<1> QED BY <1>1, <1>2, PlayerAccounts, OutsideAccounts, ProcessAccounts, StepKinds

LEMMA AccountingStep ==
  Base /\ Stray /\ Together /\ Accounting /\ Gap /\ [Next]_vars
    => Together' /\ Accounting' /\ Gap'
BY TogetherKept, StepAccounts

LEMMA InitAccounting == Init => Accounting /\ Gap
BY DEF Init, Accounting, Gap

LEMMA NothingIsHeldBack ==
  Base /\ Together /\ Accounting /\ Gap => NothingHeldBack
BY GapGivesCause DEF NothingHeldBack, NoOneLeftBehind, Together, InStep

(* The publication watermark never advances past a ready connection, and   *)
(* an event waits only for one that is still in its publisher's hands      *)
(* (hub.go:541-543, 697-716).                                              *)
THEOREM HeldBackCorrect == Spec => []NothingHeldBack
<1>1. Init => Base /\ Stray /\ Together /\ Accounting /\ Gap
  BY InitStray, InitTogether, InitAccounting
<1>2. Base /\ Stray /\ Together /\ Accounting /\ Gap /\ [Next]_vars
        => Base' /\ Stray' /\ Together' /\ Accounting' /\ Gap'
  BY StrayKept, AccountingStep
<1>3. Base /\ Together /\ Accounting /\ Gap => NothingHeldBack
  BY NothingIsHeldBack
<1> QED BY <1>1, <1>2, <1>3, PTL DEF Spec
=============================================================================
