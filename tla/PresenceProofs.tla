--------------------------- MODULE PresenceProofs ---------------------------
(***************************************************************************)
(* Theorems about Presence for any number of connections and any timeouts: *)
(* operations exclude each other, the offline timer runs when, and only    *)
(* when, nobody is connected - also if durable writes fail - and, if they  *)
(* do not, every client learns who is online.                              *)
(***************************************************************************)
EXTENDS Presence, FiniteSetTheorems, TLAPS

Waiting == {"connect_wait", "disconnect_wait", "sweep_wait"}
Operating == Waiting \cup Critical

(* The threads that have a reference to lock e, by pointers p.             *)
Referring(p, e) == {t \in Threads : p[t] = e}

(* All references are to the lock in the map, and counted: it stays there  *)
(* as long as anybody has one, so nobody can make a second lock and pass   *)
(* the holder of its token.                                                *)
LockTypes ==
    /\ pc \in [Threads -> Labels]
    /\ operation \in Entries \cup {0}
    /\ refs \in [Entries -> Nat]
    /\ token \in [Entries -> Threads \cup {None}]
    /\ ptr \in [Threads -> Entries \cup {0}]

Counted == \A e \in Entries : refs[e] = Cardinality(Referring(ptr, e))
InMap == \A t \in Threads : ptr[t] # 0 => ptr[t] = operation
Referred == \A t \in Threads : pc[t] \in Operating <=> ptr[t] # 0
Granted == \A t \in Threads : pc[t] \in Critical => token[ptr[t]] = t

LockInv == LockTypes /\ Counted /\ InMap /\ Referred /\ Granted

-----------------------------------------------------------------------------
(* The lock.                                                               *)

LEMMA ThreadsFinite == IsFiniteSet(Threads)
<1>1. IsFiniteSet(Conns)
  BY PlayersAssumption, FS_Union DEF Conns
<1>2. IsFiniteSet({Sweeper})
  BY FS_Singleton
<1> QED BY <1>1, <1>2, FS_Union DEF Threads

LEMMA ReferringFinite ==
    ASSUME NEW p, NEW e
    PROVE  IsFiniteSet(Referring(p, e)) /\ Cardinality(Referring(p, e)) \in Nat
<1>1. Referring(p, e) \subseteq Threads
  BY DEF Referring
<1> QED BY <1>1, ThreadsFinite, FS_Subset, FS_CardinalityType

(* Labels at which no reference is held. *)
LEMMA LabelKinds ==
    /\ Waiting \subseteq Labels /\ Critical \subseteq Labels
    /\ Waiting \cap Critical = {}
BY DEF Waiting, Critical, Labels

(* A step that leaves the lock alone and takes no thread in or out.        *)
LEMMA LockUntouched ==
    ASSUME LockInv, UNCHANGED lock, pc' \in [Threads -> Labels],
           \A t \in Threads : \/ pc'[t] = pc[t]
                              \/ pc[t] \notin Operating /\ pc'[t] \notin Operating
                              \/ pc[t] \in Critical /\ pc'[t] \in Critical
    PROVE  LockInv'
<1>1. Counted' /\ InMap'
  BY DEF LockInv, Counted, InMap, Referring, lock
<1>2. Referred'
  BY DEF LockInv, Referred, lock, Operating
<1>3. Granted'
  BY DEF LockInv, Granted, lock, Operating
<1> QED BY <1>1, <1>2, <1>3 DEF LockInv, LockTypes, lock

(* One thread in an operation goes on within it. *)
LEMMA LockKept ==
    ASSUME LockInv, NEW t \in Threads, NEW w \in Critical, pc[t] \in Critical,
           UNCHANGED lock, Goto(t, w)
    PROVE  LockInv'
<1>1. pc' \in [Threads -> Labels]
  BY LabelKinds DEF LockInv, LockTypes, Goto
<1>2. \A s \in Threads : pc'[s] = pc[s] \/ (pc[s] \in Critical /\ pc'[s] \in Critical)
  BY DEF LockInv, LockTypes, Goto
<1> QED BY <1>1, <1>2, LockUntouched

(* acquireMatchOperation: the reference. *)
LEMMA ReferenceKeeps ==
    ASSUME LockInv, NEW t \in Threads, NEW w \in Waiting, pc[t] \notin Operating,
           Reference(t), Goto(t, w)
    PROVE  LockInv'
<1> DEFINE e == IF operation = 0 THEN CHOOSE x \in Entries : refs[x] = 0 ELSE operation
<1>1. ptr[t] = 0
  BY DEF LockInv, Referred
<1>2. operation = 0 => \A x \in Entries : refs[x] = 0
  <2> SUFFICES ASSUME operation = 0, NEW x \in Entries PROVE refs[x] = 0
    OBVIOUS
  <2>1. Referring(ptr, x) = {}
    BY DEF Referring, LockInv, InMap, LockTypes, Entries
  <2> QED BY <2>1, FS_EmptySet DEF LockInv, Counted
<1>3. e \in Entries /\ (operation # 0 => e = operation)
  BY <1>2 DEF LockInv, LockTypes, Entries
<1>4. /\ operation' = e /\ refs' = [refs EXCEPT ![e] = @ + 1]
      /\ ptr' = [ptr EXCEPT ![t] = e] /\ token' = token
      /\ pc' = [pc EXCEPT ![t] = w]
  BY DEF Reference, Goto
<1> HIDE DEF e
<1>5. LockTypes'
  BY <1>3, <1>4, LabelKinds DEF LockInv, LockTypes
<1>6. Counted'
  <2>1. Referring(ptr', e) = Referring(ptr, e) \cup {t} /\ t \notin Referring(ptr, e)
    BY <1>1, <1>3, <1>4 DEF Referring, LockInv, LockTypes, Entries
  <2>2. Cardinality(Referring(ptr', e)) = Cardinality(Referring(ptr, e)) + 1
    BY <2>1, ReferringFinite, FS_AddElement
  <2>3. \A x \in Entries \ {e} : Referring(ptr', x) = Referring(ptr, x)
    BY <1>1, <1>3, <1>4 DEF Referring, LockInv, LockTypes, Entries
  <2> QED BY <1>3, <1>4, <2>2, <2>3 DEF LockInv, Counted, LockTypes
<1>7. InMap'
  BY <1>3, <1>4 DEF LockInv, InMap, LockTypes, Entries
<1>8. Referred'
  BY <1>3, <1>4 DEF LockInv, Referred, LockTypes, Entries, Operating
<1>9. Granted'
  BY <1>3, <1>4, LabelKinds DEF LockInv, Granted, LockTypes
<1> QED BY <1>5, <1>6, <1>7, <1>8, <1>9 DEF LockInv

(* acquireMatchOperation: the token, which is free. *)
LEMMA GrantKeeps ==
    ASSUME LockInv, NEW t \in Threads, NEW w \in Critical, pc[t] \in Waiting,
           Grant(t), Goto(t, w)
    PROVE  LockInv'
<1>1. ptr[t] \in Entries /\ ptr[t] = operation
  BY DEF LockInv, Referred, InMap, LockTypes, Operating
<1>2. /\ token[ptr[t]] = None /\ token' = [token EXCEPT ![ptr[t]] = t]
      /\ operation' = operation /\ refs' = refs /\ ptr' = ptr
      /\ pc' = [pc EXCEPT ![t] = w]
  BY DEF Grant, Goto
<1>3. LockTypes'
  BY <1>1, <1>2, LabelKinds DEF LockInv, LockTypes
<1>4. Counted' /\ InMap'
  BY <1>2 DEF LockInv, Counted, InMap, Referring
<1>5. Referred'
  BY <1>2 DEF LockInv, Referred, LockTypes, Operating
<1>6. None \notin Threads
  BY PlayersAssumption DEF Threads, Conns, Sweeper
<1>7. Granted'
  <2> SUFFICES ASSUME NEW s \in Threads, pc'[s] \in Critical PROVE token'[ptr'[s]] = s
    BY DEF Granted
  <2>1. CASE s = t
    BY <1>1, <1>2, <2>1 DEF LockInv, LockTypes
  <2>2. CASE s # t
    <3>1. pc[s] \in Critical
      BY <1>2, <2>2 DEF LockInv, LockTypes
    <3>2. ptr[s] = operation /\ token[ptr[s]] = s
      BY <3>1 DEF LockInv, Referred, InMap, Granted, Operating
    <3> QED BY <1>1, <1>2, <1>6, <3>2
  <2> QED BY <2>1, <2>2
<1> QED BY <1>3, <1>4, <1>5, <1>7 DEF LockInv

(* The operations in a critical section are one thread's. *)
LEMMA Exclusion == LockInv => OperationsExclusive
<1> SUFFICES ASSUME LockInv, NEW s \in Threads, NEW t \in Threads,
                    pc[s] \in Critical, pc[t] \in Critical
             PROVE  s = t
  BY DEF OperationsExclusive
<1>1. ptr[s] = operation /\ ptr[t] = operation
  BY DEF LockInv, Referred, InMap, Operating
<1> QED BY <1>1 DEF LockInv, Granted

(* releaseMatchOperation, and a caller who gives up waiting. *)
LEMMA UnreferenceKeeps ==
    ASSUME LockInv, NEW t \in Threads, NEW w \in Labels \ Operating, pc[t] \in Operating,
           Unreference(t), Goto(t, w),
           \/ pc[t] \in Waiting /\ token' = token
           \/ pc[t] \in Critical /\ token' = [token EXCEPT ![ptr[t]] = None]
    PROVE  LockInv'
<1> DEFINE e == ptr[t]
<1>1. e \in Entries /\ e = operation
  BY DEF LockInv, Referred, InMap, LockTypes
<1>2. /\ refs' = [refs EXCEPT ![e] = @ - 1]
      /\ operation' = IF refs[e] = 1 THEN 0 ELSE operation
      /\ ptr' = [ptr EXCEPT ![t] = 0]
      /\ pc' = [pc EXCEPT ![t] = w]
  BY <1>1 DEF Unreference, Goto
<1>3. t \in Referring(ptr, e) /\ refs[e] = Cardinality(Referring(ptr, e))
  BY <1>1 DEF Referring, LockInv, Counted
<1>4. refs[e] = 1 => Referring(ptr, e) = {t}
  <2> SUFFICES ASSUME refs[e] = 1 PROVE Referring(ptr, e) = {t}
    OBVIOUS
  <2>1. IsFiniteSet(Referring(ptr, e)) /\ Cardinality(Referring(ptr, e)) = 1
    BY <1>3, ReferringFinite
  <2>2. PICK x : Referring(ptr, e) = {x}
    BY <2>1, FS_Singleton
  <2> QED BY <1>3, <2>2
<1>5. Referring(ptr', e) = Referring(ptr, e) \ {t}
  BY <1>1, <1>2 DEF Referring, LockInv, LockTypes, Entries
<1>6. Cardinality(Referring(ptr', e)) = refs[e] - 1 /\ refs[e] - 1 \in Nat
  <2>1. Cardinality(Referring(ptr', e)) = refs[e] - 1
    BY <1>3, <1>5, ReferringFinite, FS_RemoveElement
  <2>2. Cardinality(Referring(ptr, e) \ {t}) \in Nat
    BY ReferringFinite, FS_RemoveElement, FS_CardinalityType
  <2> QED BY <1>5, <2>1, <2>2
<1> HIDE DEF e
<1>7. \A x \in Entries \ {e} : Referring(ptr', x) = Referring(ptr, x)
  BY <1>1, <1>2 DEF Referring, LockInv, LockTypes, Entries, e
<1>8. token' \in [Entries -> Threads \cup {None}]
  BY DEF LockInv, LockTypes
<1>9. LockTypes'
  BY <1>1, <1>2, <1>6, <1>8 DEF LockInv, LockTypes
<1>10. Counted'
  BY <1>1, <1>2, <1>6, <1>7 DEF LockInv, Counted, LockTypes
<1>11. InMap'
  <2> SUFFICES ASSUME NEW s \in Threads, ptr'[s] # 0 PROVE ptr'[s] = operation'
    BY DEF InMap
  <2>1. s # t /\ ptr[s] = operation /\ ptr'[s] = ptr[s]
    BY <1>2 DEF LockInv, InMap, LockTypes
  <2>2. s \in Referring(ptr, e)
    BY <1>1, <2>1 DEF Referring
  <2> QED BY <1>2, <1>4, <2>1, <2>2
<1>12. Referred'
  BY <1>2 DEF LockInv, Referred, LockTypes
<1>13. Granted'
  <2> SUFFICES ASSUME NEW s \in Threads, pc'[s] \in Critical PROVE token'[ptr'[s]] = s
    BY DEF Granted
  <2>1. s # t /\ pc[s] \in Critical /\ ptr'[s] = ptr[s]
    BY <1>2 DEF LockInv, LockTypes, Operating
  <2>2. pc[t] \notin Critical
    BY <2>1, Exclusion DEF OperationsExclusive
  <2> QED BY <2>1, <2>2 DEF LockInv, Granted
<1> QED BY <1>9, <1>10, <1>11, <1>12, <1>13 DEF LockInv

LEMMA ReleaseKeeps ==
    ASSUME LockInv, NEW t \in Threads, NEW w \in Labels \ Operating, pc[t] \in Critical,
           Release(t), Goto(t, w)
    PROVE  LockInv'
BY UnreferenceKeeps DEF Release, Operating

LEMMA GiveUpKeeps ==
    ASSUME LockInv, NEW t \in Threads, NEW w \in Labels \ Operating, pc[t] \in Waiting,
           GiveUp(t), Goto(t, w)
    PROVE  LockInv'
BY UnreferenceKeeps DEF GiveUp, Operating

(* A thread outside every operation goes on outside. *)
LEMMA LockOutside ==
    ASSUME LockInv, NEW t \in Threads, NEW w \in Labels \ Operating, pc[t] \notin Operating,
           UNCHANGED lock, Goto(t, w)
    PROVE  LockInv'
<1>1. pc' \in [Threads -> Labels]
  BY DEF LockInv, LockTypes, Goto
<1>2. \A s \in Threads : pc'[s] = pc[s] \/ (pc[s] \notin Operating /\ pc'[s] \notin Operating)
  BY DEF LockInv, LockTypes, Goto
<1> QED BY <1>1, <1>2, LockUntouched

(* The labels by their kind. *)
LEMMA Kinds ==
    /\ {"connect_wait", "disconnect_wait", "sweep_wait"} = Waiting
    /\ {"connect_hold", "connect_store", "disconnect_hold",
        "disconnect_store", "sweep_hold", "sweep_store"} = Critical
    /\ {"none", "connect_told", "connected", "joined", "greeted", "up", "closing",
        "failed"} = Labels \ Operating
BY DEF Waiting, Critical, Labels, Operating

LEMMA ConnectionKeepsLock ==
    ASSUME LockInv, NEW c \in Conns, Connection(c)
    PROVE  LockInv'
<1>0. c \in Threads
  BY DEF Threads
<1>1. CASE ConnectAcquire(c)
  BY <1>0, <1>1, Kinds, GrantKeeps, GiveUpKeeps DEF ConnectAcquire
<1>2. CASE ConnectInsert(c)
  BY <1>0, <1>2, Kinds, ReleaseKeeps, LockKept DEF ConnectInsert
<1>3. CASE ConnectStore(c)
  BY <1>0, <1>3, Kinds, ReleaseKeeps DEF ConnectStore
<1>4. CASE ConnectFails(c)
  BY <1>0, <1>4, Kinds, ReleaseKeeps DEF ConnectFails
<1>5. CASE ConnectReturn(c)
  BY <1>0, <1>5, Kinds, LockOutside DEF ConnectReturn
<1>6. CASE Register(c)
  <2> DEFINE previous == {d \in Conns \ {c} : Owner(d) = Owner(c) /\ pc[d] \in InHub}
  <2>1. /\ pc[c] = "connected" /\ UNCHANGED lock
        /\ pc' = [t \in Threads |-> IF t = c THEN "joined"
                                    ELSE IF t \in previous THEN "closing" ELSE pc[t]]
    BY <1>6 DEF Register
  <2>2. \A d \in previous : pc[d] \notin Operating
    BY DEF InHub, Operating, Waiting, Critical
  <2>3. pc' \in [Threads -> Labels]
    BY <2>1 DEF LockInv, LockTypes, Labels
  <2>4. \A t \in Threads : pc'[t] = pc[t] \/ (pc[t] \notin Operating /\ pc'[t] \notin Operating)
    BY <2>1, <2>2 DEF Operating, Waiting, Critical
  <2> QED BY <2>1, <2>3, <2>4, LockUntouched
<1>7. CASE Greet(c)
  BY <1>0, <1>7, Kinds, LockOutside DEF Greet
<1>8. CASE MarkReady(c)
  BY <1>0, <1>8, Kinds, LockOutside DEF MarkReady
<1>9. CASE DisconnectStart(c)
  BY <1>0, <1>9, Kinds, ReferenceKeeps DEF DisconnectStart
<1>10. CASE DisconnectAcquire(c)
  BY <1>0, <1>10, Kinds, GrantKeeps, GiveUpKeeps DEF DisconnectAcquire
<1>11. CASE DisconnectRemove(c)
  BY <1>0, <1>11, Kinds, ReleaseKeeps, LockKept DEF DisconnectRemove
<1>12. CASE DisconnectStore(c)
  BY <1>0, <1>12, Kinds, ReleaseKeeps DEF DisconnectStore
<1>13. CASE DisconnectFails(c)
  BY <1>0, <1>13, Kinds, ReleaseKeeps DEF DisconnectFails
<1> QED BY <1>1, <1>2, <1>3, <1>4, <1>5, <1>6, <1>7, <1>8, <1>9, <1>10, <1>11, <1>12, <1>13
        DEF Connection

LEMMA SweepKeepsLock == LockInv /\ Sweep => LockInv'
<1> SUFFICES ASSUME LockInv, Sweep PROVE LockInv'
  OBVIOUS
<1>0. Sweeper \in Threads
  BY DEF Threads
<1>1. CASE SweepStart
  BY <1>0, <1>1, Kinds, ReferenceKeeps DEF SweepStart
<1>2. CASE SweepAcquire
  BY <1>0, <1>2, Kinds, GrantKeeps DEF SweepAcquire
<1>3. CASE SweepRemove
  BY <1>0, <1>3, Kinds, ReleaseKeeps, LockKept DEF SweepRemove
<1>4. CASE SweepStore
  BY <1>0, <1>4, Kinds, ReleaseKeeps DEF SweepStore
<1>5. CASE SweepFails
  BY <1>0, <1>5, Kinds, ReleaseKeeps DEF SweepFails
<1> QED BY <1>1, <1>2, <1>3, <1>4, <1>5 DEF Sweep

(* Nobody is in an operation, nor refers to a lock. *)
Idle ==
    /\ pc = [t \in Threads |-> "none"] /\ operation = 0
    /\ refs = [e \in Entries |-> 0] /\ token = [e \in Entries |-> None]
    /\ ptr = [t \in Threads |-> 0]

LEMMA IdleLock == Idle => LockInv
<1> SUFFICES ASSUME Idle PROVE LockInv
  OBVIOUS
<1> USE DEF Idle
<1>1. LockTypes
  BY DEF LockTypes, Labels, Entries
<1>2. Counted
  <2> SUFFICES ASSUME NEW e \in Entries PROVE refs[e] = Cardinality(Referring(ptr, e))
    BY DEF Counted
  <2>1. Referring(ptr, e) = {}
    BY DEF Referring, Entries
  <2> QED BY <2>1, FS_EmptySet
<1>3. InMap /\ Referred /\ Granted
  BY DEF InMap, Referred, Granted, Operating, Waiting, Critical
<1> QED BY <1>1, <1>2, <1>3 DEF LockInv

LEMMA DeliverKeepsLock == LockInv /\ Deliver => LockInv'
<1> SUFFICES ASSUME LockInv, Deliver PROVE LockInv'
  OBVIOUS
<1>1. PICK slow \in SUBSET {c \in Conns : pc[c] = "up"} :
         pc' = [t \in Threads |-> IF t \in slow THEN "closing" ELSE pc[t]]
  BY DEF Deliver
<1>2. UNCHANGED lock
  BY DEF Deliver
<1>3. pc' \in [Threads -> Labels]
  BY <1>1 DEF LockInv, LockTypes, Labels
<1>4. \A t \in Threads : pc'[t] = pc[t] \/ (pc[t] \notin Operating /\ pc'[t] \notin Operating)
  BY <1>1 DEF Operating, Waiting, Critical
<1> QED BY <1>2, <1>3, <1>4, LockUntouched

LEMMA LockStep == LockInv /\ [PresenceNext]_presenceVars => LockInv'
<1> SUFFICES ASSUME LockInv, [PresenceNext]_presenceVars PROVE LockInv'
  OBVIOUS
<1>0. \A c \in Conns : c \in Threads
  BY DEF Threads
<1>1. ASSUME UNCHANGED <<pc, lock>> PROVE LockInv'
  BY <1>1, LockUntouched DEF LockInv, LockTypes
<1>2. ASSUME NEW c \in Conns, ConnectStart(c) PROVE LockInv'
  BY <1>0, <1>2, Kinds, ReferenceKeeps DEF ConnectStart
<1>3. ASSUME NEW c \in Conns, Touch(c) PROVE LockInv'
  BY <1>1, <1>3 DEF Touch
<1>4. ASSUME NEW c \in Conns, ConnectionCloses(c) PROVE LockInv'
  <2>1. pc[c] \in Labels \ Operating
    BY <1>4, Kinds DEF ConnectionCloses, InHub
  <2> QED BY <1>0, <1>4, <2>1, Kinds, LockOutside DEF ConnectionCloses
<1>5. CASE Delivered
  BY <1>1, <1>5 DEF Delivered
<1>6. CASE Abandon
  BY <1>1, <1>6 DEF Abandon
<1>7. CASE MatchEnds
  BY <1>1, <1>7 DEF MatchEnds
<1>8. CASE Restart
  <2>1. Idle'
    BY <1>8 DEF Restart, Idle
  <2>2. Idle' => LockInv'
    BY IdleLock, PTL
  <2> QED BY <2>1, <2>2
<1>9. CASE TimePasses
  BY <1>1, <1>9 DEF TimePasses
<1>10. CASE UNCHANGED presenceVars
  BY <1>1, <1>10 DEF presenceVars
<1> QED BY <1>2, <1>3, <1>4, <1>5, <1>6, <1>7, <1>8, <1>9, <1>10,
           ConnectionKeepsLock, SweepKeepsLock, DeliverKeepsLock DEF PresenceNext

LEMMA InitLock == PresenceInit => LockInv
BY IdleLock DEF PresenceInit, Idle

LEMMA LockCorrect == PresenceSpec => []LockInv
BY InitLock, LockStep, PTL DEF PresenceSpec

(* Two operations of one match never overlap, whatever calls of Connect,   *)
(* Disconnect and Sweep start, wait, give up and return around them        *)
(* (acquireMatchOperation and releaseMatchOperation).                      *)
THEOREM ExclusionCorrect == PresenceSpec => []OperationsExclusive
BY LockCorrect, Exclusion, PTL
-----------------------------------------------------------------------------
(* Types.                                                                  *)

Boundaries == [user : Players, online : Known, by : Conns \cup {None}]
Views == [Players -> Known]

MemoryTypes ==
    /\ keys \in SUBSET Conns /\ swept \in SUBSET Conns /\ notifying \in SUBSET Conns
    /\ age \in [Conns -> 0 .. Timeout + 1]
RowTypes ==
    /\ status \in {"active", "ended"}
    /\ timer \in {Never} \cup 0 .. OfflineAfter
    /\ visited \in BOOLEAN
ClientTypes ==
    /\ notes \in Seq(Boundaries)
    /\ notifying # {} => notes # <<>>
    /\ told \in [Conns -> Views] /\ late \in [Conns -> Views]

DataOK == MemoryTypes /\ RowTypes /\ ClientTypes

LEMMA ViewTypes == Untold \in Views /\ View \in Views
BY DEF Untold, View, Views, Known

LEMMA BoundaryType ==
    ASSUME NEW c \in Conns, NEW online \in {"online", "offline"}, NEW by \in Conns \cup {None}
    PROVE  Boundary(Owner(c), online, by) \in Boundaries
BY DEF Boundary, Owner, Boundaries, Players, Known

LEMMA AnnounceType ==
    ASSUME DataOK, NEW new \in Seq(Boundaries), Announce(new)
    PROVE  /\ notes' \in Seq(Boundaries) /\ notifying' = notifying
           /\ notifying' # {} => notes' # <<>>
BY DEF DataOK, ClientTypes, Announce

LEMMA GoneType ==
    ASSUME NEW expired, NEW rest
    PROVE  Gone(expired, rest) \in Seq(Boundaries)
<1> DEFINE gone(u) == IF OnlineIn(expired, u) /\ ~OnlineIn(rest, u)
                      THEN <<Boundary(u, "offline", None)>> ELSE <<>>
<1>1. \A u \in Players : Boundary(u, "offline", None) \in Boundaries
  BY DEF Boundary, Boundaries, Known
<1>2. \A u \in Players : gone(u) \in Seq(Boundaries)
  BY <1>1
<1>3. gone(Black) \in Seq(Boundaries) /\ gone(White) \in Seq(Boundaries)
  BY <1>2 DEF Players
<1>4. Gone(expired, rest) = gone(Black) \o gone(White)
  BY DEF Gone
<1> HIDE DEF gone
<1> QED BY <1>3, <1>4

LEMMA StoreTypes ==
    ASSUME RowTypes, StoreOnline \/ StoreOffline
    PROVE  RowTypes'
<1>1. timer' \in {Never} \cup 0 .. OfflineAfter
  BY AgesAssumption DEF RowTypes, StoreOnline, StoreOffline
<1>2. status' = status
  BY DEF StoreOnline, StoreOffline
<1>3. visited' \in BOOLEAN
  BY DEF RowTypes, StoreOnline, StoreOffline
<1> QED BY <1>1, <1>2, <1>3 DEF RowTypes

LEMMA OlderType ==
    ASSUME NEW limit \in Nat, NEW n \in 0 .. limit
    PROVE  Older(n, limit) \in 0 .. limit
BY DEF Older

LEMMA ConnectionKeepsData ==
    ASSUME DataOK, NEW c \in Conns, Connection(c)
    PROVE  DataOK'
<1>1. CASE ConnectAcquire(c)
  BY <1>1 DEF ConnectAcquire, DataOK, MemoryTypes, RowTypes, ClientTypes, memory, queued, clients, row
<1>2. CASE ConnectInsert(c)
  BY <1>2, AgesAssumption
     DEF ConnectInsert, DataOK, MemoryTypes, RowTypes, ClientTypes, queued, clients, row
<1>3. CASE ConnectStore(c)
  <2>1. <<Boundary(Owner(c), "online", c)>> \in Seq(Boundaries)
    BY BoundaryType
  <2>2. /\ notes' \in Seq(Boundaries) /\ notifying' = notifying
        /\ notifying' # {} => notes' # <<>>
    BY <1>3, <2>1, AnnounceType DEF ConnectStore
  <2>3. RowTypes'
    BY <1>3, StoreTypes DEF ConnectStore, DataOK
  <2> QED BY <1>3, <2>2, <2>3 DEF ConnectStore, DataOK, MemoryTypes, ClientTypes, memory, clients
<1>4. CASE ConnectFails(c)
  BY <1>4 DEF ConnectFails, DataOK, MemoryTypes, RowTypes, ClientTypes, queued, clients, row
<1>5. CASE ConnectReturn(c)
  BY <1>5 DEF ConnectReturn, DataOK, MemoryTypes, RowTypes, ClientTypes, memory, queued, clients, row
<1>6. CASE Register(c)
  BY <1>6, ViewTypes DEF Register, DataOK, MemoryTypes, RowTypes, ClientTypes, memory, queued, row
<1>7. CASE Greet(c)
  BY <1>7, ViewTypes DEF Greet, DataOK, MemoryTypes, RowTypes, ClientTypes, memory, queued, row
<1>8. CASE MarkReady(c)
  <2>1. [u \in Players |-> IF late[c][u] # "unknown" THEN late[c][u] ELSE told[c][u]] \in Views
    BY DEF DataOK, ClientTypes, Views
  <2>2. told' \in [Conns -> Views] /\ late' \in [Conns -> Views]
    BY <1>8, <2>1, ViewTypes DEF MarkReady, DataOK, ClientTypes
  <2> QED BY <1>8, <2>2 DEF MarkReady, DataOK, MemoryTypes, RowTypes, ClientTypes, memory, queued, row
<1>9. CASE DisconnectStart(c)
  BY <1>9 DEF DisconnectStart, DataOK, MemoryTypes, RowTypes, ClientTypes, memory, queued, clients, row
<1>10. CASE DisconnectAcquire(c)
  BY <1>10 DEF DisconnectAcquire, DataOK, MemoryTypes, RowTypes, ClientTypes, memory, queued, clients, row
<1>11. CASE DisconnectRemove(c)
  <2>1. <<Boundary(Owner(c), "offline", None)>> \in Seq(Boundaries)
    BY BoundaryType
  <2>2. /\ notes' \in Seq(Boundaries) /\ notifying' = notifying
        /\ notifying' # {} => notes' # <<>>
    BY <1>11, <2>1, AnnounceType DEF DisconnectRemove, queued, DataOK, ClientTypes
  <2> QED BY <1>11, <2>2 DEF DisconnectRemove, DataOK, MemoryTypes, RowTypes, ClientTypes, clients, row
<1>12. CASE DisconnectStore(c)
  <2>1. <<Boundary(Owner(c), "offline", None)>> \in Seq(Boundaries)
    BY BoundaryType
  <2>2. /\ notes' \in Seq(Boundaries) /\ notifying' = notifying
        /\ notifying' # {} => notes' # <<>>
    BY <1>12, <2>1, AnnounceType DEF DisconnectStore
  <2>3. RowTypes'
    BY <1>12, StoreTypes DEF DisconnectStore, DataOK
  <2> QED BY <1>12, <2>2, <2>3 DEF DisconnectStore, DataOK, MemoryTypes, ClientTypes, memory, clients
<1>13. CASE DisconnectFails(c)
  BY <1>13 DEF DisconnectFails, DataOK, MemoryTypes, RowTypes, ClientTypes, queued, clients, row
<1> QED BY <1>1, <1>2, <1>3, <1>4, <1>5, <1>6, <1>7, <1>8, <1>9, <1>10, <1>11, <1>12, <1>13
        DEF Connection

LEMMA SweepKeepsData == DataOK /\ Sweep => DataOK'
<1> SUFFICES ASSUME DataOK, Sweep PROVE DataOK'
  OBVIOUS
<1>1. CASE SweepStart
  BY <1>1 DEF SweepStart, DataOK, MemoryTypes, RowTypes, ClientTypes, memory, queued, clients, row
<1>2. CASE SweepAcquire
  BY <1>2 DEF SweepAcquire, DataOK, MemoryTypes, RowTypes, ClientTypes, memory, queued, clients, row
<1>3. CASE SweepRemove
  <2>1. /\ notes' \in Seq(Boundaries) /\ notifying' = notifying
        /\ notifying' # {} => notes' # <<>>
    BY <1>3, GoneType, AnnounceType DEF SweepRemove, queued, DataOK, ClientTypes
  <2> QED BY <1>3, <2>1 DEF SweepRemove, DataOK, MemoryTypes, RowTypes, ClientTypes, clients, row
<1>4. CASE SweepStore
  <2>1. /\ notes' \in Seq(Boundaries) /\ notifying' = notifying
        /\ notifying' # {} => notes' # <<>>
    BY <1>4, GoneType, AnnounceType DEF SweepStore
  <2>2. RowTypes'
    BY <1>4, StoreTypes DEF SweepStore, DataOK
  <2> QED BY <1>4, <2>1, <2>2 DEF SweepStore, DataOK, MemoryTypes, ClientTypes, memory, clients
<1>5. CASE SweepFails
  BY <1>5 DEF SweepFails, DataOK, MemoryTypes, RowTypes, ClientTypes, queued, clients, row
<1> QED BY <1>1, <1>2, <1>3, <1>4, <1>5 DEF Sweep

LEMMA DeliverKeepsData == DataOK /\ Deliver => DataOK'
<1> SUFFICES ASSUME DataOK, Deliver PROVE DataOK'
  OBVIOUS
<1> DEFINE note == Head(notes)
<1>1. /\ notes \in Seq(Boundaries) /\ notes # <<>>
      /\ told \in [Conns -> Views] /\ late \in [Conns -> Views]
  BY DEF Deliver, DataOK, ClientTypes
<1>2. note \in Boundaries /\ Tail(notes) \in Seq(Boundaries)
  BY <1>1
<1>3. PICK slow \in SUBSET {c \in Conns : pc[c] = "up"} :
        /\ notifying = {}
        /\ told' = [c \in Conns |->
              IF c \in slow THEN Untold
              ELSE IF pc[c] = "up" THEN [told[c] EXCEPT ![note.user] = note.online]
              ELSE told[c]]
        /\ IF slow = {}
           THEN notes' = Tail(notes) /\ UNCHANGED notifying
           ELSE notifying' = slow /\ UNCHANGED notes
  BY DEF Deliver
<1>4. /\ late' = [c \in Conns |->
             IF pc[c] \in {"joined", "greeted"}
             THEN [late[c] EXCEPT ![note.user] = note.online] ELSE late[c]]
      /\ UNCHANGED <<keys, age, swept, status, timer, visited>>
  BY DEF Deliver, memory, row
<1>5. note.online \in Known
  BY <1>2 DEF Boundaries
<1> HIDE DEF note
<1>6. \A c \in Conns : /\ [told[c] EXCEPT ![note.user] = note.online] \in Views
                       /\ [late[c] EXCEPT ![note.user] = note.online] \in Views
  BY <1>1, <1>5 DEF Views
<1>7. told' \in [Conns -> Views] /\ late' \in [Conns -> Views]
  BY <1>1, <1>3, <1>4, <1>6, ViewTypes
<1>8. /\ notes' \in Seq(Boundaries) /\ notifying' \in SUBSET Conns
      /\ notifying' # {} => notes' # <<>>
  BY <1>1, <1>2, <1>3 DEF DataOK, MemoryTypes
<1> QED BY <1>4, <1>7, <1>8 DEF DataOK, MemoryTypes, RowTypes, ClientTypes

LEMMA DataStep == DataOK /\ [PresenceNext]_presenceVars => DataOK'
<1> SUFFICES ASSUME DataOK, [PresenceNext]_presenceVars PROVE DataOK'
  OBVIOUS
<1> USE DEF DataOK, MemoryTypes, RowTypes, ClientTypes
<1>1. ASSUME NEW c \in Conns, ConnectStart(c) PROVE DataOK'
  BY <1>1 DEF ConnectStart, memory, queued, clients, row
<1>2. ASSUME NEW c \in Conns, Touch(c) PROVE DataOK'
  BY <1>2, AgesAssumption DEF Touch, queued, clients, row
<1>3. ASSUME NEW c \in Conns, ConnectionCloses(c) PROVE DataOK'
  BY <1>3, ViewTypes DEF ConnectionCloses, memory, queued, row
<1>4. CASE Delivered
  <2>1. notes \in Seq(Boundaries) /\ notes # <<>>
    BY <1>4 DEF Delivered
  <2>2. Tail(notes) \in Seq(Boundaries)
    BY <2>1
  <2> QED BY <1>4, <2>2 DEF Delivered, memory, clients, row
<1>5. CASE Abandon
  BY <1>5 DEF Abandon, memory, queued, clients
<1>6. CASE MatchEnds
  BY <1>6 DEF MatchEnds, memory, queued, clients
<1>7. CASE Restart
  <2>1. MemoryTypes' /\ RowTypes'
    BY <1>7, AgesAssumption DEF Restart
  <2>2. ClientTypes'
    BY <1>7, ViewTypes DEF Restart
  <2> QED BY <2>1, <2>2
<1>8. CASE TimePasses
  <2>0. Timeout + 1 \in Nat /\ \A c \in Conns : age[c] \in 0 .. Timeout + 1
    BY AgesAssumption
  <2>1. age' \in [Conns -> 0 .. Timeout + 1]
    <3>1. \A c \in Conns : Older(age[c], Timeout + 1) \in 0 .. Timeout + 1
      BY <2>0, OlderType
    <3> QED BY <1>8, <2>0, <3>1 DEF TimePasses
  <2>2. timer' \in {Never} \cup 0 .. OfflineAfter
    BY <1>8, OlderType, AgesAssumption DEF TimePasses
  <2> QED BY <1>8, <2>1, <2>2 DEF TimePasses, queued, clients
<1>9. CASE UNCHANGED presenceVars
  BY <1>9 DEF presenceVars, memory, queued, clients, row
<1> QED BY <1>1, <1>2, <1>3, <1>4, <1>5, <1>6, <1>7, <1>8, <1>9,
           ConnectionKeepsData, SweepKeepsData, DeliverKeepsData DEF PresenceNext

LEMMA InitData == PresenceInit => DataOK
BY ViewTypes, AgesAssumption DEF PresenceInit, DataOK, MemoryTypes, RowTypes, ClientTypes

LEMMA DataGivesTypes == LockInv /\ DataOK => TypeOK
BY DEF LockInv, LockTypes, DataOK, MemoryTypes, RowTypes, ClientTypes, Boundaries, Views, TypeOK

(* Every variable keeps to its values: no reference count falls below zero *)
(* and every thread is at a line of an operation (presence.go).            *)
THEOREM TypeCorrect == PresenceSpec => []TypeOK
<1>1. PresenceSpec => []DataOK
  BY InitData, DataStep, PTL DEF PresenceSpec
<1> QED BY <1>1, LockCorrect, DataGivesTypes, PTL

-----------------------------------------------------------------------------
(* The timer.                                                              *)

Storing == {"connect_store", "disconnect_store", "sweep_store"}

(* What the row says fits a map with the connections K.                    *)
Balanced(K) ==
    status = "active" => /\ K # {} => timer = Never
                         /\ visited /\ K = {} => timer # Never

(* Between the map and the row, an operation has changed the first and not *)
(* yet the second, which fits the map as it was and, if the write fails,   *)
(* will be again.                                                          *)
Emptied == keys = {} /\ (status = "active" => timer = Never)
Owed(t) ==
    /\ pc[t] = "connect_store" => t \in keys /\ Balanced(keys \ {t})
    /\ pc[t] \in {"disconnect_store", "sweep_store"} => Emptied

TimerInv ==
    /\ (\A t \in Threads : pc[t] \notin Storing) => Balanced(keys)
    /\ \A t \in Threads : Owed(t)
    /\ pc[Sweeper] = "sweep_store" => swept # {}

(* Nobody else is in a critical section. *)
LEMMA Alone ==
    ASSUME LockInv, NEW t \in Threads, pc[t] \in Critical
    PROVE  \A s \in Threads \ {t} : pc[s] \notin Critical
BY Exclusion DEF OperationsExclusive

LEMMA StoringIsCritical == Storing \subseteq Critical
BY DEF Storing, Critical

(* A holder of the token knows that the row fits the map. *)
LEMMA HoldersBalance ==
    ASSUME LockInv, TimerInv, NEW t \in Threads, pc[t] \in Critical \ Storing
    PROVE  Balanced(keys)
BY Alone, StoringIsCritical DEF TimerInv

(* The step of a holder, which nobody else's bookkeeping depends on. *)
LEMMA HolderStep ==
    ASSUME LockInv, NEW t \in Threads, NEW w \in Labels, pc[t] \in Critical, Goto(t, w),
           w \notin Storing => Balanced(keys)',
           w = "connect_store" => t \in keys' /\ Balanced(keys \ {t})',
           w \in {"disconnect_store", "sweep_store"} => Emptied',
           w = "sweep_store" => swept' # {}
    PROVE  TimerInv'
<1>1. \A s \in Threads : pc'[s] = IF s = t THEN w ELSE pc[s]
  BY DEF Goto, LockInv, LockTypes
<1>2. \A s \in Threads \ {t} : pc'[s] \notin Storing
  BY <1>1, Alone, StoringIsCritical
<1>3. \A s \in Threads : Owed(s)'
  <2> SUFFICES ASSUME NEW s \in Threads PROVE Owed(s)'
    OBVIOUS
  <2>1. CASE s = t
    BY <1>1, <2>1 DEF Owed
  <2>2. CASE s # t
    BY <1>2, <2>2 DEF Owed, Storing
  <2> QED BY <2>1, <2>2
<1>4. (\A s \in Threads : pc'[s] \notin Storing) => Balanced(keys)'
  BY <1>1
<1>5. pc'[Sweeper] = "sweep_store" => swept' # {}
  BY <1>1, <1>2 DEF Threads, Storing
<1> QED BY <1>3, <1>4, <1>5 DEF TimerInv

(* A step that leaves map and row alone, and no thread reaches or leaves a *)
(* durable write by it. *)
LEMMA TimerUntouched ==
    ASSUME TimerInv, UNCHANGED <<keys, status, visited>>, timer' = Never <=> timer = Never,
           \A t \in Threads : pc'[t] = pc[t] \/ (pc[t] \notin Storing /\ pc'[t] \notin Storing),
           pc'[Sweeper] = "sweep_store" => swept' # {}
    PROVE  TimerInv'
<1>1. /\ keys' = keys /\ status' = status /\ visited' = visited
      /\ timer' = Never <=> timer = Never
  OBVIOUS
<1>a. ASSUME NEW K, Balanced(K), status' = "active"
      PROVE  (K # {} => timer' = Never) /\ (visited' /\ K = {} => timer' # Never)
  <2>1. (K # {} => timer = Never) /\ (visited /\ K = {} => timer # Never)
    BY <1>a, <1>1 DEF Balanced
  <2>2. timer' = Never <=> timer = Never
    BY <1>1
  <2>3. visited' => visited
    <3>1. visited' = visited
      BY <1>1
    <3> QED BY <3>1
  <2>4. K # {} => timer' = Never
    BY <2>1, <2>2
  <2>5. visited' /\ K = {} => timer' # Never
    BY <2>1, <2>2, <2>3, Zenon
  <2> QED BY <2>4, <2>5, Zenon
<1>2. Balanced(keys) => Balanced(keys)'
  BY <1>a, <1>1, Zenon DEF Balanced
<1>3. \A t \in Threads : Owed(t)'
  <2> SUFFICES ASSUME NEW t \in Threads PROVE Owed(t)'
    OBVIOUS
  <2>1. Owed(t)
    BY DEF TimerInv
  <2>2. Balanced(keys \ {t}) => Balanced(keys \ {t})'
    BY <1>a, <1>1, Zenon DEF Balanced
  <2>3. Emptied => Emptied'
    BY <1>1 DEF Emptied
  <2>4. CASE pc'[t] = pc[t]
    BY <2>1, <2>2, <2>3, <2>4 DEF Owed
  <2>5. CASE pc'[t] \notin Storing
    BY <2>5 DEF Owed, Storing
  <2> QED BY <2>4, <2>5
<1>4. (\A t \in Threads : pc'[t] \notin Storing) => \A t \in Threads : pc[t] \notin Storing
  OBVIOUS
<1> QED BY <1>2, <1>3, <1>4 DEF TimerInv

(* One thread goes on, away from every durable write. *)
LEMMA TimerElsewhere ==
    ASSUME LockInv, TimerInv, UNCHANGED <<keys, row>>, NEW t \in Threads,
           NEW w \in Labels \ Storing, pc[t] \notin Storing, Goto(t, w),
           t = Sweeper \/ swept' = swept
    PROVE  TimerInv'
<1>1. \A s \in Threads : pc'[s] = IF s = t THEN w ELSE pc[s]
  BY DEF Goto, LockInv, LockTypes
<1>2. pc'[Sweeper] = "sweep_store" => swept' # {}
  BY <1>1 DEF TimerInv, Threads, Storing
<1> QED BY <1>1, <1>2, TimerUntouched DEF row

(* setPlayerPresence. *)
LEMMA OnlineBalances ==
    ASSUME StoreOnline, keys' # {}
    PROVE  Balanced(keys)'
BY DEF StoreOnline, Balanced

LEMMA OfflineBalances ==
    ASSUME StoreOffline, Emptied, keys' = {}
    PROVE  Balanced(keys)'
<1>1. 0 # Never
  BY DEF Never
<1> QED BY <1>1 DEF StoreOffline, Emptied, Balanced

LEMMA BalanceKept ==
    ASSUME UNCHANGED row, Balanced(keys), keys' = {} <=> keys = {}
    PROVE  Balanced(keys)'
<1>1. status' = status /\ timer' = timer /\ visited' = visited
  BY DEF row
<1> QED BY <1>1, Zenon DEF Balanced

LEMMA BalanceRegained ==
    ASSUME UNCHANGED row, Emptied, keys' # {}
    PROVE  Balanced(keys)'
<1>1. status' = status /\ timer' = timer /\ visited' = visited
  BY DEF row
<1> QED BY <1>1, Zenon DEF Balanced, Emptied

(* A map that is emptied: its timer was stopped. *)
LEMMA EmptiedNow ==
    ASSUME UNCHANGED row, Balanced(keys), keys # {}, keys' = {}
    PROVE  Emptied'
<1>1. status' = status /\ timer' = timer /\ visited' = visited
  BY DEF row
<1> QED BY <1>1, Zenon DEF Balanced, Emptied

LEMMA ConnectingKeepsTimer ==
    ASSUME LockInv, DataOK, TimerInv, NEW c \in Conns,
           ConnectInsert(c) \/ ConnectStore(c) \/ ConnectFails(c)
    PROVE  TimerInv'
<1>0. c \in Threads
  BY DEF Threads
<1>1. CASE ConnectInsert(c)
  <2>1. pc[c] = "connect_hold" /\ keys' = keys \cup {c} /\ UNCHANGED row
    BY <1>1 DEF ConnectInsert
  <2>2. pc[c] \in Critical /\ Balanced(keys)
    BY <1>0, <2>1, HoldersBalance DEF Critical, Storing
  <2>3. CASE IsOnline(Owner(c))
    <3>1. keys # {}
      BY <2>3 DEF IsOnline, OnlineIn
    <3>2. Balanced(keys)'
      BY <2>1, <2>2, <3>1, BalanceKept
    <3>3. Goto(c, "connected") /\ "connected" \in Labels \ Storing
      BY <1>1, <2>3 DEF ConnectInsert, Labels, Storing
    <3> QED BY <1>0, <2>2, <3>2, <3>3, HolderStep DEF Storing
  <2>4. CASE ~IsOnline(Owner(c))
    <3>1. Goto(c, "connect_store")
      BY <1>1, <2>4 DEF ConnectInsert
    <3>2. c \in keys' /\ keys' \ {c} = keys
      BY <2>1, <2>4 DEF IsOnline, OnlineIn
    <3>3. Balanced(keys \ {c})'
      <4>1. status' = status /\ timer' = timer /\ visited' = visited
        BY <2>1 DEF row
      <4> QED BY <2>2, <3>2, <4>1, Zenon DEF Balanced
    <3>4. "connect_store" \in Labels
      BY DEF Labels
    <3> QED BY <1>0, <2>2, <3>1, <3>2, <3>3, <3>4, HolderStep DEF Storing
  <2> QED BY <2>3, <2>4
<1>2. CASE ConnectStore(c)
  <2>1. /\ pc[c] = "connect_store" /\ StoreOnline /\ keys' = keys
        /\ Goto(c, "connect_told")
    BY <1>2 DEF ConnectStore, memory
  <2>2. c \in keys
    BY <1>0, <2>1 DEF TimerInv, Owed
  <2>3. Balanced(keys)'
    BY <2>1, <2>2, OnlineBalances
  <2>4. "connect_told" \in Labels \ Storing /\ pc[c] \in Critical
    BY <2>1 DEF Labels, Storing, Critical
  <2> QED BY <1>0, <2>1, <2>3, <2>4, HolderStep DEF Storing
<1>3. CASE ConnectFails(c)
  <2>1. /\ pc[c] = "connect_store" /\ UNCHANGED row /\ keys' = keys \ {c}
        /\ Goto(c, "none")
    BY <1>3 DEF ConnectFails
  <2>2. Balanced(keys \ {c})
    BY <1>0, <2>1 DEF TimerInv, Owed
  <2>3. Balanced(keys)'
    <3>1. status' = status /\ timer' = timer /\ visited' = visited
      BY <2>1 DEF row
    <3> QED BY <2>1, <2>2, <3>1, Zenon DEF Balanced
  <2>4. "none" \in Labels \ Storing /\ pc[c] \in Critical
    BY <2>1 DEF Labels, Storing, Critical
  <2> QED BY <1>0, <2>1, <2>3, <2>4, HolderStep DEF Storing
<1> QED BY <1>1, <1>2, <1>3

LEMMA DisconnectingKeepsTimer ==
    ASSUME LockInv, DataOK, TimerInv, NEW c \in Conns,
           DisconnectRemove(c) \/ DisconnectStore(c) \/ DisconnectFails(c)
    PROVE  TimerInv'
<1>0. c \in Threads /\ "none" \in Labels \ Storing
  BY DEF Threads, Labels, Storing
<1>1. CASE DisconnectRemove(c)
  <2>1. pc[c] = "disconnect_hold" /\ keys' = keys \ {c} /\ UNCHANGED row
    BY <1>1 DEF DisconnectRemove
  <2>2. pc[c] \in Critical /\ Balanced(keys)
    BY <1>0, <2>1, HoldersBalance DEF Critical, Storing
  <2>3. CASE c \in keys /\ keys' = {} /\ Goto(c, "disconnect_store")
    <3>1. Emptied'
      BY <2>1, <2>2, <2>3, EmptiedNow
    <3>2. "disconnect_store" \in Labels
      BY DEF Labels
    <3> QED BY <1>0, <2>2, <2>3, <3>1, <3>2, HolderStep DEF Storing
  <2>4. CASE (keys' = {} <=> keys = {}) /\ Goto(c, "none")
    <3>1. Balanced(keys)'
      BY <2>1, <2>2, <2>4, BalanceKept
    <3> QED BY <1>0, <2>2, <2>4, <3>1, HolderStep DEF Storing
  <2>5. OnlineIn(keys \ {c}, Owner(c)) => keys \ {c} # {}
    BY DEF OnlineIn
  <2> QED BY <1>1, <2>3, <2>4, <2>5 DEF DisconnectRemove
<1>2. CASE DisconnectStore(c)
  <2>1. /\ pc[c] = "disconnect_store" /\ StoreOffline /\ keys' = keys
        /\ Goto(c, "none")
    BY <1>2 DEF DisconnectStore, memory
  <2>2. Emptied
    BY <1>0, <2>1 DEF TimerInv, Owed
  <2>3. Balanced(keys)'
    BY <2>1, <2>2, OfflineBalances DEF Emptied
  <2>4. pc[c] \in Critical
    BY <2>1 DEF Critical
  <2> QED BY <1>0, <2>1, <2>3, <2>4, HolderStep DEF Storing
<1>3. CASE DisconnectFails(c)
  <2>1. /\ pc[c] = "disconnect_store" /\ UNCHANGED row /\ keys' = keys \cup {c}
        /\ Goto(c, "none")
    BY <1>3 DEF DisconnectFails
  <2>2. Emptied
    BY <1>0, <2>1 DEF TimerInv, Owed
  <2>3. Balanced(keys)'
    BY <2>1, <2>2, BalanceRegained
  <2>4. pc[c] \in Critical
    BY <2>1 DEF Critical
  <2> QED BY <1>0, <2>1, <2>3, <2>4, HolderStep DEF Storing
<1> QED BY <1>1, <1>2, <1>3

LEMMA SweepingKeepsTimer ==
    ASSUME LockInv, DataOK, TimerInv, SweepRemove \/ SweepStore \/ SweepFails
    PROVE  TimerInv'
<1>0. Sweeper \in Threads /\ {"none", "failed"} \subseteq Labels \ Storing
  BY DEF Threads, Labels, Storing
<1>1. CASE SweepRemove
  <2> DEFINE expired == swept \cap keys
             rest == keys \ expired
  <2>1. pc[Sweeper] = "sweep_hold" /\ keys' = rest /\ UNCHANGED row
    BY <1>1 DEF SweepRemove
  <2>2. pc[Sweeper] \in Critical /\ Balanced(keys)
    BY <1>0, <2>1, HoldersBalance DEF Critical, Storing
  <2>3. CASE expired # {} /\ rest = {}
    <3>1. swept' = expired /\ Goto(Sweeper, "sweep_store")
      BY <1>1, <2>3 DEF SweepRemove
    <3>2. Emptied'
      BY <2>1, <2>2, <2>3, EmptiedNow
    <3>3. "sweep_store" \in Labels
      BY DEF Labels
    <3> QED BY <1>0, <2>2, <2>3, <3>1, <3>2, <3>3, HolderStep DEF Storing
  <2>4. CASE ~(expired # {} /\ rest = {})
    <3>1. Goto(Sweeper, "none")
      BY <1>1, <2>4 DEF SweepRemove
    <3>2. keys' = {} <=> keys = {}
      BY <2>1, <2>4
    <3>3. Balanced(keys)'
      BY <2>1, <2>2, <3>2, BalanceKept
    <3> QED BY <1>0, <2>2, <3>1, <3>3, HolderStep DEF Storing
  <2> QED BY <2>3, <2>4
<1>2. CASE SweepStore
  <2>1. /\ pc[Sweeper] = "sweep_store" /\ StoreOffline /\ keys' = keys
        /\ Goto(Sweeper, "none")
    BY <1>2 DEF SweepStore, memory
  <2>2. Emptied
    BY <1>0, <2>1 DEF TimerInv, Owed
  <2>3. Balanced(keys)'
    BY <2>1, <2>2, OfflineBalances DEF Emptied
  <2>4. pc[Sweeper] \in Critical
    BY <2>1 DEF Critical
  <2> QED BY <1>0, <2>1, <2>3, <2>4, HolderStep DEF Storing
<1>3. CASE SweepFails
  <2>1. /\ pc[Sweeper] = "sweep_store" /\ UNCHANGED row /\ keys' = keys \cup swept
        /\ Goto(Sweeper, "failed")
    BY <1>3 DEF SweepFails
  <2>2. Emptied /\ swept # {}
    BY <1>0, <2>1 DEF TimerInv, Owed
  <2>3. Balanced(keys)'
    BY <2>1, <2>2, BalanceRegained
  <2>4. pc[Sweeper] \in Critical
    BY <2>1 DEF Critical
  <2> QED BY <1>0, <2>1, <2>3, <2>4, HolderStep DEF Storing
<1> QED BY <1>1, <1>2, <1>3

(* Steps of a connection that are not between the map and the row. *)
LEMMA OtherStepsKeepTimer ==
    ASSUME LockInv, TimerInv, NEW c \in Conns,
           \/ ConnectStart(c) \/ ConnectAcquire(c) \/ ConnectReturn(c)
           \/ Register(c) \/ Greet(c) \/ MarkReady(c) \/ Touch(c) \/ ConnectionCloses(c)
           \/ DisconnectStart(c) \/ DisconnectAcquire(c)
    PROVE  TimerInv'
<1>0. c \in Threads
  BY DEF Threads
<1>1. CASE ConnectStart(c)
  BY <1>0, <1>1, TimerElsewhere DEF ConnectStart, memory, Labels, Storing
<1>2. CASE ConnectAcquire(c)
  BY <1>0, <1>2, TimerElsewhere DEF ConnectAcquire, memory, Labels, Storing
<1>3. CASE ConnectReturn(c)
  BY <1>0, <1>3, TimerElsewhere DEF ConnectReturn, memory, Labels, Storing
<1>4. CASE Register(c)
  <2> DEFINE previous == {d \in Conns \ {c} : Owner(d) = Owner(c) /\ pc[d] \in InHub}
  <2>1. /\ pc[c] = "connected" /\ keys' = keys /\ UNCHANGED row /\ swept' = swept
        /\ pc' = [t \in Threads |-> IF t = c THEN "joined"
                                    ELSE IF t \in previous THEN "closing" ELSE pc[t]]
    BY <1>4 DEF Register, memory
  <2>2. \A t \in Threads :
           pc'[t] = pc[t] \/ (pc[t] \notin Storing /\ pc'[t] \notin Storing)
    BY <2>1 DEF InHub, Storing
  <2>3. Sweeper \in Threads
    BY DEF Threads
  <2>4. pc'[Sweeper] = "sweep_store" => swept' # {}
    BY <2>1, <2>2, <2>3 DEF TimerInv, Storing
  <2> QED BY <2>1, <2>2, <2>4, TimerUntouched DEF row
<1>5. CASE Greet(c)
  BY <1>0, <1>5, TimerElsewhere DEF Greet, memory, Labels, Storing
<1>6. CASE MarkReady(c)
  BY <1>0, <1>6, TimerElsewhere DEF MarkReady, memory, Labels, Storing
<1>7. CASE Touch(c)
  <2>1. keys' = keys /\ keys # {} /\ UNCHANGED row /\ pc' = pc
    BY <1>7 DEF Touch
  <2>2. Sweeper \in Threads
    BY DEF Threads
  <2>3. pc[Sweeper] # "sweep_store"
    BY <2>1, <2>2 DEF TimerInv, Owed, Emptied
  <2> QED BY <2>1, <2>3, TimerUntouched DEF row
<1>8. CASE ConnectionCloses(c)
  <2>1. pc[c] \notin Storing
    BY <1>8 DEF ConnectionCloses, InHub, Storing
  <2> QED BY <1>0, <1>8, <2>1, TimerElsewhere DEF ConnectionCloses, memory, Labels, Storing
<1>9. CASE DisconnectStart(c)
  BY <1>0, <1>9, TimerElsewhere DEF DisconnectStart, memory, Labels, Storing
<1>10. CASE DisconnectAcquire(c)
  BY <1>0, <1>10, TimerElsewhere DEF DisconnectAcquire, memory, Labels, Storing
<1> QED BY <1>1, <1>2, <1>3, <1>4, <1>5, <1>6, <1>7, <1>8, <1>9, <1>10

LEMMA TimerStep == LockInv /\ DataOK /\ TimerInv /\ [PresenceNext]_presenceVars => TimerInv'
<1> SUFFICES ASSUME LockInv, DataOK, TimerInv, [PresenceNext]_presenceVars PROVE TimerInv'
  OBVIOUS
<1>0. Sweeper \in Threads
  BY DEF Threads
<1>1. ASSUME NEW c \in Conns, ConnectStart(c) \/ Connection(c) \/ Touch(c) \/ ConnectionCloses(c)
      PROVE  TimerInv'
  BY <1>1, OtherStepsKeepTimer, ConnectingKeepsTimer, DisconnectingKeepsTimer DEF Connection
<1>2. CASE SweepStart
  BY <1>0, <1>2, TimerElsewhere DEF SweepStart, memory, Labels, Storing
<1>3. CASE SweepAcquire
  BY <1>0, <1>3, TimerElsewhere DEF SweepAcquire, memory, Labels, Storing
<1>4. CASE SweepRemove \/ SweepStore \/ SweepFails
  BY <1>4, SweepingKeepsTimer
<1>5. CASE Deliver
  <2>1. PICK slow \in SUBSET {c \in Conns : pc[c] = "up"} :
           pc' = [t \in Threads |-> IF t \in slow THEN "closing" ELSE pc[t]]
    BY <1>5 DEF Deliver
  <2>2. keys' = keys /\ swept' = swept /\ UNCHANGED row
    BY <1>5 DEF Deliver, memory
  <2>3. \A t \in Threads :
           pc'[t] = pc[t] \/ (pc[t] \notin Storing /\ pc'[t] \notin Storing)
    BY <2>1 DEF Storing
  <2>4. pc'[Sweeper] = "sweep_store" => swept' # {}
    BY <1>0, <2>2, <2>3 DEF TimerInv, Storing
  <2> QED BY <2>2, <2>3, <2>4, TimerUntouched DEF row
<1>6. CASE Delivered
  BY <1>6, TimerUntouched DEF Delivered, memory, row, TimerInv
<1>7. CASE Abandon \/ MatchEnds
  <2>1. status' = "ended" /\ keys' = keys /\ pc' = pc /\ swept' = swept
    BY <1>7 DEF Abandon, MatchEnds, memory
  <2>2. \A K : status' = "active" => FALSE
    BY <2>1
  <2>3. Balanced(keys)' /\ \A t \in Threads : Balanced(keys \ {t})'
    BY <2>1 DEF Balanced
  <2>4. \A t \in Threads : Owed(t)'
    BY <2>1, <2>3 DEF Owed, TimerInv, Emptied
  <2> QED BY <2>1, <2>3, <2>4 DEF TimerInv
<1>8. CASE Restart
  <2>1. keys' = {} /\ status' = status /\ pc' = [t \in Threads |-> "none"]
    BY <1>8 DEF Restart
  <2>2. status' = "active" => timer' # Never
    BY <1>8 DEF Restart, Never
  <2>3. Balanced(keys)'
    BY <2>1, <2>2 DEF Balanced
  <2>4. \A t \in Threads : Owed(t)'
    BY <2>1 DEF Owed
  <2> QED BY <1>0, <2>1, <2>3, <2>4 DEF TimerInv
<1>9. CASE TimePasses
  <2>1. timer' = Never <=> timer = Never
    <3>1. timer \in {Never} \cup Nat
      BY AgesAssumption DEF DataOK, RowTypes
    <3>2. timer' = IF timer = Never THEN Never ELSE Older(timer, OfflineAfter)
      BY <1>9 DEF TimePasses
    <3>3. timer \in Nat => Older(timer, OfflineAfter) # Never
      BY DEF Older, Never
    <3> QED BY <3>1, <3>2, <3>3
  <2> QED BY <1>9, <2>1, TimerUntouched DEF TimePasses, TimerInv
<1>10. CASE UNCHANGED presenceVars
  BY <1>10, TimerUntouched DEF presenceVars, memory, row, TimerInv
<1> QED BY <1>1, <1>2, <1>3, <1>4, <1>5, <1>6, <1>7, <1>8, <1>9, <1>10 DEF PresenceNext, Sweep

LEMMA InitTimer == PresenceInit => TimerInv
<1> SUFFICES ASSUME PresenceInit PROVE TimerInv
  OBVIOUS
<1>1. keys = {} /\ pc = [t \in Threads |-> "none"]
  BY DEF PresenceInit
<1>2. visited => timer # Never
  <2>1. 0 # Never
    BY DEF Never
  <2>2. visited = ~JustCreated /\ timer = IF JustCreated THEN Never ELSE 0
    BY DEF PresenceInit
  <2> QED BY <2>1, <2>2, Zenon
<1>3. Balanced(keys)
  BY <1>1, <1>2, Zenon DEF Balanced
<1>4. Sweeper \in Threads
  BY DEF Threads
<1> QED BY <1>1, <1>3, <1>4 DEF TimerInv, Owed, Storing

LEMMA InvFollows == LockInv /\ DataOK /\ TimerInv => TimerFollowsPlayers
<1> SUFFICES ASSUME LockInv, DataOK, TimerInv PROVE TimerFollowsPlayers
  OBVIOUS
<1>1. ASSUME NEW c \in keys, pc[c] \in {"connected"} \cup InHub, status # "ended"
      PROVE  timer = Never
  <2>1. status = "active" /\ keys # {}
    BY <1>1 DEF DataOK, RowTypes
  <2>2. CASE \A t \in Threads : pc[t] \notin Storing
    BY <2>1, <2>2 DEF TimerInv, Balanced
  <2>3. CASE \E t \in Threads : pc[t] \in Storing
    <3>1. PICK t \in Threads : pc[t] \in Storing
      BY <2>3
    <3>2. Owed(t)
      BY DEF TimerInv
    <3>3. pc[t] = "connect_store" /\ Balanced(keys \ {t})
      BY <2>1, <3>1, <3>2 DEF Owed, Storing, Emptied
    <3>4. c # t
      BY <1>1, <3>3 DEF InHub
    <3> QED BY <1>1, <2>1, <3>3, <3>4 DEF Balanced
  <2> QED BY <2>2, <2>3
<1>2. ASSUME visited, status = "active", keys = {}, \A t \in Threads : pc[t] \notin Critical
      PROVE  timer # Never
  <2>1. Balanced(keys)
    BY <1>2, StoringIsCritical DEF TimerInv
  <2> QED BY <1>2, <2>1, Zenon DEF Balanced
<1>3. ConnectedStopsTimer
  BY <1>1, Zenon DEF ConnectedStopsTimer
<1>4. EmptyMatchIsTimed
  BY <1>2, Zenon DEF EmptyMatchIsTimed
<1> QED BY <1>3, <1>4 DEF TimerFollowsPlayers

(* The offline timer of a match runs when, and only when, nobody is        *)
(* connected to it, although the map and the row are written one after the *)
(* other, by any number of goroutines, and each write may fail             *)
(* (Presence.Connect, Disconnect, Sweep).                                  *)
THEOREM TimerCorrect == PresenceSpec => []TimerFollowsPlayers
<1>1. PresenceSpec => []DataOK
  BY InitData, DataStep, PTL DEF PresenceSpec
<1>2. PresenceSpec => []TimerInv
  BY InitTimer, TimerStep, LockCorrect, <1>1, PTL DEF PresenceSpec
<1> QED BY <1>1, <1>2, LockCorrect, InvFollows, PTL
-----------------------------------------------------------------------------
(* What the clients are told.                                              *)

Now(u) == IF IsOnline(u) THEN "online" ELSE "offline"

(* The boundaries about u that no client has had: a delivery that waits    *)
(* for closes has been made already, and is skipped.                       *)
Skipped == IF notifying = {} THEN 0 ELSE 1
About(s, k, u) == {i \in DOMAIN s : i > k /\ s[i].user = u}
Says(s, k, u, v) ==
    \A i \in About(s, k, u) : (\A j \in About(s, k, u) : j <= i) => s[i].online = v

(* An operation has changed the map and not yet announced it for u. *)
Owing(u) ==
    \/ \E c \in Conns : pc[c] \in {"connect_store", "disconnect_store"} /\ Owner(c) = u
    \/ pc[Sweeper] = "sweep_store" /\ OnlineIn(swept, u)

(* A connection that learns of nothing more has the truth about u: what is *)
(* retained for it wins, and before it is greeted there is nothing to win. *)
Informed(c, u) ==
    /\ pc[c] \in {"joined", "greeted"} => late[c][u] \in {"unknown", Now(u)}
    /\ pc[c] = "greeted" /\ late[c][u] = "unknown" => told[c][u] = Now(u)
    /\ pc[c] = "up" => told[c][u] = Now(u)

Agreed(u) ==
    ~Owing(u) =>
       /\ Says(notes, Skipped, u, Now(u))
       /\ About(notes, Skipped, u) = {} => \A c \in Conns : Informed(c, u)

Retaining == \A c \in Conns : pc[c] \notin {"joined", "greeted"} => late[c] = Untold

PeersInv == Retaining /\ \A u \in Players : Agreed(u)

LEMMA NowOnline ==
    ASSUME NEW u
    PROVE  /\ OnlineIn(keys, u) => Now(u) = "online"
           /\ ~OnlineIn(keys, u) => Now(u) = "offline"
           /\ OnlineIn(keys', u) => Now(u)' = "online"
           /\ ~OnlineIn(keys', u) => Now(u)' = "offline"
<1>1. IsOnline(u) <=> OnlineIn(keys, u)
  BY DEF IsOnline
<1>2. IsOnline(u)' <=> OnlineIn(keys', u)
  BY DEF IsOnline, OnlineIn
<1> QED BY <1>1, <1>2 DEF Now

LEMMA NowKept ==
    ASSUME NEW u, OnlineIn(keys', u) <=> OnlineIn(keys, u)
    PROVE  Now(u)' = Now(u)
BY NowOnline

LEMMA OwnerTypes == \A c : Owner(c) \in Players
BY DEF Owner, Players

(* A step that is no news about u. *)
LEMMA AgreedKept ==
    ASSUME NEW u, Agreed(u), Owing(u) => Owing(u)', Now(u)' = Now(u), UNCHANGED queued,
           \A c \in Conns : Informed(c, u) => Informed(c, u)'
    PROVE  Agreed(u)'
<1>1. notes' = notes /\ notifying' = notifying
  BY DEF queued
<1>2. Skipped' = Skipped
  BY <1>1 DEF Skipped
<1>3. /\ About(notes, Skipped, u)' = About(notes, Skipped, u)
      /\ Says(notes, Skipped, u, Now(u))' <=> Says(notes, Skipped, u, Now(u))
  BY <1>1, <1>2 DEF About, Says
<1> QED BY <1>3 DEF Agreed

(* prepareNotification with the truth about u: whatever was said before,   *)
(* this is said last.                                                      *)
LEMMA AgreedTold ==
    ASSUME DataOK, NEW u, NEW new \in Seq(Boundaries), Announce(new),
           NEW x \in DOMAIN new, new[x].user = u,
           \A i \in DOMAIN new : new[i].user = u => new[i].online = Now(u)'
    PROVE  Agreed(u)'
<1> DEFINE n == Len(notes)
<1>1. notes \in Seq(Boundaries) /\ notes' = notes \o new /\ notifying' = notifying
  BY DEF DataOK, ClientTypes, Announce
<1>2. Skipped' \in {0, 1} /\ (Skipped' = 1 => n > 0)
  BY <1>1 DEF Skipped, DataOK, ClientTypes
<1>3. n \in Nat /\ x \in 1 .. Len(new) /\ Len(new) \in Nat
  BY <1>1
<1>4. DOMAIN notes' = 1 .. n + Len(new)
  BY <1>1
<1>5. \A i \in 1 .. n + Len(new) : i > n => i - n \in DOMAIN new /\ notes'[i] = new[i - n]
  BY <1>1, <1>3
<1>6. n + x \in 1 .. n + Len(new) /\ n + x > n /\ (n + x) - n = x
  BY <1>3
<1>7. n + x > Skipped'
  BY <1>2, <1>3
<1> HIDE DEF n
<1>8. notes'[n + x].user = u
  BY <1>5, <1>6
<1>9. n + x \in About(notes', Skipped', u)
  BY <1>4, <1>6, <1>7, <1>8 DEF About
<1>10. ASSUME NEW i \in About(notes', Skipped', u), \A j \in About(notes', Skipped', u) : j <= i
       PROVE  notes'[i].online = Now(u)'
  <2>1. i \in 1 .. n + Len(new) /\ notes'[i].user = u
    BY <1>4 DEF About
  <2>2. i > n
    BY <1>3, <1>9, <1>10, <2>1
  <2> QED BY <1>5, <2>1, <2>2
<1>11. Says(notes', Skipped', u, Now(u)')
  BY <1>10 DEF Says
<1> QED BY <1>9, <1>11 DEF Agreed

(* prepareNotification about somebody else. *)
LEMMA AgreedOther ==
    ASSUME DataOK, NEW u, Agreed(u), Owing(u) => Owing(u)', Now(u)' = Now(u),
           NEW new \in Seq(Boundaries), Announce(new), \A i \in DOMAIN new : new[i].user # u,
           \A c \in Conns : Informed(c, u) => Informed(c, u)'
    PROVE  Agreed(u)'
<1> DEFINE n == Len(notes)
<1>1. notes \in Seq(Boundaries) /\ notes' = notes \o new /\ notifying' = notifying
  BY DEF DataOK, ClientTypes, Announce
<1>2. Skipped' = Skipped
  BY <1>1 DEF Skipped
<1>3. n \in Nat /\ Len(new) \in Nat /\ DOMAIN notes = 1 .. n /\ DOMAIN notes' = 1 .. n + Len(new)
  BY <1>1
<1>4. \A i \in 1 .. n + Len(new) : i > n => i - n \in DOMAIN new /\ notes'[i] = new[i - n]
  BY <1>1, <1>3
<1>5. \A i \in 1 .. n : notes'[i] = notes[i]
  BY <1>1, <1>3
<1> HIDE DEF n
<1>6. About(notes', Skipped, u) = About(notes, Skipped, u)
  <2>1. \A i \in 1 .. n + Len(new) : notes'[i].user = u => i \in 1 .. n
    <3> SUFFICES ASSUME NEW i \in 1 .. n + Len(new), notes'[i].user = u PROVE i \in 1 .. n
      OBVIOUS
    <3>1. ~(i > n)
      BY <1>4
    <3> QED BY <1>3, <3>1
  <2>2. \A i \in 1 .. n : i \in 1 .. n + Len(new)
    BY <1>3
  <2> QED BY <1>3, <1>5, <2>1, <2>2 DEF About
<1>7. \A i \in About(notes, Skipped, u) : notes'[i] = notes[i]
  BY <1>3, <1>5 DEF About
<1>8. Says(notes, Skipped, u, Now(u)) => Says(notes', Skipped', u, Now(u)')
  BY <1>2, <1>6, <1>7 DEF Says
<1>9. About(notes', Skipped', u) = {} => About(notes, Skipped, u) = {}
  BY <1>2, <1>6
<1> QED BY <1>8, <1>9 DEF Agreed

(* A step by which no client hears anything, nor joins or leaves. *)
LEMMA ClientsKept ==
    ASSUME UNCHANGED clients,
           \A c \in Conns : pc'[c] = pc[c] \/ (pc[c] \notin InHub /\ pc'[c] \notin InHub)
    PROVE  /\ Retaining => Retaining'
           /\ \A u : Now(u)' = Now(u) =>
                 \A c \in Conns : Informed(c, u) => Informed(c, u)'
<1>1. told' = told /\ late' = late
  BY DEF clients
<1> QED BY <1>1 DEF Retaining, Informed, InHub

LEMMA OwingKept ==
    ASSUME \A c \in Conns : pc[c] \in Storing => pc'[c] = pc[c],
           pc[Sweeper] = "sweep_store" => pc'[Sweeper] = "sweep_store" /\ swept' = swept
    PROVE  \A u : Owing(u) => Owing(u)'
BY DEF Owing, Storing

(* A step that is no news about anybody. *)
LEMMA QuietStep ==
    ASSUME PeersInv, UNCHANGED <<keys, queued>>, Retaining',
           \A c \in Conns : pc[c] \in Storing => pc'[c] = pc[c],
           pc[Sweeper] = "sweep_store" => pc'[Sweeper] = "sweep_store" /\ swept' = swept,
           \A u \in Players, c \in Conns : Now(u)' = Now(u) /\ Informed(c, u) => Informed(c, u)'
    PROVE  PeersInv'
<1>1. \A u : Now(u)' = Now(u)
  BY NowKept
<1>2. \A u : Owing(u) => Owing(u)'
  BY OwingKept
<1>3. \A u \in Players : Agreed(u)'
  BY <1>1, <1>2, AgreedKept DEF PeersInv
<1> QED BY <1>3 DEF PeersInv

(* One thread goes on, away from the hub and from every durable write. *)
LEMMA QuietThread ==
    ASSUME LockInv, PeersInv, UNCHANGED <<keys, queued, clients>>, NEW t \in Threads,
           NEW w \in Labels \ (Storing \cup InHub), pc[t] \notin Storing \cup InHub, Goto(t, w),
           t = Sweeper \/ swept' = swept
    PROVE  PeersInv'
<1>1. \A s \in Threads : pc'[s] = IF s = t THEN w ELSE pc[s]
  BY DEF Goto, LockInv, LockTypes
<1>2. \A c \in Conns : pc'[c] = pc[c] \/ (pc[c] \notin InHub /\ pc'[c] \notin InHub)
  BY <1>1 DEF Threads
<1>3. /\ Retaining'
      /\ \A u \in Players, c \in Conns : Now(u)' = Now(u) /\ Informed(c, u) => Informed(c, u)'
  BY <1>2, ClientsKept DEF PeersInv
<1>4. /\ \A c \in Conns : pc[c] \in Storing => pc'[c] = pc[c]
      /\ pc[Sweeper] = "sweep_store" => pc'[Sweeper] = "sweep_store" /\ swept' = swept
  BY <1>1 DEF Threads, Storing
<1> QED BY <1>3, <1>4, QuietStep

(* The handshake, and what ends a connection. *)
LEMMA RegisterKeepsPeers ==
    ASSUME LockInv, DataOK, PeersInv, NEW c \in Conns, Register(c)
    PROVE  PeersInv'
<1> DEFINE previous == {d \in Conns \ {c} : Owner(d) = Owner(c) /\ pc[d] \in InHub}
<1>1. /\ pc[c] = "connected" /\ UNCHANGED <<keys, queued, swept>>
      /\ pc' = [t \in Threads |-> IF t = c THEN "joined"
                                  ELSE IF t \in previous THEN "closing" ELSE pc[t]]
      /\ told' = [d \in Conns |-> IF d \in previous \cup {c} THEN Untold ELSE told[d]]
      /\ late' = [d \in Conns |-> IF d \in previous \cup {c} THEN Untold ELSE late[d]]
  BY DEF Register, memory
<1>2. /\ \A d \in previous : pc[d] \in InHub /\ d \in Conns
      /\ Sweeper \notin previous \cup {c} /\ c \in Threads /\ Sweeper \in Threads
  BY PlayersAssumption DEF Conns, Sweeper, Threads
<1> HIDE DEF previous
<1>3. \A d \in Conns : \/ d = c /\ pc'[d] = "joined" /\ late'[d] = Untold
                       \/ pc'[d] = "closing" /\ late'[d] = Untold
                       \/ pc'[d] = pc[d] /\ late'[d] = late[d] /\ told'[d] = told[d]
  BY <1>1 DEF Threads
<1>4. Retaining'
  BY <1>3 DEF Retaining, PeersInv
<1>5. \A u \in Players : Untold[u] = "unknown"
  BY DEF Untold
<1>6. ASSUME NEW u \in Players, NEW d \in Conns, Now(u)' = Now(u), Informed(d, u)
      PROVE  Informed(d, u)'
  BY <1>3, <1>5, <1>6 DEF Informed
<1>7. /\ \A d \in Conns : pc[d] \in Storing => pc'[d] = pc[d]
      /\ pc'[Sweeper] = pc[Sweeper]
  BY <1>1, <1>2 DEF Storing, InHub, Threads
<1> QED BY <1>1, <1>4, <1>6, <1>7, QuietStep

LEMMA HandshakeKeepsPeers ==
    ASSUME LockInv, DataOK, PeersInv, NEW c \in Conns, Greet(c) \/ MarkReady(c) \/ ConnectionCloses(c)
    PROVE  PeersInv'
<1>1. /\ pc[c] \in InHub /\ UNCHANGED <<keys, queued, swept>>
      /\ pc' \in {[pc EXCEPT ![c] = "greeted"], [pc EXCEPT ![c] = "up"],
                  [pc EXCEPT ![c] = "closing"]}
  BY DEF Greet, MarkReady, ConnectionCloses, Goto, memory, InHub
<1>2. \A t \in Threads \ {c} : pc'[t] = pc[t]
  BY <1>1 DEF LockInv, LockTypes
<1>3. c \in Threads /\ Sweeper \in Threads \ {c}
  BY PlayersAssumption DEF Threads, Conns, Sweeper
<1>4. told \in [Conns -> Views] /\ late \in [Conns -> Views] /\ pc \in [Threads -> Labels]
  BY DEF DataOK, ClientTypes, LockInv, LockTypes
<1>5. /\ \A d \in Conns \ {c} : told'[d] = told[d] /\ late'[d] = late[d]
      /\ \/ pc[c] = "joined" /\ pc'[c] = "greeted" /\ told'[c] = View /\ late'[c] = late[c]
         \/ /\ pc[c] = "greeted" /\ pc'[c] = "up" /\ late'[c] = Untold
            /\ told'[c] = [u \in Players |-> IF late[c][u] # "unknown" THEN late[c][u]
                                                                   ELSE told[c][u]]
         \/ pc'[c] = "closing" /\ late'[c] = Untold
  BY <1>3, <1>4 DEF Greet, MarkReady, ConnectionCloses, Goto
<1>6. Retaining'
  BY <1>2, <1>5 DEF Retaining, PeersInv, Threads
<1>7. ASSUME NEW u \in Players, NEW d \in Conns, Now(u)' = Now(u), Informed(d, u)
      PROVE  Informed(d, u)'
  <2>1. CASE d # c
    BY <1>2, <1>5, <1>7, <2>1 DEF Informed, Threads
  <2>2. CASE d = c
    <3>1. View[u] = Now(u)
      BY DEF View, Now
    <3> QED BY <1>5, <1>7, <2>2, <3>1 DEF Informed
  <2> QED BY <2>1, <2>2
<1>8. /\ \A d \in Conns : pc[d] \in Storing => pc'[d] = pc[d]
      /\ pc'[Sweeper] = pc[Sweeper]
  BY <1>1, <1>2, <1>3 DEF Storing, InHub, Threads
<1> QED BY <1>1, <1>6, <1>7, <1>8, QuietStep

(* Only the holder of the token is between the map and an announcement. *)
LEMMA OnlyHolderOwes ==
    ASSUME LockInv, NEW t \in Threads, pc[t] \in Critical, NEW u, Owing(u)
    PROVE  \/ t \in Conns /\ pc[t] \in {"connect_store", "disconnect_store"} /\ Owner(t) = u
           \/ t = Sweeper /\ pc[t] = "sweep_store" /\ OnlineIn(swept, u)
<1>1. \A s \in Threads \ {t} : pc[s] \notin Storing
  BY Alone, StoringIsCritical
<1> QED BY <1>1 DEF Owing, Threads, Storing

(* The step of a holder tells the clients nothing. *)
LEMMA HolderSilent ==
    ASSUME LockInv, PeersInv, UNCHANGED clients, NEW t \in Threads, NEW w, pc[t] \in Critical,
           w \notin InHub, Goto(t, w)
    PROVE  /\ Retaining'
           /\ \A u : Now(u)' = Now(u) =>
                 \A c \in Conns : Informed(c, u) => Informed(c, u)'
<1>1. \A s \in Threads : pc'[s] = IF s = t THEN w ELSE pc[s]
  BY DEF Goto, LockInv, LockTypes
<1>2. pc[t] \notin InHub
  BY DEF InHub, Critical
<1>3. \A c \in Conns : pc'[c] = pc[c] \/ (pc[c] \notin InHub /\ pc'[c] \notin InHub)
  BY <1>1, <1>2 DEF Threads
<1> QED BY <1>3, ClientsKept DEF PeersInv

(* A boundary about one player, announced by a holder. *)
LEMMA OneAnnounced ==
    ASSUME DataOK, PeersInv, NEW p \in Players, NEW online, NEW by,
           Boundary(p, online, by) \in Boundaries, online = Now(p)',
           Announce(<<Boundary(p, online, by)>>),
           \A u \in Players \ {p} :
              /\ Now(u)' = Now(u) /\ ~Owing(u)
              /\ \A c \in Conns : Informed(c, u) => Informed(c, u)'
    PROVE  \A u \in Players : Agreed(u)'
<1> DEFINE b == Boundary(p, online, by)
<1>1. b.user = p /\ b.online = Now(p)' /\ b \in Boundaries
  BY DEF Boundary
<1>2. Announce(<<b>>)
  OBVIOUS
<1> HIDE DEF b
<1>3. <<b>> \in Seq(Boundaries) /\ 1 \in DOMAIN <<b>> /\ \A i \in DOMAIN <<b>> : <<b>>[i] = b
  BY <1>1
<1>4. Agreed(p)'
  <2>1. PICK new \in Seq(Boundaries) : new = <<b>>
    BY <1>3
  <2>2. 1 \in DOMAIN new /\ \A i \in DOMAIN new : new[i] = b
    BY <1>3, <2>1
  <2>3. Announce(new)
    BY <1>2, <2>1
  <2> QED BY <1>1, <2>2, <2>3, AgreedTold
<1>5. ASSUME NEW u \in Players \ {p} PROVE Agreed(u)'
  <2>1. PICK new \in Seq(Boundaries) : new = <<b>>
    BY <1>3
  <2>2. \A i \in DOMAIN new : new[i].user # u
    BY <1>1, <1>3, <2>1
  <2>3. Announce(new)
    BY <1>2, <2>1
  <2>4. Agreed(u)
    BY DEF PeersInv
  <2> QED BY <2>2, <2>3, <2>4, AgreedOther
<1> QED BY <1>4, <1>5

LEMMA ConnectingKeepsPeers ==
    ASSUME LockInv, DataOK, TimerInv, PeersInv, NEW c \in Conns,
           ConnectInsert(c) \/ ConnectStore(c)
    PROVE  PeersInv'
<1>0. c \in Threads
  BY DEF Threads
<1>1. CASE ConnectInsert(c)
  <2>1. /\ pc[c] = "connect_hold" /\ keys' = keys \cup {c} /\ UNCHANGED <<queued, clients>>
        /\ pc[c] \in Critical
    BY <1>1 DEF ConnectInsert, Critical
  <2>2. PICK w \in {"connected", "connect_store"} :
           Goto(c, w) /\ (IsOnline(Owner(c)) \/ w = "connect_store")
    BY <1>1 DEF ConnectInsert
  <2>3. w \notin InHub
    BY <2>2 DEF InHub
  <2>4. /\ Retaining'
        /\ \A u : Now(u)' = Now(u) => \A d \in Conns : Informed(d, u) => Informed(d, u)'
    BY <1>0, <2>1, <2>2, <2>3, HolderSilent
  <2>5. \A u : ~Owing(u)
    BY <1>0, <2>1, OnlyHolderOwes
  <2>6. ASSUME NEW u \in Players PROVE Agreed(u)'
    <3>1. CASE Owner(c) = u /\ w = "connect_store"
      <4>1. pc'[c] = "connect_store"
        BY <1>0, <2>2, <3>1 DEF Goto, LockInv, LockTypes
      <4> QED BY <3>1, <4>1 DEF Owing, Agreed
    <3>2. CASE Owner(c) # u \/ IsOnline(u)
      <4>1. OnlineIn(keys', u) <=> OnlineIn(keys, u)
        BY <2>1, <3>2 DEF OnlineIn, IsOnline
      <4> QED BY <2>1, <2>4, <2>5, <4>1, NowKept, AgreedKept DEF PeersInv
    <3> QED BY <2>2, <3>1, <3>2
  <2> QED BY <2>4, <2>6 DEF PeersInv
<1>2. CASE ConnectStore(c)
  <2>1. /\ pc[c] = "connect_store" /\ keys' = keys /\ UNCHANGED clients
        /\ Announce(<<Boundary(Owner(c), "online", c)>>) /\ Goto(c, "connect_told")
        /\ pc[c] \in Critical /\ "connect_told" \notin InHub
    BY <1>2 DEF ConnectStore, memory, Critical, InHub
  <2>2. c \in keys
    BY <1>0, <2>1 DEF TimerInv, Owed
  <2>3. \A u : Now(u)' = Now(u)
    BY <2>1, NowKept
  <2>4. Now(Owner(c))' = "online"
    BY <2>1, <2>2, NowOnline DEF OnlineIn
  <2>5. /\ Retaining'
        /\ \A u : Now(u)' = Now(u) => \A d \in Conns : Informed(d, u) => Informed(d, u)'
    BY <1>0, <2>1, HolderSilent
  <2>6. \A u \in Players \ {Owner(c)} : ~Owing(u)
    BY <1>0, <2>1, OnlyHolderOwes, PlayersAssumption DEF Conns, Sweeper
  <2>7. Boundary(Owner(c), "online", c) \in Boundaries
    BY BoundaryType
  <2>8. \A u \in Players : Agreed(u)'
    BY <2>1, <2>3, <2>4, <2>5, <2>6, <2>7, OwnerTypes, OneAnnounced
  <2> QED BY <2>5, <2>8 DEF PeersInv
<1> QED BY <1>1, <1>2

LEMMA DisconnectingKeepsPeers ==
    ASSUME LockInv, DataOK, TimerInv, PeersInv, NEW c \in Conns,
           DisconnectRemove(c) \/ DisconnectStore(c)
    PROVE  PeersInv'
<1>0. c \in Threads /\ c # Sweeper
  BY PlayersAssumption DEF Threads, Conns, Sweeper
<1>1. Boundary(Owner(c), "offline", None) \in Boundaries
  BY BoundaryType
<1>2. CASE DisconnectRemove(c)
  <2>1. /\ pc[c] = "disconnect_hold" /\ keys' = keys \ {c} /\ UNCHANGED clients
        /\ pc[c] \in Critical
    BY <1>2 DEF DisconnectRemove, Critical
  <2>2. PICK w \in {"none", "disconnect_store"} : Goto(c, w)
    BY <1>2 DEF DisconnectRemove
  <2>3. w \notin InHub
    BY <2>2 DEF InHub
  <2>4. /\ Retaining'
        /\ \A u : Now(u)' = Now(u) => \A d \in Conns : Informed(d, u) => Informed(d, u)'
    BY <1>0, <2>1, <2>2, <2>3, HolderSilent
  <2>5. \A u : ~Owing(u)
    BY <1>0, <2>1, OnlyHolderOwes
  <2>6. \A u \in Players \ {Owner(c)} : Now(u)' = Now(u)
    BY <2>1, NowKept DEF OnlineIn
  <2>7. CASE UNCHANGED queued /\ Goto(c, "disconnect_store")
    <3>1. pc'[c] = "disconnect_store"
      BY <1>0, <2>7 DEF Goto, LockInv, LockTypes
    <3>2. Agreed(Owner(c))'
      BY <3>1 DEF Owing, Agreed
    <3>3. \A u \in Players \ {Owner(c)} : Agreed(u)'
      BY <2>4, <2>5, <2>6, <2>7, AgreedKept DEF PeersInv
    <3> QED BY <2>4, <3>2, <3>3 DEF PeersInv
  <2>8. CASE /\ ~OnlineIn(keys', Owner(c))
             /\ Announce(<<Boundary(Owner(c), "offline", None)>>)
    <3>1. Now(Owner(c))' = "offline"
      BY <2>8, NowOnline
    <3>2. \A u \in Players : Agreed(u)'
      BY <1>1, <2>4, <2>5, <2>6, <2>8, <3>1, OwnerTypes, OneAnnounced
    <3> QED BY <2>4, <3>2 DEF PeersInv
  <2>9. CASE UNCHANGED queued /\ (c \notin keys \/ OnlineIn(keys', Owner(c)))
    <3>1. \A u \in Players : Now(u)' = Now(u)
      BY <2>1, <2>9, NowKept DEF OnlineIn
    <3>2. \A u \in Players : Agreed(u)'
      BY <2>4, <2>5, <2>9, <3>1, AgreedKept DEF PeersInv
    <3> QED BY <2>4, <3>2 DEF PeersInv
  <2> QED BY <1>2, <2>1, <2>7, <2>8, <2>9 DEF DisconnectRemove
<1>3. CASE DisconnectStore(c)
  <2>1. /\ pc[c] = "disconnect_store" /\ keys' = keys /\ UNCHANGED clients
        /\ Announce(<<Boundary(Owner(c), "offline", None)>>) /\ Goto(c, "none")
        /\ pc[c] \in Critical /\ "none" \notin InHub
    BY <1>3 DEF DisconnectStore, memory, Critical, InHub
  <2>2. keys = {}
    BY <1>0, <2>1 DEF TimerInv, Owed, Emptied
  <2>3. \A u : Now(u)' = Now(u)
    BY <2>1, NowKept
  <2>4. Now(Owner(c))' = "offline"
    BY <2>1, <2>2, NowOnline DEF OnlineIn
  <2>5. /\ Retaining'
        /\ \A u : Now(u)' = Now(u) => \A d \in Conns : Informed(d, u) => Informed(d, u)'
    BY <1>0, <2>1, HolderSilent
  <2>6. \A u \in Players \ {Owner(c)} : ~Owing(u)
    BY <1>0, <2>1, OnlyHolderOwes
  <2>7. \A u \in Players : Agreed(u)'
    BY <1>1, <2>1, <2>3, <2>4, <2>5, <2>6, OwnerTypes, OneAnnounced
  <2> QED BY <2>5, <2>7 DEF PeersInv
<1> QED BY <1>2, <1>3

(* Gone names exactly the players who were in the one set and are not in   *)
(* the other.                                                              *)
LEMMA GoneAbout ==
    ASSUME NEW expired, NEW rest, NEW g, g = Gone(expired, rest)
    PROVE  /\ \A i \in DOMAIN g : /\ g[i].online = "offline"
                                  /\ OnlineIn(expired, g[i].user) /\ ~OnlineIn(rest, g[i].user)
           /\ \A u \in Players : OnlineIn(expired, u) /\ ~OnlineIn(rest, u) =>
                 \E i \in DOMAIN g : g[i].user = u
<1> DEFINE left(u) == OnlineIn(expired, u) /\ ~OnlineIn(rest, u)
           gone(u) == IF left(u) THEN <<Boundary(u, "offline", None)>> ELSE <<>>
<1>1. g = gone(Black) \o gone(White)
  BY DEF Gone
<1>2. \A u \in Players : /\ Boundary(u, "offline", None).user = u
                         /\ Boundary(u, "offline", None).online = "offline"
  BY DEF Boundary
<1>3. Players = {Black, White}
  BY DEF Players
<1> HIDE DEF left
<1>4. /\ \A i \in DOMAIN g : g[i].online = "offline" /\ left(g[i].user)
      /\ \A u \in Players : left(u) => \E i \in DOMAIN g : g[i].user = u
  <2>1. CASE left(Black) /\ left(White)
    <3>1. /\ <<Boundary(Black, "offline", None)>> \in Seq(Boundaries)
          /\ <<Boundary(White, "offline", None)>> \in Seq(Boundaries)
      BY <1>3 DEF Boundary, Boundaries, Known
    <3>2. PICK b, w \in Seq(Boundaries) : /\ b = <<Boundary(Black, "offline", None)>>
                                         /\ w = <<Boundary(White, "offline", None)>>
      BY <3>1
    <3>3. /\ g = b \o w /\ Len(b) = 1 /\ Len(w) = 1
          /\ b[1] = Boundary(Black, "offline", None) /\ w[1] = Boundary(White, "offline", None)
      BY <1>1, <2>1, <3>2
    <3>4. g \in Seq(Boundaries) /\ Len(g) = 2
      BY <3>2, <3>3
    <3>5. g[1] = Boundary(Black, "offline", None) /\ g[2] = Boundary(White, "offline", None)
      BY <3>2, <3>3
    <3>6. DOMAIN g = {1, 2}
      BY <3>4
    <3> QED BY <1>2, <1>3, <2>1, <3>5, <3>6
  <2>2. CASE left(Black) /\ ~left(White)
    <3>1. g = <<Boundary(Black, "offline", None)>>
      BY <1>1, <2>2
    <3> QED BY <1>2, <1>3, <2>2, <3>1
  <2>3. CASE ~left(Black) /\ left(White)
    <3>1. g = <<Boundary(White, "offline", None)>>
      BY <1>1, <2>3
    <3> QED BY <1>2, <1>3, <2>3, <3>1
  <2>4. CASE ~left(Black) /\ ~left(White)
    <3>1. g = <<>>
      BY <1>1, <2>4
    <3> QED BY <1>3, <2>4, <3>1
  <2> QED BY <2>1, <2>2, <2>3, <2>4
<1> QED BY <1>4 DEF left

LEMMA GoneAnnounced ==
    ASSUME DataOK, PeersInv, NEW expired, Announce(Gone(expired, keys')),
           \A u \in Players :
              \/ OnlineIn(expired, u) /\ ~OnlineIn(keys', u)
              \/ /\ Now(u)' = Now(u) /\ ~Owing(u)
                 /\ \A c \in Conns : Informed(c, u) => Informed(c, u)'
    PROVE  \A u \in Players : Agreed(u)'
<1>1. PICK new \in Seq(Boundaries) : new = Gone(expired, keys')
  BY GoneType
<1>2. Announce(new)
  BY <1>1
<1>3. /\ \A i \in DOMAIN new : /\ new[i].online = "offline"
                               /\ OnlineIn(expired, new[i].user) /\ ~OnlineIn(keys', new[i].user)
      /\ \A u \in Players : OnlineIn(expired, u) /\ ~OnlineIn(keys', u) =>
            \E i \in DOMAIN new : new[i].user = u
  BY <1>1, GoneAbout
<1> SUFFICES ASSUME NEW u \in Players PROVE Agreed(u)'
  OBVIOUS
<1>4. CASE OnlineIn(expired, u) /\ ~OnlineIn(keys', u)
  <2>1. PICK x \in DOMAIN new : new[x].user = u
    BY <1>3, <1>4
  <2>2. Now(u)' = "offline"
    BY <1>4, NowOnline
  <2> QED BY <1>2, <1>3, <2>1, <2>2, AgreedTold
<1>5. CASE ~(OnlineIn(expired, u) /\ ~OnlineIn(keys', u))
  <2>1. \A i \in DOMAIN new : new[i].user # u
    BY <1>3, <1>5
  <2> QED BY <1>2, <1>5, <2>1, AgreedOther DEF PeersInv
<1> QED BY <1>4, <1>5

LEMMA SweepingKeepsPeers ==
    ASSUME LockInv, DataOK, TimerInv, PeersInv, SweepRemove \/ SweepStore
    PROVE  PeersInv'
<1>0. Sweeper \in Threads /\ Sweeper \notin Conns
  BY PlayersAssumption DEF Threads, Conns, Sweeper
<1>1. CASE SweepRemove
  <2> DEFINE expired == swept \cap keys
             rest == keys \ expired
  <2>1. /\ pc[Sweeper] = "sweep_hold" /\ keys' = rest /\ UNCHANGED clients
        /\ pc[Sweeper] \in Critical
    BY <1>1 DEF SweepRemove, Critical
  <2>2. PICK w \in {"none", "sweep_store"} : Goto(Sweeper, w)
    BY <1>1 DEF SweepRemove
  <2>3. w \notin InHub
    BY <2>2 DEF InHub
  <2>4. /\ Retaining'
        /\ \A u : Now(u)' = Now(u) => \A d \in Conns : Informed(d, u) => Informed(d, u)'
    BY <1>0, <2>1, <2>2, <2>3, HolderSilent
  <2>5. \A u : ~Owing(u)
    BY <1>0, <2>1, OnlyHolderOwes
  <2>6. \A u : OnlineIn(keys, u) <=> OnlineIn(expired, u) \/ OnlineIn(keys', u)
    BY <2>1 DEF OnlineIn
  <2>7. \A u : ~(OnlineIn(expired, u) /\ ~OnlineIn(keys', u)) => Now(u)' = Now(u)
    BY <2>6, NowKept
  <2>8. CASE expired # {} /\ rest = {}
    <3>1. swept' = expired /\ Goto(Sweeper, "sweep_store") /\ UNCHANGED queued
      BY <1>1, <2>8 DEF SweepRemove
    <3>2. pc'[Sweeper] = "sweep_store"
      BY <1>0, <3>1 DEF Goto, LockInv, LockTypes
    <3>3. ASSUME NEW u \in Players PROVE Agreed(u)'
      <4>1. CASE OnlineIn(expired, u)
        <5>1. OnlineIn(swept, u)'
          BY <3>1, <4>1 DEF OnlineIn
        <5> QED BY <3>2, <5>1 DEF Owing, Agreed
      <4>2. CASE ~OnlineIn(expired, u)
        BY <2>4, <2>5, <2>7, <3>1, <4>2, AgreedKept DEF PeersInv
      <4> QED BY <4>1, <4>2
    <3> QED BY <2>4, <3>3 DEF PeersInv
  <2>9. CASE ~(expired # {} /\ rest = {})
    <3>1. Announce(Gone(expired, keys'))
      BY <1>1, <2>1, <2>9 DEF SweepRemove
    <3> HIDE DEF expired, rest
    <3>2. \A u \in Players : Agreed(u)'
      BY <2>4, <2>5, <2>7, <3>1, GoneAnnounced
    <3> QED BY <2>4, <3>2 DEF PeersInv
  <2> QED BY <2>8, <2>9
<1>2. CASE SweepStore
  <2>1. /\ pc[Sweeper] = "sweep_store" /\ keys' = keys /\ UNCHANGED clients
        /\ Announce(Gone(swept, keys)) /\ Goto(Sweeper, "none")
        /\ pc[Sweeper] \in Critical /\ "none" \notin InHub
    BY <1>2 DEF SweepStore, memory, Critical, InHub
  <2>2. keys = {}
    BY <1>0, <2>1 DEF TimerInv, Owed, Emptied
  <2>3. Announce(Gone(swept, keys'))
    BY <2>1
  <2>4. \A u : Now(u)' = Now(u)
    BY <2>1, NowKept
  <2>5. /\ Retaining'
        /\ \A u : Now(u)' = Now(u) => \A d \in Conns : Informed(d, u) => Informed(d, u)'
    BY <1>0, <2>1, HolderSilent
  <2>6. \A u \in Players : (OnlineIn(swept, u) /\ ~OnlineIn(keys', u)) \/ ~Owing(u)
    BY <1>0, <2>1, <2>2, OnlyHolderOwes DEF OnlineIn
  <2>7. \A u \in Players : Agreed(u)'
    BY <2>3, <2>4, <2>5, <2>6, GoneAnnounced
  <2> QED BY <2>5, <2>7 DEF PeersInv
<1> QED BY <1>1, <1>2

(* The first boundary is had: what is said last is said by the rest, or    *)
(* was said by the first.                                                  *)
LEMMA FirstTold ==
    ASSUME NEW s \in Seq(Boundaries), s # <<>>, NEW u, NEW v, Says(s, 0, u, v)
    PROVE  /\ Says(s, 1, u, v)
           /\ About(s, 1, u) = {} => IF Head(s).user = u THEN Head(s).online = v
                                                         ELSE About(s, 0, u) = {}
<1>1. 1 \in DOMAIN s /\ Head(s) = s[1] /\ DOMAIN s = 1 .. Len(s) /\ Len(s) \in Nat
  OBVIOUS
<1>2. /\ About(s, 1, u) \subseteq About(s, 0, u)
      /\ \A i \in About(s, 0, u) : i = 1 \/ i \in About(s, 1, u)
      /\ 1 \in About(s, 0, u) <=> s[1].user = u
  BY <1>1 DEF About
<1>3. \A i \in About(s, 1, u) : 1 <= i
  BY <1>1 DEF About
<1>4. Says(s, 1, u, v)
  BY <1>2, <1>3 DEF Says
<1>5. ASSUME About(s, 1, u) = {}, s[1].user = u PROVE s[1].online = v
  <2>1. 1 \in About(s, 0, u) /\ \A j \in About(s, 0, u) : j <= 1
    BY <1>2, <1>5
  <2> QED BY <2>1 DEF Says
<1> QED BY <1>1, <1>2, <1>4, <1>5

LEMMA FirstDropped ==
    ASSUME NEW s \in Seq(Boundaries), s # <<>>, NEW u, NEW v, Says(s, 1, u, v)
    PROVE  /\ Says(Tail(s), 0, u, v)
           /\ About(Tail(s), 0, u) = {} => About(s, 1, u) = {}
<1>1. DOMAIN s = 1 .. Len(s) /\ Len(s) \in Nat /\ DOMAIN Tail(s) = 1 .. Len(s) - 1
  OBVIOUS
<1>2. \A i \in 1 .. Len(s) - 1 : Tail(s)[i] = s[i + 1]
  OBVIOUS
<1> DEFINE t == Tail(s)
<1> HIDE DEF t
<1>3. \A i \in About(t, 0, u) : i \in Nat /\ i + 1 \in About(s, 1, u) /\ t[i] = s[i + 1]
  BY <1>1, <1>2 DEF About, t
<1>4. \A j \in About(s, 1, u) : j \in Nat /\ j - 1 \in About(t, 0, u)
  <2> SUFFICES ASSUME NEW j \in About(s, 1, u) PROVE j \in Nat /\ j - 1 \in About(t, 0, u)
    OBVIOUS
  <2>1. j \in 1 .. Len(s) /\ j > 1 /\ s[j].user = u
    BY <1>1 DEF About
  <2>2. j - 1 \in 1 .. Len(s) - 1 /\ (j - 1) + 1 = j
    BY <1>1, <2>1
  <2>3. t[j - 1] = s[j]
    BY <1>2, <2>2 DEF t
  <2> QED BY <1>1, <2>1, <2>2, <2>3 DEF About, t
<1>5. ASSUME NEW i \in About(t, 0, u), \A j \in About(t, 0, u) : j <= i
      PROVE  t[i].online = v
  <2>1. \A j \in About(s, 1, u) : j <= i + 1
    <3> SUFFICES ASSUME NEW j \in About(s, 1, u) PROVE j <= i + 1
      OBVIOUS
    <3>1. j - 1 <= i /\ j \in Nat /\ i \in Nat
      BY <1>3, <1>4, <1>5
    <3> QED BY <3>1
  <2> QED BY <1>3, <2>1 DEF Says
<1>6. Says(t, 0, u, v)
  BY <1>5 DEF Says
<1>7. About(t, 0, u) = {} => About(s, 1, u) = {}
  BY <1>4
<1> QED BY <1>6, <1>7 DEF t

LEMMA DeliverKeepsPeers ==
    ASSUME LockInv, DataOK, PeersInv, Deliver
    PROVE  PeersInv'
<1> DEFINE note == Head(notes)
<1>1. PICK slow \in SUBSET {c \in Conns : pc[c] = "up"} :
        /\ notifying = {}
        /\ told' = [c \in Conns |->
              IF c \in slow THEN Untold
              ELSE IF pc[c] = "up" THEN [told[c] EXCEPT ![note.user] = note.online]
              ELSE told[c]]
        /\ pc' = [t \in Threads |-> IF t \in slow THEN "closing" ELSE pc[t]]
        /\ IF slow = {}
           THEN notes' = Tail(notes) /\ UNCHANGED notifying
           ELSE notifying' = slow /\ UNCHANGED notes
  BY DEF Deliver
<1>2. /\ late' = [c \in Conns |->
             IF pc[c] \in {"joined", "greeted"}
             THEN [late[c] EXCEPT ![note.user] = note.online] ELSE late[c]]
      /\ notes \in Seq(Boundaries) /\ notes # <<>> /\ UNCHANGED <<keys, swept>>
      /\ told \in [Conns -> Views] /\ late \in [Conns -> Views]
  BY DEF Deliver, memory, DataOK, ClientTypes
<1>3. note \in Boundaries
  BY <1>2
<1> HIDE DEF note
<1>4. \A c \in Conns :
         /\ pc[c] \in {"joined", "greeted"} =>
               /\ pc'[c] = pc[c] /\ told'[c] = told[c]
               /\ late'[c] = [late[c] EXCEPT ![note.user] = note.online]
         /\ pc[c] \notin {"joined", "greeted"} => late'[c] = late[c]
         /\ pc[c] = "up" =>
               \/ pc'[c] = "closing"
               \/ pc'[c] = "up" /\ told'[c] = [told[c] EXCEPT ![note.user] = note.online]
         /\ pc[c] \notin InHub => pc'[c] = pc[c]
  BY <1>1, <1>2 DEF Threads, InHub
<1>5. Retaining'
  BY <1>4 DEF Retaining, PeersInv, InHub
<1>6. /\ \A c \in Conns : pc[c] \in Storing => pc'[c] = pc[c]
      /\ pc'[Sweeper] = pc[Sweeper]
  <2>1. Sweeper \in Threads /\ Sweeper \notin slow
    BY PlayersAssumption DEF Threads, Conns, Sweeper
  <2> QED BY <1>1, <1>4, <2>1 DEF Storing, InHub
<1>7. Skipped = 0
  BY <1>1 DEF Skipped
<1>8. ASSUME NEW u \in Players PROVE Agreed(u)'
  <2>1. Now(u)' = Now(u)
    BY <1>2, NowKept
  <2>2. Owing(u) => Owing(u)'
    BY <1>2, <1>6, OwingKept
  <2> SUFFICES ASSUME ~Owing(u)'
               PROVE  /\ Says(notes, Skipped, u, Now(u))'
                      /\ About(notes, Skipped, u)' = {} => \A c \in Conns : Informed(c, u)'
    BY DEF Agreed
  <2>3. /\ Says(notes, 0, u, Now(u))
        /\ About(notes, 0, u) = {} => \A c \in Conns : Informed(c, u)
    BY <1>7, <2>2 DEF Agreed, PeersInv
  <2>4. /\ Says(notes, 1, u, Now(u))
        /\ About(notes, 1, u) = {} => IF note.user = u THEN note.online = Now(u)
                                                       ELSE About(notes, 0, u) = {}
    BY <1>2, <2>3, FirstTold DEF note
  <2>5. ASSUME About(notes, 1, u) = {}, NEW c \in Conns PROVE Informed(c, u)'
    <3>1. /\ told[c] \in Views /\ late[c] \in Views
      BY <1>2
    <3>2. CASE note.user = u
      <4>1. /\ [told[c] EXCEPT ![note.user] = note.online][u] = Now(u)
            /\ [late[c] EXCEPT ![note.user] = note.online][u] = Now(u)
        BY <2>4, <2>5, <3>1, <3>2 DEF Views
      <4>2. Now(u) # "unknown"
        BY DEF Now
      <4> QED BY <1>4, <2>1, <4>1, <4>2 DEF Informed, InHub
    <3>3. CASE note.user # u
      <4>1. /\ [told[c] EXCEPT ![note.user] = note.online][u] = told[c][u]
            /\ [late[c] EXCEPT ![note.user] = note.online][u] = late[c][u]
        BY <3>1, <3>3 DEF Views
      <4>2. Informed(c, u)
        BY <2>3, <2>4, <2>5, <3>3
      <4> QED BY <1>4, <2>1, <4>1, <4>2 DEF Informed, InHub
    <3> QED BY <3>2, <3>3
  <2>6. CASE slow = {}
    <3>1. notes' = Tail(notes) /\ Skipped' = 0
      BY <1>1, <2>6 DEF Skipped
    <3>2. /\ Says(Tail(notes), 0, u, Now(u))
          /\ About(Tail(notes), 0, u) = {} => About(notes, 1, u) = {}
      BY <1>2, <2>4, FirstDropped
    <3>3. Says(notes', Skipped', u, Now(u)')
      BY <2>1, <3>1, <3>2
    <3>4. About(notes', Skipped', u) = {} => \A c \in Conns : Informed(c, u)'
      BY <2>5, <3>1, <3>2
    <3> QED BY <3>3, <3>4
  <2>7. CASE slow # {}
    <3>1. notes' = notes /\ Skipped' = 1
      BY <1>1, <2>7 DEF Skipped
    <3>2. Says(notes', Skipped', u, Now(u)')
      BY <2>1, <2>4, <3>1
    <3>3. About(notes', Skipped', u) = {} => \A c \in Conns : Informed(c, u)'
      BY <2>5, <3>1
    <3> QED BY <3>2, <3>3
  <2> QED BY <2>6, <2>7
<1> QED BY <1>5, <1>8 DEF PeersInv

LEMMA DeliveredKeepsPeers ==
    ASSUME LockInv, DataOK, PeersInv, Delivered
    PROVE  PeersInv'
<1>1. /\ notifying # {} /\ notes' = Tail(notes) /\ notifying' = {}
      /\ UNCHANGED <<keys, pc, swept, clients>>
  BY DEF Delivered, memory
<1>2. notes \in Seq(Boundaries) /\ notes # <<>>
  BY <1>1 DEF DataOK, ClientTypes
<1>3. Skipped = 1 /\ Skipped' = 0
  BY <1>1 DEF Skipped
<1>4. pc' = pc /\ swept' = swept /\ keys' = keys
  BY <1>1
<1>5. Retaining' /\ \A u : Now(u)' = Now(u) => \A c \in Conns : Informed(c, u) => Informed(c, u)'
  BY <1>1, <1>4, ClientsKept DEF PeersInv
<1>6. ASSUME NEW u \in Players PROVE Agreed(u)'
  <2>1. Now(u)' = Now(u)
    BY <1>4, NowKept
  <2>2. Owing(u)' <=> Owing(u)
    BY <1>4 DEF Owing, OnlineIn
  <2> SUFFICES ASSUME ~Owing(u)'
               PROVE  /\ Says(notes', Skipped', u, Now(u)')
                      /\ About(notes', Skipped', u) = {} => \A c \in Conns : Informed(c, u)'
    BY DEF Agreed
  <2>3. /\ Says(notes, 1, u, Now(u))
        /\ About(notes, 1, u) = {} => \A c \in Conns : Informed(c, u)
    BY <1>3, <2>2 DEF Agreed, PeersInv
  <2>4. /\ Says(Tail(notes), 0, u, Now(u))
        /\ About(Tail(notes), 0, u) = {} => About(notes, 1, u) = {}
    BY <1>2, <2>3, FirstDropped
  <2> QED BY <1>1, <1>3, <1>5, <2>1, <2>3, <2>4
<1> QED BY <1>5, <1>6 DEF PeersInv

(* Nobody is there and nothing is on its way: at the start, and after one. *)
Quiet ==
    /\ pc = [t \in Threads |-> "none"] /\ notes = <<>>
    /\ late = [c \in Conns |-> Untold]

LEMMA QuietPeers == Quiet => PeersInv
<1> SUFFICES ASSUME Quiet PROVE PeersInv
  OBVIOUS
<1>1. /\ \A t \in Threads : pc[t] = "none"
      /\ notes = <<>> /\ \A c \in Conns : late[c] = Untold
  BY DEF Quiet
<1>2. \A u : About(notes, Skipped, u) = {}
  BY <1>1 DEF About
<1>3. \A u : \A c \in Conns : Informed(c, u)
  BY <1>1 DEF Informed, Threads
<1>4. \A u : Says(notes, Skipped, u, Now(u))
  BY <1>2 DEF Says
<1> QED BY <1>1, <1>3, <1>4 DEF PeersInv, Retaining, Agreed

LEMMA PeersStep ==
    ASSUME ~StoreFails
    PROVE  LockInv /\ DataOK /\ TimerInv /\ PeersInv /\ [PresenceNext]_presenceVars => PeersInv'
<1> SUFFICES ASSUME LockInv, DataOK, TimerInv, PeersInv, [PresenceNext]_presenceVars PROVE PeersInv'
  OBVIOUS
<1>0. Sweeper \in Threads /\ \A c \in Conns : c \in Threads
  BY DEF Threads
<1>1. ASSUME UNCHANGED <<keys, pc, queued, clients>>,
             pc[Sweeper] = "sweep_store" => swept' = swept
      PROVE  PeersInv'
  <2>1. Retaining' /\ \A u : Now(u)' = Now(u) => \A c \in Conns : Informed(c, u) => Informed(c, u)'
    BY <1>1, ClientsKept DEF PeersInv
  <2> QED BY <1>1, <2>1, QuietStep
<1>2. ASSUME NEW c \in Conns, ConnectStart(c) \/ Connection(c) \/ Touch(c) \/ ConnectionCloses(c)
      PROVE  PeersInv'
  <2>1. CASE ConnectStart(c)
    BY <1>0, <2>1, QuietThread DEF ConnectStart, memory, Labels, Storing, InHub
  <2>2. CASE ConnectAcquire(c)
    BY <1>0, <2>2, QuietThread DEF ConnectAcquire, memory, Labels, Storing, InHub
  <2>3. CASE ConnectReturn(c)
    BY <1>0, <2>3, QuietThread DEF ConnectReturn, memory, Labels, Storing, InHub
  <2>4. CASE DisconnectStart(c)
    BY <1>0, <2>4, QuietThread DEF DisconnectStart, memory, Labels, Storing, InHub
  <2>5. CASE DisconnectAcquire(c)
    BY <1>0, <2>5, QuietThread DEF DisconnectAcquire, memory, Labels, Storing, InHub
  <2>6. CASE Touch(c)
    <3>1. pc[Sweeper] # "sweep_store"
      BY <1>0, <2>6 DEF Touch, TimerInv, Owed, Emptied
    <3> QED BY <1>1, <2>6, <3>1 DEF Touch
  <2>7. ~ConnectFails(c) /\ ~DisconnectFails(c)
    BY DEF ConnectFails, DisconnectFails
  <2> QED BY <1>2, <2>1, <2>2, <2>3, <2>4, <2>5, <2>6, <2>7, RegisterKeepsPeers,
             HandshakeKeepsPeers, ConnectingKeepsPeers, DisconnectingKeepsPeers
          DEF Connection
<1>3. CASE SweepStart
  BY <1>0, <1>3, QuietThread DEF SweepStart, memory, Labels, Storing, InHub
<1>4. CASE SweepAcquire
  BY <1>0, <1>4, QuietThread DEF SweepAcquire, memory, Labels, Storing, InHub
<1>5. CASE SweepRemove \/ SweepStore
  BY <1>5, SweepingKeepsPeers
<1>6. ~SweepFails
  BY DEF SweepFails
<1>7. CASE Deliver
  BY <1>7, DeliverKeepsPeers
<1>8. CASE Delivered
  BY <1>8, DeliveredKeepsPeers
<1>9. CASE Abandon \/ MatchEnds
  BY <1>1, <1>9 DEF Abandon, MatchEnds, memory
<1>10. CASE Restart
  <2>1. Quiet'
    BY <1>10 DEF Restart, Quiet
  <2>2. Quiet' => PeersInv'
    BY QuietPeers, PTL
  <2> QED BY <2>1, <2>2
<1>11. CASE TimePasses
  BY <1>1, <1>11 DEF TimePasses
<1>12. CASE UNCHANGED presenceVars
  BY <1>1, <1>12 DEF presenceVars, memory
<1> QED BY <1>2, <1>3, <1>4, <1>5, <1>6, <1>7, <1>8, <1>9, <1>10, <1>11, <1>12 DEF PresenceNext, Sweep

LEMMA InitPeers == PresenceInit => PeersInv
BY QuietPeers DEF PresenceInit, Quiet

LEMMA InvGivesPeers == DataOK /\ PeersInv => PeersSettle
<1> SUFFICES ASSUME DataOK, PeersInv, \A c \in Conns : pc[c] \in {"none", "up"},
                    pc[Sweeper] = "none", notes = <<>>,
                    NEW c \in Conns, pc[c] = "up"
             PROVE  told[c] = View
  BY DEF PeersSettle
<1>1. \A u : ~Owing(u) /\ About(notes, Skipped, u) = {}
  BY DEF Owing, About
<1>2. \A u \in Players : told[c][u] = Now(u)
  BY <1>1 DEF PeersInv, Agreed, Informed
<1>3. told[c] \in Views
  BY DEF DataOK, ClientTypes
<1>4. \A u \in Players : View[u] = Now(u)
  BY DEF View, Now
<1>5. View \in Views
  BY ViewTypes
<1> QED BY <1>2, <1>3, <1>4, <1>5 DEF Views

(* Whenever operations and deliveries have come to rest, each client knows *)
(* who is online: whatever order connects, closes, sweeps, handshakes and  *)
(* deliveries to slow clients came in.  A durable write that fails leaves  *)
(* the map as it was and announces nothing, so a handshake in between may  *)
(* have told what then never came to be: the theorem is about writes that  *)
(* succeed (prepareNotification, playerPresenceChanged, markReady).        *)
THEOREM PeersCorrect == ASSUME ~StoreFails PROVE PresenceSpec => []PeersSettle
<1>1. PresenceSpec => []DataOK
  BY InitData, DataStep, PTL DEF PresenceSpec
<1>2. PresenceSpec => []TimerInv
  BY InitTimer, TimerStep, LockCorrect, <1>1, PTL DEF PresenceSpec
<1>3. LockInv /\ DataOK /\ TimerInv /\ PeersInv /\ [PresenceNext]_presenceVars => PeersInv'
  BY PeersStep
<1>4. PresenceSpec => []PeersInv
  BY InitPeers, <1>3, LockCorrect, <1>1, <1>2, PTL DEF PresenceSpec
<1> QED BY <1>1, <1>4, InvGivesPeers, PTL
=============================================================================
