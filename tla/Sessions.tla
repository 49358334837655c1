------------------------------ MODULE Sessions ------------------------------
(* Accounts, refresh tokens and the move of an account to another device:  *)
(* server/internal/auth and the HTTP handlers in front of it.  A request   *)
(* is authenticated in one transaction and handled in another, so anything *)
(* can commit in between.  A device is its login and its journal of a code *)
(* being redeemed; the answer to any request may be lost.  Tokens, codes   *)
(* and epochs are random, hence fresh; a code somebody was shown may be    *)
(* typed on any device.                                                    *)
EXTENDS Integers, FiniteSets

CONSTANTS
  Users, Devices, Invites,
  Peers,            \* connection sources, as the rate limit tells them apart
  None,
  Expecting,        \* account ids an interrupted move-out asks for
  Kinds,            \* the requests devices make, of RequestKinds
  AccessLife,       \* accessTokenLifetime, 15 min
  CodeLife,         \* a transfer code, 600 s
  ReceiptLife,      \* the receipt of a redeemed code, 86400 s
  Window,           \* of the rate limit, 60 s
  PeerLimit,        \* attempts per window of one peer, 30
  GlobalLimit,      \* attempts per window, 300
  MaxEpoch, MaxCodes, MaxTime   \* bounds on redemptions, codes and the clock

RequestKinds == {"publish", "fleet", "launch", "create", "cancel"}

ASSUME SessionsAssumption ==
  /\ {AccessLife, CodeLife, ReceiptLife, Window, PeerLimit, GlobalLimit} \subseteq Nat \ {0}
  /\ CodeLife <= ReceiptLife
  /\ {MaxEpoch, MaxCodes, MaxTime} \subseteq Nat
  /\ Kinds \subseteq RequestKinds
  /\ None \notin Users \cup Devices \cup Peers \cup Expecting /\ "global" \notin Peers

Epochs == 0 .. MaxEpoch
Times == 0 .. MaxTime
Codes == 1 .. MaxCodes

VARIABLES
  now,
  consumed,   \* invite_codes.consumed_by
  epoch,      \* users.auth_epoch, None before the account exists
  tokens,     \* refresh_tokens, with the epoch each was issued in
  minted,     \* how many transfer codes have been made
  codes,      \* device_transfers
  window, attempts,   \* transfer_attempts
  grants,     \* live launch tickets and resume tokens, by account and epoch
  published,  \* the epoch of the session that last wrote an account's rows
  fleet,      \* the same, for the rows of battleship
  login,      \* each device's Session
  journal,    \* each device's gamebox.transfer.incoming
  request     \* the request of a device the server is handling

limits == <<window, attempts>>
rows == <<consumed, epoch, tokens, minted, codes, grants, published, fleet>>
device == <<login, journal, request>>
vars == <<now, rows, limits, device>>

----------------------------------------------------------------------------
Logins == [user : Users, token : Epochs, epoch : Epochs, until : Int]
Journals == [code : Codes, expect : Expecting \cup {None}]
Requests == [kind : RequestKinds, user : Users, epoch : Epochs]
              \cup [kind : {"redeem"}, code : Codes, expect : Expecting \cup {None}]
Tokens == [user : Users, epoch : Epochs, created : Times, revoked : BOOLEAN]
Rows == [user : Users, expires : Int, receiver : Devices \cup {None},
         redeemed : Times, epoch : Epochs]

\* None, which stands for an absent value, is not one of the values.
ASSUME NoneAssumption ==
  None \notin Epochs /\ None \notin Logins /\ None \notin Journals
    /\ None \notin Requests /\ None \notin Rows

TypeOK ==
  /\ now \in Times
  /\ consumed \in [Invites -> Users \cup {None}]
  /\ epoch \in [Users -> Epochs \cup {None}]
  /\ tokens \subseteq Tokens
  /\ minted \in 0 .. MaxCodes
  /\ codes \in [Codes -> Rows \cup {None}]
  /\ window \in Times /\ attempts \in [Peers \cup {"global"} -> Nat]
  /\ grants \subseteq Users \X Epochs
  /\ published \in [Users -> Epochs] /\ fleet \in [Users -> Epochs]
  /\ login \in [Devices -> Logins \cup {None}]
  /\ journal \in [Devices -> Journals \cup {None}]
  /\ request \in [Devices -> Requests \cup {None}]
  /\ \A d \in Devices : login[d] # None =>
       \E t \in tokens : t.user = login[d].user /\ t.epoch = login[d].token

Init ==
  /\ now = 0
  /\ consumed = [i \in Invites |-> None] /\ epoch = [u \in Users |-> None]
  /\ tokens = {} /\ grants = {}
  /\ minted = 0 /\ codes = [k \in Codes |-> None]
  /\ window = 0 /\ attempts = [b \in Peers \cup {"global"} |-> 0]
  /\ published = [u \in Users |-> 0] /\ fleet = [u \in Users |-> 0]
  /\ login = [d \in Devices |-> None] /\ journal = [d \in Devices |-> None]
  /\ request = [d \in Devices |-> None]

\* The clock moves; expiry is decided by whoever reads it.
Tick == now < MaxTime /\ now' = now + 1 /\ UNCHANGED <<rows, limits, device>>

----------------------------------------------------------------------------
(* Logins                                                                   *)

\* newSessionAt: a session of epoch e, on the refresh token issued in t.
SessionAt(u, t, e) == [user |-> u, token |-> t, epoch |-> e, until |-> now + AccessLife]

FreshToken(u, e) == [user |-> u, epoch |-> e, created |-> now, revoked |-> FALSE]

\* RegisterAndIssue consumes the invite and issues the first token in one
\* transaction; its answer may be lost, and there is no way to ask again.
Register(d, i, u) ==
  /\ login[d] = None /\ journal[d] = None /\ request[d] = None
  /\ consumed[i] = None /\ epoch[u] = None
  /\ consumed' = [consumed EXCEPT ![i] = u]
  /\ epoch' = [epoch EXCEPT ![u] = 0]
  /\ tokens' = tokens \cup {FreshToken(u, 0)}
  /\ login' \in {login, [login EXCEPT ![d] = SessionAt(u, 0, 0)]}
  /\ UNCHANGED <<now, minted, codes, grants, published, fleet, limits, journal, request>>

TokenOf(d) == CHOOSE t \in tokens : t.user = login[d].user /\ t.epoch = login[d].token

\* A device asks again when its access token is refused.
Rejected(d) ==
  /\ login[d] # None /\ request[d] = None
  /\ now >= login[d].until \/ login[d].epoch # epoch[login[d].user]

\* Refresh: the same refresh token serves again and again, for a session of
\* the account's epoch of the day.
Refresh(d) ==
  /\ Rejected(d) /\ ~TokenOf(d).revoked
  /\ login' = [login EXCEPT ![d] = SessionAt(@.user, @.token, epoch[@.user])]
  /\ UNCHANGED <<now, rows, limits, journal, request>>

\* Refresh answers session_transferred, and the device forgets the account.
SignedOut(d) ==
  /\ Rejected(d) /\ TokenOf(d).revoked
  /\ login' = [login EXCEPT ![d] = None]
  /\ UNCHANGED <<now, rows, limits, journal, request>>

\* The middleware: Authenticate, then the identity in the request's context.
Authenticate(d, kind) ==
  /\ kind \in Kinds /\ login[d] # None /\ request[d] = None
  /\ now < login[d].until /\ login[d].epoch = epoch[login[d].user]
  /\ request' = [request EXCEPT ![d] = [kind |-> kind, user |-> login[d].user,
                                        epoch |-> login[d].epoch]]
  /\ UNCHANGED <<now, rows, limits, login, journal>>

----------------------------------------------------------------------------
(* Authenticated requests                                                   *)

Handles(d, kind) == request[d] # None /\ request[d].kind = kind

\* Mutant: the transaction trusts the middleware.
CurrentThen(r) == TRUE
\* GuardTransaction: the session is looked up again inside the transaction.
Current(r) == epoch[r.user] = r.epoch

Answered(d) == request' = [request EXCEPT ![d] = None]

\* The handler gives up: the guard, the database or the connection failed.
Fails(d) ==
  /\ request[d] # None
  /\ Answered(d)
  /\ UNCHANGED <<now, rows, limits, login, journal>>

\* scratch.Publish, and every write transaction of matches.
Publish(d) ==
  /\ Handles(d, "publish") /\ Current(request[d])
  /\ published' = [published EXCEPT ![request[d].user] = request[d].epoch]
  /\ Answered(d)
  /\ UNCHANGED <<now, consumed, epoch, tokens, minted, codes, grants, fleet,
                 limits, login, journal>>

\* battleship.Create and Act open their own transactions.
FleetWrite(d) ==
  /\ Handles(d, "fleet")
  /\ fleet' = [fleet EXCEPT ![request[d].user] = request[d].epoch]
  /\ Answered(d)
  /\ UNCHANGED <<now, consumed, epoch, tokens, minted, codes, grants, published,
                 limits, login, journal>>

\* CreateLaunchTicket; the resume token it is traded for is granted alike.
Launch(d) ==
  /\ Handles(d, "launch") /\ Current(request[d])
  /\ grants' = grants \cup {<<request[d].user, request[d].epoch>>}
  /\ Answered(d)
  /\ UNCHANGED <<now, consumed, epoch, tokens, minted, codes, published, fleet,
                 limits, login, journal>>

----------------------------------------------------------------------------
(* Transfer codes                                                           *)

Row(u) == [user |-> u, expires |-> now + CodeLife, receiver |-> None,
           redeemed |-> 0, epoch |-> 0]
Unused(r) == r # None /\ r.receiver = None

\* Mutant: a new code does not replace the one before.
StaleBeside(u, r) == r # None /\ r.expires < now - ReceiptLife
\* Mutant: receipts go with the expiry of their code.
StaleEarly(u, r) == r # None /\ ((r.user = u /\ Unused(r)) \/ r.expires <= now)
\* What createTransfer deletes: the account's unused code, old rows of anyone.
Stale(u, r) == r # None /\ ((r.user = u /\ Unused(r)) \/ r.expires < now - ReceiptLife)

\* createTransfer.
MintCode(u) ==
  /\ minted < MaxCodes
  /\ minted' = minted + 1
  /\ codes' = [k \in Codes |-> IF k = minted + 1 THEN Row(u)
                               ELSE IF Stale(u, codes[k]) THEN None ELSE codes[k]]
  /\ UNCHANGED <<now, consumed, epoch, tokens, grants, published, fleet, limits,
                 login, journal>>

CreateTransfer(d) ==
  /\ Handles(d, "create") /\ Current(request[d])
  /\ MintCode(request[d].user)
  /\ Answered(d)

\* gameboxctl recovery create: no session is asked for.
CreateRecovery(u) == epoch[u] # None /\ MintCode(u) /\ UNCHANGED request

\* CancelTransfer; a session that is not current cancels nothing.
CancelTransfer(d) ==
  /\ Handles(d, "cancel") /\ Current(request[d])
  /\ codes' = [k \in Codes |-> IF Unused(codes[k]) /\ codes[k].user = request[d].user
                               THEN None ELSE codes[k]]
  /\ Answered(d)
  /\ UNCHANGED <<now, consumed, epoch, tokens, minted, grants, published, fleet,
                 limits, login, journal>>

----------------------------------------------------------------------------
(* Redeeming                                                                *)

\* A code is typed on a device that is signed out: DeviceTransfer.receive
\* writes the journal before it asks.
EnterCode(d, k, expect) ==
  /\ login[d] = None /\ journal[d] = None /\ request[d] = None /\ k <= minted
  /\ journal' = [journal EXCEPT ![d] = [code |-> k, expect |-> expect]]
  /\ UNCHANGED <<now, rows, limits, login, request>>

\* Rows of other windows are deleted first.
Counts == IF now \div Window = window THEN attempts
                                      ELSE [b \in DOMAIN attempts |-> 0]

\* Mutant: the global budget is charged whoever asks.
CountedAll(p) == [Counts EXCEPT ![p] = @ + 1, !["global"] = @ + 1]
\* One more attempt of p; past its own limit it does not use the global one.
Counted(p) == IF Counts[p] + 1 > PeerLimit
              THEN [Counts EXCEPT ![p] = @ + 1]
              ELSE [Counts EXCEPT ![p] = @ + 1, !["global"] = @ + 1]
Limited(p) == Counted(p)[p] > PeerLimit \/ Counted(p)["global"] > GlobalLimit

\* transferAttempt commits before the code is looked at.  The bound on the
\* counts is the model's: past it an attempt changes nothing but the count.
Attempt(d, p) ==
  /\ journal[d] # None /\ request[d] = None
  /\ Counts[p] <= PeerLimit /\ Counts["global"] <= GlobalLimit
  /\ window' = now \div Window
  /\ attempts' = Counted(p)
  /\ request' = IF Limited(p) THEN request
                ELSE [request EXCEPT ![d] = [kind |-> "redeem", code |-> journal[d].code,
                                             expect |-> journal[d].expect]]
  /\ UNCHANGED <<now, rows, login, journal>>

\* The row RedeemTransferForUser finds, for the account it is asked for.
Found(d) ==
  LET r == codes[request[d].code] IN
  /\ r # None
  /\ request[d].expect \in {None, r.user}

\* Mutant: any receiver is answered from the receipt.
ReplayableToAnyone(d) ==
  LET r == codes[request[d].code] IN
  /\ Found(d) /\ r.receiver # None
  /\ now < r.redeemed + ReceiptLife /\ epoch[r.user] = r.epoch
\* A receipt answers the device it was made for, while it is young and
\* nothing has replaced the session it holds.
Replayable(d) ==
  LET r == codes[request[d].code] IN
  /\ Found(d) /\ r.receiver = d
  /\ now < r.redeemed + ReceiptLife /\ epoch[r.user] = r.epoch
  /\ \E t \in tokens : t.user = r.user /\ t.epoch = r.epoch /\ ~t.revoked

\* Mutant: a code is good until it expires, used or not.
RedeemableAgain(d) ==
  Found(d) /\ now < codes[request[d].code].expires
Redeemable(d) ==
  Found(d) /\ codes[request[d].code].receiver = None /\ now < codes[request[d].code].expires

\* The answer reaches the device, which clears its journal, or is lost.
LogsIn(d, u, e) ==
  \/ /\ login' = [login EXCEPT ![d] = SessionAt(u, e, e)]
     /\ journal' = [journal EXCEPT ![d] = None]
  \/ UNCHANGED <<login, journal>>

\* Mutant: they are deleted, and their devices no longer learn why.
RevokedDeleted(u) == {t \in tokens : t.user # u}
\* Mutant: the refresh tokens of older sessions stay.
RevokedNone(u) == tokens
Revoked(u) == {IF t.user = u THEN [t EXCEPT !.revoked = TRUE] ELSE t : t \in tokens}

\* Mutant: tickets and resume tokens stay.
GrantsKept(u) == grants
GrantsWithout(u) == {g \in grants : g[1] # u}

\* The first redemption: one transaction ends every older session and
\* credential of the account, issues the new session and keeps the receipt.
Redeem(d) ==
  /\ Handles(d, "redeem") /\ Redeemable(d)
  /\ LET k == request[d].code
         u == codes[k].user
         e == epoch[u] + 1
     IN /\ e \in Epochs
        /\ epoch' = [epoch EXCEPT ![u] = e]
        /\ tokens' = Revoked(u) \cup {FreshToken(u, e)}
        /\ grants' = GrantsWithout(u)
        /\ codes' = [c \in Codes |->
             CASE c = k -> [codes[k] EXCEPT !.receiver = d, !.redeemed = now, !.epoch = e]
               [] c # k /\ codes[c] # None /\ codes[c].user = u -> None
               [] OTHER -> codes[c]]
        /\ LogsIn(d, u, e)
  /\ Answered(d)
  /\ UNCHANGED <<now, consumed, minted, published, fleet, limits>>

\* A retry is answered from the receipt, with the token it already holds.
Replay(d) ==
  /\ Handles(d, "redeem") /\ Replayable(d)
  /\ LET r == codes[request[d].code] IN LogsIn(d, r.user, r.epoch)
  /\ Answered(d)
  /\ UNCHANGED <<now, rows, limits>>

\* transfer_invalid: the device gives the code up, if the answer reaches it.
Refuse(d) ==
  /\ Handles(d, "redeem") /\ ~Redeemable(d) /\ ~Replayable(d)
  /\ journal' \in {journal, [journal EXCEPT ![d] = None]}
  /\ Answered(d)
  /\ UNCHANGED <<now, rows, limits, login>>

----------------------------------------------------------------------------
Handle(d) == Publish(d) \/ FleetWrite(d) \/ Launch(d) \/ CreateTransfer(d)
               \/ CancelTransfer(d) \/ Redeem(d) \/ Replay(d) \/ Refuse(d) \/ Fails(d)

Next ==
  \/ Tick
  \/ \E u \in Users : CreateRecovery(u)
  \/ \E d \in Devices :
       \/ Handle(d) \/ Refresh(d) \/ SignedOut(d)
       \/ \E kind \in Kinds : Authenticate(d, kind)
       \/ \E i \in Invites, u \in Users : Register(d, i, u)
       \/ \E k \in Codes, e \in Expecting \cup {None} : EnterCode(d, k, e)
       \/ \E p \in Peers : Attempt(d, p)

Spec == Init /\ [][Next]_vars

----------------------------------------------------------------------------
(* Properties                                                               *)

\* An account has one live refresh token, of its current epoch: whatever is
\* refreshed, redeemed, retried or lost, older sessions cannot come back
\* (transfer.go:191-202, session.go:123-203).
OneLiveToken ==
  \A u \in Users : epoch[u] # None =>
    {t \in tokens : t.user = u /\ ~t.revoked}
      \in {{[user |-> u, epoch |-> epoch[u], created |-> c, revoked |-> FALSE]} : c \in Times}

\* No two devices are signed in to the same session: a code, a receipt or a
\* refresh never hands one device what another has.
OneDevicePerSession ==
  \A d, e \in Devices : d # e /\ login[d] # None /\ login[e] # None
    /\ login[d].user = login[e].user => login[d].epoch # login[e].epoch

\* A device whose answer was lost can still ask: while the session a transfer
\* made is young and current, its receipt is there, whatever codes have been
\* made since (transfer.go:91-94).
ReceiptKept ==
  \A t \in tokens : t.epoch # 0 /\ ~t.revoked /\ now < t.created + ReceiptLife =>
    \E k \in Codes : /\ codes[k] # None /\ codes[k].receiver # None
                     /\ codes[k].user = t.user /\ codes[k].epoch = t.epoch
                     /\ now < codes[k].redeemed + ReceiptLife

\* "One outstanding code per account" (transfer.go:91).
OneCodePerAccount ==
  \A k, c \in Codes : Unused(codes[k]) /\ Unused(codes[c])
    /\ codes[k].user = codes[c].user => k = c

\* Tickets and resume tokens do not survive a transfer, not even one that is
\* being issued while the transfer commits.
GrantsAreCurrent == \A g \in grants : g[2] = epoch[g[1]]

\* An account has one session, of one device, and everything that gives
\* access to the account is of that session (RedeemTransferForUser).
OneSession == OneLiveToken /\ OneDevicePerSession /\ GrantsAreCurrent

\* Making a code clears away exactly what nobody waits for (createTransfer):
\* the unused code before it, and no receipt a device may still ask for.
CodesKept == OneCodePerAccount /\ ReceiptKept

\* The global count is what the peers used within their own limits, each
\* peer's first, second ... attempt of the window (transfer.go:241).
Admitted(a) == {x \in Peers \X (1 .. PeerLimit) : x[2] <= a[x[1]]}
GlobalCountsAdmitted == attempts["global"] = Cardinality(Admitted(attempts))

\* A code is redeemed for one device, once (transfer.go:105).
RedeemedOnce ==
  [][\A k \in Codes : codes[k] # None /\ codes[k].receiver # None
       => codes'[k] \in {codes[k], None}]_vars

\* A session that has been replaced never overwrites what the session after
\* it wrote ("HTTP write transactions check again",
\* docs/specs/2026-09-16-device-transfer.md:17).
OldSessionsDoNotWrite == [][\A u \in Users : published'[u] >= published[u]]_vars

\* The same of battleship.
OldFleetsDoNotWrite == [][\A u \in Users : fleet'[u] >= fleet[u]]_vars
=============================================================================
