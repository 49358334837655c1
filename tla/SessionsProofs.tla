--------------------------- MODULE SessionsProofs ---------------------------
(* Theorems about Sessions for any accounts, devices, codes, lifetimes and *)
(* limits: an account has one session, of one device; a receipt is kept    *)
(* for whoever may still ask for it; old sessions do not write; the global *)
(* rate limit is spent by admitted attempts only.                          *)
EXTENDS Sessions, FiniteSetTheorems, TLAPS

Received(r) == r # None /\ r.receiver # None

(* What there is of an account is of an epoch it has reached, and codes    *)
(* that have not been made are not there.                                  *)
TokensReached == \A t \in tokens : epoch[t.user] # None /\ t.epoch <= epoch[t.user]
CodesReached ==
  \A k \in Codes : codes[k] # None =>
    /\ epoch[codes[k].user] # None
    /\ k <= minted
    /\ codes[k].receiver # None =>
         codes[k].epoch <= epoch[codes[k].user] /\ codes[k].redeemed < codes[k].expires
LoginsReached ==
  \A d \in Devices : login[d] # None =>
    /\ epoch[login[d].user] # None
    /\ login[d].epoch <= epoch[login[d].user]
    /\ login[d].token = login[d].epoch

(* OneLiveToken, element by element.                                       *)
LiveIsCurrent == \A t \in tokens : ~t.revoked => t.epoch = epoch[t.user]
LiveIsUnique ==
  \A s, t \in tokens : s.user = t.user /\ ~s.revoked /\ ~t.revoked => s = t
LiveExists ==
  \A u \in Users : epoch[u] # None => \E t \in tokens : t.user = u /\ ~t.revoked

(* A receipt is of the device that is signed in to its session, and of the *)
(* account's last redemption.                                              *)
ReceiptsMatch ==
  \A k \in Codes, d \in Devices :
    Received(codes[k]) /\ login[d] # None /\ login[d].user = codes[k].user
      /\ login[d].epoch = codes[k].epoch => codes[k].receiver = d
OneReceipt ==
  \A k, c \in Codes :
    Received(codes[k]) /\ Received(codes[c]) /\ codes[k].user = codes[c].user => k = c

(* ReceiptKept, with the moment the receipt was made.                      *)
ReceiptsKept ==
  \A t \in tokens : t.epoch # 0 /\ ~t.revoked /\ now < t.created + ReceiptLife =>
    \E k \in Codes : /\ Received(codes[k])
                     /\ codes[k].user = t.user /\ codes[k].epoch = t.epoch
                     /\ codes[k].redeemed = t.created

Written == \A u \in Users : published[u] = 0 \/ (epoch[u] # None /\ published[u] <= epoch[u])

Reached == TokensReached /\ CodesReached /\ LoginsReached
Live == LiveIsCurrent /\ LiveIsUnique /\ LiveExists
Receipts == ReceiptsMatch /\ OneReceipt /\ OneDevicePerSession

SessionInv == TypeOK /\ Reached /\ Live /\ Receipts /\ GrantsAreCurrent
CodesInv == OneCodePerAccount /\ ReceiptsKept

-----------------------------------------------------------------------------
LEMMA Numbers ==
  /\ Epochs \subseteq Nat /\ Times \subseteq Nat /\ Codes \subseteq Nat
  /\ 0 \in Epochs /\ 0 \in Times
  /\ AccessLife \in Nat /\ AccessLife > 0 /\ CodeLife \in Nat /\ CodeLife > 0
  /\ ReceiptLife \in Nat /\ Window \in Nat /\ Window > 0
  /\ MaxEpoch \in Nat /\ MaxCodes \in Nat /\ MaxTime \in Nat
BY SessionsAssumption DEF Epochs, Times, Codes

LEMMA FreshTyped ==
  ASSUME TypeOK, NEW u \in Users, NEW e \in Epochs
  PROVE  FreshToken(u, e) \in Tokens /\ FreshToken(u, e).user = u
           /\ FreshToken(u, e).epoch = e /\ ~FreshToken(u, e).revoked
           /\ FreshToken(u, e).created = now
BY DEF FreshToken, Tokens, TypeOK

LEMMA SessionTyped ==
  ASSUME TypeOK, NEW u \in Users, NEW t \in Epochs, NEW e \in Epochs
  PROVE  SessionAt(u, t, e) \in Logins /\ SessionAt(u, t, e) # None
           /\ SessionAt(u, t, e).user = u /\ SessionAt(u, t, e).token = t
           /\ SessionAt(u, t, e).epoch = e
<1>1. SessionAt(u, t, e) \in Logins
  BY Numbers DEF SessionAt, Logins, TypeOK
<1> QED BY <1>1, NoneAssumption DEF SessionAt

LEMMA RowTyped ==
  ASSUME TypeOK, NEW u \in Users
  PROVE  Row(u) \in Rows /\ Row(u) # None /\ Row(u).user = u /\ Row(u).receiver = None
<1>1. Row(u) \in Rows
  BY Numbers DEF Row, Rows, TypeOK
<1> QED BY <1>1, NoneAssumption DEF Row

(* Revoked: the account's tokens are all revoked, the others are as before. *)
LEMMA RevokedIs ==
  ASSUME TypeOK, NEW u \in Users
  PROVE  /\ Revoked(u) \subseteq Tokens
         /\ \A s \in Revoked(u) : s.user = u => s.revoked
         /\ \A s \in Revoked(u) : s.user # u => s \in tokens
         /\ \A t \in tokens : t.user # u => t \in Revoked(u)
         /\ \A t \in tokens : \E s \in Revoked(u) : s.user = t.user /\ s.epoch = t.epoch
         /\ \A s \in Revoked(u) : \E t \in tokens : s.user = t.user /\ s.epoch = t.epoch
<1> DEFINE To(t) == IF t.user = u THEN [t EXCEPT !.revoked = TRUE] ELSE t
<1>1. \A t \in tokens : /\ To(t) \in Tokens /\ To(t).user = t.user /\ To(t).epoch = t.epoch
                        /\ t.user = u => To(t).revoked
                        /\ t.user # u => To(t) = t
  BY DEF TypeOK, Tokens
<1>2. Revoked(u) = {To(t) : t \in tokens}
  BY DEF Revoked
<1> HIDE DEF To
<1>3. \A t \in tokens : To(t) \in Revoked(u)
  BY <1>2
<1>4. ASSUME NEW s \in Revoked(u) PROVE \E t \in tokens : s = To(t)
  BY <1>2
<1>5. Revoked(u) \subseteq Tokens
  BY <1>1, <1>4
<1>6. \A s \in Revoked(u) : s.user = u => s.revoked
  BY <1>1, <1>4
<1>7. \A s \in Revoked(u) : s.user # u => s \in tokens
  BY <1>1, <1>4
<1>8. \A t \in tokens : t.user # u => t \in Revoked(u)
  BY <1>1, <1>3
<1>9. \A t \in tokens : \E s \in Revoked(u) : s.user = t.user /\ s.epoch = t.epoch
  BY <1>1, <1>3
<1>10. \A s \in Revoked(u) : \E t \in tokens : s.user = t.user /\ s.epoch = t.epoch
  BY <1>1, <1>4
<1> QED BY <1>5, <1>6, <1>7, <1>8, <1>9, <1>10

LEMMA LoginTyped ==
  ASSUME TypeOK, NEW d \in Devices, login[d] # None
  PROVE  /\ login[d].user \in Users /\ login[d].token \in Epochs /\ login[d].epoch \in Epochs
         /\ \E t \in tokens : t.user = login[d].user /\ t.epoch = login[d].token
BY DEF TypeOK, Logins

LEMMA CodeTyped ==
  ASSUME TypeOK, NEW k \in Codes, codes[k] # None
  PROVE  /\ codes[k] \in Rows /\ codes[k].user \in Users /\ codes[k].epoch \in Epochs
         /\ codes[k].expires \in Int /\ codes[k].redeemed \in Times
         /\ codes[k].receiver \in Devices \cup {None}
BY DEF TypeOK, Rows

LEMMA RequestTyped ==
  ASSUME TypeOK, NEW d \in Devices, NEW kind, Handles(d, kind)
  PROVE  /\ kind \in RequestKinds => request[d].user \in Users /\ request[d].epoch \in Epochs
         /\ kind = "redeem" => request[d].code \in Codes
<1>1. request[d] \in Requests
  BY DEF TypeOK, Handles
<1>2. request[d].kind = kind
  BY DEF Handles
<1> QED BY <1>1, <1>2 DEF Requests, RequestKinds

-----------------------------------------------------------------------------
(* Steps that change no account, token, code or login.                     *)

accounts == <<epoch, tokens, minted, codes, grants, login>>

LEMMA AccountsUntouched ==
  ASSUME SessionInv, TypeOK', UNCHANGED accounts
  PROVE  SessionInv'
BY DEF SessionInv, accounts, Reached, Live, Receipts, TokensReached, CodesReached,
       LoginsReached, LiveIsCurrent, LiveIsUnique, LiveExists, ReceiptsMatch, OneReceipt,
       OneDevicePerSession, GrantsAreCurrent, Received

LEMMA TickKeeps == ASSUME SessionInv, Tick PROVE SessionInv'
<1>1. TypeOK'
  BY Numbers DEF SessionInv, TypeOK, Tick, rows, limits, device, Times, Tokens, Rows
<1> QED BY <1>1, AccountsUntouched DEF Tick, rows, device, accounts

LEMMA AuthenticateKeeps ==
  ASSUME SessionInv, NEW d \in Devices, NEW kind \in Kinds, Authenticate(d, kind)
  PROVE  SessionInv'
<1> DEFINE r == [kind |-> kind, user |-> login[d].user, epoch |-> login[d].epoch]
<1>1. r \in Requests
  BY LoginTyped, SessionsAssumption DEF Authenticate, SessionInv, Requests
<1>2. request' = [request EXCEPT ![d] = r] /\ UNCHANGED <<now, rows, limits, login, journal>>
  BY DEF Authenticate
<1> HIDE DEF r
<1>3. TypeOK'
  BY <1>1, <1>2 DEF SessionInv, TypeOK, rows, limits
<1> QED BY <1>2, <1>3, AccountsUntouched DEF rows, accounts

LEMMA AnsweredKeeps ==
  ASSUME SessionInv, NEW d \in Devices, Answered(d), UNCHANGED <<now, consumed, accounts, limits>>,
         published' \in [Users -> Epochs], fleet' \in [Users -> Epochs],
         journal' \in [Devices -> Journals \cup {None}]
  PROVE  SessionInv'
<1>1. TypeOK'
  BY DEF SessionInv, TypeOK, Answered, accounts, limits
<1> QED BY <1>1, AccountsUntouched

LEMMA AnswersKeep ==
  ASSUME SessionInv, NEW d \in Devices, Fails(d) \/ Publish(d) \/ FleetWrite(d) \/ Refuse(d)
  PROVE  SessionInv'
<1>1. /\ Answered(d) /\ UNCHANGED <<now, consumed, accounts, limits>>
  BY DEF Fails, Publish, FleetWrite, Refuse, rows, accounts
<1>2. published' \in [Users -> Epochs]
  <2>1. CASE Publish(d)
    BY <2>1, RequestTyped DEF Publish, SessionInv, TypeOK, RequestKinds
  <2> QED BY <2>1 DEF Fails, FleetWrite, Refuse, rows, SessionInv, TypeOK
<1>3. fleet' \in [Users -> Epochs]
  <2>1. CASE FleetWrite(d)
    BY <2>1, RequestTyped DEF FleetWrite, SessionInv, TypeOK, RequestKinds
  <2> QED BY <2>1 DEF Fails, Publish, Refuse, rows, SessionInv, TypeOK
<1>4. journal' \in [Devices -> Journals \cup {None}]
  BY DEF Fails, Publish, FleetWrite, Refuse, SessionInv, TypeOK
<1> QED BY <1>1, <1>2, <1>3, <1>4, AnsweredKeeps

LEMMA EnterCodeKeeps ==
  ASSUME SessionInv, NEW d \in Devices, NEW k \in Codes, NEW x \in Expecting \cup {None},
         EnterCode(d, k, x)
  PROVE  SessionInv'
<1>1. TypeOK'
  BY DEF SessionInv, TypeOK, EnterCode, rows, limits, Journals
<1> QED BY <1>1, AccountsUntouched DEF EnterCode, rows, accounts

LEMMA AttemptKeeps ==
  ASSUME SessionInv, NEW d \in Devices, NEW p \in Peers, Attempt(d, p)
  PROVE  SessionInv'
<1>1. now \div Window \in Times
  <2>1. now \in Nat /\ now <= MaxTime /\ Window \in Nat /\ Window > 0
    BY Numbers DEF SessionInv, TypeOK, Times
  <2>2. now \div Window \in Nat /\ now \div Window <= now
    BY <2>1, SMTT(30)
  <2> QED BY <2>1, <2>2, Numbers DEF Times
<1>2. attempts' \in [Peers \cup {"global"} -> Nat]
  BY DEF Attempt, Counted, Counts, SessionInv, TypeOK
<1>3. request' \in [Devices -> Requests \cup {None}]
  BY DEF Attempt, SessionInv, TypeOK, Requests, Journals
<1>4. TypeOK'
  BY <1>1, <1>2, <1>3 DEF Attempt, SessionInv, TypeOK, rows
<1> QED BY <1>4, AccountsUntouched DEF Attempt, rows, accounts

-----------------------------------------------------------------------------
(* Logins.                                                                 *)

\* The epoch a device refreshes to is the one it has: its token is live.
LEMMA RefreshGivesTheSame ==
  ASSUME SessionInv, NEW d \in Devices, Refresh(d)
  PROVE  /\ login[d] # None /\ login[d].epoch = epoch[login[d].user]
         /\ login' = [login EXCEPT ![d] = SessionAt(login[d].user, login[d].token, login[d].epoch)]
         /\ UNCHANGED <<now, rows, limits, journal, request>>
<1>1. login[d] # None /\ ~TokenOf(d).revoked
  BY DEF Refresh, Rejected
<1>2. TokenOf(d) \in tokens /\ TokenOf(d).user = login[d].user /\ TokenOf(d).epoch = login[d].token
  BY <1>1, LoginTyped DEF TokenOf, SessionInv
<1>3. login[d].token = epoch[login[d].user]
  BY <1>1, <1>2 DEF SessionInv, Live, LiveIsCurrent
<1>4. login[d].epoch = epoch[login[d].user]
  BY <1>1, <1>3 DEF SessionInv, Reached, LoginsReached
<1> QED BY <1>1, <1>4 DEF Refresh

LEMMA RefreshKeeps ==
  ASSUME SessionInv, NEW d \in Devices, Refresh(d)
  PROVE  SessionInv'
<1> DEFINE s == SessionAt(login[d].user, login[d].token, login[d].epoch)
<1>1. /\ login[d] # None /\ login' = [login EXCEPT ![d] = s]
      /\ UNCHANGED <<now, rows, limits, journal, request>>
  BY RefreshGivesTheSame
<1>2. /\ s \in Logins /\ s # None /\ s.user = login[d].user
      /\ s.token = login[d].token /\ s.epoch = login[d].epoch
  BY <1>1, LoginTyped, SessionTyped DEF SessionInv
<1> HIDE DEF s
<1>3. TypeOK'
  BY <1>1, <1>2 DEF SessionInv, TypeOK, rows, limits
<1>4. Reached'
  BY <1>1, <1>2 DEF SessionInv, TypeOK, Reached, TokensReached, CodesReached, LoginsReached, rows
<1>5. Live' /\ GrantsAreCurrent'
  BY <1>1 DEF SessionInv, Live, LiveIsCurrent, LiveIsUnique, LiveExists, GrantsAreCurrent, rows
<1>6. Receipts'
  BY <1>1, <1>2 DEF SessionInv, TypeOK, Receipts, ReceiptsMatch, OneReceipt, Received,
                    OneDevicePerSession, rows
<1> QED BY <1>3, <1>4, <1>5, <1>6 DEF SessionInv

LEMMA SignedOutKeeps ==
  ASSUME SessionInv, NEW d \in Devices, SignedOut(d)
  PROVE  SessionInv'
<1>1. login' = [login EXCEPT ![d] = None] /\ UNCHANGED <<now, rows, limits, journal, request>>
  BY DEF SignedOut
<1>3. TypeOK'
  BY <1>1 DEF SessionInv, TypeOK, rows, limits
<1>4. Reached'
  BY <1>1 DEF SessionInv, TypeOK, Reached, TokensReached, CodesReached, LoginsReached, rows
<1>5. Live' /\ GrantsAreCurrent'
  BY <1>1 DEF SessionInv, Live, LiveIsCurrent, LiveIsUnique, LiveExists, GrantsAreCurrent, rows
<1>6. Receipts'
  BY <1>1 DEF SessionInv, TypeOK, Receipts, ReceiptsMatch, OneReceipt, Received,
              OneDevicePerSession, rows
<1> QED BY <1>3, <1>4, <1>5, <1>6 DEF SessionInv

\* Before the account exists nothing is of it.
LEMMA NothingBefore ==
  ASSUME SessionInv, NEW u \in Users, epoch[u] = None
  PROVE  /\ \A t \in tokens : t.user # u
         /\ \A k \in Codes : codes[k] # None => codes[k].user # u
         /\ \A d \in Devices : login[d] # None => login[d].user # u
         /\ \A g \in grants : g[1] # u
<1>1. \A g \in grants : g[1] # u
  BY NoneAssumption DEF SessionInv, TypeOK, GrantsAreCurrent
<1> QED BY <1>1 DEF SessionInv, Reached, TokensReached, CodesReached, LoginsReached

LEMMA RegisterKeeps ==
  ASSUME SessionInv, NEW d \in Devices, NEW i \in Invites, NEW u \in Users, Register(d, i, u)
  PROVE  SessionInv'
<1> DEFINE f == FreshToken(u, 0)
           s == SessionAt(u, 0, 0)
<1>1. /\ login[d] = None /\ epoch[u] = None
      /\ consumed' = [consumed EXCEPT ![i] = u] /\ epoch' = [epoch EXCEPT ![u] = 0]
      /\ tokens' = tokens \cup {f} /\ (login' = login \/ login' = [login EXCEPT ![d] = s])
      /\ UNCHANGED <<now, minted, codes, grants, published, fleet, limits, journal, request>>
  BY DEF Register
<1>2. f \in Tokens /\ f.user = u /\ f.epoch = 0 /\ ~f.revoked
  BY FreshTyped, Numbers DEF SessionInv
<1>3. s \in Logins /\ s # None /\ s.user = u /\ s.token = 0 /\ s.epoch = 0
  BY SessionTyped, Numbers DEF SessionInv
<1>4. 0 \in Epochs /\ 0 # None
  BY Numbers, NoneAssumption
<1> HIDE DEF f, s
<1>5. TypeOK'
  <2>1. login' \in [Devices -> Logins \cup {None}]
    BY <1>1, <1>3 DEF SessionInv, TypeOK
  <2>2. \A e \in Devices : login'[e] # None =>
          \E t \in tokens' : t.user = login'[e].user /\ t.epoch = login'[e].token
    BY <1>1, <1>2, <1>3 DEF SessionInv, TypeOK
  <2> QED BY <1>1, <1>2, <1>4, <2>1, <2>2 DEF SessionInv, TypeOK, limits
<1>6. TokensReached'
  BY <1>1, <1>2, <1>4, NothingBefore DEF SessionInv, TypeOK, Reached, TokensReached, Tokens
<1>7. CodesReached'
  BY <1>1, NothingBefore, CodeTyped, <1>4 DEF SessionInv, TypeOK, Reached, CodesReached
<1>8. LoginsReached'
  BY <1>1, <1>3, <1>4, NothingBefore, LoginTyped DEF SessionInv, TypeOK, Reached, LoginsReached
<1>9. LiveIsCurrent' /\ LiveIsUnique'
  BY <1>1, <1>2, NothingBefore DEF SessionInv, TypeOK, Live, LiveIsCurrent, LiveIsUnique, Tokens
<1>10. LiveExists'
  BY <1>1, <1>2 DEF SessionInv, TypeOK, Live, LiveExists
<1>11. Receipts'
  BY <1>1, <1>3, NothingBefore DEF SessionInv, TypeOK, Receipts, ReceiptsMatch, OneReceipt,
                                   Received, OneDevicePerSession
<1>12. GrantsAreCurrent'
  BY <1>1, NothingBefore DEF SessionInv, TypeOK, GrantsAreCurrent
<1> QED BY <1>5, <1>6, <1>7, <1>8, <1>9, <1>10, <1>11, <1>12 DEF SessionInv, Reached, Live

\* A ticket is issued for a session that is current when it is written.
LEMMA LaunchKeeps ==
  ASSUME SessionInv, NEW d \in Devices, Launch(d)
  PROVE  SessionInv'
<1>1. request[d].user \in Users /\ request[d].epoch \in Epochs
  BY RequestTyped DEF Launch, RequestKinds, SessionInv
<1>2. /\ epoch[request[d].user] = request[d].epoch
      /\ grants' = grants \cup {<<request[d].user, request[d].epoch>>}
      /\ request' = [request EXCEPT ![d] = None]
      /\ UNCHANGED <<now, consumed, epoch, tokens, minted, codes, published, fleet,
                     limits, login, journal>>
  BY DEF Launch, Answered, Current
<1>3. TypeOK'
  BY <1>1, <1>2 DEF SessionInv, TypeOK, limits
<1>4. GrantsAreCurrent'
  BY <1>2 DEF SessionInv, GrantsAreCurrent
<1> QED BY <1>2, <1>3, <1>4
     DEF SessionInv, Reached, Live, Receipts, TokensReached, CodesReached,
         LoginsReached, LiveIsCurrent, LiveIsUnique, LiveExists, ReceiptsMatch, OneReceipt,
         OneDevicePerSession, Received

-----------------------------------------------------------------------------
(* Codes.                                                                  *)

\* Codes go away: whatever is left is as it was.
LEMMA FewerCodes ==
  ASSUME SessionInv, TypeOK', UNCHANGED <<now, epoch, tokens, minted, grants, login>>,
         \A k \in Codes : codes'[k] \in {codes[k], None}
  PROVE  SessionInv'
<1>1. Reached'
  BY DEF SessionInv, Reached, TokensReached, CodesReached, LoginsReached
<1>2. Live' /\ GrantsAreCurrent'
  BY DEF SessionInv, Live, LiveIsCurrent, LiveIsUnique, LiveExists, GrantsAreCurrent
<1>3. Receipts'
  BY DEF SessionInv, Receipts, ReceiptsMatch, OneReceipt, Received, OneDevicePerSession
<1> QED BY <1>1, <1>2, <1>3 DEF SessionInv

LEMMA CancelKeeps ==
  ASSUME SessionInv, NEW d \in Devices, CancelTransfer(d)
  PROVE  SessionInv'
<1>1. \A k \in Codes : codes'[k] \in {codes[k], None}
  BY DEF CancelTransfer
<1>2. TypeOK'
  <2>1. codes' \in [Codes -> Rows \cup {None}]
    BY DEF CancelTransfer, SessionInv, TypeOK
  <2> QED BY <2>1 DEF CancelTransfer, Answered, SessionInv, TypeOK, limits
<1> QED BY <1>1, <1>2, FewerCodes DEF CancelTransfer

\* The code that is made is the next one, and nobody has it yet.
LEMMA MintIs ==
  ASSUME SessionInv, NEW u \in Users, MintCode(u)
  PROVE  /\ minted + 1 \in Codes /\ codes[minted + 1] = None /\ codes'[minted + 1] = Row(u)
         /\ \A k \in Codes \ {minted + 1} :
              codes'[k] = IF Stale(u, codes[k]) THEN None ELSE codes[k]
         /\ codes' \in [Codes -> Rows \cup {None}]
         /\ minted' = minted + 1 /\ minted' \in 0 .. MaxCodes
         /\ UNCHANGED <<now, consumed, epoch, tokens, grants, published, fleet, limits,
                        login, journal>>
<1>1. minted + 1 \in Codes /\ minted + 1 \in 0 .. MaxCodes
  BY Numbers DEF SessionInv, TypeOK, MintCode, Codes
<1>2. ~(minted + 1 <= minted)
  BY Numbers DEF SessionInv, TypeOK
<1>3. codes[minted + 1] = None
  BY <1>1, <1>2 DEF SessionInv, Reached, CodesReached
<1> QED BY <1>1, <1>3, RowTyped DEF MintCode, SessionInv, TypeOK

LEMMA MintKeeps ==
  ASSUME SessionInv, NEW u \in Users, epoch[u] # None, MintCode(u),
         request' \in [Devices -> Requests \cup {None}]
  PROVE  SessionInv'
<1>1. TypeOK'
  BY MintIs DEF SessionInv, TypeOK, limits
<1>2. CodesReached'
  <2> SUFFICES ASSUME NEW k \in Codes, codes'[k] # None
               PROVE  /\ epoch[codes'[k].user] # None /\ k <= minted + 1
                      /\ codes'[k].receiver # None =>
                           /\ codes'[k].epoch <= epoch[codes'[k].user]
                           /\ codes'[k].redeemed < codes'[k].expires
    BY MintIs DEF CodesReached
  <2>1. CASE k = minted + 1
    BY <2>1, MintIs, RowTyped, Numbers DEF SessionInv, TypeOK
  <2>2. CASE k # minted + 1
    <3>1. codes'[k] = codes[k] /\ codes[k] # None
      BY <2>2, MintIs
    <3> QED BY <3>1, Numbers DEF SessionInv, TypeOK, Reached, CodesReached
  <2> QED BY <2>1, <2>2
<1>3. TokensReached' /\ LoginsReached'
  BY MintIs DEF SessionInv, Reached, TokensReached, LoginsReached
<1>4. Live' /\ GrantsAreCurrent'
  BY MintIs DEF SessionInv, Live, LiveIsCurrent, LiveIsUnique, LiveExists, GrantsAreCurrent
<1>5. Receipts'
  <2>1. \A k \in Codes : Received(codes'[k]) => codes'[k] = codes[k]
    BY MintIs, RowTyped DEF Received, SessionInv
  <2>2. login' = login
    BY MintIs
  <2> QED BY <2>1, <2>2
       DEF SessionInv, Receipts, ReceiptsMatch, OneReceipt, OneDevicePerSession
<1> QED BY <1>1, <1>2, <1>3, <1>4, <1>5 DEF SessionInv, Reached

LEMMA CreateTransferMints ==
  ASSUME SessionInv, NEW d \in Devices, CreateTransfer(d)
  PROVE  /\ request[d].user \in Users /\ epoch[request[d].user] # None
         /\ MintCode(request[d].user)
         /\ request' \in [Devices -> Requests \cup {None}]
<1>1. request[d].user \in Users /\ request[d].epoch \in Epochs
  BY RequestTyped DEF CreateTransfer, RequestKinds, SessionInv
<1>2. epoch[request[d].user] # None
  BY <1>1, NoneAssumption DEF CreateTransfer, Current
<1> QED BY <1>1, <1>2 DEF CreateTransfer, Answered, SessionInv, TypeOK

\* RedeemTransferForUser finds a row of an account that exists.
LEMMA FoundTyped ==
  ASSUME SessionInv, NEW d \in Devices, Handles(d, "redeem"), Found(d)
  PROVE  /\ request[d].code \in Codes /\ codes[request[d].code] # None
         /\ codes[request[d].code] \in Rows
         /\ codes[request[d].code].user \in Users
         /\ epoch[codes[request[d].code].user] \in Epochs
<1>1. request[d].code \in Codes
  BY RequestTyped DEF SessionInv
<1>2. codes[request[d].code] # None
  BY DEF Found
<1>3. epoch[codes[request[d].code].user] # None
  BY <1>1, <1>2 DEF SessionInv, Reached, CodesReached
<1> QED BY <1>1, <1>2, <1>3, CodeTyped DEF SessionInv, TypeOK

LEMMA ReplayKeeps ==
  ASSUME SessionInv, NEW d \in Devices, Replay(d)
  PROVE  SessionInv'
<1> DEFINE k == request[d].code
           u == codes[k].user
           e == codes[k].epoch
           s == SessionAt(u, e, e)
<1>1. /\ k \in Codes /\ codes[k] # None /\ u \in Users /\ e \in Epochs
      /\ codes[k].receiver = d /\ epoch[u] = e
      /\ \E t \in tokens : t.user = u /\ t.epoch = e
  BY FoundTyped DEF Replay, Replayable
<1>2. /\ login' = login \/ login' = [login EXCEPT ![d] = s]
      /\ journal' = journal \/ journal' = [journal EXCEPT ![d] = None]
      /\ request' = [request EXCEPT ![d] = None]
      /\ UNCHANGED <<now, rows, limits>>
  BY DEF Replay, LogsIn, Answered
<1>3. s \in Logins /\ s # None /\ s.user = u /\ s.token = e /\ s.epoch = e
  BY <1>1, SessionTyped DEF SessionInv
<1>4. d # None
  BY SessionsAssumption
<1> HIDE DEF s, e, u, k
<1>5. TypeOK'
  <2>1. login' \in [Devices -> Logins \cup {None}]
    BY <1>2, <1>3 DEF SessionInv, TypeOK
  <2>2. \A x \in Devices : login'[x] # None =>
          \E t \in tokens' : t.user = login'[x].user /\ t.epoch = login'[x].token
    BY <1>1, <1>2, <1>3 DEF SessionInv, TypeOK, rows
  <2> QED BY <1>2, <2>1, <2>2 DEF SessionInv, TypeOK, limits, rows
<1>6. Reached'
  BY <1>1, <1>2, <1>3, NoneAssumption, Numbers
     DEF SessionInv, TypeOK, Reached, TokensReached, CodesReached, LoginsReached, rows
<1>7. Live' /\ GrantsAreCurrent'
  BY <1>2 DEF SessionInv, Live, LiveIsCurrent, LiveIsUnique, LiveExists, GrantsAreCurrent, rows
<1>8. Received(codes[k]) /\ codes[k].user = u /\ codes[k].epoch = e
  BY <1>1, <1>4 DEF Received, u, e
<1>9. ReceiptsMatch' /\ OneReceipt'
  BY <1>1, <1>2, <1>3, <1>8 DEF SessionInv, TypeOK, Receipts, ReceiptsMatch, OneReceipt, Received, rows
<1>10. OneDevicePerSession'
  BY <1>1, <1>2, <1>3, <1>8 DEF SessionInv, TypeOK, Receipts, ReceiptsMatch, OneDevicePerSession
<1> QED BY <1>5, <1>6, <1>7, <1>9, <1>10 DEF SessionInv, Receipts

LEMMA RedeemKeeps ==
  ASSUME SessionInv, NEW d \in Devices, Redeem(d)
  PROVE  SessionInv'
<1> DEFINE k == request[d].code
           u == codes[k].user
           e == epoch[u] + 1
           f == FreshToken(u, e)
           s == SessionAt(u, e, e)
<1>1. /\ k \in Codes /\ codes[k] # None /\ codes[k] \in Rows /\ u \in Users /\ epoch[u] \in Epochs
      /\ now < codes[k].expires
  BY FoundTyped DEF Redeem, Redeemable
<1>2. /\ e \in Epochs /\ epoch' = [epoch EXCEPT ![u] = e]
      /\ tokens' = Revoked(u) \cup {f} /\ grants' = GrantsWithout(u)
      /\ login' = login \/ login' = [login EXCEPT ![d] = s]
      /\ journal' = journal \/ journal' = [journal EXCEPT ![d] = None]
      /\ request' = [request EXCEPT ![d] = None]
      /\ UNCHANGED <<now, consumed, minted, published, fleet, limits>>
  BY DEF Redeem, LogsIn, Answered
<1> DEFINE r == [codes[k] EXCEPT !.receiver = d, !.redeemed = now, !.epoch = e]
<1>3. /\ codes' \in [Codes -> Rows \cup {None}] /\ codes'[k] = r
      /\ \A c \in Codes : c # k => codes'[c] = IF codes[c] # None /\ codes[c].user = u
                                               THEN None ELSE codes[c]
      /\ r \in Rows /\ r # None /\ r.user = u /\ r.receiver = d /\ r.redeemed = now
      /\ r.epoch = e /\ r.expires = codes[k].expires
  <2>1. r \in Rows /\ r.user = u /\ r.receiver = d /\ r.redeemed = now
        /\ r.epoch = e /\ r.expires = codes[k].expires
    BY <1>1, <1>2 DEF Rows, SessionInv, TypeOK
  <2>2. codes' = [c \in Codes |->
             CASE c = k -> r
               [] c # k /\ codes[c] # None /\ codes[c].user = u -> None
               [] OTHER -> codes[c]]
    BY DEF Redeem
  <2>3. r # None
    BY <2>1, NoneAssumption
  <2> HIDE DEF r, u, e, k
  <2> QED BY <1>1, <2>1, <2>2, <2>3 DEF SessionInv, TypeOK
<1>4. /\ f \in Tokens /\ f.user = u /\ f.epoch = e /\ ~f.revoked
      /\ s \in Logins /\ s # None /\ s.user = u /\ s.token = e /\ s.epoch = e
  <2>1. f \in Tokens /\ f.user = u /\ f.epoch = e /\ ~f.revoked
    BY <1>1, <1>2, FreshTyped DEF SessionInv
  <2>2. s \in Logins /\ s # None /\ s.user = u /\ s.token = e /\ s.epoch = e
    <3>1. TypeOK /\ u \in Users /\ e \in Epochs
      BY <1>1, <1>2 DEF SessionInv
    <3> HIDE DEF u, e
    <3> QED BY <3>1, SessionTyped
  <2> QED BY <2>1, <2>2
<1>5. d # None /\ e # None /\ epoch[u] \in Nat /\ e = epoch[u] + 1
  BY <1>1, <1>2, SessionsAssumption, NoneAssumption, Numbers
<1> HIDE DEF s, f, r, e, u, k
<1>6. TypeOK'
  <2>1. login' \in [Devices -> Logins \cup {None}]
    BY <1>2, <1>4 DEF SessionInv, TypeOK
  <2>2. \A t \in tokens : \E x \in tokens' : x.user = t.user /\ x.epoch = t.epoch
    BY <1>1, <1>2, RevokedIs DEF SessionInv
  <2>3. \A x \in Devices : login'[x] # None =>
          \E t \in tokens' : t.user = login'[x].user /\ t.epoch = login'[x].token
    BY <1>2, <1>4, <2>2 DEF SessionInv, TypeOK
  <2>4. tokens' \subseteq Tokens
    BY <1>1, <1>2, <1>4, RevokedIs DEF SessionInv
  <2>5. grants' \subseteq Users \X Epochs
    BY <1>2 DEF GrantsWithout, SessionInv, TypeOK
  <2> QED BY <1>1, <1>2, <1>3, <2>1, <2>3, <2>4, <2>5 DEF SessionInv, TypeOK, limits
<1>7. TokensReached'
  <2>1. \A x \in Revoked(u) : epoch'[x.user] # None /\ x.epoch <= epoch'[x.user]
    <3> SUFFICES ASSUME NEW x \in Revoked(u)
                 PROVE  epoch'[x.user] # None /\ x.epoch <= epoch'[x.user]
      OBVIOUS
    <3>1. PICK t \in tokens : x.user = t.user /\ x.epoch = t.epoch
      BY <1>1, RevokedIs DEF SessionInv
    <3>2. t.user \in Users /\ t.epoch \in Nat
      BY Numbers DEF SessionInv, TypeOK, Tokens
    <3>3. epoch[t.user] # None /\ t.epoch <= epoch[t.user]
      BY DEF SessionInv, Reached, TokensReached
    <3>4. epoch'[t.user] = IF t.user = u THEN e ELSE epoch[t.user]
      BY <1>2, <3>2 DEF SessionInv, TypeOK
    <3> QED BY <1>5, <3>1, <3>2, <3>3, <3>4
  <2>2. epoch'[u] = e /\ e <= e
    BY <1>1, <1>2, <1>5 DEF SessionInv, TypeOK
  <2> QED BY <1>2, <1>4, <1>5, <2>1, <2>2 DEF TokensReached
<1>8. CodesReached'
  <2>1. r.epoch <= epoch'[u] /\ r.redeemed < r.expires /\ epoch'[u] # None /\ k <= minted'
    BY <1>1, <1>2, <1>3, <1>5 DEF SessionInv, TypeOK, Reached, CodesReached
  <2>2. \A c \in Codes : c # k /\ codes'[c] # None => codes'[c] = codes[c] /\ codes[c].user # u
    BY <1>3
  <2> QED BY <1>1, <1>2, <1>3, <2>1, <2>2, CodeTyped DEF SessionInv, TypeOK, Reached, CodesReached
<1>9. LoginsReached'
  <2> SUFFICES ASSUME NEW x \in Devices, login'[x] # None
               PROVE  /\ epoch'[login'[x].user] # None
                      /\ login'[x].epoch <= epoch'[login'[x].user]
                      /\ login'[x].token = login'[x].epoch
    BY DEF LoginsReached
  <2>1. epoch'[u] = e /\ e <= e
    BY <1>1, <1>2, <1>5 DEF SessionInv, TypeOK
  <2>2. CASE login'[x] = s
    BY <1>4, <1>5, <2>1, <2>2
  <2>3. CASE login'[x] = login[x]
    <3>1. login[x] # None /\ login[x].user \in Users /\ login[x].epoch \in Nat
      BY <2>3, LoginTyped, Numbers DEF SessionInv
    <3>2. /\ epoch[login[x].user] # None /\ login[x].epoch <= epoch[login[x].user]
          /\ login[x].token = login[x].epoch
      BY <3>1 DEF SessionInv, Reached, LoginsReached
    <3>3. epoch'[login[x].user] = IF login[x].user = u THEN e ELSE epoch[login[x].user]
      BY <1>2, <3>1 DEF SessionInv, TypeOK
    <3> QED BY <1>5, <2>3, <3>1, <3>2, <3>3
  <2> QED BY <1>2, <2>2, <2>3 DEF SessionInv, TypeOK
\* What is live after the redemption is the new token, or of somebody else.
<1>10. \A t \in tokens' : ~t.revoked => t = f \/ (t \in tokens /\ t.user # u)
  BY <1>1, <1>2, RevokedIs DEF SessionInv
<1>11. LiveIsCurrent' /\ LiveIsUnique'
  BY <1>1, <1>2, <1>4, <1>10 DEF SessionInv, TypeOK, Tokens, Live, LiveIsCurrent, LiveIsUnique
<1>12. LiveExists'
  <2>1. \A t \in tokens : t.user # u => t \in tokens'
    BY <1>1, <1>2, RevokedIs DEF SessionInv
  <2> QED BY <1>1, <1>2, <1>4, <2>1 DEF SessionInv, TypeOK, Live, LiveExists
\* Nobody is signed in to the new session yet.
<1>13. \A x \in Devices : login[x] # None /\ login[x].user = u => login[x].epoch # e
  <2> SUFFICES ASSUME NEW x \in Devices, login[x] # None, login[x].user = u, login[x].epoch = e
               PROVE  FALSE
    OBVIOUS
  <2>1. e <= epoch[u]
    BY DEF SessionInv, Reached, LoginsReached
  <2> QED BY <1>5, <2>1
<1>14. ReceiptsMatch'
  <2> SUFFICES ASSUME NEW c \in Codes, NEW x \in Devices, Received(codes'[c]), login'[x] # None,
                      login'[x].user = codes'[c].user, login'[x].epoch = codes'[c].epoch
               PROVE  codes'[c].receiver = x
    BY DEF ReceiptsMatch, Received
  <2>1. CASE c = k
    BY <1>2, <1>3, <1>4, <1>13, <2>1 DEF SessionInv, TypeOK
  <2>2. CASE c # k
    <3>1. codes'[c] = codes[c] /\ codes[c].user # u
      BY <1>3, <2>2 DEF Received
    <3>2. login'[x] = login[x]
      BY <1>2, <1>4, <3>1 DEF SessionInv, TypeOK
    <3> QED BY <3>1, <3>2 DEF SessionInv, Receipts, ReceiptsMatch
  <2> QED BY <2>1, <2>2
<1>15. OneReceipt'
  BY <1>3 DEF SessionInv, Receipts, OneReceipt, Received
<1>16. OneDevicePerSession'
  BY <1>2, <1>4, <1>13 DEF SessionInv, TypeOK, Receipts, OneDevicePerSession
<1>17. GrantsAreCurrent'
  BY <1>1, <1>2 DEF GrantsWithout, SessionInv, TypeOK, GrantsAreCurrent
<1> QED BY <1>6, <1>7, <1>8, <1>9, <1>11, <1>12, <1>14, <1>15, <1>16, <1>17
     DEF SessionInv, Reached, Live, Receipts

-----------------------------------------------------------------------------
LEMMA SessionInit == ASSUME Init PROVE SessionInv
<1>1. TypeOK
  BY Numbers DEF Init, TypeOK
<1> QED BY <1>1 DEF Init, SessionInv, Reached, Live, Receipts, TokensReached, CodesReached,
     LoginsReached, LiveIsCurrent, LiveIsUnique, LiveExists, ReceiptsMatch, OneReceipt,
     OneDevicePerSession, GrantsAreCurrent, Received

LEMMA SessionStep == ASSUME SessionInv, [Next]_vars PROVE SessionInv'
<1>1. CASE Tick
  BY <1>1, TickKeeps
<1>2. ASSUME NEW u \in Users, CreateRecovery(u) PROVE SessionInv'
  <2>1. request' \in [Devices -> Requests \cup {None}]
    BY <1>2 DEF CreateRecovery, SessionInv, TypeOK
  <2> QED BY <1>2, <2>1, MintKeeps DEF CreateRecovery
<1>3. ASSUME NEW d \in Devices, Handle(d) PROVE SessionInv'
  <2>1. CASE CreateTransfer(d)
    BY <2>1, CreateTransferMints, MintKeeps
  <2> QED BY <1>3, <2>1, AnswersKeep, LaunchKeeps, CancelKeeps, RedeemKeeps, ReplayKeeps
       DEF Handle
<1>4. ASSUME NEW d \in Devices, Refresh(d) \/ SignedOut(d) PROVE SessionInv'
  BY <1>4, RefreshKeeps, SignedOutKeeps
<1>5. ASSUME NEW d \in Devices, NEW kind \in Kinds, Authenticate(d, kind) PROVE SessionInv'
  BY <1>5, AuthenticateKeeps
<1>6. ASSUME NEW d \in Devices, NEW i \in Invites, NEW u \in Users, Register(d, i, u)
      PROVE  SessionInv'
  BY <1>6, RegisterKeeps
<1>7. ASSUME NEW d \in Devices, NEW k \in Codes, NEW x \in Expecting \cup {None},
             EnterCode(d, k, x)
      PROVE  SessionInv'
  BY <1>7, EnterCodeKeeps
<1>8. ASSUME NEW d \in Devices, NEW p \in Peers, Attempt(d, p) PROVE SessionInv'
  BY <1>8, AttemptKeeps
<1>9. CASE UNCHANGED vars
  <2>1. TypeOK'
    BY <1>9 DEF SessionInv, TypeOK, vars, rows, limits, device
  <2> QED BY <1>9, <2>1, AccountsUntouched DEF vars, rows, device, accounts
<1> QED BY <1>1, <1>2, <1>3, <1>4, <1>5, <1>6, <1>7, <1>8, <1>9 DEF Next

LEMMA LiveTokenIs == SessionInv => OneLiveToken
<1> SUFFICES ASSUME SessionInv, NEW u \in Users, epoch[u] # None
             PROVE  {t \in tokens : t.user = u /\ ~t.revoked}
               \in {{[user |-> u, epoch |-> epoch[u], created |-> c, revoked |-> FALSE]} : c \in Times}
  BY DEF OneLiveToken
<1>1. PICK t \in tokens : t.user = u /\ ~t.revoked
  BY DEF SessionInv, Live, LiveExists
<1>2. t \in Tokens /\ t.epoch = epoch[u]
  BY <1>1 DEF SessionInv, TypeOK, Live, LiveIsCurrent
<1>3. t = [user |-> u, epoch |-> epoch[u], created |-> t.created, revoked |-> FALSE]
  BY <1>1, <1>2 DEF Tokens
<1>4. {x \in tokens : x.user = u /\ ~x.revoked} = {t}
  BY <1>1 DEF SessionInv, Live, LiveIsUnique
<1>5. t.created \in Times
  BY <1>2 DEF Tokens
<1> HIDE DEF SessionInv
<1> QED BY <1>3, <1>4, <1>5

-----------------------------------------------------------------------------
(* Codes and receipts.                                                     *)

LEMMA CodesInit == ASSUME Init PROVE CodesInv
BY DEF Init, CodesInv, OneCodePerAccount, ReceiptsKept, Unused

LEMMA CodesUntouched ==
  ASSUME CodesInv, UNCHANGED <<now, codes>>, \A t \in tokens' : t \in tokens \/ t.epoch = 0
  PROVE  CodesInv'
BY DEF CodesInv, OneCodePerAccount, ReceiptsKept, Unused, Received

LEMMA TickKeepsCodes == ASSUME SessionInv, CodesInv, Tick PROVE CodesInv'
<1>1. UNCHANGED <<codes, tokens>> /\ now' = now + 1
  BY DEF Tick, rows
<1>2. \A t \in tokens : now' < t.created + ReceiptLife => now < t.created + ReceiptLife
  <2> SUFFICES ASSUME NEW t \in tokens PROVE now' < t.created + ReceiptLife => now < t.created + ReceiptLife
    OBVIOUS
  <2>1. t.created \in Times /\ now \in Times
    BY DEF SessionInv, TypeOK, Tokens
  <2>2. t.created \in Nat /\ now \in Nat /\ ReceiptLife \in Nat
    BY <2>1, Numbers
  <2> QED BY <1>1, <2>2
<1> QED BY <1>1, <1>2 DEF CodesInv, OneCodePerAccount, ReceiptsKept, Unused, Received

LEMMA CancelKeepsCodes ==
  ASSUME SessionInv, CodesInv, NEW d \in Devices, CancelTransfer(d)
  PROVE  CodesInv'
<1>1. /\ \A k \in Codes : codes'[k] \in {codes[k], None}
      /\ \A k \in Codes : Received(codes[k]) => codes'[k] = codes[k]
      /\ UNCHANGED <<now, tokens>>
  BY DEF CancelTransfer, Received, Unused
<1>2. OneCodePerAccount'
  BY <1>1 DEF CodesInv, OneCodePerAccount, Unused
<1>3. ReceiptsKept'
  BY <1>1 DEF CodesInv, ReceiptsKept, Received
<1> QED BY <1>2, <1>3 DEF CodesInv

\* A receipt that is stale when a code is made is older than ReceiptLife.
LEMMA MintKeepsCodes ==
  ASSUME SessionInv, CodesInv, NEW u \in Users, MintCode(u)
  PROVE  CodesInv'
<1>1. OneCodePerAccount'
  <2>1. \A k \in Codes \ {minted + 1} :
          Unused(codes'[k]) => codes'[k] = codes[k] /\ codes[k].user # u
    BY MintIs DEF Unused, Stale
  <2>2. codes'[minted + 1].user = u
    BY MintIs, RowTyped DEF SessionInv
  <2> QED BY <2>1, <2>2 DEF CodesInv, OneCodePerAccount
<1>2. ReceiptsKept'
  <2> SUFFICES ASSUME NEW t \in tokens, t.epoch # 0, ~t.revoked, now < t.created + ReceiptLife
               PROVE  \E k \in Codes : /\ Received(codes'[k])
                        /\ codes'[k].user = t.user /\ codes'[k].epoch = t.epoch
                        /\ codes'[k].redeemed = t.created
    BY MintIs DEF ReceiptsKept
  <2>1. PICK k \in Codes : /\ Received(codes[k]) /\ codes[k].user = t.user
                           /\ codes[k].epoch = t.epoch /\ codes[k].redeemed = t.created
    BY DEF CodesInv, ReceiptsKept
  <2>2. k # minted + 1 /\ codes[k] # None
    BY <2>1, MintIs DEF Received
  <2>3. codes[k].redeemed < codes[k].expires
    BY <2>1 DEF Received, SessionInv, Reached, CodesReached
  <2>4. now \in Int /\ codes[k].redeemed \in Int /\ codes[k].expires \in Int /\ ReceiptLife \in Int
    <3>1. now \in Times /\ codes[k].redeemed \in Times /\ codes[k].expires \in Int
      BY <2>2, CodeTyped DEF SessionInv, TypeOK
    <3>2. now \in Nat /\ codes[k].redeemed \in Nat /\ ReceiptLife \in Nat
      BY <3>1, Numbers
    <3> QED BY <3>1, <3>2
  <2>5. ~(codes[k].expires < now - ReceiptLife)
    BY <2>1, <2>3, <2>4
  <2>6. ~Stale(u, codes[k])
    BY <2>1, <2>5 DEF Stale, Unused, Received
  <2>7. codes'[k] = codes[k]
    BY <2>2, <2>6, MintIs
  <2> QED BY <2>1, <2>7
<1> QED BY <1>1, <1>2 DEF CodesInv

LEMMA RedeemKeepsCodes ==
  ASSUME SessionInv, CodesInv, NEW d \in Devices, Redeem(d)
  PROVE  CodesInv'
<1> DEFINE k == request[d].code
           u == codes[k].user
           e == epoch[u] + 1
           f == FreshToken(u, e)
           r == [codes[k] EXCEPT !.receiver = d, !.redeemed = now, !.epoch = e]
<1>1. /\ k \in Codes /\ codes[k] # None /\ codes[k] \in Rows /\ u \in Users
      /\ e \in Epochs /\ now' = now /\ tokens' = Revoked(u) \cup {f}
      /\ codes' = [c \in Codes |->
           CASE c = k -> r
             [] c # k /\ codes[c] # None /\ codes[c].user = u -> None
             [] OTHER -> codes[c]]
  BY FoundTyped DEF Redeem, Redeemable
<1>2. r \in Rows /\ r.user = u /\ r.receiver = d /\ r.redeemed = now /\ r.epoch = e
  BY <1>1 DEF Rows, SessionInv, TypeOK
<1>3. f.user = u /\ f.epoch = e /\ ~f.revoked /\ f.created = now
  BY <1>1, FreshTyped DEF SessionInv
<1>4. r # None /\ d # None
  BY <1>2, NoneAssumption, SessionsAssumption
<1> HIDE DEF f, r, e, u, k
<1>5. Received(codes'[k]) /\ codes'[k].user = u /\ codes'[k].epoch = e /\ codes'[k].redeemed = now
  BY <1>1, <1>2, <1>4 DEF Received
<1>6. \A c \in Codes : c # k =>
        codes'[c] = IF codes[c] # None /\ codes[c].user = u THEN None ELSE codes[c]
  BY <1>1
<1>7. OneCodePerAccount'
  BY <1>5, <1>6 DEF CodesInv, OneCodePerAccount, Unused, Received
<1>8. ReceiptsKept'
  <2> SUFFICES ASSUME NEW t \in tokens', t.epoch # 0, ~t.revoked, now < t.created + ReceiptLife
               PROVE  \E c \in Codes : /\ Received(codes'[c])
                        /\ codes'[c].user = t.user /\ codes'[c].epoch = t.epoch
                        /\ codes'[c].redeemed = t.created
    BY <1>1 DEF ReceiptsKept
  <2>1. CASE t = f
    BY <1>1, <1>3, <1>5, <2>1
  <2>2. CASE t # f
    <3>1. t \in tokens /\ t.user # u
      BY <1>1, <2>2, RevokedIs DEF SessionInv
    <3>2. PICK c \in Codes : /\ Received(codes[c]) /\ codes[c].user = t.user
                             /\ codes[c].epoch = t.epoch /\ codes[c].redeemed = t.created
      BY <3>1 DEF CodesInv, ReceiptsKept
    <3>3. c # k
      BY <3>1, <3>2 DEF u
    <3>4. codes'[c] = codes[c]
      BY <1>6, <3>1, <3>2, <3>3
    <3> QED BY <3>2, <3>4
  <2> QED BY <2>1, <2>2
<1> QED BY <1>7, <1>8 DEF CodesInv

LEMMA CodesStep == ASSUME SessionInv, CodesInv, [Next]_vars PROVE CodesInv'
<1>1. CASE Tick
  BY <1>1, TickKeepsCodes
<1>2. ASSUME NEW u \in Users, CreateRecovery(u) PROVE CodesInv'
  BY <1>2, MintKeepsCodes DEF CreateRecovery
<1>3. ASSUME NEW d \in Devices, CreateTransfer(d) PROVE CodesInv'
  BY <1>3, CreateTransferMints, MintKeepsCodes
<1>4. ASSUME NEW d \in Devices, CancelTransfer(d) \/ Redeem(d) PROVE CodesInv'
  BY <1>4, CancelKeepsCodes, RedeemKeepsCodes
<1>5. ASSUME NEW d \in Devices, NEW i \in Invites, NEW u \in Users, Register(d, i, u)
      PROVE  CodesInv'
  <2>1. FreshToken(u, 0).epoch = 0
    BY DEF FreshToken
  <2> QED BY <1>5, <2>1, CodesUntouched DEF Register
<1>6. ASSUME UNCHANGED <<now, rows>> PROVE CodesInv'
  BY <1>6, CodesUntouched DEF rows
<1>7. ASSUME NEW d \in Devices, Publish(d) \/ FleetWrite(d) \/ Launch(d) PROVE CodesInv'
  BY <1>7, CodesUntouched DEF Publish, FleetWrite, Launch
<1>8. ASSUME NEW d \in Devices, Handle(d) PROVE CodesInv'
  BY <1>3, <1>4, <1>6, <1>7, <1>8 DEF Handle, Replay, Refuse, Fails
<1> QED BY <1>1, <1>2, <1>5, <1>6, <1>8
     DEF Next, Refresh, SignedOut, Authenticate, EnterCode, Attempt, vars

LEMMA CodesAreKept == SessionInv /\ CodesInv => CodesKept
<1> SUFFICES ASSUME SessionInv, CodesInv PROVE ReceiptKept
  BY DEF CodesKept, CodesInv
<1> QED BY DEF CodesInv, ReceiptsKept, ReceiptKept, Received

-----------------------------------------------------------------------------
(* What a session writes.                                                  *)

LEMMA WrittenInit == ASSUME Init PROVE Written
BY DEF Init, Written

\* The steps that write an account's rows or its epoch.
LEMMA PublishWrites ==
  ASSUME SessionInv, Written, NEW d \in Devices, Publish(d)
  PROVE  Written' /\ \A u \in Users : published'[u] >= published[u]
<1> DEFINE w == request[d].user
<1>1. /\ w \in Users /\ request[d].epoch \in Epochs /\ epoch[w] = request[d].epoch
      /\ published' = [published EXCEPT ![w] = request[d].epoch] /\ epoch' = epoch
  BY RequestTyped DEF Publish, Current, RequestKinds, SessionInv
<1>2. epoch[w] \in Nat /\ epoch[w] # None
  BY <1>1, Numbers, NoneAssumption
<1>3. published[w] <= epoch[w]
  BY <1>1, <1>2 DEF Written
<1>4. ASSUME NEW u \in Users PROVE published[u] \in Nat
  BY <1>4, Numbers DEF SessionInv, TypeOK
<1> HIDE DEF w
<1> QED BY <1>1, <1>2, <1>3, <1>4 DEF Written, SessionInv, TypeOK

LEMMA EpochsGrow ==
  ASSUME SessionInv, Written, UNCHANGED published,
         \A u \in Users : \/ epoch'[u] = epoch[u]
                          \/ epoch[u] = None
                          \/ epoch[u] \in Nat /\ epoch'[u] = epoch[u] + 1 /\ epoch'[u] # None
  PROVE  Written' /\ \A u \in Users : published'[u] >= published[u]
<1>1. ASSUME NEW u \in Users PROVE published[u] \in Nat
  BY <1>1, Numbers DEF SessionInv, TypeOK
<1>2. ASSUME NEW u \in Users
      PROVE  published'[u] = 0 \/ (epoch'[u] # None /\ published'[u] <= epoch'[u])
  BY <1>1, <1>2 DEF Written
<1> QED BY <1>1, <1>2 DEF Written

LEMMA WrittenStep ==
  ASSUME SessionInv, Written, [Next]_vars
  PROVE  Written' /\ \A u \in Users : published'[u] >= published[u]
<1>1. ASSUME NEW d \in Devices, Redeem(d)
      PROVE  /\ UNCHANGED published
             /\ \A u \in Users :
                  \/ epoch'[u] = epoch[u]
                  \/ epoch[u] \in Nat /\ epoch'[u] = epoch[u] + 1 /\ epoch'[u] # None
  <2> DEFINE w == codes[request[d].code].user
  <2>1. /\ w \in Users /\ epoch[w] \in Epochs /\ epoch[w] + 1 \in Epochs
        /\ epoch' = [epoch EXCEPT ![w] = epoch[w] + 1] /\ UNCHANGED published
    BY <1>1, FoundTyped DEF Redeem, Redeemable
  <2>2. epoch[w] \in Nat /\ epoch[w] + 1 # None
    BY <2>1, Numbers, NoneAssumption
  <2> HIDE DEF w
  <2>3. ASSUME NEW u \in Users
        PROVE  epoch'[u] = IF u = w THEN epoch[w] + 1 ELSE epoch[u]
    BY <2>1, <2>3 DEF SessionInv, TypeOK
  <2>4. ASSUME NEW u \in Users
        PROVE  \/ epoch'[u] = epoch[u]
               \/ epoch[u] \in Nat /\ epoch'[u] = epoch[u] + 1 /\ epoch'[u] # None
    <3>1. CASE u = w
      BY <2>2, <2>3, <3>1
    <3>2. CASE u # w
      BY <2>3, <3>2
    <3> QED BY <3>1, <3>2
  <2> QED BY <2>1, <2>4
<1>2. ASSUME NEW d \in Devices, NEW i \in Invites, NEW u \in Users, Register(d, i, u)
      PROVE  UNCHANGED published /\ \A x \in Users : epoch'[x] = epoch[x] \/ epoch[x] = None
  BY <1>2 DEF Register, SessionInv, TypeOK
<1>3. ASSUME UNCHANGED <<epoch, published>>
      PROVE  Written' /\ \A u \in Users : published'[u] >= published[u]
  BY <1>3, EpochsGrow
<1>4. ASSUME NEW d \in Devices, Handle(d)
      PROVE  Written' /\ \A u \in Users : published'[u] >= published[u]
  BY <1>1, <1>3, <1>4, PublishWrites, EpochsGrow
     DEF Handle, FleetWrite, Launch, CreateTransfer, MintCode, CancelTransfer, Replay, Refuse,
         Fails, rows
<1>5. CASE UNCHANGED vars
  BY <1>3, <1>5 DEF vars, rows
<1> QED BY <1>2, <1>3, <1>4, <1>5, EpochsGrow
     DEF Next, Tick, CreateRecovery, MintCode, Refresh, SignedOut, Authenticate, EnterCode,
         Attempt, rows

-----------------------------------------------------------------------------
LEMMA RedeemedStep ==
  ASSUME SessionInv, [Next]_vars, NEW k \in Codes, codes[k] # None, codes[k].receiver # None
  PROVE  codes'[k] \in {codes[k], None}
<1>1. ASSUME NEW u \in Users, MintCode(u) PROVE codes'[k] \in {codes[k], None}
  BY <1>1, MintIs
<1>2. ASSUME NEW d \in Devices, CreateTransfer(d) PROVE codes'[k] \in {codes[k], None}
  BY <1>1, <1>2, CreateTransferMints
<1>3. ASSUME NEW d \in Devices, Redeem(d) PROVE codes'[k] \in {codes[k], None}
  <2>1. request[d].code # k
    BY <1>3 DEF Redeem, Redeemable
  <2>2. codes'[k] = IF codes[k].user = codes[request[d].code].user THEN None ELSE codes[k]
    BY <1>3, <2>1 DEF Redeem
  <2> QED BY <2>2
<1>4. ASSUME NEW d \in Devices, Handle(d) PROVE codes'[k] \in {codes[k], None}
  BY <1>2, <1>3, <1>4
     DEF Handle, Publish, FleetWrite, Launch, CancelTransfer, Replay, Refuse, Fails, rows
<1> QED BY <1>1, <1>4
     DEF Next, Tick, CreateRecovery, Register, Refresh, SignedOut, Authenticate, EnterCode,
         Attempt, vars, rows

-----------------------------------------------------------------------------
(* The rate limits.                                                        *)

(* What the property says of the counts a, and that there is an end to it. *)
Fair(a) == IsFiniteSet(Admitted(a)) /\ a["global"] = Cardinality(Admitted(a))

LEMMA NothingAdmitted ==
  ASSUME NEW a, \A b \in Peers \cup {"global"} : a[b] = 0
  PROVE  Fair(a)
<1>1. Admitted(a) = {}
  BY DEF Admitted
<1> QED BY <1>1, FS_EmptySet DEF Fair

LEMMA CountsFair == SessionInv /\ Fair(attempts) => Fair(Counts)
<1> SUFFICES ASSUME SessionInv, Fair(attempts) PROVE Fair(Counts)
  OBVIOUS
<1>1. CASE now \div Window = window
  BY <1>1 DEF Counts
<1>2. CASE now \div Window # window
  <2>1. DOMAIN attempts = Peers \cup {"global"}
    BY DEF SessionInv, TypeOK
  <2>2. PICK a : a = [b \in Peers \cup {"global"} |-> 0]
    OBVIOUS
  <2>3. Counts = a
    BY <1>2, <2>1, <2>2 DEF Counts
  <2>4. Fair(a)
    BY <2>2, NothingAdmitted
  <2> QED BY <2>3, <2>4
<1> QED BY <1>1, <1>2

\* A peer within its limit uses one more of the global one, a peer past it
\* none.
LEMMA CountedFair ==
  ASSUME SessionInv, NEW p \in Peers, Fair(Counts)
  PROVE  Fair(Counted(p))
<1>1. PICK a : a = Counts
  OBVIOUS
<1>2. a \in [Peers \cup {"global"} -> Nat] /\ Fair(a)
  BY <1>1 DEF Counts, SessionInv, TypeOK
<1>3. p # "global" /\ PeerLimit \in Nat
  BY SessionsAssumption
<1>4. CASE a[p] + 1 > PeerLimit
  <2>1. PICK c : c = [a EXCEPT ![p] = @ + 1]
    OBVIOUS
  <2>2. Counted(p) = c
    BY <1>1, <1>4, <2>1 DEF Counted
  <2>3. c["global"] = a["global"] /\ c[p] = a[p] + 1 /\ \A q \in Peers \ {p} : c[q] = a[q]
    BY <1>2, <1>3, <2>1
  <2>4. \A q \in Peers, i \in 1 .. PeerLimit : i <= c[q] <=> i <= a[q]
    <3> SUFFICES ASSUME NEW q \in Peers, NEW i \in 1 .. PeerLimit
                 PROVE  i <= c[q] <=> i <= a[q]
      OBVIOUS
    <3>1. CASE q = p
      BY <1>2, <1>3, <1>4, <2>3, <3>1
    <3>2. CASE q # p
      BY <2>3, <3>2
    <3> QED BY <3>1, <3>2
  <2>5. Admitted(c) = Admitted(a)
    BY <2>4 DEF Admitted
  <2> QED BY <1>2, <2>2, <2>3, <2>5 DEF Fair
<1>5. CASE ~(a[p] + 1 > PeerLimit)
  <2>1. PICK c : c = [a EXCEPT ![p] = @ + 1, !["global"] = @ + 1]
    OBVIOUS
  <2>2. Counted(p) = c
    BY <1>1, <1>5, <2>1 DEF Counted
  <2>3. /\ c["global"] = a["global"] + 1 /\ c[p] = a[p] + 1
        /\ \A q \in Peers \ {p} : c[q] = a[q]
    <3>1. "global" \notin Peers
      BY SessionsAssumption
    <3> QED BY <1>2, <1>3, <2>1, <3>1
  <2>4. <<p, a[p] + 1>> \in Peers \X (1 .. PeerLimit) /\ <<p, a[p] + 1>> \notin Admitted(a)
    BY <1>2, <1>3, <1>5 DEF Admitted
  <2>5. \A q \in Peers, i \in 1 .. PeerLimit :
           i <= c[q] <=> i <= a[q] \/ (q = p /\ i = a[p] + 1)
    <3> SUFFICES ASSUME NEW q \in Peers, NEW i \in 1 .. PeerLimit
                 PROVE  i <= c[q] <=> i <= a[q] \/ (q = p /\ i = a[p] + 1)
      OBVIOUS
    <3>1. CASE q = p
      BY <1>2, <1>3, <2>3, <3>1
    <3>2. CASE q # p
      BY <2>3, <3>2
    <3> QED BY <3>1, <3>2
  <2>6. Admitted(c) = Admitted(a) \cup {<<p, a[p] + 1>>}
    <3>1. \A x \in Peers \X (1 .. PeerLimit) :
             /\ x[1] \in Peers /\ x[2] \in 1 .. PeerLimit
             /\ x = <<p, a[p] + 1>> <=> x[1] = p /\ x[2] = a[p] + 1
      OBVIOUS
    <3>2. \A x \in Peers \X (1 .. PeerLimit) :
             x \in Admitted(c) <=> x \in Admitted(a) \/ x = <<p, a[p] + 1>>
      BY <2>5, <3>1 DEF Admitted
    <3> QED BY <2>4, <3>2 DEF Admitted
  <2>7. IsFiniteSet(Admitted(c)) /\ Cardinality(Admitted(c)) = Cardinality(Admitted(a)) + 1
    BY <1>2, <2>4, <2>6, FS_AddElement DEF Fair
  <2> QED BY <1>2, <2>2, <2>3, <2>7 DEF Fair
<1> QED BY <1>4, <1>5

LEMMA FairStep ==
  ASSUME SessionInv, Fair(attempts), [Next]_vars
  PROVE  Fair(attempts')
<1>1. ASSUME NEW d \in Devices, NEW p \in Peers, Attempt(d, p) PROVE Fair(attempts')
  BY <1>1, CountsFair, CountedFair DEF Attempt
<1>2. ASSUME UNCHANGED limits PROVE Fair(attempts')
  BY <1>2 DEF limits
<1>3. ASSUME NEW d \in Devices, Handle(d) PROVE UNCHANGED limits
  BY <1>3 DEF Handle, Publish, FleetWrite, Launch, CreateTransfer, CancelTransfer, Redeem,
              Replay, Refuse, Fails, MintCode, rows, limits
<1>4. ASSUME NEW u \in Users, CreateRecovery(u) PROVE UNCHANGED limits
  BY <1>4 DEF CreateRecovery, MintCode
<1>5. ASSUME NEW d \in Devices, Refresh(d) \/ SignedOut(d) PROVE UNCHANGED limits
  BY <1>5 DEF Refresh, SignedOut
<1>6. ASSUME NEW d \in Devices, NEW kind \in Kinds, Authenticate(d, kind)
      PROVE  UNCHANGED limits
  BY <1>6 DEF Authenticate
<1>7. ASSUME NEW d \in Devices, NEW i \in Invites, NEW u \in Users, Register(d, i, u)
      PROVE  UNCHANGED limits
  BY <1>7 DEF Register
<1>8. ASSUME NEW d \in Devices, NEW k \in Codes, NEW x \in Expecting \cup {None},
             EnterCode(d, k, x)
      PROVE  UNCHANGED limits
  BY <1>8 DEF EnterCode
<1>9. Tick \/ UNCHANGED vars => UNCHANGED limits
  BY DEF Tick, vars
<1> QED BY <1>1, <1>2, <1>3, <1>4, <1>5, <1>6, <1>7, <1>8, <1>9 DEF Next

LEMMA FairInit == ASSUME Init PROVE Fair(attempts)
BY NothingAdmitted DEF Init

-----------------------------------------------------------------------------
(* The theorems.                                                           *)

\* Every row, login and request keeps its type, and a device that is signed
\* in has a token in the table: none is ever deleted under it.
THEOREM TypeCorrect == Spec => []TypeOK
<1>1. SessionInv => TypeOK
  BY DEF SessionInv
<1> QED BY SessionInit, SessionStep, <1>1, PTL DEF Spec

\* An account has one session, on one device, and no ticket of an older one
\* (RedeemTransferForUser, Refresh, RegisterAndIssue), for any accounts,
\* devices, codes and lifetimes.
THEOREM SessionCorrect == Spec => []OneSession
<1>1. SessionInv => OneSession
  BY LiveTokenIs DEF OneSession, SessionInv, Receipts
<1> QED BY SessionInit, SessionStep, <1>1, PTL DEF Spec

\* Making codes deletes the unused one before and no receipt somebody may
\* still ask for (createTransfer).
THEOREM CodesCorrect == Spec => []CodesKept
<1>1. Init => SessionInv /\ CodesInv
  BY SessionInit, CodesInit
<1>2. SessionInv /\ CodesInv /\ [Next]_vars => (SessionInv /\ CodesInv)'
  BY SessionStep, CodesStep
<1> QED BY <1>1, <1>2, CodesAreKept, PTL DEF Spec

\* A code serves one device (RedeemTransferForUser): what is redeemed stays
\* as it is until it is deleted.
THEOREM RedeemedCorrect == Spec => RedeemedOnce
<1>1. SessionInv /\ [Next]_vars =>
        [\A k \in Codes : codes[k] # None /\ codes[k].receiver # None
           => codes'[k] \in {codes[k], None}]_vars
  BY RedeemedStep
<1> QED BY SessionInit, SessionStep, <1>1, PTL DEF Spec, RedeemedOnce

\* A session that was replaced writes nothing over its successor's rows,
\* whenever its requests were authenticated (GuardTransaction).
THEOREM WritesCorrect == Spec => OldSessionsDoNotWrite
<1>1. Init => SessionInv /\ Written
  BY SessionInit, WrittenInit
<1>2. SessionInv /\ Written /\ [Next]_vars => (SessionInv /\ Written)'
  BY SessionStep, WrittenStep
<1>3. SessionInv /\ Written /\ [Next]_vars =>
        [\A u \in Users : published'[u] >= published[u]]_vars
  BY WrittenStep
<1> QED BY <1>1, <1>2, <1>3, PTL DEF Spec, OldSessionsDoNotWrite

\* The global budget of the window is spent by attempts within the limits of
\* their peers and by no others, for any number of peers and any limits: a
\* peer that is rejected cannot exhaust it (transferAttempt).
THEOREM CountsCorrect == Spec => []GlobalCountsAdmitted
<1>1. Init => SessionInv /\ Fair(attempts)
  BY SessionInit, FairInit
<1>2. SessionInv /\ Fair(attempts) /\ [Next]_vars => SessionInv' /\ Fair(attempts)'
  BY SessionStep, FairStep
<1>3. SessionInv /\ Fair(attempts) => GlobalCountsAdmitted
  BY DEF Fair, GlobalCountsAdmitted
<1> QED BY <1>1, <1>2, <1>3, PTL DEF Spec
=============================================================================
