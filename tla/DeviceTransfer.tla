--------------------------- MODULE DeviceTransfer ---------------------------
(***************************************************************************)
(* Moving an account between devices, as the app does it                   *)
(* (features/auth/device_transfer.dart with session_controller.dart and    *)
(* app.dart).  The scratch collection lives on the device only: the server *)
(* carries a snapshot of it from one to the other.  Every step may be the  *)
(* last one before the app is killed, storage may refuse a write, and an   *)
(* answer of the server may be lost.  Of the server it models the codes    *)
(* and the epoch; Sessions models the rest.                                *)
(***************************************************************************)
EXTENDS Naturals

CONSTANTS Devices,
          First,        \* the device that holds the account at first
          Nobody,       \* no token, no journal, no receiver
          MaxDraws,     \* bound on the tickets drawn
          MaxCodes,     \* bound on the transfer codes made
          MaxTrouble    \* bound on kills, refused writes and lost answers

VARIABLES
    scratch,    \* on disk: the tickets drawn, as the collection records them
    credential, \* on disk: the epoch of the refresh token
    out,        \* on disk: the outgoing journal
    inc,        \* on disk: the incoming journal, a code and a receiver
    step,       \* what the app is doing
    login,      \* SessionController: restoring, auth, none, retry or cleanup
    away,       \* SessionController.migratedAway
    reply,      \* the answer to redeem that is being imported
    epoch,      \* users.auth_epoch
    codes,      \* device_transfers
    shown,      \* the codes a player has seen
    entered,    \* receiver secrets drawn so far
    drawn,      \* every ticket drawn with the account
    lapsed,     \* whether a receipt expired that was still needed
    trouble     \* what may still go wrong

\* Nobody is no epoch and no journal.
ASSUME CodesAssumption ==
    /\ MaxDraws \in Nat /\ MaxCodes \in Nat
    /\ Nobody \notin Nat \cup [code : Nat, receiver : Nat]

disk == <<scratch, credential, out, inc>>
app == <<step, login, away, reply>>
server == <<epoch, codes, shown>>
ghosts == <<entered, drawn, lapsed>>
transferVars == <<disk, app, server, ghosts, trouble>>

Unused == [snapshot |-> {}, state |-> "none", receiver |-> Nobody, epoch |-> 0]

TransferInit ==
    /\ scratch = [d \in Devices |-> {}]
    /\ credential = [d \in Devices |-> IF d = First THEN 0 ELSE Nobody]
    /\ out = [d \in Devices |-> FALSE]
    /\ inc = [d \in Devices |-> Nobody]
    /\ step = [d \in Devices |-> "off"]
    /\ login = [d \in Devices |-> "restoring"]
    /\ away = [d \in Devices |-> FALSE]
    /\ reply = [d \in Devices |-> Nobody]
    /\ epoch = 0 /\ codes = [k \in 1 .. MaxCodes |-> Unused] /\ shown = {}
    /\ entered = 0 /\ drawn = {} /\ lapsed = FALSE /\ trouble = MaxTrouble

-----------------------------------------------------------------------------

At(d, s) == step[d] = s
Go(d, s) == step' = [step EXCEPT ![d] = s]
Set(f, d, value) == [f EXCEPT ![d] = value]

\* A write is refused or the server is not reached: the app goes on at s.
Fails(d, s) ==
    /\ trouble > 0 /\ trouble' = trouble - 1
    /\ Go(d, s)
    /\ UNCHANGED <<disk, reply, server, ghosts>>

\* Mutant: an app that is started again forgets what it had sent.
OnwardUnaware(d, status) ==
    IF inc[d] # Nobody THEN "incoming"
    ELSE IF status = "auth" THEN "home" ELSE "public"

\* Which page the app shows, or what it goes on with, once it knows who is
\* logged in (_restoreWithTransfer, _buildAuthFlow).
Onward(d, status) ==
    IF inc[d] # Nobody THEN "incoming"
    ELSE IF out[d] THEN "cancel"
    ELSE IF status = "auth" THEN "home" ELSE "public"

\* The server answers session_transferred (_performRestore, _performRefresh).
TransferredAway(d) ==
    /\ login' = Set(login, d, "cleanup") /\ away' = Set(away, d, TRUE)
    /\ Go(d, "clear")
    /\ UNCHANGED <<disk, reply, server, ghosts, trouble>>

-----------------------------------------------------------------------------
(* The app starts, and dies. *)

Kill(d) ==
    /\ ~At(d, "off") /\ trouble > 0 /\ trouble' = trouble - 1
    /\ Go(d, "off")
    /\ login' = Set(login, d, "restoring") /\ away' = Set(away, d, FALSE)
    /\ reply' = Set(reply, d, Nobody)
    /\ UNCHANGED <<disk, server, ghosts>>

\* restoreIncoming: an incoming transfer goes first.
Launch(d) ==
    /\ At(d, "off")
    /\ Go(d, IF inc[d] # Nobody THEN "redeem" ELSE "restore")
    /\ UNCHANGED <<disk, login, away, reply, server, ghosts, trouble>>

\* _performRestore.
Restore(d) ==
    /\ At(d, "restore")
    /\ \/ /\ credential[d] = Nobody
          /\ login' = Set(login, d, "none") /\ Go(d, Onward(d, "none"))
          /\ UNCHANGED <<disk, away, reply, server, ghosts, trouble>>
       \/ /\ credential[d] = epoch
          /\ login' = Set(login, d, "auth") /\ away' = Set(away, d, FALSE)
          /\ Go(d, Onward(d, "auth"))
          /\ UNCHANGED <<disk, reply, server, ghosts, trouble>>
       \/ credential[d] \notin {Nobody, epoch} /\ TransferredAway(d)
       \/ /\ credential[d] # Nobody
          /\ login' = Set(login, d, "retry")
          /\ Fails(d, Onward(d, "retry")) /\ UNCHANGED away
       \/ /\ credential[d] = epoch   \* the rotated token could not be stored
          /\ login' = Set(login, d, "cleanup")
          /\ Fails(d, IF away[d] THEN "clear" ELSE "forget") /\ UNCHANGED away

\* onSessionTransferred: the collection is cleared before the token, so that
\* an interrupted cleanup is asked for again.
Clear(d) ==
    /\ At(d, "clear")
    /\ \/ /\ scratch' = Set(scratch, d, {}) /\ Go(d, "forget")
          /\ UNCHANGED <<credential, out, inc, login, away, reply, server, ghosts, trouble>>
       \/ Fails(d, Onward(d, "cleanup")) /\ UNCHANGED <<login, away>>

\* deleteRefreshToken.
Forget(d) ==
    /\ At(d, "forget")
    /\ \/ /\ credential' = Set(credential, d, Nobody) /\ login' = Set(login, d, "none")
          /\ Go(d, Onward(d, "none"))
          /\ UNCHANGED <<scratch, out, inc, away, reply, server, ghosts, trouble>>
       \/ Fails(d, Onward(d, "cleanup")) /\ UNCHANGED <<login, away>>

\* handleAppResumed, or the player's retry.
Retry(d) ==
    /\ step[d] \in {"public", "recovery"}
    /\ \/ login[d] = "cleanup" /\ Go(d, IF away[d] THEN "clear" ELSE "forget")
       \/ login[d] = "retry" /\ Go(d, "restore")
    /\ UNCHANGED <<disk, login, away, reply, server, ghosts, trouble>>

\* Any call of a logged-in app, or the refresh of its access token.
Contact(d) ==
    /\ step[d] \in {"home", "sending"}
    /\ \/ credential[d] # epoch /\ TransferredAway(d)
       \/ /\ login' = Set(login, d, "retry")
          /\ Fails(d, Onward(d, "retry")) /\ UNCHANGED away

\* The player scratches a ticket.
Draw(d) ==
    /\ At(d, "home")
    /\ LET taken == drawn \cup UNION {scratch[e] : e \in Devices} IN
       \E n \in (1 .. MaxDraws) \ taken :
         /\ 1 .. n - 1 \subseteq taken
         /\ scratch' = Set(scratch, d, scratch[d] \cup {n})
         /\ drawn' = IF credential[d] = epoch THEN drawn \cup {n} ELSE drawn
    /\ UNCHANGED <<credential, out, inc, app, server, entered, lapsed, trouble>>

-----------------------------------------------------------------------------
(* Sending. *)

\* generate: the obligation to cancel is durable before anything is sent.
Journal(d) ==
    /\ step[d] \in {"home", "sending"}
    /\ \/ /\ out' = Set(out, d, TRUE) /\ Go(d, "post")
          /\ UNCHANGED <<scratch, credential, inc, login, away, reply, server, ghosts, trouble>>
       \/ Fails(d, "sending") /\ UNCHANGED <<login, away>>

\* createTransfer: one code of an account can be redeemed; receipts stay.
Outstanding(k) == codes[k].state = "open"

Post(d) ==
    /\ At(d, "post")
    /\ \/ /\ credential[d] = epoch
          /\ \E k \in 1 .. MaxCodes :
               /\ codes[k].state = "none" /\ \A j \in 1 .. k - 1 : codes[j].state # "none"
               /\ codes' = [j \in DOMAIN codes |->
                              IF j = k THEN [Unused EXCEPT !.snapshot = scratch[d], !.state = "open"]
                              ELSE IF Outstanding(j) THEN [codes[j] EXCEPT !.state = "gone"]
                              ELSE codes[j]]
               /\ \/ shown' = shown \cup {k} /\ UNCHANGED trouble
                  \/ trouble > 0 /\ trouble' = trouble - 1 /\ UNCHANGED shown
          /\ Go(d, "sending")
          /\ UNCHANGED <<disk, login, away, reply, epoch, ghosts>>
       \/ credential[d] # epoch /\ TransferredAway(d)
       \/ Fails(d, "sending") /\ UNCHANGED <<login, away>>

\* The player leaves the page, and stays on it until that has succeeded.
Leave(d) ==
    /\ At(d, "sending") /\ Go(d, "cancel")
    /\ UNCHANGED <<disk, login, away, reply, server, ghosts, trouble>>

\* _cancelOutgoing: without an answer of the server, only a transfer that is
\* known to have happened makes it unnecessary.
Cancel(d) ==
    /\ At(d, "cancel")
    /\ \/ /\ login[d] = "auth" /\ credential[d] = epoch
          /\ codes' = [k \in DOMAIN codes |->
                         IF Outstanding(k) THEN [codes[k] EXCEPT !.state = "gone"] ELSE codes[k]]
          /\ \/ Go(d, "uncancel") /\ UNCHANGED trouble
             \/ Go(d, "recovery") /\ trouble > 0 /\ trouble' = trouble - 1
          /\ UNCHANGED <<disk, login, away, reply, epoch, shown, ghosts>>
       \/ login[d] = "auth" /\ credential[d] # epoch /\ TransferredAway(d)
       \/ login[d] = "auth" /\ Fails(d, "recovery") /\ UNCHANGED <<login, away>>
       \/ /\ login[d] # "auth"
          /\ Go(d, IF login[d] # "retry" /\ away[d] THEN "uncancel" ELSE "recovery")
          /\ UNCHANGED <<disk, login, away, reply, server, ghosts, trouble>>

\* store.delete(outgoingKey).
DropOutgoing(d) ==
    /\ At(d, "uncancel")
    /\ \/ /\ out' = Set(out, d, FALSE)
          /\ Go(d, IF login[d] = "auth" THEN "home" ELSE "public")
          /\ UNCHANGED <<scratch, credential, inc, login, away, reply, server, ghosts, trouble>>
       \/ Fails(d, "recovery") /\ UNCHANGED <<login, away>>

\* The button of the recovery page.
RetryCancel(d) ==
    /\ At(d, "recovery") /\ Go(d, IF login[d] = "retry" THEN "restore" ELSE "cancel")
    /\ UNCHANGED <<disk, login, away, reply, server, ghosts, trouble>>

-----------------------------------------------------------------------------
(* Receiving. *)

\* receive: the code and a fresh receiver secret are durable before use.
Enter(d) ==
    /\ step[d] \in {"public", "recovery"} /\ login[d] = "none"
    /\ \E k \in shown :
         \/ /\ entered < MaxCodes + 1 /\ entered' = entered + 1
            /\ inc' = Set(inc, d, [code |-> k, receiver |-> entered + 1])
            /\ Go(d, "redeem")
            /\ UNCHANGED <<scratch, credential, out, login, away, reply, server, drawn, lapsed, trouble>>
         \/ Fails(d, step[d]) /\ UNCHANGED <<login, away>>

\* RedeemTransferForUser: a code is redeemed once, and its receipt given again
\* to the same receiver while the account has not moved on.
Fits(k, receiver) ==
    \/ codes[k].state = "open"
    \/ codes[k].state = "redeemed" /\ codes[k].receiver = receiver /\ codes[k].epoch = epoch

Redeemed(k, receiver) ==
    IF codes[k].state # "open" THEN UNCHANGED <<epoch, codes>>
    ELSE /\ epoch' = epoch + 1
         /\ codes' = [j \in DOMAIN codes |->
              IF j = k THEN [codes[k] EXCEPT !.state = "redeemed", !.receiver = receiver,
                                             !.epoch = epoch + 1]
              ELSE IF codes[j].state # "none" THEN [codes[j] EXCEPT !.state = "gone"]
              ELSE codes[j]]

Redeem(d) ==
    /\ At(d, "redeem")
    /\ LET k == inc[d].code
           receiver == inc[d].receiver IN
       \/ /\ Fits(k, receiver) /\ Redeemed(k, receiver)
          /\ \/ /\ reply' = Set(reply, d, [snapshot |-> codes[k].snapshot, epoch |-> epoch'])
                /\ Go(d, "write_scratch") /\ UNCHANGED trouble
             \/ /\ Go(d, "incoming") /\ trouble > 0 /\ trouble' = trouble - 1
                /\ UNCHANGED reply
          /\ UNCHANGED <<disk, login, away, shown, ghosts>>
       \/ /\ ~Fits(k, receiver) /\ Go(d, "refused")
          /\ UNCHANGED <<disk, login, away, reply, server, ghosts, trouble>>
       \/ Fails(d, "incoming") /\ UNCHANGED <<login, away>>

\* Mutant: a refused code is tried again.
RefusedKept(d) ==
    /\ At(d, "refused") /\ Go(d, "incoming")
    /\ UNCHANGED <<disk, login, away, reply, server, ghosts, trouble>>

\* transfer_invalid: the journal goes, and the app starts as without it.
Refused(d) ==
    /\ At(d, "refused")
    /\ \/ /\ inc' = Set(inc, d, Nobody)
          /\ Go(d, CASE login[d] = "restoring" -> "restore"
                     [] login[d] # "restoring" /\ out[d] -> "recovery"
                     [] OTHER -> "public")
          /\ UNCHANGED <<scratch, credential, out, login, away, reply, server, ghosts, trouble>>
       \/ Fails(d, "incoming") /\ UNCHANGED <<login, away>>

WriteScratch(d) ==
    /\ At(d, "write_scratch")
    /\ \/ /\ scratch' = Set(scratch, d, reply[d].snapshot) /\ Go(d, "write_token")
          /\ UNCHANGED <<credential, out, inc, login, away, reply, server, ghosts, trouble>>
       \/ Fails(d, "incoming") /\ UNCHANGED <<login, away>>

\* _persistAndPublish with its beforePublish: until both journals are gone
\* nobody is logged in; a refused write takes the token back.
TakesBack(d) ==
    /\ Fails(d, IF away[d] THEN "clear" ELSE "forget")
    /\ login' = Set(login, d, "cleanup") /\ UNCHANGED away

WriteToken(d) ==
    /\ At(d, "write_token")
    /\ \/ /\ credential' = Set(credential, d, reply[d].epoch) /\ Go(d, "drop_out")
          /\ UNCHANGED <<scratch, out, inc, login, away, reply, server, ghosts, trouble>>
       \/ TakesBack(d)

DropOut(d) ==
    /\ At(d, "drop_out")
    /\ \/ /\ out' = Set(out, d, FALSE) /\ Go(d, "drop_in")
          /\ UNCHANGED <<scratch, credential, inc, login, away, reply, server, ghosts, trouble>>
       \/ out[d] /\ TakesBack(d)

\* Mutant: the journal stays when the session is published.
DropInKept(d) ==
    /\ At(d, "drop_in")
    /\ \/ /\ reply' = Set(reply, d, Nobody)
          /\ login' = Set(login, d, "auth") /\ away' = Set(away, d, FALSE)
          /\ Go(d, "home")
          /\ UNCHANGED <<disk, server, ghosts, trouble>>
       \/ TakesBack(d)

DropIn(d) ==
    /\ At(d, "drop_in")
    /\ \/ /\ inc' = Set(inc, d, Nobody) /\ reply' = Set(reply, d, Nobody)
          /\ login' = Set(login, d, "auth") /\ away' = Set(away, d, FALSE)
          /\ Go(d, "home")
          /\ UNCHANGED <<scratch, credential, out, server, ghosts, trouble>>
       \/ TakesBack(d)

\* The button of the incoming page.
RetryIncoming(d) ==
    /\ At(d, "incoming") /\ Go(d, "redeem")
    /\ UNCHANGED <<disk, login, away, reply, server, ghosts, trouble>>

-----------------------------------------------------------------------------

\* Ten minutes after a code is made, or a day after it was redeemed.
Expire(k) ==
    /\ codes[k].state \in {"open", "redeemed"}
    /\ codes' = [codes EXCEPT ![k].state = "gone"]
    /\ LET receipt == [code |-> k, receiver |-> codes[k].receiver]
       IN  lapsed' = (lapsed \/ \E d \in Devices : inc[d] = receipt)
    /\ UNCHANGED <<disk, app, epoch, shown, entered, drawn, trouble>>

Proceed(d) ==
    \/ Launch(d) \/ Restore(d) \/ Clear(d) \/ Forget(d) \/ Retry(d) \/ Post(d)
    \/ Cancel(d) \/ DropOutgoing(d) \/ RetryCancel(d)
    \/ Redeem(d) \/ Refused(d) \/ WriteScratch(d) \/ WriteToken(d) \/ DropOut(d)
    \/ DropIn(d) \/ RetryIncoming(d)

TransferNext ==
    \/ \E d \in Devices : Proceed(d) \/ Kill(d) \/ Contact(d) \/ Draw(d)
                          \/ Journal(d) \/ Leave(d) \/ Enter(d)
    \/ \E k \in 1 .. MaxCodes : Expire(k)

\* An app that was killed is started again, what it is doing goes on, a player
\* retries what failed, and an open app calls the server now and then.
TransferFairness == \A d \in Devices : WF_transferVars(Proceed(d)) /\ WF_transferVars(Contact(d))

TransferSpec == TransferInit /\ [][TransferNext]_transferVars
TransferFairSpec == TransferSpec /\ TransferFairness

-----------------------------------------------------------------------------
(* Properties. *)

\* No ticket is lost: whichever device can draw with the account has every
\* ticket drawn with it before, although a snapshot was taken on the way and
\* any step was interrupted (generate, _cancelOutgoing, importSession).
NoDrawLost ==
    \A d \in Devices : ~lapsed /\ At(d, "home") /\ credential[d] = epoch => scratch[d] = drawn

\* A transfer that was begun on the receiving device is finished or refused,
\* and the device that was left behind gives up its token: again and again no
\* device holds an incoming journal or a token that is no longer valid.
TransfersSettle ==
    []<>(\A d \in Devices : inc[d] = Nobody /\ credential[d] \in {Nobody, epoch})
=============================================================================
