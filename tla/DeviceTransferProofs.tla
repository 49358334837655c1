------------------------- MODULE DeviceTransferProofs -------------------------
(***************************************************************************)
(* No ticket is lost when an account moves, for any number of devices,     *)
(* codes, tickets and interruptions.                                       *)
(***************************************************************************)
EXTENDS DeviceTransfer, TLAPS

-----------------------------------------------------------------------------
(* Types, and where the app can be with what is on its disk.               *)
Tickets == 1 .. MaxDraws
CodeIds == 1 .. MaxCodes
Journals == [code : CodeIds, receiver : 1 .. entered]
Replies == [snapshot : SUBSET Tickets, epoch : 0 .. epoch]
CodeRows == [snapshot : SUBSET Tickets, state : {"none", "open", "redeemed", "gone"},
             receiver : {Nobody} \cup 1 .. entered, epoch : 0 .. epoch]

Importing == {"write_scratch", "write_token", "drop_out", "drop_in"}
Receiving == {"redeem", "refused", "incoming"} \cup Importing

Steps == {"off", "restore", "clear", "forget", "public", "home", "sending", "post",
          "cancel", "uncancel", "recovery"} \cup Receiving
Logins == {"restoring", "auth", "none", "retry", "cleanup"}

DiskType ==
    /\ scratch \in [Devices -> SUBSET Tickets]
    /\ credential \in [Devices -> {Nobody} \cup 0 .. epoch]
    /\ out \in [Devices -> BOOLEAN] /\ inc \in [Devices -> {Nobody} \cup Journals]

AppType ==
    /\ step \in [Devices -> Steps] /\ login \in [Devices -> Logins]
    /\ away \in [Devices -> BOOLEAN] /\ reply \in [Devices -> {Nobody} \cup Replies]

ServerType ==
    /\ epoch \in Nat /\ codes \in [CodeIds -> CodeRows] /\ shown \in SUBSET CodeIds
    /\ entered \in Nat /\ drawn \in SUBSET Tickets /\ lapsed \in BOOLEAN

TypeInv == DiskType /\ AppType /\ ServerType

(* With a journal of an incoming transfer the app does nothing else, and   *)
(* what it has imported so far is on the disk.                             *)
Place(d) ==
    /\ step[d] \in Receiving => inc[d] # Nobody
    /\ inc[d] # Nobody => step[d] \in Receiving \cup {"off", "clear", "forget"}
    /\ step[d] = "clear" => away[d]
    /\ step[d] = "post" => out[d]
    /\ login[d] = "none" => credential[d] = Nobody \/ step[d] \in {"drop_out", "drop_in"}
    /\ step[d] \in Importing => reply[d] \in Replies
    /\ step[d] \in Importing \ {"write_scratch"} => scratch[d] = reply[d].snapshot
    /\ step[d] \in {"drop_out", "drop_in"} => credential[d] = reply[d].epoch

-----------------------------------------------------------------------------
(* Who holds the account: with its token, or with the receipt of the code  *)
(* that was redeemed last.                                                 *)
Receipt(d) ==
    /\ inc[d] # Nobody
    /\ codes[inc[d].code].state = "redeemed"
    /\ codes[inc[d].code].receiver = inc[d].receiver
    /\ codes[inc[d].code].epoch = epoch

Holds(d) == credential[d] = epoch \/ Receipt(d)

NoneOpen == \A k \in CodeIds : codes[k].state # "open"

OwnReceiver ==
    \A d, e \in Devices :
        inc[d] # Nobody /\ inc[e] # Nobody /\ inc[d].receiver = inc[e].receiver => d = e

OneRedeemed ==
    \A j, k \in CodeIds :
        codes[j].state = "redeemed" /\ codes[k].state = "redeemed" => j = k

Shape == OwnReceiver /\ OneRedeemed /\ \A d \in Devices : Place(d)

(* What keeps the tickets: they are with the holder, in the snapshot that  *)
(* the holder can be given again, or in one that the holder cannot add to. *)
Safe(d) ==
    /\ credential[d] = epoch /\ inc[d] = Nobody => scratch[d] = drawn /\ ~away[d]
    /\ credential[d] = epoch /\ inc[d] # Nobody => Receipt(d)
    /\ Receipt(d) => codes[inc[d].code].snapshot = drawn /\ NoneOpen
    /\ step[d] \in Importing /\ reply[d].epoch = epoch =>
          Receipt(d) /\ reply[d].snapshot = drawn
    /\ credential[d] = epoch /\ ~NoneOpen => out[d] /\ step[d] \notin {"home", "uncancel"}
    /\ step[d] = "refused" => credential[d] # epoch

OneHolder == \A d, e \in Devices : Holds(d) /\ Holds(e) => d = e

OpenFits == \A k \in CodeIds : codes[k].state = "open" => codes[k].snapshot = drawn

Core == ~lapsed => OneHolder /\ OpenFits /\ \A d \in Devices : Safe(d)

AccountInv == TypeInv /\ Shape /\ Core

LEMMA AccountInit == TransferInit => AccountInv
<1> SUFFICES ASSUME TransferInit PROVE AccountInv
  OBVIOUS
<1> USE CodesAssumption DEF TransferInit
<1>1. TypeInv
  <2>1. Unused \in CodeRows
    BY DEF Unused, CodeRows, Tickets
  <2>2. ServerType
    BY <2>1 DEF ServerType, CodeIds, Tickets
  <2>3. credential \in [Devices -> {Nobody} \cup 0 .. epoch]
    <3>1. 0 \in 0 .. 0
      OBVIOUS
    <3> QED BY <3>1
  <2>4. DiskType
    BY <2>3 DEF DiskType
  <2>5. step \in [Devices -> Steps] /\ login \in [Devices -> Logins]
    BY DEF Steps, Logins
  <2>6. away \in [Devices -> BOOLEAN] /\ reply \in [Devices -> {Nobody} \cup Replies]
    OBVIOUS
  <2> QED BY <2>2, <2>4, <2>5, <2>6 DEF TypeInv, AppType
<1>2. \A k \in CodeIds : codes[k].state = "none"
  BY DEF CodeIds, Unused
<1>3. Shape
  BY <1>2 DEF Shape, OwnReceiver, OneRedeemed, Place, Receiving, Importing
<1>4. \A d \in Devices : ~Receipt(d) /\ (credential[d] = epoch => d = First)
  <2>1. Nobody # 0
    OBVIOUS
  <2> QED BY <2>1 DEF Receipt
<1>5. Core
  BY <1>2, <1>4 DEF Core, OneHolder, Holds, OpenFits, Safe, NoneOpen, Importing
<1> QED BY <1>1, <1>3, <1>5 DEF AccountInv

-----------------------------------------------------------------------------
(* Steps of one device that leave the server alone.                        *)
Same(e) ==
    /\ scratch'[e] = scratch[e] /\ credential'[e] = credential[e] /\ out'[e] = out[e]
    /\ inc'[e] = inc[e] /\ step'[e] = step[e] /\ login'[e] = login[e]
    /\ away'[e] = away[e] /\ reply'[e] = reply[e]

Others(d) == \A e \in Devices \ {d} : Same(e)

Still == epoch' = epoch /\ codes' = codes /\ drawn' = drawn /\ lapsed' = lapsed

(* A device that does nothing, while the server does nothing to it.        *)
LEMMA Unmoved ==
    ASSUME NEW e \in Devices, Same(e), epoch' = epoch, drawn' = drawn,
           Receipt(e)' <=> Receipt(e),
           Receipt(e) => codes'[inc[e].code].snapshot = codes[inc[e].code].snapshot,
           NoneOpen => NoneOpen', Place(e)
    PROVE  Place(e)' /\ (Safe(e) => Safe(e)') /\ (Holds(e)' <=> Holds(e))
<1>1. Place(e)'
  BY DEF Place, Same, Receiving, Importing, Replies, Tickets
<1>2. Holds(e)' <=> Holds(e)
  BY DEF Holds, Same
<1>3. Safe(e) => Safe(e)'
  BY DEF Safe, Same, Importing
<1> QED BY <1>1, <1>2, <1>3

Local(d) ==
    /\ Still /\ Others(d) /\ TypeInv' /\ OwnReceiver' /\ Place(d)'
    /\ ~lapsed => Safe(d)' /\ (Holds(d)' => Holds(d))

LEMMA LocalKeeps ==
    ASSUME AccountInv, NEW d \in Devices, Local(d)
    PROVE  AccountInv'
<1>1. ASSUME NEW e \in Devices, e # d
      PROVE  Place(e)' /\ (Safe(e) => Safe(e)') /\ (Holds(e)' <=> Holds(e))
  <2>1. Same(e)
    BY <1>1 DEF Local, Others
  <2>2. (Receipt(e)' <=> Receipt(e)) /\ (NoneOpen => NoneOpen')
    BY <2>1 DEF Receipt, Same, Local, Still, NoneOpen
  <2> QED BY <2>1, <2>2, Unmoved DEF Local, Still, AccountInv, Shape
<1>2. Shape'
  BY <1>1 DEF Shape, Local, OneRedeemed, AccountInv, Still
<1>3. Core'
  <2> SUFFICES ASSUME ~lapsed PROVE (OneHolder /\ OpenFits /\ \A e \in Devices : Safe(e))'
    BY DEF Core, Local, Still
  <2>1. OneHolder /\ OpenFits /\ \A e \in Devices : Safe(e)
    BY DEF Core, AccountInv
  <2>2. OneHolder'
    BY <1>1, <2>1 DEF OneHolder, Local
  <2>3. OpenFits'
    BY <2>1 DEF OpenFits, Local, Still
  <2>4. \A e \in Devices : Safe(e)'
    BY <1>1, <2>1 DEF Local
  <2> QED BY <2>2, <2>3, <2>4
<1> QED BY <1>2, <1>3 DEF AccountInv, Local

-----------------------------------------------------------------------------
(* Steps that write nothing: the app goes on with something else.          *)
AppOnly(d) ==
    /\ UNCHANGED <<disk, server, ghosts>> /\ AppType'
    /\ \A e \in Devices \ {d} : /\ step'[e] = step[e] /\ login'[e] = login[e]
                                /\ away'[e] = away[e] /\ reply'[e] = reply[e]

Allowed(d) ==
    /\ step'[d] \notin Importing \cup {"post"}
    /\ step'[d] \in Receiving => inc[d] # Nobody
    /\ inc[d] # Nobody => step'[d] \in Receiving \cup {"off", "clear", "forget"}
    /\ step'[d] = "clear" => away'[d]
    /\ login'[d] = "none" => credential[d] = Nobody
    /\ away'[d] => away[d] \/ credential[d] # epoch
    /\ step'[d] \in {"home", "uncancel"} =>
          credential[d] # epoch \/ ~out[d] \/ lapsed
    /\ step'[d] = "refused" => credential[d] # epoch \/ lapsed

LEMMA GoesOn ==
    ASSUME AccountInv, NEW d \in Devices, AppOnly(d), Allowed(d)
    PROVE  Local(d)
<1>1. Still /\ Others(d)
  BY DEF AppOnly, Still, Others, Same, disk, server, ghosts
<1>2. TypeInv'
  BY DEF AppOnly, AccountInv, TypeInv, DiskType, ServerType, Journals, CodeRows,
         disk, server, ghosts
<1>3. OwnReceiver'
  BY DEF AppOnly, AccountInv, Shape, OwnReceiver, disk
<1>4. Place(d)'
  BY DEF Place, Allowed, AppOnly, Importing, disk
<1>5. Receipt(d)' <=> Receipt(d)
  BY DEF AppOnly, Receipt, disk, server
<1>6. NoneOpen' <=> NoneOpen
  BY DEF AppOnly, NoneOpen, server
<1>7. ASSUME ~lapsed PROVE Safe(d)'
  <2>1. Safe(d)
    BY <1>7 DEF AccountInv, Core
  <2> QED BY <1>5, <1>6, <1>7, <2>1 DEF Safe, Allowed, AppOnly, disk, server, ghosts
<1>8. Holds(d)' => Holds(d)
  BY <1>5 DEF Holds, AppOnly, disk, server
<1> QED BY <1>1, <1>2, <1>3, <1>4, <1>7, <1>8 DEF Local

(* A failure, and the news that the account has moved on.                  *)
LEMMA FailureLocal ==
    ASSUME AccountInv, NEW d \in Devices,
           NEW s \in Steps \ (Importing \cup {"post", "home", "uncancel", "refused"}),
           Fails(d, s), UNCHANGED <<login, away>>,
           s \in Receiving => inc[d] # Nobody,
           inc[d] # Nobody => s \in Receiving \cup {"off", "clear", "forget"},
           s = "clear" => away[d], login[d] = "none" => credential[d] = Nobody
    PROVE  Local(d)
<1>1. step'[d] = s /\ AppOnly(d)
  BY DEF AppOnly, Fails, Go, AccountInv, TypeInv, AppType, Replies, server
<1>2. Allowed(d)
  BY <1>1 DEF Allowed
<1> QED BY <1>1, <1>2, GoesOn

LEMMA TransferredLocal ==
    ASSUME AccountInv, NEW d \in Devices, TransferredAway(d), inc[d] = Nobody,
           credential[d] # epoch
    PROVE  Local(d)
<1>1. /\ step'[d] = "clear" /\ login'[d] = "cleanup" /\ away'[d] /\ AppOnly(d)
  BY DEF AppOnly, TransferredAway, Go, Set, AccountInv, TypeInv, AppType, Replies, server,
         Steps, Logins
<1>2. Allowed(d)
  BY <1>1 DEF Allowed, Receiving, Importing
<1> QED BY <1>1, <1>2, GoesOn

LEMMA Onwards ==
    ASSUME NEW d, NEW status, NEW s, s = Onward(d, status)
    PROVE  /\ s \in {"incoming", "cancel", "home", "public"}
           /\ s = "incoming" <=> inc[d] # Nobody
           /\ s = "home" => ~out[d] /\ status = "auth"
BY DEF Onward

LEMMA KillLocal ==
    ASSUME AccountInv, NEW d \in Devices, Kill(d)
    PROVE  Local(d)
<1>1. /\ step'[d] = "off" /\ login'[d] = "restoring" /\ ~away'[d] /\ AppOnly(d)
  BY DEF AppOnly, Kill, Go, Set, AccountInv, TypeInv, AppType, Replies, server, Steps, Logins
<1>2. Allowed(d)
  BY <1>1 DEF Allowed, Receiving, Importing
<1> QED BY <1>1, <1>2, GoesOn

LEMMA LaunchLocal ==
    ASSUME AccountInv, NEW d \in Devices, Launch(d)
    PROVE  Local(d)
<1>1. /\ step'[d] = (IF inc[d] # Nobody THEN "redeem" ELSE "restore")
      /\ login'[d] = login[d] /\ away'[d] = away[d] /\ AppOnly(d)
  BY DEF AppOnly, Launch, Go, AccountInv, TypeInv, AppType, Replies, server, Steps, Receiving
<1>2. At(d, "off") /\ Place(d)
  BY DEF Launch, AccountInv, Shape
<1>3. Allowed(d)
  BY <1>1, <1>2 DEF Allowed, Receiving, Importing, Place, At
<1> QED BY <1>1, <1>3, GoesOn

(* Steps that only go from one place to another.                           *)
LEMMA GoLocal ==
    ASSUME AccountInv, NEW d \in Devices,
           NEW s \in Steps \ (Importing \cup {"post", "home", "refused"}), Go(d, s),
           UNCHANGED <<disk, login, away, reply, server, ghosts>>,
           s \in Receiving => inc[d] # Nobody,
           inc[d] # Nobody => s \in Receiving \cup {"off", "clear", "forget"},
           s = "clear" => away[d], login[d] = "none" => credential[d] = Nobody,
           s = "uncancel" => credential[d] # epoch \/ lapsed
    PROVE  Local(d)
<1>1. step'[d] = s /\ AppOnly(d)
  BY DEF AppOnly, Go, AccountInv, TypeInv, AppType, Replies, server
<1>2. Allowed(d)
  BY <1>1 DEF Allowed
<1> QED BY <1>1, <1>2, GoesOn

-----------------------------------------------------------------------------
(* Restoring, and giving up.                                               *)
LEMMA RestoreLocal ==
    ASSUME AccountInv, NEW d \in Devices, Restore(d)
    PROVE  Local(d)
<1>1. At(d, "restore") /\ Place(d)
  BY DEF Restore, AccountInv, Shape
<1>2. inc[d] = Nobody
  BY <1>1 DEF Place, At, Receiving, Importing
<1>3. CASE /\ credential[d] = Nobody
           /\ login' = Set(login, d, "none") /\ Go(d, Onward(d, "none"))
           /\ UNCHANGED <<disk, away, reply, server, ghosts, trouble>>
  <2>1. PICK s : s = Onward(d, "none")
    OBVIOUS
  <2>2. s \in {"cancel", "public"}
    BY <1>2, <2>1, Onwards
  <2>3. step'[d] = s /\ login'[d] = "none" /\ away'[d] = away[d] /\ AppOnly(d)
    BY <1>3, <2>1, <2>2
       DEF AppOnly, Go, Set, AccountInv, TypeInv, AppType, Replies, server, Steps, Logins
  <2>4. Allowed(d)
    BY <1>2, <1>3, <2>2, <2>3 DEF Allowed, Receiving, Importing
  <2> QED BY <2>3, <2>4, GoesOn
<1>4. CASE /\ credential[d] = epoch
           /\ login' = Set(login, d, "auth") /\ away' = Set(away, d, FALSE)
           /\ Go(d, Onward(d, "auth"))
           /\ UNCHANGED <<disk, reply, server, ghosts, trouble>>
  <2>1. PICK s : s = Onward(d, "auth")
    OBVIOUS
  <2>2. s \in {"cancel", "public", "home"} /\ (s = "home" => ~out[d])
    BY <1>2, <2>1, Onwards
  <2>3. step'[d] = s /\ login'[d] = "auth" /\ ~away'[d] /\ AppOnly(d)
    BY <1>4, <2>1, <2>2
       DEF AppOnly, Go, Set, AccountInv, TypeInv, AppType, Replies, server, Steps, Logins
  <2>4. Allowed(d)
    BY <1>2, <2>2, <2>3 DEF Allowed, Receiving, Importing
  <2> QED BY <2>3, <2>4, GoesOn
<1>5. CASE credential[d] \notin {Nobody, epoch} /\ TransferredAway(d)
  BY <1>2, <1>5, TransferredLocal
<1>6. CASE /\ login' = Set(login, d, "retry")
           /\ Fails(d, Onward(d, "retry")) /\ UNCHANGED away
  <2>1. PICK s : s = Onward(d, "retry")
    OBVIOUS
  <2>2. s \in {"cancel", "public"}
    BY <1>2, <2>1, Onwards
  <2>3. step'[d] = s /\ login'[d] = "retry" /\ away'[d] = away[d] /\ AppOnly(d)
    BY <1>6, <2>1, <2>2
       DEF AppOnly, Fails, Go, Set, AccountInv, TypeInv, AppType, Replies, server, Steps, Logins
  <2>4. Allowed(d)
    BY <1>2, <2>2, <2>3 DEF Allowed, Receiving, Importing
  <2> QED BY <2>3, <2>4, GoesOn
<1>7. CASE /\ login' = Set(login, d, "cleanup")
           /\ Fails(d, IF away[d] THEN "clear" ELSE "forget") /\ UNCHANGED away
  <2>1. /\ step'[d] = (IF away[d] THEN "clear" ELSE "forget")
        /\ login'[d] = "cleanup" /\ away'[d] = away[d] /\ AppOnly(d)
    BY <1>7 DEF AppOnly, Fails, Go, Set, AccountInv, TypeInv, AppType, Replies, server,
                Steps, Logins
  <2>2. Allowed(d)
    BY <1>2, <2>1 DEF Allowed, Receiving, Importing
  <2> QED BY <2>1, <2>2, GoesOn
<1> QED BY <1>3, <1>4, <1>5, <1>6, <1>7 DEF Restore

LEMMA ContactLocal ==
    ASSUME AccountInv, NEW d \in Devices, Contact(d)
    PROVE  Local(d)
<1>1. step[d] \in {"home", "sending"} /\ Place(d)
  BY DEF Contact, AccountInv, Shape
<1>2. inc[d] = Nobody
  BY <1>1 DEF Place, Receiving, Importing
<1>3. CASE credential[d] # epoch /\ TransferredAway(d)
  BY <1>2, <1>3, TransferredLocal
<1>4. CASE /\ login' = Set(login, d, "retry")
           /\ Fails(d, Onward(d, "retry")) /\ UNCHANGED away
  <2>1. PICK s : s = Onward(d, "retry")
    OBVIOUS
  <2>2. s \in {"cancel", "public"}
    BY <1>2, <2>1, Onwards
  <2>3. step'[d] = s /\ login'[d] = "retry" /\ away'[d] = away[d] /\ AppOnly(d)
    BY <1>4, <2>1, <2>2
       DEF AppOnly, Fails, Go, Set, AccountInv, TypeInv, AppType, Replies, server, Steps, Logins
  <2>4. Allowed(d)
    BY <1>2, <2>2, <2>3 DEF Allowed, Receiving, Importing
  <2> QED BY <2>3, <2>4, GoesOn
<1> QED BY <1>3, <1>4 DEF Contact

(* Where a cleanup goes on that the storage refused.                       *)
LEMMA CleanupFails ==
    ASSUME AccountInv, NEW d \in Devices, step[d] \in {"clear", "forget"},
           Fails(d, Onward(d, "cleanup")), UNCHANGED <<login, away>>
    PROVE  Local(d)
<1>1. PICK s : s = Onward(d, "cleanup")
  OBVIOUS
<1>2. s \in {"cancel", "public", "incoming"} /\ (s = "incoming" <=> inc[d] # Nobody)
  BY <1>1, Onwards
<1>3. Place(d)
  BY DEF AccountInv, Shape
<1>4. login[d] = "none" => credential[d] = Nobody
  BY <1>3 DEF Place
<1>5. s \in Steps \ (Importing \cup {"post", "home", "uncancel", "refused"})
  BY <1>2 DEF Steps, Importing, Receiving
<1>6. /\ s \in Receiving => inc[d] # Nobody
      /\ inc[d] # Nobody => s \in Receiving \cup {"off", "clear", "forget"}
  BY <1>2 DEF Importing, Receiving
<1>7. Fails(d, s) /\ s # "clear"
  BY <1>1, <1>2
<1> QED BY <1>4, <1>5, <1>6, <1>7, FailureLocal

LEMMA ClearLocal ==
    ASSUME AccountInv, NEW d \in Devices, Clear(d)
    PROVE  Local(d)
<1>1. step[d] = "clear" /\ Place(d) /\ d \in Devices
  BY DEF Clear, At, AccountInv, Shape
<1>2. CASE /\ scratch' = Set(scratch, d, {}) /\ Go(d, "forget")
           /\ UNCHANGED <<credential, out, inc, login, away, reply, server, ghosts, trouble>>
  <2>1. /\ scratch'[d] = {} /\ step'[d] = "forget" /\ Others(d)
        /\ credential' = credential /\ out' = out /\ inc' = inc /\ login' = login
        /\ away' = away /\ reply' = reply
    BY <1>2 DEF AccountInv, TypeInv, DiskType, AppType, Go, Set, Others, Same
  <2>2. TypeInv'
    BY <1>2 DEF AccountInv, TypeInv, DiskType, AppType, ServerType, Go, Set, Steps,
                Journals, Replies, CodeRows, server, ghosts
  <2>3. Still /\ OwnReceiver'
    BY <1>2 DEF Still, AccountInv, Shape, OwnReceiver, server, ghosts
  <2>4. Place(d)'
    BY <1>1, <2>1 DEF Place, Receiving, Importing
  <2>5. (Receipt(d)' <=> Receipt(d)) /\ (NoneOpen' <=> NoneOpen)
    BY <2>1, <2>3 DEF Receipt, NoneOpen, Still
  <2>6. ASSUME ~lapsed PROVE Safe(d)' /\ (Holds(d)' => Holds(d))
    <3>1. Safe(d) /\ away[d]
      BY <1>1, <2>6 DEF AccountInv, Core, Place
    <3> QED BY <2>1, <2>3, <2>5, <3>1 DEF Safe, Still, Importing, Holds
  <2> QED BY <2>1, <2>2, <2>3, <2>4, <2>6 DEF Local
<1>3. CASE Fails(d, Onward(d, "cleanup")) /\ UNCHANGED <<login, away>>
  BY <1>1, <1>3, CleanupFails
<1> QED BY <1>2, <1>3 DEF Clear

LEMMA ForgetLocal ==
    ASSUME AccountInv, NEW d \in Devices, Forget(d)
    PROVE  Local(d)
<1>1. step[d] = "forget" /\ Place(d)
  BY DEF Forget, At, AccountInv, Shape
<1>2. CASE /\ credential' = Set(credential, d, Nobody) /\ login' = Set(login, d, "none")
           /\ Go(d, Onward(d, "none"))
           /\ UNCHANGED <<scratch, out, inc, away, reply, server, ghosts, trouble>>
  <2>1. PICK s : s = Onward(d, "none")
    OBVIOUS
  <2>2. s \in {"cancel", "public", "incoming"} /\ (s = "incoming" <=> inc[d] # Nobody)
    BY <2>1, Onwards
  <2>3. /\ credential'[d] = Nobody /\ step'[d] = s /\ login'[d] = "none" /\ Others(d)
        /\ scratch' = scratch /\ out' = out /\ inc' = inc
        /\ away' = away /\ reply' = reply
    BY <1>2, <2>1 DEF AccountInv, TypeInv, DiskType, AppType, Go, Set, Others, Same
  <2>4. TypeInv'
    <3>1. s \in Steps
      BY <2>2 DEF Steps, Receiving
    <3> QED BY <1>2, <2>1, <3>1
            DEF AccountInv, TypeInv, DiskType, AppType, ServerType, Go, Set, Logins,
                Journals, Replies, CodeRows, server, ghosts
  <2>5. Still /\ OwnReceiver'
    BY <1>2 DEF Still, AccountInv, Shape, OwnReceiver, server, ghosts
  <2>6. Place(d)'
    BY <1>1, <2>2, <2>3 DEF Place, Receiving, Importing
  <2>7. (Receipt(d)' <=> Receipt(d)) /\ (NoneOpen' <=> NoneOpen)
    BY <2>3, <2>5 DEF Receipt, NoneOpen, Still
  <2>8. credential'[d] # epoch'
    BY <2>3, <2>5, CodesAssumption DEF AccountInv, TypeInv, ServerType, Still
  <2>9. ASSUME ~lapsed PROVE Safe(d)' /\ (Holds(d)' => Holds(d))
    <3>1. Safe(d)
      BY <2>9 DEF AccountInv, Core
    <3> QED BY <2>2, <2>3, <2>5, <2>7, <2>8, <3>1 DEF Safe, Still, Importing, Holds
  <2> QED BY <2>3, <2>4, <2>5, <2>6, <2>9 DEF Local
<1>3. CASE Fails(d, Onward(d, "cleanup")) /\ UNCHANGED <<login, away>>
  BY <1>1, <1>3, CleanupFails
<1> QED BY <1>2, <1>3 DEF Forget

LEMMA RetryLocal ==
    ASSUME AccountInv, NEW d \in Devices, Retry(d)
    PROVE  Local(d)
<1>1. step[d] \in {"public", "recovery"} /\ Place(d)
  BY DEF Retry, AccountInv, Shape
<1>2. inc[d] = Nobody
  BY <1>1 DEF Place, Receiving, Importing
<1>3. PICK s \in {"clear", "forget", "restore"} :
          /\ Go(d, s) /\ (s = "clear" => away[d])
          /\ login[d] \in {"cleanup", "retry"}
  BY DEF Retry
<1>4. UNCHANGED <<disk, login, away, reply, server, ghosts>>
  BY DEF Retry
<1>5. s \in Steps \ (Importing \cup {"post", "home", "refused", "uncancel"} \cup Receiving)
  BY DEF Steps, Receiving, Importing
<1>6. login[d] # "none" /\ (s = "clear" => away[d])
  BY <1>3
<1> QED BY <1>2, <1>3, <1>4, <1>5, <1>6, GoLocal

LEMMA LeaveLocal ==
    ASSUME AccountInv, NEW d \in Devices, Leave(d)
    PROVE  Local(d)
<1>1. step[d] = "sending" /\ Place(d)
  BY DEF Leave, At, AccountInv, Shape
<1>2. inc[d] = Nobody /\ (login[d] = "none" => credential[d] = Nobody)
  BY <1>1 DEF Place, Receiving, Importing
<1>3. Go(d, "cancel") /\ UNCHANGED <<disk, login, away, reply, server, ghosts>>
  BY DEF Leave
<1>4. "cancel" \in Steps \ (Importing \cup {"post", "home", "refused"} \cup Receiving)
  BY DEF Steps, Receiving, Importing
<1> QED BY <1>2, <1>3, <1>4, GoLocal

LEMMA RetryCancelLocal ==
    ASSUME AccountInv, NEW d \in Devices, RetryCancel(d)
    PROVE  Local(d)
<1>1. step[d] = "recovery" /\ Place(d)
  BY DEF RetryCancel, At, AccountInv, Shape
<1>2. inc[d] = Nobody /\ (login[d] = "none" => credential[d] = Nobody)
  BY <1>1 DEF Place, Receiving, Importing
<1>3. PICK s \in {"restore", "cancel"} : Go(d, s)
  BY DEF RetryCancel
<1>4. UNCHANGED <<disk, login, away, reply, server, ghosts>>
  BY DEF RetryCancel
<1>5. s \in Steps \ (Importing \cup {"post", "home", "refused"} \cup Receiving)
      /\ s # "clear" /\ s # "uncancel"
  BY DEF Steps, Receiving, Importing
<1> QED BY <1>2, <1>3, <1>4, <1>5, GoLocal

LEMMA RetryIncomingLocal ==
    ASSUME AccountInv, NEW d \in Devices, RetryIncoming(d)
    PROVE  Local(d)
<1>1. step[d] = "incoming" /\ Place(d)
  BY DEF RetryIncoming, At, AccountInv, Shape
<1>2. inc[d] # Nobody /\ (login[d] = "none" => credential[d] = Nobody)
  BY <1>1 DEF Place, Receiving
<1>3. Go(d, "redeem") /\ UNCHANGED <<disk, login, away, reply, server, ghosts>>
  BY DEF RetryIncoming
<1>4. /\ "redeem" \in Steps \ (Importing \cup {"post", "home", "refused"})
      /\ "redeem" \in Receiving
  BY DEF Steps, Receiving, Importing
<1> QED BY <1>2, <1>3, <1>4, GoLocal

-----------------------------------------------------------------------------
(* Sending, as far as the device alone is concerned.                       *)
LEMMA JournalLocal ==
    ASSUME AccountInv, NEW d \in Devices, Journal(d)
    PROVE  Local(d)
<1>1. step[d] \in {"home", "sending"} /\ Place(d)
  BY DEF Journal, AccountInv, Shape
<1>2. inc[d] = Nobody /\ (login[d] = "none" => credential[d] = Nobody)
  BY <1>1 DEF Place, Receiving, Importing
<1>3. CASE /\ out' = Set(out, d, TRUE) /\ Go(d, "post")
           /\ UNCHANGED <<scratch, credential, inc, login, away, reply, server, ghosts, trouble>>
  <2>1. /\ out'[d] /\ step'[d] = "post" /\ Others(d)
        /\ scratch' = scratch /\ credential' = credential /\ inc' = inc /\ login' = login
        /\ away' = away /\ reply' = reply
    BY <1>3 DEF AccountInv, TypeInv, DiskType, AppType, Go, Set, Others, Same
  <2>2. TypeInv'
    BY <1>3 DEF AccountInv, TypeInv, DiskType, AppType, ServerType, Go, Set, Steps,
                Journals, Replies, CodeRows, server, ghosts
  <2>3. Still /\ OwnReceiver'
    BY <1>3 DEF Still, AccountInv, Shape, OwnReceiver, server, ghosts
  <2>4. Place(d)'
    BY <1>2, <2>1 DEF Place, Receiving, Importing
  <2>5. (Receipt(d)' <=> Receipt(d)) /\ (NoneOpen' <=> NoneOpen)
    BY <2>1, <2>3 DEF Receipt, NoneOpen, Still
  <2>6. ASSUME ~lapsed PROVE Safe(d)' /\ (Holds(d)' => Holds(d))
    <3>1. Safe(d)
      BY <2>6 DEF AccountInv, Core
    <3> QED BY <2>1, <2>3, <2>5, <3>1 DEF Safe, Still, Importing, Holds
  <2> QED BY <2>1, <2>2, <2>3, <2>4, <2>6 DEF Local
<1>4. CASE Fails(d, "sending") /\ UNCHANGED <<login, away>>
  <2>1. "sending" \in Steps \ (Importing \cup {"post", "home", "uncancel", "refused"}
                               \cup Receiving)
    BY DEF Steps, Receiving, Importing
  <2> QED BY <1>2, <1>4, <2>1, FailureLocal
<1> QED BY <1>3, <1>4 DEF Journal

LEMMA DropOutgoingLocal ==
    ASSUME AccountInv, NEW d \in Devices, DropOutgoing(d)
    PROVE  Local(d)
<1>1. step[d] = "uncancel" /\ Place(d)
  BY DEF DropOutgoing, At, AccountInv, Shape
<1>2. inc[d] = Nobody /\ (login[d] = "none" => credential[d] = Nobody)
  BY <1>1 DEF Place, Receiving, Importing
<1>3. CASE /\ out' = Set(out, d, FALSE)
           /\ Go(d, IF login[d] = "auth" THEN "home" ELSE "public")
           /\ UNCHANGED <<scratch, credential, inc, login, away, reply, server, ghosts, trouble>>
  <2>1. /\ step'[d] \in {"home", "public"} /\ Others(d)
        /\ scratch' = scratch /\ credential' = credential /\ inc' = inc /\ login' = login
        /\ away' = away /\ reply' = reply
    BY <1>3 DEF AccountInv, TypeInv, DiskType, AppType, Go, Set, Others, Same
  <2>2. TypeInv'
    BY <1>3 DEF AccountInv, TypeInv, DiskType, AppType, ServerType, Go, Set, Steps,
                Journals, Replies, CodeRows, server, ghosts
  <2>3. Still /\ OwnReceiver'
    BY <1>3 DEF Still, AccountInv, Shape, OwnReceiver, server, ghosts
  <2>4. Place(d)'
    BY <1>2, <2>1 DEF Place, Receiving, Importing
  <2>5. (Receipt(d)' <=> Receipt(d)) /\ (NoneOpen' <=> NoneOpen)
    BY <2>1, <2>3 DEF Receipt, NoneOpen, Still
  <2>6. ASSUME ~lapsed PROVE Safe(d)' /\ (Holds(d)' => Holds(d))
    <3>1. Safe(d)
      BY <2>6 DEF AccountInv, Core
    <3> QED BY <1>1, <2>1, <2>3, <2>5, <3>1 DEF Safe, Still, Importing, Holds
  <2> QED BY <2>1, <2>2, <2>3, <2>4, <2>6 DEF Local
<1>4. CASE Fails(d, "recovery") /\ UNCHANGED <<login, away>>
  <2>1. "recovery" \in Steps \ (Importing \cup {"post", "home", "uncancel", "refused"}
                                \cup Receiving)
    BY DEF Steps, Receiving, Importing
  <2> QED BY <1>2, <1>4, <2>1, FailureLocal
<1> QED BY <1>3, <1>4 DEF DropOutgoing

-----------------------------------------------------------------------------
(* Receiving, but for the call that redeems.                               *)
LEMMA EnterLocal ==
    ASSUME AccountInv, NEW d \in Devices, Enter(d)
    PROVE  Local(d)
<1>1. step[d] \in {"public", "recovery"} /\ login[d] = "none" /\ Place(d)
  BY DEF Enter, AccountInv, Shape
<1>2. inc[d] = Nobody /\ credential[d] = Nobody
  BY <1>1 DEF Place, Receiving, Importing
<1>3. PICK k \in shown :
         \/ /\ entered < MaxCodes + 1 /\ entered' = entered + 1
            /\ inc' = Set(inc, d, [code |-> k, receiver |-> entered + 1])
            /\ Go(d, "redeem")
            /\ UNCHANGED <<scratch, credential, out, login, away, reply, server, drawn,
                           lapsed, trouble>>
         \/ Fails(d, step[d]) /\ UNCHANGED <<login, away>>
  BY DEF Enter
<1>4. CASE /\ entered' = entered + 1
           /\ inc' = Set(inc, d, [code |-> k, receiver |-> entered + 1])
           /\ Go(d, "redeem")
           /\ UNCHANGED <<scratch, credential, out, login, away, reply, server, drawn,
                          lapsed, trouble>>
  <2> DEFINE j == [code |-> k, receiver |-> entered + 1]
  <2>0. k \in CodeIds /\ entered \in Nat /\ epoch \in Nat
    BY DEF AccountInv, TypeInv, ServerType
  <2>0a. 1 .. entered \subseteq 1 .. entered'
    BY <1>4, <2>0
  <2>0b. entered' \in Nat /\ entered' \in 1 .. entered' /\ entered' \notin 1 .. entered
    BY <1>4, <2>0
  <2>0c. j \in [code : CodeIds, receiver : 1 .. entered'] /\ j.code = k /\ j.receiver = entered'
    BY <1>4, <2>0, <2>0b
  <2>0d. j # Nobody
    BY <2>0, CodesAssumption DEF CodeIds
  <2> HIDE DEF j
  <2>1. /\ inc'[d] = j /\ step'[d] = "redeem" /\ Others(d)
        /\ \A e \in Devices \ {d} : inc'[e] = inc[e]
        /\ scratch' = scratch /\ credential' = credential /\ out' = out /\ login' = login
        /\ away' = away /\ reply' = reply
    BY <1>4 DEF AccountInv, TypeInv, DiskType, AppType, Go, Set, Others, Same, j
  <2>2. TypeInv'
    <3>1. DiskType'
      <4>1. inc' = [inc EXCEPT ![d] = j]
        BY <1>4 DEF Set, j
      <4>2. inc' \in [Devices -> {Nobody} \cup Journals']
        BY <2>0a, <2>0c, <4>1 DEF AccountInv, TypeInv, DiskType, Journals
      <4> QED BY <1>4, <4>2 DEF AccountInv, TypeInv, DiskType, server
    <3>2. AppType'
      BY <1>4 DEF AccountInv, TypeInv, AppType, Go, Steps, Receiving, Replies, server
    <3>3. ServerType'
      <4>1. CodeRows \subseteq CodeRows'
        BY <1>4, <2>0a DEF CodeRows, server
      <4> QED BY <1>4, <2>0b, <4>1 DEF AccountInv, TypeInv, ServerType, server
    <3> QED BY <3>1, <3>2, <3>3 DEF TypeInv
  <2>3. Still
    BY <1>4 DEF Still, server
  <2>4. OwnReceiver'
    <3>1. \A e \in Devices \ {d} : inc'[e] # Nobody => inc'[e].receiver \in 1 .. entered
      BY <2>1 DEF AccountInv, TypeInv, DiskType, Journals
    <3> QED BY <2>0b, <2>0c, <2>1, <3>1 DEF OwnReceiver, AccountInv, Shape
  <2>5. Place(d)'
    BY <1>2, <2>0d, <2>1 DEF Place, Receiving, Importing
  <2>6. ~Receipt(d)'
    <3>1. codes[k].receiver \in {Nobody} \cup 1 .. entered
      BY <2>0 DEF AccountInv, TypeInv, ServerType, CodeRows
    <3>2. codes[k].receiver # entered'
      BY <2>0b, <3>1, CodesAssumption
    <3> QED BY <2>0c, <2>1, <2>3, <3>2 DEF Receipt, Still
  <2>7. credential'[d] # epoch'
    BY <1>2, <2>0, <2>1, <2>3, CodesAssumption DEF Still
  <2>8. Safe(d)' /\ ~Holds(d)'
    BY <2>1, <2>6, <2>7 DEF Safe, Importing, Holds
  <2> QED BY <2>1, <2>2, <2>3, <2>4, <2>5, <2>8 DEF Local
<1>5. CASE Fails(d, step[d]) /\ UNCHANGED <<login, away>>
  <2>1. step[d] \in Steps \ (Importing \cup {"post", "home", "uncancel", "refused"}
                             \cup Receiving)
    BY <1>1 DEF Steps, Receiving, Importing
  <2> QED BY <1>1, <1>2, <1>5, <2>1, FailureLocal
<1> QED BY <1>3, <1>4, <1>5

LEMMA RefusedLocal ==
    ASSUME AccountInv, NEW d \in Devices, Refused(d)
    PROVE  Local(d)
<1>1. step[d] = "refused" /\ Place(d)
  BY DEF Refused, At, AccountInv, Shape
<1>2. inc[d] # Nobody /\ (login[d] = "none" => credential[d] = Nobody)
  BY <1>1 DEF Place, Receiving, Importing
<1>3. CASE /\ inc' = Set(inc, d, Nobody)
           /\ Go(d, CASE login[d] = "restoring" -> "restore"
                      [] login[d] # "restoring" /\ out[d] -> "recovery"
                      [] OTHER -> "public")
           /\ UNCHANGED <<scratch, credential, out, login, away, reply, server, ghosts, trouble>>
  <2>0. PICK s \in {"restore", "recovery", "public"} : Go(d, s)
    BY <1>3
  <2>1. /\ inc'[d] = Nobody /\ step'[d] = s /\ Others(d)
        /\ \A e \in Devices \ {d} : inc'[e] = inc[e]
        /\ scratch' = scratch /\ credential' = credential /\ out' = out /\ login' = login
        /\ away' = away /\ reply' = reply
    BY <1>3, <2>0 DEF AccountInv, TypeInv, DiskType, AppType, Go, Set, Others, Same
  <2>2. TypeInv'
    <3>1. s \in Steps
      BY <2>0 DEF Steps
    <3>2. step' \in [Devices -> Steps]
      BY <2>0, <3>1 DEF Go, AccountInv, TypeInv, AppType
    <3> QED BY <1>3, <3>2
            DEF AccountInv, TypeInv, DiskType, AppType, ServerType, Set,
                Journals, Replies, CodeRows, server, ghosts
  <2>3. Still
    BY <1>3 DEF Still, server, ghosts
  <2>4. OwnReceiver'
    BY <2>1 DEF AccountInv, Shape, OwnReceiver
  <2>5. Place(d)'
    BY <1>1, <1>2, <2>0, <2>1 DEF Place, Receiving, Importing
  <2>6. ~Receipt(d)' /\ (NoneOpen' <=> NoneOpen)
    BY <2>1, <2>3 DEF Receipt, NoneOpen, Still
  <2>7. ASSUME ~lapsed PROVE Safe(d)' /\ (Holds(d)' => Holds(d))
    <3>1. Safe(d)
      BY <2>7 DEF AccountInv, Core
    <3>2. credential'[d] # epoch'
      BY <1>1, <2>1, <2>3, <3>1 DEF Safe, Still
    <3> QED BY <2>0, <2>1, <2>6, <3>2 DEF Safe, Importing, Holds
  <2> QED BY <2>1, <2>2, <2>3, <2>4, <2>5, <2>7 DEF Local
<1>4. CASE Fails(d, "incoming") /\ UNCHANGED <<login, away>>
  <2>1. /\ "incoming" \in Steps \ (Importing \cup {"post", "home", "uncancel", "refused"})
        /\ "incoming" \in Receiving
    BY DEF Steps, Receiving, Importing
  <2> QED BY <1>2, <1>4, <2>1, FailureLocal
<1> QED BY <1>3, <1>4 DEF Refused

LEMMA WriteScratchLocal ==
    ASSUME AccountInv, NEW d \in Devices, WriteScratch(d)
    PROVE  Local(d)
<1>1. step[d] = "write_scratch" /\ Place(d)
  BY DEF WriteScratch, At, AccountInv, Shape
<1>2. /\ inc[d] # Nobody /\ (login[d] = "none" => credential[d] = Nobody)
      /\ reply[d] \in Replies
  BY <1>1 DEF Place, Receiving, Importing
<1>3. CASE /\ scratch' = Set(scratch, d, reply[d].snapshot) /\ Go(d, "write_token")
           /\ UNCHANGED <<credential, out, inc, login, away, reply, server, ghosts, trouble>>
  <2>1. /\ scratch'[d] = reply[d].snapshot /\ step'[d] = "write_token" /\ Others(d)
        /\ credential' = credential /\ out' = out /\ inc' = inc /\ login' = login
        /\ away' = away /\ reply' = reply
    BY <1>3 DEF AccountInv, TypeInv, DiskType, AppType, Go, Set, Others, Same
  <2>2. TypeInv'
    <3>1. reply[d].snapshot \in SUBSET Tickets
      BY <1>2 DEF Replies
    <3> QED BY <1>3, <3>1
            DEF AccountInv, TypeInv, DiskType, AppType, ServerType, Go, Set, Steps,
                Receiving, Importing, Journals, Replies, CodeRows, server, ghosts
  <2>3. Still /\ OwnReceiver'
    BY <1>3 DEF Still, AccountInv, Shape, OwnReceiver, server, ghosts
  <2>4. Place(d)'
    BY <1>1, <1>2, <1>3, <2>1 DEF Place, Receiving, Importing, Replies, server
  <2>5. (Receipt(d)' <=> Receipt(d)) /\ (NoneOpen' <=> NoneOpen)
    BY <2>1, <2>3 DEF Receipt, NoneOpen, Still
  <2>6. ASSUME ~lapsed PROVE Safe(d)' /\ (Holds(d)' => Holds(d))
    <3>1. Safe(d)
      BY <2>6 DEF AccountInv, Core
    <3> QED BY <1>1, <1>2, <2>1, <2>3, <2>5, <3>1 DEF Safe, Still, Importing, Holds
  <2> QED BY <2>1, <2>2, <2>3, <2>4, <2>6 DEF Local
<1>4. CASE Fails(d, "incoming") /\ UNCHANGED <<login, away>>
  <2>1. /\ "incoming" \in Steps \ (Importing \cup {"post", "home", "uncancel", "refused"})
        /\ "incoming" \in Receiving
    BY DEF Steps, Receiving, Importing
  <2> QED BY <1>2, <1>4, <2>1, FailureLocal
<1> QED BY <1>3, <1>4 DEF WriteScratch

LEMMA TakesBackLocal ==
    ASSUME AccountInv, NEW d \in Devices, TakesBack(d)
    PROVE  Local(d)
<1>1. /\ step'[d] = (IF away[d] THEN "clear" ELSE "forget")
      /\ login'[d] = "cleanup" /\ away'[d] = away[d] /\ AppOnly(d)
  BY DEF TakesBack, AppOnly, Fails, Go, Set, AccountInv, TypeInv, AppType, Replies, server,
         Steps, Logins
<1>2. Allowed(d)
  BY <1>1 DEF Allowed, Receiving, Importing
<1> QED BY <1>1, <1>2, GoesOn

LEMMA WriteTokenLocal ==
    ASSUME AccountInv, NEW d \in Devices, WriteToken(d)
    PROVE  Local(d)
<1>1. step[d] = "write_token" /\ Place(d)
  BY DEF WriteToken, At, AccountInv, Shape
<1>2. inc[d] # Nobody /\ reply[d] \in Replies /\ scratch[d] = reply[d].snapshot
  BY <1>1 DEF Place, Receiving, Importing
<1>3. CASE /\ credential' = Set(credential, d, reply[d].epoch) /\ Go(d, "drop_out")
           /\ UNCHANGED <<scratch, out, inc, login, away, reply, server, ghosts, trouble>>
  <2>1. /\ credential'[d] = reply[d].epoch /\ step'[d] = "drop_out" /\ Others(d)
        /\ scratch' = scratch /\ out' = out /\ inc' = inc /\ login' = login
        /\ away' = away /\ reply' = reply
    BY <1>3 DEF AccountInv, TypeInv, DiskType, AppType, Go, Set, Others, Same
  <2>2. TypeInv'
    <3>1. reply[d].epoch \in 0 .. epoch
      BY <1>2 DEF Replies
    <3> QED BY <1>3, <3>1
            DEF AccountInv, TypeInv, DiskType, AppType, ServerType, Go, Set, Steps,
                Receiving, Importing, Journals, Replies, CodeRows, server, ghosts
  <2>3. Still /\ OwnReceiver'
    BY <1>3 DEF Still, AccountInv, Shape, OwnReceiver, server, ghosts
  <2>4. Place(d)'
    BY <1>1, <1>2, <1>3, <2>1 DEF Place, Receiving, Importing, Replies, server
  <2>5. (Receipt(d)' <=> Receipt(d)) /\ (NoneOpen' <=> NoneOpen)
    BY <2>1, <2>3 DEF Receipt, NoneOpen, Still
  <2>6. ASSUME ~lapsed PROVE Safe(d)' /\ (Holds(d)' => Holds(d))
    <3>1. Safe(d)
      BY <2>6 DEF AccountInv, Core
    <3> QED BY <1>1, <1>2, <2>1, <2>3, <2>5, <3>1 DEF Safe, Still, Importing, Holds
  <2> QED BY <2>1, <2>2, <2>3, <2>4, <2>6 DEF Local
<1> QED BY <1>3, TakesBackLocal DEF WriteToken

LEMMA DropOutLocal ==
    ASSUME AccountInv, NEW d \in Devices, DropOut(d)
    PROVE  Local(d)
<1>1. step[d] = "drop_out" /\ Place(d)
  BY DEF DropOut, At, AccountInv, Shape
<1>2. /\ inc[d] # Nobody /\ reply[d] \in Replies /\ scratch[d] = reply[d].snapshot
      /\ credential[d] = reply[d].epoch
  BY <1>1 DEF Place, Receiving, Importing
<1>3. CASE /\ out' = Set(out, d, FALSE) /\ Go(d, "drop_in")
           /\ UNCHANGED <<scratch, credential, inc, login, away, reply, server, ghosts, trouble>>
  <2>1. /\ step'[d] = "drop_in" /\ Others(d)
        /\ scratch' = scratch /\ credential' = credential /\ inc' = inc /\ login' = login
        /\ away' = away /\ reply' = reply
    BY <1>3 DEF AccountInv, TypeInv, DiskType, AppType, Go, Set, Others, Same
  <2>2. TypeInv'
    BY <1>3
       DEF AccountInv, TypeInv, DiskType, AppType, ServerType, Go, Set, Steps,
           Receiving, Importing, Journals, Replies, CodeRows, server, ghosts
  <2>3. Still /\ OwnReceiver'
    BY <1>3 DEF Still, AccountInv, Shape, OwnReceiver, server, ghosts
  <2>4. Place(d)'
    BY <1>1, <1>2, <1>3, <2>1 DEF Place, Receiving, Importing, Replies, server
  <2>5. (Receipt(d)' <=> Receipt(d)) /\ (NoneOpen' <=> NoneOpen)
    BY <2>1, <2>3 DEF Receipt, NoneOpen, Still
  <2>6. ASSUME ~lapsed PROVE Safe(d)' /\ (Holds(d)' => Holds(d))
    <3>1. Safe(d)
      BY <2>6 DEF AccountInv, Core
    <3> QED BY <1>1, <1>2, <2>1, <2>3, <2>5, <3>1 DEF Safe, Still, Importing, Holds
  <2> QED BY <2>1, <2>2, <2>3, <2>4, <2>6 DEF Local
<1> QED BY <1>3, TakesBackLocal DEF DropOut

LEMMA DropInLocal ==
    ASSUME AccountInv, NEW d \in Devices, DropIn(d)
    PROVE  Local(d)
<1>1. step[d] = "drop_in" /\ Place(d)
  BY DEF DropIn, At, AccountInv, Shape
<1>2. /\ inc[d] # Nobody /\ reply[d] \in Replies /\ scratch[d] = reply[d].snapshot
      /\ credential[d] = reply[d].epoch
  BY <1>1 DEF Place, Receiving, Importing
<1>3. CASE /\ inc' = Set(inc, d, Nobody) /\ reply' = Set(reply, d, Nobody)
           /\ login' = Set(login, d, "auth") /\ away' = Set(away, d, FALSE)
           /\ Go(d, "home")
           /\ UNCHANGED <<scratch, credential, out, server, ghosts, trouble>>
  <2>1. /\ step'[d] = "home" /\ inc'[d] = Nobody /\ login'[d] = "auth" /\ ~away'[d]
        /\ Others(d) /\ \A e \in Devices \ {d} : inc'[e] = inc[e]
        /\ scratch' = scratch /\ credential' = credential /\ out' = out
    BY <1>3 DEF AccountInv, TypeInv, DiskType, AppType, Go, Set, Others, Same
  <2>2. TypeInv'
    BY <1>3
       DEF AccountInv, TypeInv, DiskType, AppType, ServerType, Go, Set, Steps, Logins,
           Receiving, Importing, Journals, Replies, CodeRows, server, ghosts
  <2>3. Still
    BY <1>3 DEF Still, server, ghosts
  <2>4. OwnReceiver'
    BY <2>1 DEF AccountInv, Shape, OwnReceiver
  <2>5. Place(d)'
    BY <2>1 DEF Place, Receiving, Importing
  <2>6. ~Receipt(d)' /\ (NoneOpen' <=> NoneOpen)
    BY <2>1, <2>3 DEF Receipt, NoneOpen, Still
  <2>7. ASSUME ~lapsed PROVE Safe(d)' /\ (Holds(d)' => Holds(d))
    <3>1. Safe(d)
      BY <2>7 DEF AccountInv, Core
    <3> QED BY <1>1, <1>2, <2>1, <2>3, <2>6, <3>1 DEF Safe, Still, Importing, Holds
  <2> QED BY <2>1, <2>2, <2>3, <2>4, <2>5, <2>7 DEF Local
<1> QED BY <1>3, TakesBackLocal DEF DropIn

-----------------------------------------------------------------------------
(* Redeeming.                                                              *)
LEMMA RedeemAgain ==
    ASSUME AccountInv, NEW d \in Devices, At(d, "redeem"), Receipt(d),
           Still, UNCHANGED <<disk, login, away, shown, ghosts>>,
           \/ /\ reply' = Set(reply, d, [snapshot |-> codes[inc[d].code].snapshot,
                                         epoch |-> epoch'])
              /\ Go(d, "write_scratch")
           \/ Go(d, "incoming") /\ UNCHANGED reply
    PROVE  Local(d)
<1>1. step[d] = "redeem" /\ Place(d)
  BY DEF At, AccountInv, Shape
<1>2. inc[d] # Nobody /\ (login[d] = "none" => credential[d] = Nobody)
  BY <1>1 DEF Place, Receiving, Importing
<1>3. inc[d] \in Journals /\ inc[d].code \in CodeIds
  BY <1>2 DEF AccountInv, TypeInv, DiskType, Journals
<1>4. CASE Go(d, "incoming") /\ UNCHANGED reply
  <2>1. /\ "incoming" \in Steps \ (Importing \cup {"post", "home", "refused"})
        /\ "incoming" \in Receiving
    BY DEF Steps, Receiving, Importing
  <2>2. UNCHANGED <<disk, login, away, reply, server, ghosts>>
    BY <1>4 DEF Still, server
  <2> QED BY <1>2, <1>4, <2>1, <2>2, GoLocal
<1>5. CASE /\ reply' = Set(reply, d, [snapshot |-> codes[inc[d].code].snapshot,
                                      epoch |-> epoch'])
           /\ Go(d, "write_scratch")
  <2>1. PICK r : r = [snapshot |-> codes[inc[d].code].snapshot, epoch |-> epoch']
    OBVIOUS
  <2>2. r.snapshot = codes[inc[d].code].snapshot /\ r.epoch = epoch
    BY <2>1 DEF Still
  <2>3. r \in Replies
    <3>1. codes[inc[d].code].snapshot \in SUBSET Tickets
      BY <1>3 DEF AccountInv, TypeInv, ServerType, CodeRows
    <3>2. epoch \in 0 .. epoch
      BY DEF AccountInv, TypeInv, ServerType
    <3> QED BY <2>1, <3>1, <3>2 DEF Replies, Still
  <2>4. /\ reply'[d] = r /\ step'[d] = "write_scratch" /\ Others(d)
        /\ scratch' = scratch /\ credential' = credential /\ out' = out /\ inc' = inc
        /\ login' = login /\ away' = away
    BY <1>5, <2>1 DEF AccountInv, TypeInv, DiskType, AppType, Go, Set, Others, Same, disk
  <2>5. TypeInv'
    <3>1. reply' = [reply EXCEPT ![d] = r]
      BY <1>5, <2>1 DEF Set
    <3>2. AppType'
      BY <1>5, <2>3, <3>1, <2>4 DEF AccountInv, TypeInv, AppType, Go, Steps, Receiving,
         Importing, Replies, Still
    <3> QED BY <2>4, <3>2 DEF AccountInv, TypeInv, DiskType, ServerType, Journals, CodeRows,
            Still, ghosts
  <2>6. OwnReceiver'
    BY <2>4 DEF AccountInv, Shape, OwnReceiver
  <2>7. Place(d)'
    BY <1>2, <2>3, <2>4 DEF Place, Receiving, Importing, Replies, Still
  <2>8. (Receipt(d)' <=> Receipt(d)) /\ (NoneOpen' <=> NoneOpen)
    BY <2>4 DEF Receipt, NoneOpen, Still
  <2>9. ASSUME ~lapsed PROVE Safe(d)' /\ (Holds(d)' => Holds(d))
    <3>1. Safe(d)
      BY <2>9 DEF AccountInv, Core
    <3> QED BY <1>2, <2>2, <2>4, <2>8, <3>1 DEF Safe, Still, Importing, Holds
  <2> QED BY <2>4, <2>5, <2>6, <2>7, <2>9 DEF Local
<1> QED BY <1>4, <1>5

(* The code is redeemed for the first time: the account moves to d.        *)
LEMMA RedeemFirst ==
    ASSUME AccountInv, NEW d \in Devices, At(d, "redeem"),
           NEW k, k = inc[d].code, codes[k].state = "open", Redeemed(k, inc[d].receiver),
           UNCHANGED <<disk, login, away, shown, ghosts>>,
           \/ /\ reply' = Set(reply, d, [snapshot |-> codes[k].snapshot, epoch |-> epoch'])
              /\ Go(d, "write_scratch")
           \/ Go(d, "incoming") /\ UNCHANGED reply
    PROVE  AccountInv'
<1>1. step[d] = "redeem" /\ Place(d)
  BY DEF At, AccountInv, Shape
<1>2. inc[d] # Nobody /\ (login[d] = "none" => credential[d] = Nobody)
  BY <1>1 DEF Place, Receiving, Importing
<1>3. /\ inc[d] \in Journals /\ k \in CodeIds /\ inc[d].receiver \in 1 .. entered
      /\ codes[k] \in CodeRows /\ epoch \in Nat
  BY <1>2 DEF AccountInv, TypeInv, DiskType, ServerType, Journals
<1>4. epoch' = epoch + 1 /\ epoch' \in Nat /\ epoch' \notin 0 .. epoch /\ epoch' \in 0 .. epoch'
      /\ 0 .. epoch \subseteq 0 .. epoch'
  BY <1>3 DEF Redeemed
<1>5. /\ DOMAIN codes' = CodeIds
      /\ codes'[k] = [codes[k] EXCEPT !.state = "redeemed", !.receiver = inc[d].receiver,
                                      !.epoch = epoch']
      /\ \A j \in CodeIds \ {k} :
            codes'[j] = IF codes[j].state # "none" THEN [codes[j] EXCEPT !.state = "gone"]
                        ELSE codes[j]
      /\ codes' = [j \in CodeIds |-> codes'[j]]
  BY <1>3, <1>4 DEF Redeemed, AccountInv, TypeInv, ServerType
<1>6. /\ codes'[k].state = "redeemed" /\ codes'[k].receiver = inc[d].receiver
      /\ codes'[k].epoch = epoch' /\ codes'[k].snapshot = codes[k].snapshot
      /\ codes'[k] \in CodeRows'
  <2>1. PICK c : c = codes[k]
    OBVIOUS
  <2>2. c \in [snapshot : SUBSET Tickets, state : {"none", "open", "redeemed", "gone"},
               receiver : {Nobody} \cup 1 .. entered, epoch : 0 .. epoch]
    BY <1>3, <2>1 DEF CodeRows
  <2>3. entered' = entered
    BY DEF ghosts
  <2> QED BY <1>3, <1>4, <1>5, <2>1, <2>2, <2>3 DEF CodeRows, Tickets
<1>7. ASSUME NEW j \in CodeIds \ {k}
      PROVE  codes'[j].state \in {"none", "gone"} /\ codes'[j] \in CodeRows'
  <2>1. PICK c : c = codes[j]
    OBVIOUS
  <2>2. c \in [snapshot : SUBSET Tickets, state : {"none", "open", "redeemed", "gone"},
               receiver : {Nobody} \cup 1 .. entered, epoch : 0 .. epoch]
    BY <2>1 DEF AccountInv, TypeInv, ServerType, CodeRows
  <2>3. entered' = entered
    BY DEF ghosts
  <2>4. CASE c.state = "none"
    BY <1>4, <1>5, <2>1, <2>2, <2>3, <2>4 DEF CodeRows, Tickets
  <2>5. CASE c.state # "none"
    BY <1>4, <1>5, <2>1, <2>2, <2>3, <2>5 DEF CodeRows, Tickets
  <2> QED BY <2>4, <2>5
<1>8. \A j \in CodeIds : codes'[j].state = "redeemed" => j = k
  BY <1>7
<1>9. NoneOpen'
  BY <1>6, <1>7 DEF NoneOpen
<1>10. Replies \subseteq Replies'
  BY <1>4 DEF Replies, Tickets
<1>11. [snapshot |-> codes[k].snapshot, epoch |-> epoch'] \in Replies'
  BY <1>3, <1>4 DEF Replies, CodeRows, Tickets
<1>12. PICK r, w : /\ reply' = [reply EXCEPT ![d] = r] /\ step' = [step EXCEPT ![d] = w]
                   /\ \/ /\ w = "write_scratch"
                         /\ r = [snapshot |-> codes[k].snapshot, epoch |-> epoch']
                      \/ w = "incoming" /\ r = reply[d]
  BY DEF Set, Go, AccountInv, TypeInv, AppType
<1>13. /\ reply'[d] = r /\ step'[d] = w /\ Others(d)
       /\ scratch' = scratch /\ credential' = credential /\ out' = out /\ inc' = inc
       /\ login' = login /\ away' = away /\ shown' = shown /\ entered' = entered
       /\ drawn' = drawn /\ lapsed' = lapsed
  BY <1>12 DEF AccountInv, TypeInv, DiskType, AppType, Others, Same, disk, ghosts
<1>14. TypeInv'
  <2>1. DiskType'
    BY <1>4, <1>13 DEF AccountInv, TypeInv, DiskType, Journals
  <2>2. reply' \in [Devices -> {Nobody} \cup Replies']
    BY <1>10, <1>11, <1>12 DEF AccountInv, TypeInv, AppType
  <2>3. w \in Steps
    BY <1>12 DEF Steps, Receiving, Importing
  <2>4. AppType'
    BY <1>12, <1>13, <2>2, <2>3 DEF AccountInv, TypeInv, AppType
  <2>5. codes' \in [CodeIds -> CodeRows']
    BY <1>5, <1>6, <1>7
  <2>6. ServerType'
    BY <1>4, <1>13, <2>5 DEF AccountInv, TypeInv, ServerType
  <2> QED BY <2>1, <2>4, <2>6 DEF TypeInv
<1>15. ASSUME NEW e \in Devices PROVE Place(e)'
  <2>1. Place(e)
    BY DEF AccountInv, Shape
  <2>2. CASE e = d
    BY <1>2, <1>11, <1>12, <1>13, <2>2 DEF Place, Receiving, Importing
  <2>3. CASE e # d
    <3>1. Same(e)
      BY <1>13, <2>3 DEF Others
    <3> QED BY <1>10, <2>1, <3>1 DEF Same, Place, Receiving, Importing
  <2> QED BY <2>2, <2>3
<1>16. Shape'
  <2>1. OneRedeemed'
    BY <1>8 DEF OneRedeemed
  <2>2. OwnReceiver'
    BY <1>13 DEF AccountInv, Shape, OwnReceiver
  <2> QED BY <1>15, <2>1, <2>2 DEF Shape
<1>17. ASSUME NEW e \in Devices
       PROVE  credential'[e] # epoch' /\ (Receipt(e)' => e = d)
  <2>1. credential'[e] # epoch'
    BY <1>3, <1>4, <1>13, CodesAssumption DEF AccountInv, TypeInv, DiskType
  <2>2. ASSUME Receipt(e)' PROVE e = d
    <3>1. inc[e] # Nobody /\ codes'[inc[e].code].state = "redeemed"
          /\ codes'[inc[e].code].receiver = inc[e].receiver
      BY <1>13, <2>2 DEF Receipt
    <3>2. inc[e].code \in CodeIds
      BY <3>1 DEF AccountInv, TypeInv, DiskType, Journals
    <3>3. inc[e].code = k
      BY <1>8, <3>1, <3>2
    <3> QED BY <1>2, <1>6, <3>1, <3>3 DEF AccountInv, Shape, OwnReceiver
  <2> QED BY <2>1, <2>2
<1>18. Receipt(d)'
  BY <1>2, <1>6, <1>13 DEF Receipt
<1>19. ASSUME ~lapsed
       PROVE  (OneHolder /\ OpenFits /\ \A e \in Devices : Safe(e))'
  <2>1. OneHolder'
    BY <1>17 DEF OneHolder, Holds
  <2>2. OpenFits'
    BY <1>9 DEF OpenFits, NoneOpen
  <2>3. codes'[k].snapshot = drawn'
    BY <1>3, <1>6, <1>13, <1>19 DEF AccountInv, Core, OpenFits
  <2>4. ASSUME NEW e \in Devices, e # d PROVE Safe(e)'
    <3>1. Same(e) /\ Place(e)
      BY <1>13, <2>4 DEF Others, AccountInv, Shape
    <3>2. step'[e] \in Importing => reply'[e].epoch # epoch'
      BY <1>4, <3>1 DEF Same, Place, Replies
    <3> QED BY <1>17, <2>4, <3>2 DEF Safe
  <2>5. Safe(d)'
    <3>1. w \in Importing => r.snapshot = drawn'
      BY <1>6, <1>12, <2>3 DEF Importing
    <3>2. codes'[inc'[d].code].snapshot = drawn'
      BY <1>13, <2>3
    <3> QED BY <1>9, <1>13, <1>17, <1>18, <3>1, <3>2 DEF Safe
  <2> QED BY <2>1, <2>2, <2>4, <2>5
<1>20. Core'
  BY <1>13, <1>19 DEF Core
<1> QED BY <1>14, <1>16, <1>20 DEF AccountInv

LEMMA RedeemKeeps ==
    ASSUME AccountInv, NEW d \in Devices, Redeem(d)
    PROVE  AccountInv'
<1>1. At(d, "redeem") /\ step[d] = "redeem" /\ Place(d)
  BY DEF Redeem, At, AccountInv, Shape
<1>2. inc[d] # Nobody /\ (login[d] = "none" => credential[d] = Nobody)
  BY <1>1 DEF Place, Receiving, Importing
<1>3. PICK k, q : k = inc[d].code /\ q = inc[d].receiver
  OBVIOUS
<1>4. CASE /\ Fits(k, q) /\ Redeemed(k, q)
           /\ \/ /\ reply' = Set(reply, d, [snapshot |-> codes[k].snapshot, epoch |-> epoch'])
                 /\ Go(d, "write_scratch") /\ UNCHANGED trouble
              \/ /\ Go(d, "incoming") /\ trouble > 0 /\ trouble' = trouble - 1
                 /\ UNCHANGED reply
           /\ UNCHANGED <<disk, login, away, shown, ghosts>>
  <2>1. CASE codes[k].state = "open"
    BY <1>1, <1>3, <1>4, <2>1, RedeemFirst
  <2>2. CASE codes[k].state # "open"
    <3>1. Receipt(d)
      BY <1>2, <1>3, <1>4, <2>2 DEF Fits, Receipt
    <3>2. Still
      BY <1>4, <2>2 DEF Redeemed, Still, ghosts
    <3>3. Local(d)
      BY <1>1, <1>3, <1>4, <3>1, <3>2, RedeemAgain
    <3> QED BY <3>3, LocalKeeps
  <2> QED BY <2>1, <2>2
<1>5. CASE /\ ~Fits(k, q) /\ Go(d, "refused")
           /\ UNCHANGED <<disk, login, away, reply, server, ghosts, trouble>>
  <2>1. step'[d] = "refused" /\ login' = login /\ away' = away /\ AppOnly(d)
    BY <1>5 DEF AppOnly, Go, AccountInv, TypeInv, AppType, Replies, server, Steps, Receiving
  <2>2. credential[d] # epoch \/ lapsed
    BY <1>2, <1>3, <1>5 DEF AccountInv, Core, Safe, Receipt, Fits
  <2>3. Allowed(d)
    BY <1>2, <2>1, <2>2 DEF Allowed, Receiving, Importing
  <2> QED BY <2>1, <2>3, GoesOn, LocalKeeps
<1>6. CASE Fails(d, "incoming") /\ UNCHANGED <<login, away>>
  <2>1. /\ "incoming" \in Steps \ (Importing \cup {"post", "home", "uncancel", "refused"})
        /\ "incoming" \in Receiving
    BY DEF Steps, Receiving, Importing
  <2>2. Local(d)
    BY <1>2, <1>6, <2>1, FailureLocal
  <2> QED BY <2>2, LocalKeeps
<1> QED BY <1>3, <1>4, <1>5, <1>6 DEF Redeem

-----------------------------------------------------------------------------
(* Steps of the holder, that nobody else can feel.                         *)
LEMMA Bystander ==
    ASSUME NEW e \in Devices, Same(e), epoch' = epoch, Receipt(e)' <=> Receipt(e),
           ~Holds(e), Safe(e)
    PROVE  Safe(e)' /\ ~Holds(e)'
BY DEF Safe, Same, Holds, Importing

LEMMA DrawKeeps ==
    ASSUME AccountInv, NEW d \in Devices, Draw(d)
    PROVE  AccountInv'
<1>1. step[d] = "home" /\ Place(d)
  BY DEF Draw, At, AccountInv, Shape
<1>2. inc[d] = Nobody
  BY <1>1 DEF Place, Receiving, Importing
<1>3. PICK n \in Tickets : /\ scratch' = Set(scratch, d, scratch[d] \cup {n})
                           /\ drawn' = IF credential[d] = epoch THEN drawn \cup {n} ELSE drawn
  BY DEF Draw, Tickets
<1>4. UNCHANGED <<credential, out, inc, app, server, entered, lapsed>>
  BY DEF Draw
<1>5. /\ scratch'[d] = scratch[d] \cup {n} /\ Others(d)
      /\ credential' = credential /\ out' = out /\ inc' = inc /\ step' = step
      /\ login' = login /\ away' = away /\ reply' = reply
  BY <1>3, <1>4 DEF AccountInv, TypeInv, DiskType, Set, Others, Same, app
<1>6. epoch' = epoch /\ codes' = codes /\ shown' = shown /\ entered' = entered /\ lapsed' = lapsed
  BY <1>4 DEF server
<1>7. TypeInv'
  <2>1. scratch' \in [Devices -> SUBSET Tickets] /\ drawn' \in SUBSET Tickets
    BY <1>3 DEF AccountInv, TypeInv, DiskType, ServerType, Set
  <2> QED BY <1>5, <1>6, <2>1 DEF AccountInv, TypeInv, DiskType, AppType, ServerType,
          Journals, Replies, CodeRows
<1>8. Place(d)'
  BY <1>1, <1>2, <1>5, <1>6 DEF Place, Receiving, Importing
<1>9. OwnReceiver'
  BY <1>5 DEF AccountInv, Shape, OwnReceiver
<1>10. ~Receipt(d) /\ ~Receipt(d)' /\ (NoneOpen' <=> NoneOpen)
  BY <1>2, <1>5, <1>6 DEF Receipt, NoneOpen
<1>11. CASE credential[d] # epoch
  <2>1. Still
    BY <1>3, <1>6, <1>11 DEF Still
  <2>2. Safe(d)' /\ ~Holds(d)'
    BY <1>1, <1>2, <1>5, <1>6, <1>10, <1>11 DEF Safe, Holds, Importing
  <2>3. Local(d)
    BY <1>5, <1>7, <1>8, <1>9, <2>1, <2>2 DEF Local
  <2> QED BY <2>3, LocalKeeps
<1>12. CASE credential[d] = epoch
  <2>1. ASSUME NEW e \in Devices, e # d
        PROVE  Place(e)' /\ (Receipt(e)' <=> Receipt(e)) /\ Same(e)
    <3>1. Same(e) /\ Place(e)
      BY <1>5, <2>1 DEF Others, AccountInv, Shape
    <3>2. Place(e)'
      BY <1>6, <3>1 DEF Place, Same, Receiving, Importing, Replies
    <3> QED BY <1>6, <3>1, <3>2 DEF Receipt, Same
  <2>2. Shape'
    BY <1>6, <1>8, <1>9, <2>1 DEF Shape, OneRedeemed, AccountInv
  <2>3. ASSUME ~lapsed
        PROVE  (OneHolder /\ OpenFits /\ \A e \in Devices : Safe(e))'
    <3>1. OneHolder /\ Safe(d)
      BY <2>3 DEF AccountInv, Core
    <3>2. NoneOpen' /\ drawn' = drawn \cup {n}
      BY <1>1, <1>3, <1>10, <1>12, <3>1 DEF Safe
    <3>3. Safe(d)'
      BY <1>1, <1>2, <1>5, <1>6, <1>10, <1>12, <3>1, <3>2 DEF Safe, Importing
    <3>4. ASSUME NEW e \in Devices, e # d PROVE Safe(e)' /\ ~Holds(e)'
      <4>1. ~Holds(e) /\ Safe(e)
        BY <1>12, <2>3, <3>1, <3>4 DEF OneHolder, Holds, AccountInv, Core
      <4> QED BY <1>6, <2>1, <3>4, <4>1, Bystander
    <3>5. OneHolder'
      BY <3>4 DEF OneHolder
    <3>6. OpenFits'
      BY <3>2 DEF OpenFits, NoneOpen
    <3> QED BY <3>3, <3>4, <3>5, <3>6
  <2>4. Core'
    BY <1>6, <2>3 DEF Core
  <2> QED BY <1>7, <2>2, <2>4 DEF AccountInv
<1> QED BY <1>11, <1>12

LEMMA PostedKeeps ==
    ASSUME AccountInv, NEW d \in Devices, At(d, "post"), credential[d] = epoch,
           NEW k \in CodeIds, codes[k].state = "none",
           codes' = [j \in DOMAIN codes |->
                       IF j = k THEN [Unused EXCEPT !.snapshot = scratch[d], !.state = "open"]
                       ELSE IF Outstanding(j) THEN [codes[j] EXCEPT !.state = "gone"]
                       ELSE codes[j]],
           shown' \in {shown, shown \cup {k}}, Go(d, "sending"),
           UNCHANGED <<disk, login, away, reply, epoch, ghosts>>
    PROVE  AccountInv'
<1>1. step[d] = "post" /\ Place(d)
  BY DEF At, AccountInv, Shape
<1>2. inc[d] = Nobody /\ (login[d] = "none" => credential[d] = Nobody) /\ out[d]
  BY <1>1 DEF Place, Receiving, Importing
<1>3. /\ step'[d] = "sending" /\ Others(d)
      /\ scratch' = scratch /\ credential' = credential /\ out' = out /\ inc' = inc
      /\ login' = login /\ away' = away /\ reply' = reply /\ epoch' = epoch
      /\ entered' = entered /\ drawn' = drawn /\ lapsed' = lapsed
  BY DEF AccountInv, TypeInv, AppType, Go, Others, Same, disk, ghosts
<1>4. /\ DOMAIN codes' = CodeIds /\ codes' = [j \in CodeIds |-> codes'[j]]
      /\ codes'[k] = [Unused EXCEPT !.snapshot = scratch[d], !.state = "open"]
      /\ \A j \in CodeIds \ {k} :
            codes'[j] = IF codes[j].state = "open" THEN [codes[j] EXCEPT !.state = "gone"]
                        ELSE codes[j]
  BY DEF AccountInv, TypeInv, ServerType, Outstanding
<1>5. /\ codes'[k].state = "open" /\ codes'[k].snapshot = scratch[d] /\ codes'[k] \in CodeRows
  <2>1. scratch[d] \in SUBSET Tickets /\ epoch \in Nat
    BY DEF AccountInv, TypeInv, DiskType, ServerType
  <2>2. 0 \in 0 .. epoch
    BY <2>1
  <2> QED BY <1>4, <2>1, <2>2 DEF Unused, CodeRows
<1>6. ASSUME NEW j \in CodeIds \ {k}
      PROVE  /\ codes'[j].state # "open" /\ codes'[j] \in CodeRows
             /\ codes'[j].state = "redeemed" <=> codes[j].state = "redeemed"
             /\ codes'[j].receiver = codes[j].receiver /\ codes'[j].epoch = codes[j].epoch
  <2>1. PICK c : c = codes[j]
    OBVIOUS
  <2>2. c \in CodeRows
    BY <2>1 DEF AccountInv, TypeInv, ServerType
  <2>3. CASE c.state = "open"
    BY <1>4, <2>1, <2>2, <2>3 DEF CodeRows
  <2>4. CASE c.state # "open"
    BY <1>4, <2>1, <2>2, <2>4
  <2> QED BY <2>3, <2>4
<1>7. TypeInv'
  <2>1. codes' \in [CodeIds -> CodeRows]
    BY <1>4, <1>5, <1>6
  <2>2. step' \in [Devices -> Steps]
    BY DEF AccountInv, TypeInv, AppType, Go, Steps
  <2> QED BY <1>3, <2>1, <2>2 DEF AccountInv, TypeInv, DiskType, AppType, ServerType,
          Journals, Replies, CodeRows
<1>8. ASSUME NEW e \in Devices PROVE Receipt(e)' <=> Receipt(e)
  <2>1. CASE inc[e] = Nobody
    BY <1>3, <2>1 DEF Receipt
  <2>2. CASE inc[e] # Nobody
    <3>1. inc[e].code \in CodeIds
      BY <2>2 DEF AccountInv, TypeInv, DiskType, Journals
    <3>2. CASE inc[e].code = k
      BY <1>3, <1>5, <3>2 DEF Receipt
    <3>3. CASE inc[e].code # k
      <4>1. PICK j \in CodeIds \ {k} : j = inc[e].code
        BY <3>1, <3>3
      <4>2. /\ codes'[j].state = "redeemed" <=> codes[j].state = "redeemed"
            /\ codes'[j].receiver = codes[j].receiver /\ codes'[j].epoch = codes[j].epoch
        BY <1>6
      <4>3. inc'[e] = inc[e] /\ epoch' = epoch
        BY <1>3
      <4> QED BY <4>1, <4>2, <4>3 DEF Receipt
    <3> QED BY <3>2, <3>3
  <2> QED BY <2>1, <2>2
<1>9. ASSUME NEW e \in Devices, e # d PROVE Place(e)' /\ Same(e)
  <2>1. Same(e) /\ Place(e)
    BY <1>3, <1>9 DEF Others, AccountInv, Shape
  <2> QED BY <1>3, <2>1 DEF Place, Same, Receiving, Importing, Replies
<1>10. Place(d)'
  BY <1>2, <1>3 DEF Place, Receiving, Importing
<1>11. Shape'
  <2>1. OneRedeemed'
    <3>1. \A j \in CodeIds : codes'[j].state = "redeemed" => codes[j].state = "redeemed"
      BY <1>5, <1>6
    <3> QED BY <3>1 DEF OneRedeemed, AccountInv, Shape
  <2>2. OwnReceiver'
    BY <1>3 DEF AccountInv, Shape, OwnReceiver
  <2> QED BY <1>9, <1>10, <2>1, <2>2 DEF Shape
<1>12. ASSUME ~lapsed
       PROVE  (OneHolder /\ OpenFits /\ \A e \in Devices : Safe(e))'
  <2>1. OneHolder /\ Safe(d)
    BY <1>12 DEF AccountInv, Core
  <2>2. scratch[d] = drawn /\ ~away[d]
    BY <1>2, <2>1 DEF Safe
  <2>3. OpenFits'
    BY <1>3, <1>5, <1>6, <2>2 DEF OpenFits
  <2>4. ASSUME NEW e \in Devices, e # d PROVE Safe(e)' /\ ~Holds(e)'
    <3>1. ~Holds(e) /\ Safe(e)
      BY <1>12, <2>1, <2>4 DEF OneHolder, Holds, AccountInv, Core
    <3> QED BY <1>3, <1>8, <1>9, <2>4, <3>1, Bystander
  <2>5. OneHolder'
    BY <2>4 DEF OneHolder
  <2>6. ~Receipt(d)'
    BY <1>2, <1>3 DEF Receipt
  <2>7. Safe(d)'
    BY <1>2, <1>3, <2>2, <2>6 DEF Safe, Importing
  <2> QED BY <2>3, <2>4, <2>5, <2>7
<1>13. Core'
  BY <1>3, <1>12 DEF Core
<1> QED BY <1>7, <1>11, <1>13 DEF AccountInv

LEMMA PostKeeps ==
    ASSUME AccountInv, NEW d \in Devices, Post(d)
    PROVE  AccountInv'
<1>1. At(d, "post") /\ step[d] = "post" /\ Place(d)
  BY DEF Post, At, AccountInv, Shape
<1>2. inc[d] = Nobody /\ (login[d] = "none" => credential[d] = Nobody)
  BY <1>1 DEF Place, Receiving, Importing
<1>3. CASE credential[d] # epoch /\ TransferredAway(d)
  BY <1>2, <1>3, TransferredLocal, LocalKeeps
<1>4. CASE Fails(d, "sending") /\ UNCHANGED <<login, away>>
  <2>1. "sending" \in Steps \ (Importing \cup {"post", "home", "uncancel", "refused"}
                               \cup Receiving)
    BY DEF Steps, Receiving, Importing
  <2> QED BY <1>2, <1>4, <2>1, FailureLocal, LocalKeeps
<1>5. ASSUME ~(credential[d] # epoch /\ TransferredAway(d)),
             ~(Fails(d, "sending") /\ UNCHANGED <<login, away>>)
      PROVE  AccountInv'
  <2>1. /\ credential[d] = epoch /\ Go(d, "sending")
        /\ UNCHANGED <<disk, login, away, reply, epoch, ghosts>>
    BY <1>5 DEF Post
  <2>2. PICK k \in CodeIds :
          /\ codes[k].state = "none"
          /\ codes' = [j \in DOMAIN codes |->
                         IF j = k THEN [Unused EXCEPT !.snapshot = scratch[d], !.state = "open"]
                         ELSE IF Outstanding(j) THEN [codes[j] EXCEPT !.state = "gone"]
                         ELSE codes[j]]
          /\ shown' \in {shown, shown \cup {k}}
    BY <1>5 DEF Post, CodeIds
  <2> QED BY <1>1, <2>1, <2>2, PostedKeeps
<1> QED BY <1>3, <1>4, <1>5

LEMMA CancelledKeeps ==
    ASSUME AccountInv, NEW d \in Devices, At(d, "cancel"), login[d] = "auth",
           NEW w \in {"uncancel", "recovery"}, Go(d, w),
           codes' = [k \in DOMAIN codes |->
                       IF Outstanding(k) THEN [codes[k] EXCEPT !.state = "gone"] ELSE codes[k]],
           UNCHANGED <<disk, login, away, reply, epoch, shown, ghosts>>
    PROVE  AccountInv'
<1>1. step[d] = "cancel" /\ Place(d)
  BY DEF At, AccountInv, Shape
<1>2. inc[d] = Nobody
  BY <1>1 DEF Place, Receiving, Importing
<1>3. /\ step'[d] = w /\ Others(d)
      /\ scratch' = scratch /\ credential' = credential /\ out' = out /\ inc' = inc
      /\ login' = login /\ away' = away /\ reply' = reply /\ epoch' = epoch
      /\ entered' = entered /\ drawn' = drawn /\ lapsed' = lapsed /\ shown' = shown
  BY DEF AccountInv, TypeInv, AppType, Go, Others, Same, disk, ghosts
<1>4. /\ DOMAIN codes' = CodeIds /\ codes' = [j \in CodeIds |-> codes'[j]]
      /\ \A j \in CodeIds :
            codes'[j] = IF codes[j].state = "open" THEN [codes[j] EXCEPT !.state = "gone"]
                        ELSE codes[j]
  BY DEF AccountInv, TypeInv, ServerType, Outstanding
<1>5. ASSUME NEW j \in CodeIds
      PROVE  /\ codes'[j].state # "open" /\ codes'[j] \in CodeRows
             /\ codes'[j].state = "redeemed" <=> codes[j].state = "redeemed"
             /\ codes'[j].receiver = codes[j].receiver /\ codes'[j].epoch = codes[j].epoch
             /\ codes'[j].snapshot = codes[j].snapshot
  <2>1. PICK c : c = codes[j]
    OBVIOUS
  <2>2. c \in CodeRows
    BY <2>1 DEF AccountInv, TypeInv, ServerType
  <2>3. CASE c.state = "open"
    BY <1>4, <2>1, <2>2, <2>3 DEF CodeRows
  <2>4. CASE c.state # "open"
    BY <1>4, <2>1, <2>2, <2>4
  <2> QED BY <2>3, <2>4
<1>6. TypeInv'
  <2>1. codes' \in [CodeIds -> CodeRows]
    BY <1>4, <1>5
  <2>2. step' \in [Devices -> Steps]
    BY DEF AccountInv, TypeInv, AppType, Go, Steps
  <2> QED BY <1>3, <2>1, <2>2 DEF AccountInv, TypeInv, DiskType, AppType, ServerType,
          Journals, Replies, CodeRows
<1>7. ASSUME NEW e \in Devices
      PROVE  /\ Receipt(e)' <=> Receipt(e)
             /\ Receipt(e) => codes'[inc[e].code].snapshot = codes[inc[e].code].snapshot
  <2>1. CASE inc[e] = Nobody
    BY <1>3, <2>1 DEF Receipt
  <2>2. CASE inc[e] # Nobody
    <3>1. PICK j \in CodeIds : j = inc[e].code
      BY <2>2 DEF AccountInv, TypeInv, DiskType, Journals
    <3>2. /\ codes'[j].state = "redeemed" <=> codes[j].state = "redeemed"
          /\ codes'[j].receiver = codes[j].receiver /\ codes'[j].epoch = codes[j].epoch
          /\ codes'[j].snapshot = codes[j].snapshot
      BY <1>5
    <3>3. inc'[e] = inc[e] /\ epoch' = epoch
      BY <1>3
    <3> QED BY <3>1, <3>2, <3>3 DEF Receipt
  <2> QED BY <2>1, <2>2
<1>8. NoneOpen'
  BY <1>5 DEF NoneOpen
<1>9. ASSUME NEW e \in Devices, e # d
      PROVE  Place(e)' /\ (Safe(e) => Safe(e)') /\ (Holds(e)' <=> Holds(e))
  <2>1. Same(e) /\ Place(e)
    BY <1>3, <1>9 DEF Others, AccountInv, Shape
  <2> QED BY <1>3, <1>7, <1>8, <2>1, Unmoved
<1>10. Place(d)'
  BY <1>1, <1>2, <1>3 DEF Place, Receiving, Importing
<1>11. Holds(d)' <=> Holds(d)
  BY <1>3, <1>7 DEF Holds
<1>12. Shape'
  <2>1. OneRedeemed'
    <3>1. \A j \in CodeIds : codes'[j].state = "redeemed" => codes[j].state = "redeemed"
      BY <1>5
    <3> QED BY <3>1 DEF OneRedeemed, AccountInv, Shape
  <2>2. OwnReceiver'
    BY <1>3 DEF AccountInv, Shape, OwnReceiver
  <2> QED BY <1>9, <1>10, <2>1, <2>2 DEF Shape
<1>13. ASSUME ~lapsed
       PROVE  (OneHolder /\ OpenFits /\ \A e \in Devices : Safe(e))'
  <2>1. OneHolder /\ \A e \in Devices : Safe(e)
    BY <1>13 DEF AccountInv, Core
  <2>2. OneHolder'
    BY <1>9, <1>11, <2>1 DEF OneHolder
  <2>3. OpenFits'
    BY <1>8 DEF OpenFits, NoneOpen
  <2>4. ~Receipt(d)'
    BY <1>2, <1>3 DEF Receipt
  <2>5. Safe(d)
    BY <2>1
  <2>6. Safe(d)'
    BY <1>2, <1>3, <1>8, <2>4, <2>5 DEF Safe, Importing
  <2> QED BY <1>9, <2>1, <2>2, <2>3, <2>6
<1>14. Core'
  BY <1>3, <1>13 DEF Core
<1> QED BY <1>6, <1>12, <1>14 DEF AccountInv

LEMMA CancelKeeps ==
    ASSUME AccountInv, NEW d \in Devices, Cancel(d)
    PROVE  AccountInv'
<1>1. At(d, "cancel") /\ step[d] = "cancel" /\ Place(d)
  BY DEF Cancel, At, AccountInv, Shape
<1>2. inc[d] = Nobody /\ (login[d] = "none" => credential[d] = Nobody)
  BY <1>1 DEF Place, Receiving, Importing
<1>3. CASE login[d] = "auth" /\ credential[d] # epoch /\ TransferredAway(d)
  BY <1>2, <1>3, TransferredLocal, LocalKeeps
<1>4. CASE login[d] = "auth" /\ Fails(d, "recovery") /\ UNCHANGED <<login, away>>
  <2>1. "recovery" \in Steps \ (Importing \cup {"post", "home", "uncancel", "refused"}
                                \cup Receiving)
    BY DEF Steps, Receiving, Importing
  <2> QED BY <1>2, <1>4, <2>1, FailureLocal, LocalKeeps
<1>5. CASE /\ login[d] # "auth"
           /\ Go(d, IF login[d] # "retry" /\ away[d] THEN "uncancel" ELSE "recovery")
           /\ UNCHANGED <<disk, login, away, reply, server, ghosts, trouble>>
  <2>1. PICK s \in {"uncancel", "recovery"} : Go(d, s) /\ (s = "uncancel" => away[d])
    BY <1>5
  <2>2. s \in Steps \ (Importing \cup {"post", "home", "refused"} \cup Receiving)
        /\ s # "clear"
    BY DEF Steps, Receiving, Importing
  <2>3. s = "uncancel" => credential[d] # epoch \/ lapsed
    BY <1>2, <2>1 DEF AccountInv, Core, Safe
  <2>4. Local(d)
    BY <1>2, <1>5, <2>1, <2>2, <2>3, GoLocal
  <2> QED BY <2>4, LocalKeeps
<1>6. CASE /\ login[d] = "auth" /\ credential[d] = epoch
           /\ codes' = [k \in DOMAIN codes |->
                          IF Outstanding(k) THEN [codes[k] EXCEPT !.state = "gone"]
                          ELSE codes[k]]
           /\ \/ Go(d, "uncancel") /\ UNCHANGED trouble
              \/ Go(d, "recovery") /\ trouble > 0 /\ trouble' = trouble - 1
           /\ UNCHANGED <<disk, login, away, reply, epoch, shown, ghosts>>
  <2>1. PICK w \in {"uncancel", "recovery"} : Go(d, w)
    BY <1>6
  <2> QED BY <1>1, <1>6, <2>1, CancelledKeeps
<1> QED BY <1>3, <1>4, <1>5, <1>6 DEF Cancel

-----------------------------------------------------------------------------
(* Time passes.                                                            *)
LEMMA ExpireKeeps ==
    ASSUME AccountInv, NEW k \in CodeIds, Expire(k)
    PROVE  AccountInv'
<1>1. /\ codes[k].state \in {"open", "redeemed"}
      /\ codes' = [codes EXCEPT ![k].state = "gone"]
      /\ UNCHANGED <<disk, app, epoch, shown, entered, drawn>>
  BY DEF Expire
<1>2. \A e \in Devices : Same(e)
  BY <1>1 DEF Same, disk, app
<1>3. /\ inc' = inc /\ epoch' = epoch /\ entered' = entered /\ drawn' = drawn /\ shown' = shown
      /\ step' = step
  BY <1>1 DEF disk, app
<1>4. ASSUME NEW j \in CodeIds
      PROVE  /\ codes'[j].state = (IF j = k THEN "gone" ELSE codes[j].state)
             /\ codes'[j].receiver = codes[j].receiver /\ codes'[j].epoch = codes[j].epoch
             /\ codes'[j].snapshot = codes[j].snapshot /\ codes'[j] \in CodeRows
  <2>1. codes[j] \in CodeRows
    BY DEF AccountInv, TypeInv, ServerType
  <2>2. CASE j = k
    <3>1. codes'[j] = [codes[j] EXCEPT !.state = "gone"]
      BY <1>1, <2>2 DEF AccountInv, TypeInv, ServerType
    <3> QED BY <2>1, <2>2, <3>1 DEF CodeRows
  <2>3. CASE j # k
    <3>1. codes'[j] = codes[j]
      BY <1>1, <2>3 DEF AccountInv, TypeInv, ServerType
    <3> QED BY <2>1, <2>3, <3>1
  <2> QED BY <2>2, <2>3
<1>5. lapsed' \in BOOLEAN /\ (lapsed => lapsed')
  BY DEF Expire, AccountInv, TypeInv, ServerType
<1>6. TypeInv'
  <2>1. codes' \in [CodeIds -> CodeRows]
    <3>1. codes' = [j \in CodeIds |-> codes'[j]]
      BY <1>1 DEF AccountInv, TypeInv, ServerType
    <3> QED BY <1>4, <3>1
  <2> QED BY <1>1, <1>3, <1>5, <2>1 DEF AccountInv, TypeInv, DiskType, AppType, ServerType,
          Journals, Replies, CodeRows, disk, app
<1>7. Shape'
  <2>1. OneRedeemed'
    BY <1>4 DEF OneRedeemed, AccountInv, Shape
  <2>2. OwnReceiver'
    BY <1>3 DEF AccountInv, Shape, OwnReceiver
  <2>3. ASSUME NEW e \in Devices PROVE Place(e)'
    <3>1. Same(e) /\ Place(e)
      BY <1>2 DEF AccountInv, Shape
    <3> QED BY <1>3, <3>1 DEF Place, Same, Receiving, Importing, Replies
  <2> QED BY <2>1, <2>2, <2>3 DEF Shape
<1>8. NoneOpen => NoneOpen'
  BY <1>4 DEF NoneOpen
<1>9. ASSUME ~lapsed', NEW e \in Devices
      PROVE  /\ Receipt(e)' <=> Receipt(e)
             /\ Receipt(e) => codes'[inc[e].code].snapshot = codes[inc[e].code].snapshot
  <2>1. CASE inc[e] = Nobody
    BY <1>3, <2>1 DEF Receipt
  <2>2. CASE inc[e] # Nobody
    <3>1. PICK j \in CodeIds : j = inc[e].code
      BY <2>2 DEF AccountInv, TypeInv, DiskType, Journals
    <3>2. inc[e] # [code |-> k, receiver |-> codes[k].receiver]
      BY <1>9 DEF Expire
    <3>3. inc[e] = [code |-> inc[e].code, receiver |-> inc[e].receiver]
      BY <2>2 DEF AccountInv, TypeInv, DiskType, Journals
    <3>4. j = k => codes[j].receiver # inc[e].receiver
      BY <3>1, <3>2, <3>3
    <3>5. /\ codes'[j].state = (IF j = k THEN "gone" ELSE codes[j].state)
          /\ codes'[j].receiver = codes[j].receiver /\ codes'[j].epoch = codes[j].epoch
          /\ codes'[j].snapshot = codes[j].snapshot
      BY <1>4
    <3>6. inc'[e] = inc[e] /\ epoch' = epoch
      BY <1>3
    <3> QED BY <3>1, <3>4, <3>5, <3>6 DEF Receipt
  <2> QED BY <2>1, <2>2
<1>10. ASSUME ~lapsed'
       PROVE  (OneHolder /\ OpenFits /\ \A e \in Devices : Safe(e))'
  <2>1. OneHolder /\ OpenFits /\ \A e \in Devices : Safe(e)
    BY <1>5, <1>10 DEF AccountInv, Core
  <2>2. ASSUME NEW e \in Devices PROVE Safe(e)' /\ (Holds(e)' <=> Holds(e))
    <3>1. Same(e) /\ Place(e) /\ Safe(e)
      BY <1>2, <2>1 DEF AccountInv, Shape
    <3>2. /\ Receipt(e)' <=> Receipt(e)
          /\ Receipt(e) => codes'[inc[e].code].snapshot = codes[inc[e].code].snapshot
      BY <1>9, <1>10
    <3> QED BY <1>3, <1>8, <3>1, <3>2, Unmoved
  <2>3. OneHolder'
    BY <2>1, <2>2 DEF OneHolder
  <2>4. OpenFits'
    BY <1>3, <1>4, <2>1 DEF OpenFits
  <2> QED BY <2>2, <2>3, <2>4
<1>11. Core'
  BY <1>10 DEF Core
<1> QED BY <1>6, <1>7, <1>11 DEF AccountInv

-----------------------------------------------------------------------------
LEMMA ProceedKeeps ==
    ASSUME AccountInv, NEW d \in Devices, Proceed(d)
    PROVE  AccountInv'
<1>1. CASE Post(d)
  BY <1>1, PostKeeps
<1>2. CASE Cancel(d)
  BY <1>2, CancelKeeps
<1>3. CASE Redeem(d)
  BY <1>3, RedeemKeeps
<1>4. ASSUME ~Post(d), ~Cancel(d), ~Redeem(d)
      PROVE  Local(d)
  BY <1>4, LaunchLocal, RestoreLocal, ClearLocal, ForgetLocal, RetryLocal, DropOutgoingLocal,
     RetryCancelLocal, RefusedLocal, WriteScratchLocal, WriteTokenLocal, DropOutLocal,
     DropInLocal, RetryIncomingLocal DEF Proceed
<1> QED BY <1>1, <1>2, <1>3, <1>4, LocalKeeps

LEMMA AccountStep == AccountInv /\ [TransferNext]_transferVars => AccountInv'
<1> SUFFICES ASSUME AccountInv, [TransferNext]_transferVars PROVE AccountInv'
  OBVIOUS
<1>1. CASE UNCHANGED transferVars
  <2>1. /\ UNCHANGED <<scratch, credential, out, inc, step, login, away, reply>>
        /\ UNCHANGED <<epoch, codes, shown, entered, drawn, lapsed>>
    BY <1>1 DEF transferVars, disk, app, server, ghosts
  <2> QED BY <2>1
          DEF AccountInv, TypeInv, DiskType, AppType, ServerType, Journals, Replies, CodeRows,
              Shape, OwnReceiver, OneRedeemed, Place, Core, OneHolder, Holds, Receipt,
              OpenFits, NoneOpen, Safe
<1>2. ASSUME NEW d \in Devices,
             Proceed(d) \/ Kill(d) \/ Contact(d) \/ Draw(d) \/ Journal(d) \/ Leave(d) \/ Enter(d)
      PROVE  AccountInv'
  BY <1>2, ProceedKeeps, KillLocal, ContactLocal, DrawKeeps, JournalLocal, LeaveLocal,
     EnterLocal, LocalKeeps
<1>3. ASSUME NEW k \in CodeIds, Expire(k)
      PROVE  AccountInv'
  BY <1>3, ExpireKeeps
<1> QED BY <1>1, <1>2, <1>3 DEF TransferNext, CodeIds

LEMMA AccountSafe == AccountInv => NoDrawLost
<1> SUFFICES ASSUME AccountInv, NEW d \in Devices, ~lapsed, At(d, "home"),
                    credential[d] = epoch
             PROVE  scratch[d] = drawn
  BY DEF NoDrawLost
<1>1. inc[d] = Nobody
  BY DEF AccountInv, Shape, Place, At, Receiving, Importing
<1>2. Safe(d)
  BY DEF AccountInv, Core
<1> QED BY <1>1, <1>2 DEF Safe

(* Whichever device can draw with the account has every ticket drawn with  *)
(* it, for any number of devices, codes, tickets and interruptions         *)
(* (device_transfer.dart generate, _cancelOutgoing, importSession).        *)
THEOREM NoDrawLostCorrect == TransferSpec => []NoDrawLost
<1>1. TransferInit => AccountInv
  BY AccountInit
<1>2. AccountInv /\ [TransferNext]_transferVars => AccountInv'
  BY AccountStep
<1>3. AccountInv => NoDrawLost
  BY AccountSafe
<1> QED BY <1>1, <1>2, <1>3, PTL DEF TransferSpec
=============================================================================
