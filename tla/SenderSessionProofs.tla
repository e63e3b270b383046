----------------------- MODULE SenderSessionProofs -----------------------
(***************************************************************************)
(* Whoever sends a package, sends it from an account of their own, and a   *)
(* nonce stands for the account it was made for, or for none any more: for *)
(* any users, accounts, requests and nonces.                               *)
(***************************************************************************)
EXTENDS SenderSession, TLAPS

\* The session keeps accepted credentials of the user it belongs to, and the
\* nonce that was made for them unless the key was.
SessionInv ==
    credentials # None =>
        /\ connection = "in"
        /\ Owner[credentials.sender] = userId
        /\ credentials.password = credentials.sender
        /\ credentials.nonce # None => issuedFor[credentials.nonce] = credentials.sender

\* The sender field belongs to the user of the dialog, and the password field
\* holds no nonce but the current one.
DialogInv ==
    /\ sender # None => Owner[sender] = dialogUser
    /\ password \in Nonces => password = nonce

\* What is posted and what is handed on belong to the user who clicked; what
\* came out of the session is what the nonce of the request was made for, unless
\* the password is garbled; and no garbled password starts a transfer.
RequestInvOf(r) ==
    /\ alive[r] => connection = "in" /\ user[r] = userId
    /\ pc[r] = "idle" => ~alive[r] /\ data[r] = Missing
    /\ pc[r] = "posted" => data[r] = Missing
    /\ pc[r] \in {"populated", "started"} => data[r] # Missing
    /\ pc[r] = "started" => data[r].password = data[r].sender
    /\ posted[r] # Missing => Owner[posted[r].sender] = user[r]
    /\ data[r] # Missing => Owner[data[r].sender] = user[r]
    /\ data[r] # Missing /\ ByNonce(r) =>
         \/ data[r].password = Garbled
         \/ header[r] \in Nonces /\ issuedFor[header[r]] = data[r].sender
    /\ r \in sent => /\ data[r] # Missing /\ pc[r] \notin {"posted", "populated"}
                     /\ data[r].password = data[r].sender

RequestInv == \A r \in Requests : RequestInvOf(r)

Inv == TypeOK /\ SessionInv /\ DialogInv /\ RequestInv

USE ConstantsAssumption

----------------------------------------------------------------------------

\* What PackageSender hands on to the Faspex client.
HandedOn == [sender : Accounts, password : Accounts \cup {Garbled}]

\* Missing is not a complete pair.
LEMMA MissingIsIncomplete == Missing \notin Complete /\ Missing \notin HandedOn
  BY DEF Missing, Complete, HandedOn

\* A request that a step leaves alone keeps its invariant, as long as its
\* session and the meaning of its nonce stay.
LEMMA OtherRequest ==
  ASSUME NEW r \in Requests, RequestInvOf(r),
         alive'[r] => alive[r] /\ connection' = connection /\ userId' = userId,
         pc'[r] = pc[r], data'[r] = data[r], posted'[r] = posted[r],
         user'[r] = user[r], header'[r] = header[r],
         r \in sent' => r \in sent,
         \A n \in Nonces : issuedFor[n] # None => issuedFor'[n] = issuedFor[n],
         data[r] \in HandedOn \cup {Missing}
  PROVE  RequestInvOf(r)'
  BY MissingIsIncomplete DEF RequestInvOf, ByNonce, HandedOn, Missing

LEMMA InitInv == Init => Inv
<1> SUFFICES ASSUME Init PROVE Inv
  OBVIOUS
<1>1. TypeOK
  BY DEF Init, TypeOK, Missing, Complete
<1>2. SessionInv /\ DialogInv
  BY DEF Init, SessionInv, DialogInv, Missing, Complete
<1>3. RequestInv
  BY DEF Init, RequestInv, RequestInvOf, ByNonce, Missing, Complete
<1> QED
  BY <1>1, <1>2, <1>3 DEF Inv

\* The session begins or ends, or the desktop learns of it.
LEMMA DesktopStep ==
  ASSUME Inv,
         \/ \E u \in Users : Login(u)
         \/ Expire \/ OnSessionExpired \/ OnLogout \/ LoadSecretKey
  PROVE  Inv'
<1> USE DEF Inv
<1>1. TypeOK'
  BY DEF TypeOK, Login, Expire, OnSessionExpired, OnLogout, LoadSecretKey, EndSession,
         ResetSenderInfo, desktop, dialog, request, server
<1>2. SessionInv'
  <2>1. CASE LoadSecretKey
    BY <2>1 DEF TypeOK, SessionInv, LoadSecretKey, desktop, server
  <2>2. CASE ~LoadSecretKey
    BY <2>2 DEF SessionInv, Login, Expire, OnSessionExpired, OnLogout, EndSession,
                desktop, dialog, request, server
  <2> QED BY <2>1, <2>2
<1>3. DialogInv'
  BY DEF DialogInv, Login, Expire, OnSessionExpired, OnLogout, LoadSecretKey,
         EndSession, ResetSenderInfo, desktop, dialog, request, server
<1>4. ASSUME NEW r \in Requests PROVE RequestInvOf(r)'
  <2>1. /\ pc' = pc /\ UNCHANGED <<request, server>>
        /\ \/ \A q \in Requests : ~alive'[q]
           \/ alive' = alive /\ \/ connection # "in"
                                \/ UNCHANGED <<userId, connection>>
    BY DEF Login, Expire, OnSessionExpired, OnLogout, LoadSecretKey, EndSession,
           desktop, dialog
  <2>2. RequestInvOf(r) BY DEF RequestInv
  <2>3. alive'[r] => alive[r] /\ connection' = connection /\ userId' = userId
    BY <2>1, <2>2 DEF RequestInvOf
  <2> QED BY <2>1, <2>2, <2>3, OtherRequest DEF TypeOK, HandedOn, request, server
<1> QED BY <1>1, <1>2, <1>3, <1>4 DEF RequestInv

\* The dialog is shown, hidden or typed into.
LEMMA DialogStep ==
  ASSUME Inv, Show \/ Hide \/ \E a \in Accounts : TypeSender(a) \/ TypePassword(a)
  PROVE  Inv'
<1> USE DEF Inv
<1>1. UNCHANGED <<desktop, credentials, pc, alive, request, server, nonce>>
  BY DEF Show, Hide, TypeSender, TypePassword
<1>2. TypeOK'
  BY DEF TypeOK, Show, Hide, TypeSender, TypePassword, ValidateUser, ResetSenderInfo,
         desktop, request, server
<1>3. SessionInv'
  BY <1>1 DEF SessionInv, desktop, server
<1>4. DialogInv'
  BY DEF DialogInv, Show, Hide, TypeSender, TypePassword, ValidateUser,
         ResetSenderInfo, IsUserValid, desktop
<1>5. ASSUME NEW r \in Requests PROVE RequestInvOf(r)'
  <2> RequestInvOf(r) BY DEF RequestInv
  <2> QED BY <1>1, OtherRequest DEF TypeOK, HandedOn, desktop, request, server
<1> QED BY <1>2, <1>3, <1>4, <1>5 DEF RequestInv

\* The button is clicked.
LEMMA SendStep ==
  ASSUME Inv, NEW s \in Requests, Send(s)
  PROVE  Inv'
<1> USE DEF Inv
<1>1. posted'[s] \in Complete \cup {Missing}
  BY DEF Send, PrepareJsonPost, TypeOK, DialogInv, IsSendEnabled, IsUsingNonce, Complete
<1>2. TypeOK'
  <2>1. posted' \in [Requests -> Complete \cup {Missing}]
    BY <1>1 DEF Send, TypeOK
  <2>2. user'[s] \in Users /\ shown'[s] \in Accounts
    BY DEF Send, TypeOK, IsSendEnabled, IsUserValid
  <2> QED BY <2>1, <2>2 DEF Send, TypeOK, desktop, dialog, server
<1>3. SessionInv' BY DEF SessionInv, Send, desktop, server
<1>4. DialogInv' BY DEF DialogInv, Send, dialog
<1>5. ASSUME NEW r \in Requests, r # s PROVE RequestInvOf(r)'
  <2> RequestInvOf(r) BY DEF RequestInv
  <2> QED BY <1>5, OtherRequest DEF Send, TypeOK, HandedOn, desktop, server
<1>6. RequestInvOf(s)'
  <2>1. RequestInvOf(s) BY DEF RequestInv
  <2>2. posted'[s] # Missing => Owner[posted'[s].sender] = user'[s]
    BY DEF Send, PrepareJsonPost, TypeOK, DialogInv, IsSendEnabled, IsUserValid
  <2>3. alive'[s] => connection' = "in" /\ user'[s] = userId'
    BY DEF Send, TypeOK, desktop
  <2>4. data'[s] = Missing /\ s \notin sent' /\ pc'[s] = "posted"
    BY <2>1 DEF Send, TypeOK, RequestInvOf, server
  <2> QED BY <2>2, <2>3, <2>4 DEF RequestInvOf
<1> QED BY <1>2, <1>3, <1>4, <1>5, <1>6 DEF RequestInv

\* The answer arrives.
LEMMA StartedStep ==
  ASSUME Inv, NEW s \in Requests, Started(s)
  PROVE  Inv'
<1> USE DEF Inv
<1>1. TypeOK' BY DEF Started, TypeOK, desktop, request, server
<1>2. SessionInv' BY DEF SessionInv, Started, desktop, server
<1>3. DialogInv' BY DEF DialogInv, Started
<1>4. ASSUME NEW r \in Requests, r # s PROVE RequestInvOf(r)'
  <2> RequestInvOf(r) BY DEF RequestInv
  <2> QED BY <1>4, OtherRequest DEF Started, TypeOK, HandedOn, desktop, request, server
<1>5. RequestInvOf(s)'
  <2> RequestInvOf(s) BY DEF RequestInv
  <2> QED BY DEF Started, TypeOK, RequestInvOf, ByNonce, desktop, request, server
<1> QED BY <1>1, <1>2, <1>3, <1>4, <1>5 DEF RequestInv

\* The sender is taken from the body of the request or from the session.
LEMMA ValidateStep ==
  ASSUME Inv, NEW s \in Requests, ValidateSenderCredentials(s)
  PROVE  Inv'
<1> USE DEF Inv
<1>0. PICK c \in PopulateIfMissing(s) :
        IF alive[s] /\ c # Missing
        THEN /\ pc' = [pc EXCEPT ![s] = "populated"]
             /\ data' = [data EXCEPT ![s] = c]
             /\ UNCHANGED <<alive, request>>
        ELSE Refuse(s)
  BY DEF ValidateSenderCredentials
<1>1. c \in HandedOn \cup {Missing}
  BY DEF PopulateIfMissing, Decrypt, Kept, TypeOK, Complete, HandedOn
<1>2. TypeOK'
  <2>1. pc' \in [Requests -> {"idle", "posted", "populated", "started", "answered",
                              "done", "failed"}]
    BY DEF ValidateSenderCredentials, Refuse, End, TypeOK
  <2>2. data' \in [Requests -> HandedOn \cup {Missing}]
    BY <1>0, <1>1 DEF Refuse, HandedOn, TypeOK
  <2>3. /\ alive' \in [Requests -> BOOLEAN] /\ user' \in [Requests -> Users \cup {None}]
        /\ shown' \in [Requests -> Accounts \cup {None}]
        /\ header' \in [Requests -> Nonces \cup {None}]
        /\ posted' \in [Requests -> Complete \cup {Missing}]
    BY <1>0 DEF Refuse, End, TypeOK, request
  <2> QED BY <2>1, <2>2, <2>3
          DEF ValidateSenderCredentials, TypeOK, HandedOn, desktop, dialog
<1>3. SessionInv' BY DEF SessionInv, ValidateSenderCredentials, desktop
<1>4. DialogInv' BY DEF DialogInv, ValidateSenderCredentials, dialog
<1>5. ASSUME NEW r \in Requests, r # s PROVE RequestInvOf(r)'
  <2> RequestInvOf(r) BY DEF RequestInv
  <2> QED BY <1>5, OtherRequest
          DEF ValidateSenderCredentials, Refuse, End, TypeOK, HandedOn, desktop, request
<1>6. RequestInvOf(s)'
  <2>1. RequestInvOf(s) BY DEF RequestInv
  <2>2. /\ UNCHANGED <<desktop, sent, issuedFor>>
        /\ s \notin sent
    BY <2>1 DEF ValidateSenderCredentials, RequestInvOf
  <2>3. CASE alive[s] /\ c # Missing
    <3>1. pc'[s] = "populated" /\ data'[s] = c /\ UNCHANGED <<alive, request>>
      BY <1>0, <2>3 DEF TypeOK
    <3>2. CASE posted[s] = Missing
      <4>1. /\ credentials # None /\ header[s] # None
            /\ c.sender = credentials.sender
            /\ c.password = Garbled \/ header[s] = credentials.nonce
        BY <2>3, <3>2 DEF PopulateIfMissing, Decrypt, Kept
      <4>2. header[s] \in Nonces
        BY <4>1 DEF TypeOK
      <4>3. Owner[c.sender] = user[s]
        BY <2>1, <2>3, <4>1 DEF RequestInvOf, SessionInv
      <4>4. header[s] = credentials.nonce => issuedFor[header[s]] = c.sender
        BY <4>1, <4>2 DEF SessionInv
      <4> QED BY <2>1, <2>2, <2>3, <3>1, <3>2, <4>1, <4>2, <4>3, <4>4
              DEF RequestInvOf, ByNonce, desktop, request
    <3>3. CASE posted[s] # Missing
      BY <2>1, <2>2, <2>3, <3>1, <3>3
      DEF RequestInvOf, PopulateIfMissing, ByNonce, desktop, request
    <3> QED BY <3>2, <3>3
  <2>4. CASE ~(alive[s] /\ c # Missing)
    <3>1. pc'[s] = "failed" /\ ~alive'[s] /\ data'[s] = Missing /\ posted'[s] = Missing
      BY <1>0, <2>4 DEF Refuse, End, TypeOK
    <3> QED BY <2>2, <3>1 DEF RequestInvOf
  <2> QED BY <2>3, <2>4
<1> QED BY <1>2, <1>3, <1>4, <1>5, <1>6 DEF RequestInv

\* The Faspex server accepts the package or not.
LEMMA StartTransferStep ==
  ASSUME Inv, NEW s \in Requests, StartTransfer(s)
  PROVE  Inv'
<1> USE DEF Inv
<1>1. TypeOK'
  <2>1. CASE Refuse(s) /\ UNCHANGED sent
    BY <2>1 DEF StartTransfer, Refuse, End, TypeOK, desktop, dialog
  <2>2. CASE UNCHANGED <<alive, data, request>>
    BY <2>2 DEF StartTransfer, Refuse, End, TypeOK, desktop, dialog, request
  <2> QED BY <2>1, <2>2 DEF StartTransfer
<1>2. SessionInv' BY DEF SessionInv, StartTransfer, desktop
<1>3. DialogInv' BY DEF DialogInv, StartTransfer, dialog
<1>4. ASSUME NEW r \in Requests, r # s PROVE RequestInvOf(r)'
  <2> RequestInvOf(r) BY DEF RequestInv
  <2> QED BY <1>4, OtherRequest
          DEF StartTransfer, Refuse, End, TypeOK, HandedOn, desktop, request
<1>5. RequestInvOf(s)'
  <2> RequestInvOf(s) BY DEF RequestInv
  <2>1. CASE Refuse(s) /\ UNCHANGED sent
    BY <2>1 DEF StartTransfer, Refuse, End, TypeOK, RequestInvOf
  <2>2. CASE UNCHANGED <<alive, data, request>>
    BY <2>2 DEF StartTransfer, Refuse, End, TypeOK, RequestInvOf, ByNonce, desktop, request
  <2> QED BY <2>1, <2>2 DEF StartTransfer
<1> QED BY <1>1, <1>2, <1>3, <1>4, <1>5 DEF RequestInv

\* The session takes the credentials of a package that was sent.
LEMMA RefreshNonceStep ==
  ASSUME Inv, NEW s \in Requests, RefreshNonce(s)
  PROVE  Inv'
<1> USE DEF Inv
<1>1. RequestInvOf(s) BY DEF RequestInv
<1>2. data[s] \in Complete
  <2>1. data[s] \in HandedOn /\ data[s].password = data[s].sender
    BY <1>1 DEF RequestInvOf, RefreshNonce, TypeOK, HandedOn
  <2> QED BY <2>1 DEF HandedOn, Complete
<1>3. \A n \in Nonces : issuedFor[n] # None => issuedFor'[n] = issuedFor[n]
  BY DEF RefreshNonce, GenerateNonce, TypeOK
<1>4. CASE alive[s]
  <2>1. PICK n \in Nonces :
          /\ issuedFor[n] = None
          /\ issuedFor' = [issuedFor EXCEPT ![n] = data[s].sender]
          /\ credentials' = [sender |-> data[s].sender,
                             password |-> data[s].password, nonce |-> n]
          /\ answer' = [answer EXCEPT ![s] = n]
          /\ End(s, "answered")
    BY <1>4 DEF RefreshNonce, GenerateNonce, Encrypt
  <2>2. TypeOK'
    <3>1. /\ credentials' \in
               [sender : Accounts, password : Accounts, nonce : Nonces \cup {None}]
          /\ issuedFor' \in [Nonces -> Accounts \cup {None}]
      BY <1>2, <2>1 DEF TypeOK, Complete
    <3> QED BY <2>1, <3>1 DEF RefreshNonce, End, TypeOK, desktop, dialog, request
  <2>3. SessionInv'
    <3>1. connection' = "in" /\ Owner[data[s].sender] = userId'
      BY <1>1, <1>2, <1>4, MissingIsIncomplete DEF RefreshNonce, RequestInvOf, desktop
    <3>2. data[s].password = data[s].sender
      BY <1>1 DEF RefreshNonce, RequestInvOf
    <3>3. issuedFor'[n] = data[s].sender
      BY <2>1 DEF TypeOK
    <3> QED BY <2>1, <3>1, <3>2, <3>3 DEF SessionInv
  <2>4. ASSUME NEW r \in Requests, r # s PROVE RequestInvOf(r)'
    <3> RequestInvOf(r) BY DEF RequestInv
    <3> QED BY <1>3, <2>1, <2>4, OtherRequest
            DEF RefreshNonce, End, TypeOK, HandedOn, desktop, request
  <2>5. RequestInvOf(s)'
    <3>1. pc'[s] = "answered" /\ ~alive'[s] BY <2>1 DEF End, TypeOK
    <3> QED BY <1>1, <1>2, <1>3, <3>1, MissingIsIncomplete
            DEF RefreshNonce, RequestInvOf, ByNonce, TypeOK, desktop, request, Complete
  <2> QED BY <2>2, <2>3, <2>4, <2>5 DEF RefreshNonce, RequestInv, DialogInv, dialog
<1>5. CASE ~alive[s]
  <2>1. TypeOK' BY <1>5 DEF RefreshNonce, End, TypeOK, desktop, dialog, request
  <2>2. SessionInv' BY <1>5 DEF SessionInv, RefreshNonce, desktop
  <2>3. ASSUME NEW r \in Requests, r # s PROVE RequestInvOf(r)'
    <3> RequestInvOf(r) BY DEF RequestInv
    <3> QED BY <1>5, <2>3, OtherRequest
            DEF RefreshNonce, End, TypeOK, HandedOn, desktop, request
  <2>4. RequestInvOf(s)'
    BY <1>1, <1>5 DEF RefreshNonce, End, TypeOK, RequestInvOf, ByNonce, desktop, request
  <2> QED BY <2>1, <2>2, <2>3, <2>4 DEF RefreshNonce, RequestInv, DialogInv, dialog
<1> QED BY <1>4, <1>5

----------------------------------------------------------------------------

\* Inv holds in every reachable state.
THEOREM Invariance == Spec => []Inv
<1>1. Inv /\ [Next]_vars => Inv'
  <2>1. ASSUME Inv, Browser PROVE Inv'
    BY <2>1, DesktopStep, DialogStep, SendStep, StartedStep DEF Browser
  <2>2. ASSUME Inv, Server PROVE Inv'
    BY <2>2, DesktopStep, ValidateStep, StartTransferStep, RefreshNonceStep DEF Server
  <2>3. ASSUME Inv, UNCHANGED vars PROVE Inv'
    <3> USE Inv, UNCHANGED vars
        DEF Inv, vars, desktop, dialog, request, server
    <3>1. TypeOK' BY DEF TypeOK
    <3>2. SessionInv' /\ DialogInv' BY DEF SessionInv, DialogInv
    <3>3. RequestInv' BY DEF RequestInv, RequestInvOf, ByNonce
    <3> QED BY <3>1, <3>2, <3>3
  <2> QED BY <2>1, <2>2, <2>3 DEF Next
<1> QED BY <1>1, InitInv, PTL DEF Spec

\* Type correctness.
THEOREM TypeCorrectness == Spec => []TypeOK
<1>1. Inv => TypeOK BY DEF Inv
<1> QED BY <1>1, Invariance, PTL

\* Nobody sends from an account of another user, whoever used the browser
\* before and however late answers arrive.
THEOREM OwnershipSafety == Spec => []SentForOwnUser
<1>1. Inv => SentForOwnUser
  <2> SUFFICES ASSUME Inv, NEW r \in sent
               PROVE  data[r].sender # None /\ Owner[data[r].sender] = user[r]
    BY DEF SentForOwnUser
  <2>1. r \in Requests /\ data[r] # Missing /\ data[r] \in HandedOn
    BY DEF Inv, TypeOK, RequestInv, RequestInvOf, HandedOn
  <2> QED BY <2>1 DEF Inv, RequestInv, RequestInvOf, HandedOn
<1> QED BY <1>1, Invariance, PTL

\* A package sent by a nonce is sent from the account the nonce stands for.
THEOREM NonceSafety == Spec => []NonceStandsForOne
<1>1. Inv => NonceStandsForOne
  <2> SUFFICES ASSUME Inv, NEW r \in sent, ByNonce(r)
               PROVE  issuedFor[header[r]] = data[r].sender
    BY DEF NonceStandsForOne
  <2>1. r \in Requests /\ RequestInvOf(r) BY DEF Inv, TypeOK, RequestInv
  <2>2. data[r] \in HandedOn /\ data[r].password = data[r].sender
    BY <2>1 DEF Inv, TypeOK, RequestInvOf, HandedOn
  <2> QED BY <2>1, <2>2 DEF RequestInvOf, HandedOn
<1> QED BY <1>1, Invariance, PTL

\* A send by the nonce that still is that of the session is not refused for the
\* password, since the session keeps only what the Faspex server accepted; by
\* another nonce, the password is garbled.
THEOREM AcceptanceSafety == Spec => NonceIsAccepted
<1> DEFINE A == \A r \in Requests :
                  pc[r] = "posted" /\ pc'[r] = "populated" /\ ByNonce(r) =>
                      \/ data'[r].password = data'[r].sender
                      \/ data'[r].password = Garbled /\ header[r] # credentials.nonce
<1>1. Inv /\ [Next]_vars => [A]_vars
  <2> SUFFICES ASSUME Inv, Next, NEW r \in Requests,
                      pc[r] = "posted", pc'[r] = "populated", posted[r] = Missing
               PROVE  \/ data'[r].password = data'[r].sender
                      \/ data'[r].password = Garbled /\ header[r] # credentials.nonce
    BY DEF ByNonce
  <2>1. ValidateSenderCredentials(r)
    BY DEF Inv, TypeOK, Next, Browser, Server, Login, OnSessionExpired, OnLogout, Show,
           Hide, TypeSender, TypePassword, Send, Started, Expire, LoadSecretKey,
           ValidateSenderCredentials, StartTransfer, RefreshNonce, Refuse, End
  <2>2. PICK c \in Decrypt(r) : c # Missing /\ data'[r] = c
    BY <2>1 DEF ValidateSenderCredentials, PopulateIfMissing, Refuse, End, Inv, TypeOK
  <2> QED BY <2>2 DEF Decrypt, Kept, Inv, SessionInv
<1> QED BY <1>1, Invariance, PTL DEF Spec, NonceIsAccepted

----------------------------------------------------------------------------
(* What was typed wins over what the session keeps.                         *)

TypedInvOf(r) ==
    /\ pc[r] \in {"idle", "posted"} => data[r] = Missing
    /\ posted[r] # Missing => /\ posted[r].sender = shown[r]
                              /\ data[r] \in {Missing, posted[r]}

TypedInv == \A r \in Requests : TypedInvOf(r)

LEMMA TypedStep ==
  ASSUME TypeOK, TypedInv, [Next]_vars
  PROVE  TypedInv'
<1> SUFFICES ASSUME NEW r \in Requests PROVE TypedInvOf(r)'
  BY DEF TypedInv
<1>1. TypedInvOf(r) BY DEF TypedInv
<1>2. ASSUME UNCHANGED <<posted, shown, data>>, pc'[r] \in {"idle", "posted"} => pc'[r] = pc[r]
      PROVE  TypedInvOf(r)'
  BY <1>1, <1>2 DEF TypedInvOf
<1>3. CASE UNCHANGED vars
  BY <1>2, <1>3 DEF vars, request, server
<1>4. ASSUME NEW s \in Requests, Send(s) PROVE TypedInvOf(r)'
  <2>1. CASE r = s
    <3>1. data'[r] = Missing BY <1>1, <1>4, <2>1 DEF TypedInvOf, Send, server
    <3>2. posted'[r] = PrepareJsonPost /\ shown'[r] = sender
      BY <1>4, <2>1 DEF Send, TypeOK
    <3> QED BY <3>1, <3>2 DEF TypedInvOf, PrepareJsonPost
  <2>2. CASE r # s
    BY <1>1, <1>4, <2>2 DEF TypedInvOf, Send, TypeOK, server
  <2> QED BY <2>1, <2>2
<1>5. ASSUME NEW s \in Requests, ValidateSenderCredentials(s) PROVE TypedInvOf(r)'
  <2>1. CASE r = s
    <3>1. pc'[r] \notin {"idle", "posted"}
      BY <1>5, <2>1 DEF ValidateSenderCredentials, Refuse, End, TypeOK
    <3>2. CASE Refuse(r)
      BY <3>1, <3>2 DEF TypedInvOf, Refuse, TypeOK
    <3>3. CASE UNCHANGED request /\ data'[r] \in PopulateIfMissing(r)
      BY <1>1, <3>1, <3>3 DEF TypedInvOf, PopulateIfMissing, request
    <3> QED BY <1>5, <2>1, <3>2, <3>3 DEF ValidateSenderCredentials, TypeOK
  <2>2. CASE r # s
    BY <1>1, <1>5, <2>2 DEF TypedInvOf, ValidateSenderCredentials, Refuse, End, TypeOK, request
  <2> QED BY <2>1, <2>2
<1>6. ASSUME NEW s \in Requests, StartTransfer(s) \/ RefreshNonce(s) \/ Started(s)
      PROVE  TypedInvOf(r)'
  <2>1. pc'[r] \in {"idle", "posted"} => pc'[r] = pc[r]
    BY <1>6 DEF StartTransfer, RefreshNonce, Started, Refuse, End, TypeOK
  <2>2. CASE Refuse(s)
    BY <1>1, <2>1, <2>2 DEF TypedInvOf, Refuse, TypeOK
  <2>3. CASE UNCHANGED <<posted, shown, data>>
    BY <1>2, <2>1, <2>3
  <2> QED BY <1>6, <2>2, <2>3 DEF StartTransfer, RefreshNonce, Started, request, server
<1>7. ASSUME UNCHANGED <<pc, request, server>> PROVE TypedInvOf(r)'
  BY <1>2, <1>7 DEF request, server
<1>8. CASE Browser
  <2>1. CASE \E u \in Users : Login(u)
    BY <1>7, <2>1 DEF Login
  <2>2. CASE OnSessionExpired \/ OnLogout \/ Show \/ Hide
    BY <1>7, <2>2 DEF OnSessionExpired, OnLogout, Show, Hide
  <2>3. CASE \E a \in Accounts : TypeSender(a) \/ TypePassword(a)
    BY <1>7, <2>3 DEF TypeSender, TypePassword
  <2> QED BY <1>4, <1>6, <1>8, <2>1, <2>2, <2>3 DEF Browser
<1>9. CASE Server
  <2>1. CASE Expire \/ LoadSecretKey
    BY <1>7, <2>1 DEF Expire, LoadSecretKey
  <2> QED BY <1>5, <1>6, <1>9, <2>1 DEF Server
<1> QED BY <1>3, <1>8, <1>9 DEF Next

\* A package whose password was typed is sent from the sender that was shown.
THEOREM TypedSafety == Spec => []TypedIsSentAsShown
<1>1. Init => TypedInv
  BY DEF Init, TypedInv, TypedInvOf, Missing
<1>2. Inv /\ TypedInv => TypedIsSentAsShown
  <2> SUFFICES ASSUME Inv, TypedInv, NEW r \in sent, posted[r] # Missing
               PROVE  data[r].sender = shown[r]
    BY DEF TypedIsSentAsShown, ByNonce
  <2>1. r \in Requests /\ data[r] # Missing
    BY DEF Inv, TypeOK, RequestInv, RequestInvOf
  <2> QED BY <2>1 DEF TypedInv, TypedInvOf
<1>3. Inv => TypeOK BY DEF Inv
<1> QED BY <1>1, <1>2, <1>3, TypedStep, Invariance, PTL DEF Spec
=============================================================================
