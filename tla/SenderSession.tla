--------------------------- MODULE SenderSession ---------------------------
(***************************************************************************)
(* The sender and the password of a package, from the fields of the send   *)
(* dialog to the Faspex server and back.                                   *)
(*                                                                         *)
(* The first package of a session carries the sender and the password that *)
(* the user typed.  Once it is sent, PackageSender keeps both in the HTTP  *)
(* session, the password encrypted with a fresh nonce as initialization    *)
(* vector, and answers with the nonce.  The dialog puts the nonce in the   *)
(* password field; as long as it is there, packages carry the nonce only.  *)
(*                                                                         *)
(* The password of an account is the account itself.  The required fields  *)
(* other than sender and password are filled in whenever the dialog is     *)
(* open, since setItems precedes show and hide resets them.                *)
(***************************************************************************)
EXTENDS Naturals

CONSTANTS
    Users,      \* who may be logged in to the desktop
    Accounts,   \* senders that the Faspex server knows
    Owner,      \* the user who has the account
    Requests,   \* clicks on the send button; bounds how often it is clicked
    Nonces,     \* bounds how often credentials are refreshed
    Garbled,    \* what another nonce or key makes of a password: that of no account
    None

ASSUME ConstantsAssumption ==
    /\ Owner \in [Accounts -> Users]
    /\ Accounts \cap Nonces = {}
    /\ Garbled \notin Accounts
    /\ None \notin Users \cup Accounts \cup Nonces \cup {Garbled}

VARIABLES
    userId,       \* Desktop.userId
    connection,   \* whether the HTTP session is valid, and the browser knows if not
    credentials,  \* the session attribute: sender, password and the nonce that
                  \* decrypts it, None when its key is gone
    open,         \* the dialog is shown
    dialogUser,   \* _userId of the dialog
    sender,       \* the fields of the dialog
    password,
    nonce,        \* _nonce of the dialog
    pc,           \* where each send request is
    alive,        \* it is being handled, and the session it came with is still valid
    user,         \* who was logged in when the button was clicked
    shown,        \* the sender field at that time
    header,       \* the header ICN-AP-Nonce of the request
    posted,       \* sender and password in the body of the request
    data,         \* sender and password in the package data of PackageSender
    answer,       \* the header ICN-AP-Nonce of the response
    sent,         \* requests whose package the Faspex server accepted
    issuedFor     \* the sender that each nonce was made for, None if not yet made

desktop == <<userId, connection>>
dialog == <<open, dialogUser, sender, password, nonce>>
request == <<user, shown, header, posted>>
server == <<data, answer, sent, issuedFor>>
vars == <<desktop, credentials, dialog, pc, alive, request, server>>

Missing == [sender |-> None, password |-> None]
Complete == [sender : Accounts, password : Accounts]

Init ==
    /\ userId = None /\ connection = "out" /\ credentials = None
    /\ open = FALSE /\ dialogUser = None
    /\ sender = None /\ password = None /\ nonce = None
    /\ pc = [r \in Requests |-> "idle"]
    /\ alive = [r \in Requests |-> FALSE]
    /\ user = [r \in Requests |-> None]
    /\ shown = [r \in Requests |-> None]
    /\ header = [r \in Requests |-> None]
    /\ posted = [r \in Requests |-> Missing]
    /\ data = [r \in Requests |-> Missing]
    /\ answer = [r \in Requests |-> None]
    /\ sent = {}
    /\ issuedFor = [n \in Nonces |-> None]

----------------------------------------------------------------------------
(* The desktop and the HTTP session. *)

Login(u) ==
    /\ connection = "out"
    /\ connection' = "in"
    /\ userId' = u
    /\ UNCHANGED <<credentials, dialog, pc, alive, request, server>>

\* The session is invalidated: its attributes are gone, and getSession(false)
\* returns null to the requests that came with it.
EndSession ==
    /\ credentials' = None
    /\ alive' = [r \in Requests |-> FALSE]

Expire ==
    /\ connection = "in"
    /\ connection' = "expired"
    /\ EndSession
    /\ UNCHANGED <<userId, dialog, pc, request, server>>

IsUsingNonce == nonce # None /\ nonce = password

ResetSenderInfo ==
    /\ sender' = None
    /\ password' = None

OnSessionExpired ==
    /\ connection = "expired"
    /\ connection' = "out"
    /\ IF IsUsingNonce THEN ResetSenderInfo ELSE UNCHANGED <<sender, password>>
    /\ UNCHANGED <<userId, credentials, open, dialogUser, nonce, pc, alive, request, server>>

\* The user Id is read again only after the next login, which sets it.
OnLogout ==
    /\ connection \in {"in", "expired"}
    /\ connection' = "out"
    /\ EndSession
    /\ ResetSenderInfo
    /\ UNCHANGED <<userId, open, dialogUser, nonce, pc, request, server>>

\* The plug-in is initialized again: the session keeps what the old key
\* encrypted, and no nonce decrypts it any more.
LoadSecretKey ==
    /\ credentials # None
    /\ credentials' = [credentials EXCEPT !.nonce = None]
    /\ UNCHANGED <<desktop, dialog, pc, alive, request, server>>

----------------------------------------------------------------------------
(* The dialog. *)

IsUserValid == dialogUser # None /\ dialogUser = userId

\* Variant: the dialog takes the new user without a reset.
ValidateUserOnly ==
    /\ UNCHANGED <<sender, password>>
    /\ dialogUser' = userId

ValidateUser ==
    /\ IF IsUserValid THEN UNCHANGED <<sender, password>> ELSE ResetSenderInfo
    /\ dialogUser' = userId

Show ==
    /\ connection # "out"
    /\ ~open
    /\ open' = TRUE
    /\ ValidateUser
    /\ UNCHANGED <<desktop, credentials, nonce, pc, alive, request, server>>

Hide ==
    /\ open
    /\ open' = FALSE
    /\ UNCHANGED <<desktop, credentials, dialogUser, sender, password, nonce,
                   pc, alive, request, server>>

\* A user types only into a dialog that was opened for them, and only their own
\* accounts; the password may be that of another account.
TypeSender(a) ==
    /\ open /\ connection # "out" /\ IsUserValid
    /\ Owner[a] = userId
    /\ sender' = a
    /\ UNCHANGED <<desktop, credentials, open, dialogUser, password, nonce,
                   pc, alive, request, server>>

TypePassword(a) ==
    /\ open /\ connection # "out" /\ IsUserValid
    /\ Owner[a] = userId
    /\ password' = a
    /\ UNCHANGED <<desktop, credentials, open, dialogUser, sender, nonce,
                   pc, alive, request, server>>

IsSendEnabled == open /\ sender # None /\ password # None /\ IsUserValid

\* The body of the request: the fields, unless the password is a nonce.
PrepareJsonPost ==
    IF IsUsingNonce THEN Missing ELSE [sender |-> sender, password |-> password]

\* Nothing keeps the button from being clicked again before the answer arrives.
Send(r) ==
    /\ pc[r] = "idle"
    /\ connection # "out"
    /\ IsSendEnabled
    /\ pc' = [pc EXCEPT ![r] = "posted"]
    /\ alive' = [alive EXCEPT ![r] = (connection = "in")]
    /\ user' = [user EXCEPT ![r] = userId]
    /\ shown' = [shown EXCEPT ![r] = sender]
    /\ header' = [header EXCEPT ![r] = nonce]
    /\ posted' = [posted EXCEPT ![r] = PrepareJsonPost]
    /\ UNCHANGED <<desktop, credentials, dialog, server>>

\* The answer may come late, to a dialog that was hidden and shown again.
Started(r) ==
    /\ pc[r] = "answered"
    /\ pc' = [pc EXCEPT ![r] = "done"]
    /\ nonce' = answer[r]
    /\ password' = answer[r]
    /\ open' = FALSE
    /\ UNCHANGED <<desktop, credentials, dialogUser, sender, alive, request, server>>

----------------------------------------------------------------------------
(* PackageSender on the server. *)

GenerateNonce == {n \in Nonces : issuedFor[n] = None}

Encrypt(r, n) == [sender |-> data[r].sender, password |-> data[r].password, nonce |-> n]

Kept(word) == [sender |-> credentials.sender, password |-> word]

\* Variant: the nonce of the request is not looked at.
DecryptAny(r) == {IF credentials = None THEN Missing ELSE Kept(credentials.password)}

\* What the credentials of the session may be read as, Missing for an
\* exception.  Another initialization vector garbles the first block, another
\* key all of them: decrypt throws when that hits the padding, and returns a
\* wrong password when it does not.
Decrypt(r) ==
    IF credentials = None \/ header[r] = None THEN {Missing}
    ELSE IF header[r] = credentials.nonce THEN {Kept(credentials.password)}
    ELSE {Missing, Kept(Garbled)}

\* Variant: the credentials of the session are preferred.
PopulateFromSession(r) == {IF c = Missing THEN posted[r] ELSE c : c \in Decrypt(r)}

PopulateIfMissing(r) == IF posted[r] = Missing THEN Decrypt(r) ELSE {posted[r]}

\* The handling of a request ends, with an answer or with an error.
End(r, label) ==
    /\ pc' = [pc EXCEPT ![r] = label]
    /\ alive' = [alive EXCEPT ![r] = FALSE]

\* It ends with an error before anything is sent, and nothing is kept of it.
Refuse(r) ==
    /\ End(r, "failed")
    /\ data' = [data EXCEPT ![r] = Missing]
    /\ posted' = [posted EXCEPT ![r] = Missing]
    /\ header' = [header EXCEPT ![r] = None]
    /\ user' = [user EXCEPT ![r] = None]
    /\ shown' = [shown EXCEPT ![r] = None]

ValidateSenderCredentials(r) ==
    /\ pc[r] = "posted"
    /\ \E c \in PopulateIfMissing(r) :
         IF alive[r] /\ c # Missing
         THEN /\ pc' = [pc EXCEPT ![r] = "populated"]
              /\ data' = [data EXCEPT ![r] = c]
              /\ UNCHANGED <<alive, request>>
         ELSE Refuse(r)
    /\ UNCHANGED <<desktop, credentials, dialog, answer, sent, issuedFor>>

\* Variant: the credentials are kept before the Faspex server has seen them.
StartTransferLater(r) ==
    /\ pc[r] = "populated"
    /\ pc' = [pc EXCEPT ![r] = "started"]
    /\ sent' = sent \cup {r}
    /\ UNCHANGED <<desktop, credentials, dialog, alive, request, data, answer, issuedFor>>

\* FaspexClient.startTransfer: the Faspex server knows the sender by the
\* password, and refuses a garbled one; the transfer may fail for other reasons
\* as well.
StartTransfer(r) ==
    /\ pc[r] = "populated"
    /\ \/ /\ data[r].password = data[r].sender
          /\ pc' = [pc EXCEPT ![r] = "started"]
          /\ sent' = sent \cup {r}
          /\ UNCHANGED <<alive, data, request>>
       \/ /\ Refuse(r)
          /\ UNCHANGED sent
    /\ UNCHANGED <<desktop, credentials, dialog, answer, issuedFor>>

\* Without a session there is nothing to keep the credentials in: the request
\* ends with an error although the package is being sent.
RefreshNonce(r) ==
    /\ pc[r] = "started"
    /\ \/ /\ alive[r]
          /\ \E n \in GenerateNonce :
               /\ issuedFor' = [issuedFor EXCEPT ![n] = data[r].sender]
               /\ credentials' = Encrypt(r, n)
               /\ answer' = [answer EXCEPT ![r] = n]
          /\ End(r, "answered")
       \/ /\ ~alive[r]
          /\ End(r, "failed")
          /\ UNCHANGED <<issuedFor, credentials, answer>>
    /\ UNCHANGED <<desktop, dialog, request, data, sent>>

----------------------------------------------------------------------------
Browser ==
    \/ \E u \in Users : Login(u)
    \/ OnSessionExpired \/ OnLogout \/ Show \/ Hide
    \/ \E a \in Accounts : TypeSender(a) \/ TypePassword(a)
    \/ \E r \in Requests : Send(r) \/ Started(r)

Server ==
    \/ Expire \/ LoadSecretKey
    \/ \E r \in Requests :
         ValidateSenderCredentials(r) \/ StartTransfer(r) \/ RefreshNonce(r)

Next == Browser \/ Server

Spec == Init /\ [][Next]_vars

----------------------------------------------------------------------------
(* Properties. *)

\* Every variable keeps its type: a body has both the sender and the password
\* or neither, and what PackageSender hands on is complete, a garbled password
\* included.
TypeOK ==
    /\ userId \in Users \cup {None}
    /\ connection \in {"in", "expired", "out"}
    /\ credentials \in
         [sender : Accounts, password : Accounts, nonce : Nonces \cup {None}] \cup {None}
    /\ open \in BOOLEAN
    /\ dialogUser \in Users \cup {None}
    /\ sender \in Accounts \cup {None}
    /\ password \in Accounts \cup Nonces \cup {None}
    /\ nonce \in Nonces \cup {None}
    /\ pc \in [Requests -> {"idle", "posted", "populated", "started", "answered",
                            "done", "failed"}]
    /\ alive \in [Requests -> BOOLEAN]
    /\ user \in [Requests -> Users \cup {None}]
    /\ shown \in [Requests -> Accounts \cup {None}]
    /\ header \in [Requests -> Nonces \cup {None}]
    /\ posted \in [Requests -> Complete \cup {Missing}]
    /\ data \in [Requests -> [sender : Accounts, password : Accounts \cup {Garbled}]
                              \cup {Missing}]
    /\ answer \in [Requests -> Nonces \cup {None}]
    /\ sent \subseteq Requests
    /\ issuedFor \in [Nonces -> Accounts \cup {None}]

\* A package that a user sends is sent from an account of that user, whoever
\* else used the same browser before, and whenever their answers arrive.
SentForOwnUser ==
    \A r \in sent : data[r].sender # None /\ Owner[data[r].sender] = user[r]

ByNonce(r) == posted[r] = Missing

\* A package that is sent by a nonce is sent from the account that the nonce
\* was made for, although answers may arrive in any order and the session
\* holds only the last credentials.
NonceStandsForOne ==
    \A r \in sent : ByNonce(r) => issuedFor[header[r]] = data[r].sender

\* Who sends by a nonce that still is that of the session when PackageSender
\* reads the credentials is not refused for the password: only credentials that
\* the Faspex server has accepted are kept.  A nonce that another answer or
\* another key has overtaken ends in an exception or in a garbled password,
\* which the Faspex server refuses.
NonceIsAccepted ==
    [][\A r \in Requests :
         pc[r] = "posted" /\ pc'[r] = "populated" /\ ByNonce(r) =>
             \/ data'[r].password = data'[r].sender
             \/ data'[r].password = Garbled /\ header[r] # credentials.nonce]_vars

\* A package for which the user has typed a password is sent from the account
\* that the title "Sender: ..." of the dialog named, although the session holds
\* credentials of another account and the request carries their nonce.
TypedIsSentAsShown ==
    \A r \in sent : ~ByNonce(r) => data[r].sender = shown[r]
=============================================================================
