------------------------------ MODULE Accounts ------------------------------
(***************************************************************************)
(* Accounts: the handlers of handlers/auth.go over one MongoDB collection. *)
(*                                                                         *)
(* One process per HTTP request.  Each call of the database is a step, and *)
(* requests interleave between them: a handler finds a document, then      *)
(* updates by _id what it found.  A request draws one random value at most *)
(* and chooses one password, both named after it; the document a           *)
(* registration inserts, and its _id, are named after it too.              *)
(*                                                                         *)
(* MongoDB and mail are external.  A call may fail, and a write may have   *)
(* been done all the same when only its reply was lost.  A mail may get    *)
(* lost.                                                                   *)
(***************************************************************************)
CONSTANTS
    Requests,   \* HTTP requests
    Emails,     \* addresses
    Indexed,    \* ensureIndexes created the unique index
    None        \* no value

ASSUME IndexedAssumption == Indexed \in BOOLEAN
ASSUME NoneAssumption    == None \notin Requests \cup Emails

VARIABLES
    \* ---- the documents, by the request that inserted them
    email,          \* User.Email; None where there is no document
    password,       \* User.Password: the request that chose it
    emailVerified,  \* User.EmailVerified
    verifyToken,    \* User.VerifyToken is there
    resetToken,     \* User.ResetToken
    \* ---- outside
    expired,        \* tokens and JWTs whose time is over, by their request
    mailed,         \* tokens that are in the mailbox of their account
    \* ---- the locals of each request
    pc,
    address,        \* req.Email of a registration
    token,          \* req.Token
    user,           \* the document that FindOne returned
    jwt             \* the account a JWT was issued for

users  == <<email, password, emailVerified, verifyToken, resetToken>>
locals == <<pc, address, token, user, jwt>>
vars   == <<users, expired, mailed, locals>>

\* A request ends with a page of its own ("done"), for Me with the account
\* ("served"), or with an error ("failed").
PCs == {"idle", "insert", "verify", "set", "reset", "mail", "done", "served",
        "failed"}

TypeOK ==
    /\ email         \in [Requests -> Emails \cup {None}]
    /\ password      \in [Requests -> Requests \cup {None}]
    /\ emailVerified \in [Requests -> BOOLEAN]
    /\ verifyToken   \in [Requests -> BOOLEAN]
    /\ resetToken    \in [Requests -> Requests \cup {None}]
    /\ expired       \in SUBSET Requests
    /\ mailed        \in SUBSET Requests
    /\ pc            \in [Requests -> PCs]
    /\ address       \in [Requests -> Emails \cup {None}]
    /\ token         \in [Requests -> Requests \cup {None}]
    /\ user          \in [Requests -> Requests \cup {None}]
    /\ jwt           \in [Requests -> Requests \cup {None}]

Init ==
    /\ email         = [d \in Requests |-> None]
    /\ password      = [d \in Requests |-> None]
    /\ emailVerified = [d \in Requests |-> FALSE]
    /\ verifyToken   = [d \in Requests |-> FALSE]
    /\ resetToken    = [d \in Requests |-> None]
    /\ expired       = {}
    /\ mailed        = {}
    /\ pc            = [r \in Requests |-> "idle"]
    /\ address       = [r \in Requests |-> None]
    /\ token         = [r \in Requests |-> None]
    /\ user          = [r \in Requests |-> None]
    /\ jwt           = [r \in Requests |-> None]

Goto(r, label) == pc' = [pc EXCEPT ![r] = label]

\* The documents that FindOne may return.
WithEmail(e) == {d \in Requests : email[d] = e}

-----------------------------------------------------------------------------
(* Register.                                                               *)

\* An error of the lookup is taken for an address that nobody has.
Register(r, e) ==
    /\ pc[r] = "idle"
    /\ address' = [address EXCEPT ![r] = e]
    /\ \/ Goto(r, "insert")
       \/ WithEmail(e) # {} /\ Goto(r, "failed")
    /\ UNCHANGED <<users, expired, mailed, token, user, jwt>>

\* Mutant: nothing but the lookup keeps addresses apart.
RegisterInsertUnindexed(r) ==
    /\ pc[r] = "insert"
    /\ email' = [email EXCEPT ![r] = address[r]]
    /\ password' = [password EXCEPT ![r] = r]
    /\ verifyToken' = [verifyToken EXCEPT ![r] = TRUE]
    /\ Goto(r, "mail")
    /\ UNCHANGED <<emailVerified, resetToken, expired, mailed, address, token,
                   user, jwt>>

\* InsertOne, after bcrypt took its time.
RegisterInsert(r) ==
    /\ pc[r] = "insert"
    /\ IF Indexed /\ WithEmail(address[r]) # {}
       THEN /\ Goto(r, "failed")
            /\ UNCHANGED users
       ELSE /\ email' = [email EXCEPT ![r] = address[r]]
            /\ password' = [password EXCEPT ![r] = r]
            /\ verifyToken' = [verifyToken EXCEPT ![r] = TRUE]
            /\ Goto(r, "mail") \/ Goto(r, "failed")
            /\ UNCHANGED <<emailVerified, resetToken>>
    /\ UNCHANGED <<expired, mailed, address, token, user, jwt>>

\* The goroutine that sends the link, for Register and ForgotPassword: any of
\* the calls of send may fail, and the error is only logged.
SendMail(r) ==
    /\ pc[r] = "mail"
    /\ mailed' \in {mailed, mailed \cup {r}}
    /\ Goto(r, "done")
    /\ UNCHANGED <<users, expired, address, token, user, jwt>>

-----------------------------------------------------------------------------
(* VerifyEmail and Login.                                                  *)

VerifyEmail(r, t) ==
    /\ pc[r] = "idle"
    /\ t \in mailed
    /\ token' = [token EXCEPT ![r] = t]
    /\ IF verifyToken[t] /\ t \notin expired
       THEN /\ user' = [user EXCEPT ![r] = t]
            /\ Goto(r, "verify")
       ELSE /\ Goto(r, "failed")
            /\ UNCHANGED user
    /\ UNCHANGED <<users, expired, mailed, address, jwt>>

\* Mutant: the token is left in the document.
VerifyUpdateKept(r) ==
    /\ pc[r] = "verify"
    /\ emailVerified' = [emailVerified EXCEPT ![user[r]] = TRUE]
    /\ jwt' = [jwt EXCEPT ![r] = user[r]]
    /\ Goto(r, "done")
    /\ UNCHANGED <<email, password, verifyToken, resetToken, expired, mailed,
                   address, token, user>>

\* UpdateOne by _id, whether or not the token is still there; issueJWT, which
\* may fail.
VerifyUpdate(r) ==
    /\ pc[r] = "verify"
    /\ emailVerified' = [emailVerified EXCEPT ![user[r]] = TRUE]
    /\ verifyToken' = [verifyToken EXCEPT ![user[r]] = FALSE]
    /\ \/ jwt' = [jwt EXCEPT ![r] = user[r]] /\ Goto(r, "done")
       \/ UNCHANGED jwt /\ Goto(r, "failed")
    /\ UNCHANGED <<email, password, resetToken, expired, mailed, address,
                   token, user>>

\* Mutant: an address that was not verified will do.
LoginUnverified(r, e, p) ==
    /\ pc[r] = "idle"
    /\ \/ \E d \in WithEmail(e) :
             /\ password[d] = p
             /\ jwt' = [jwt EXCEPT ![r] = d]
             /\ Goto(r, "done")
       \/ /\ \E d \in WithEmail(e) : password[d] # p
          /\ Goto(r, "failed")
          /\ UNCHANGED jwt
    /\ UNCHANGED <<users, expired, mailed, address, token, user>>

\* One read of the database; what follows concerns the copy that was read.
Login(r, e, p) ==
    /\ pc[r] = "idle"
    /\ \/ \E d \in WithEmail(e) :
             /\ password[d] = p
             /\ emailVerified[d]
             /\ jwt' = [jwt EXCEPT ![r] = d]
             /\ Goto(r, "done")
       \/ /\ WithEmail(e) = {} \/ \E d \in WithEmail(e) :
                                     password[d] # p \/ ~emailVerified[d]
          /\ Goto(r, "failed")
          /\ UNCHANGED jwt
    /\ UNCHANGED <<users, expired, mailed, address, token, user>>

-----------------------------------------------------------------------------
(* ForgotPassword and ResetPassword.                                       *)

\* An address that nobody has, or a lookup that fails, gets the same reply.
ForgotPassword(r, e) ==
    /\ pc[r] = "idle"
    /\ \/ \E d \in WithEmail(e) :
             /\ user' = [user EXCEPT ![r] = d]
             /\ Goto(r, "set")
       \/ /\ Goto(r, "done")
          /\ UNCHANGED user
    /\ UNCHANGED <<users, expired, mailed, address, token, jwt>>

\* UpdateOne, whose error is not looked at.
ForgotUpdate(r) ==
    /\ pc[r] = "set"
    /\ resetToken' \in {resetToken, [resetToken EXCEPT ![user[r]] = r]}
    /\ Goto(r, "mail")
    /\ UNCHANGED <<email, password, emailVerified, verifyToken, expired, mailed,
                   address, token, user, jwt>>

\* Mutant: any account that waits for a reset.
ResetPasswordAny(r, t) ==
    /\ pc[r] = "idle"
    /\ t \in mailed
    /\ token' = [token EXCEPT ![r] = t]
    /\ \/ \E d \in Requests :
             /\ resetToken[d] # None /\ t \notin expired
             /\ user' = [user EXCEPT ![r] = d]
             /\ Goto(r, "reset")
       \/ /\ \A d \in Requests : resetToken[d] = None \/ t \in expired
          /\ Goto(r, "failed")
          /\ UNCHANGED user
    /\ UNCHANGED <<users, expired, mailed, address, jwt>>

ResetPassword(r, t) ==
    /\ pc[r] = "idle"
    /\ t \in mailed
    /\ token' = [token EXCEPT ![r] = t]
    /\ \/ \E d \in Requests :
             /\ resetToken[d] = t /\ t \notin expired
             /\ user' = [user EXCEPT ![r] = d]
             /\ Goto(r, "reset")
       \/ /\ \A d \in Requests : resetToken[d] # t \/ t \in expired
          /\ Goto(r, "failed")
          /\ UNCHANGED user
    /\ UNCHANGED <<users, expired, mailed, address, jwt>>

\* UpdateOne by _id: whatever reset token the document has by now goes.
ResetUpdate(r) ==
    /\ pc[r] = "reset"
    /\ password' = [password EXCEPT ![user[r]] = r]
    /\ resetToken' = [resetToken EXCEPT ![user[r]] = None]
    /\ Goto(r, "done") \/ Goto(r, "failed")
    /\ UNCHANGED <<email, emailVerified, verifyToken, expired, mailed, address,
                   token, user, jwt>>

-----------------------------------------------------------------------------
(* Whoever is signed in.                                                   *)

\* Auth, for a JWT that request t may have been given: it is the only thing
\* looked at, and nothing takes one back.  Whom may t be served as?
Subject(t) == IF t \in expired THEN None ELSE jwt[t]

\* GET /api/auth/me through Auth, and its FindOne by _id.
Me(r, t) ==
    /\ pc[r] = "idle"
    /\ IF Subject(t) # None /\ email[Subject(t)] # None
       THEN /\ user' = [user EXCEPT ![r] = Subject(t)]
            /\ Goto(r, "served")
       ELSE /\ Goto(r, "failed")
            /\ UNCHANGED user
    /\ UNCHANGED <<users, expired, mailed, address, token, jwt>>

-----------------------------------------------------------------------------
\* FindOne fails, in the other handlers; InsertOne or UpdateOne fails and did
\* nothing.
DatabaseFails(r) ==
    /\ pc[r] \in {"idle", "insert", "verify", "reset"}
    /\ Goto(r, "failed")
    /\ UNCHANGED <<users, expired, mailed, address, token, user, jwt>>

\* 24 hours or one hour after the token was drawn, 30 days after the JWT was.
Expires(t) ==
    /\ t \notin expired
    /\ expired' = expired \cup {t}
    /\ UNCHANGED <<users, mailed, locals>>

Step(r) ==
    \/ \E e \in Emails : Register(r, e) \/ ForgotPassword(r, e)
    \/ \E e \in Emails, p \in Requests : Login(r, e, p)
    \/ \E t \in Requests : VerifyEmail(r, t) \/ ResetPassword(r, t) \/ Me(r, t)
    \/ RegisterInsert(r)
    \/ VerifyUpdate(r)
    \/ ForgotUpdate(r)
    \/ ResetUpdate(r)
    \/ SendMail(r)
    \/ DatabaseFails(r)
    \/ Expires(r)

Next == \E r \in Requests : Step(r)

Spec == Init /\ [][Next]_vars

-----------------------------------------------------------------------------
(* Properties.                                                             *)

\* With the unique index, registrations that race past the lookup still make one
\* account for an address (auth.go:54-82, db/mongo.go:38-48).
OneAccountPerEmail ==
    Indexed =>
        \A d, f \in Requests : email[d] # None /\ email[d] = email[f] => d = f

\* Nobody is signed in to an account, or served as it, whose link was not opened
\* by its address: neither Login's copy of the document nor the order of
\* VerifyEmail's two calls lets one in (auth.go:100-125, 140-162,
\* middleware/auth.go:19-49).
SignedInVerified ==
    \A r \in Requests :
        /\ jwt[r] # None => emailVerified[jwt[r]] /\ jwt[r] \in mailed
        /\ pc[r] = "served" => emailVerified[user[r]] /\ user[r] \in mailed

\* The password of an account was chosen when it was registered, or by somebody
\* who had a reset link that was mailed to that very account, although the
\* update is by _id and the token is looked at in an earlier call
\* (auth.go:211-235).
PasswordByOwner ==
    \A d \in Requests :
        LET p == password[d]
        IN  p \notin {None, d} => token[p] \in mailed /\ user[token[p]] = d

\* A link that was used is spent: once a request has been through with it, no
\* document has the token, and no later request finds it, whatever other
\* requests were half done (auth.go:101-113, 213-231).  Requests that overlap
\* may both use it.
SpentToken ==
    \A r \in Requests :
        pc[r] = "done" /\ token[r] # None =>
            /\ ~verifyToken[token[r]]
            /\ \A d \in Requests : resetToken[d] # token[r]

\* The account that request t's link is for.
LinkOf(t) == IF user[t] = None THEN t ELSE user[t]

confirmedBar == {d \in Requests : emailVerified[d]}
linksBar     == [d \in Requests |-> {t \in mailed : LinkOf(t) = d}]
SessionOf(r) == IF pc[r] = "served" THEN user[r] ELSE jwt[r]
sessionBar   == [r \in Requests |-> SessionOf(r)]
bookBar      == <<email, password, confirmedBar, linksBar, sessionBar>>

Book == INSTANCE AccountBook WITH
    Names     <- Requests,
    Unique    <- Indexed,
    holder    <- email,
    secret    <- password,
    confirmed <- confirmedBar,
    links     <- linksBar,
    session   <- sessionBar

\* The handlers, however their database calls interleave and fail, do what the
\* account book allows and nothing else: an account keeps its address and stays
\* confirmed, only its own links confirm it or change its password, and a
\* session stays with one confirmed account (auth.go:30-257,
\* middleware/auth.go:19-49).
BookSpec == Book!Spec

-----------------------------------------------------------------------------
(* The inductive invariant behind them.                                    *)

\* Tokens of a request, by how far it is.
TokensDrawn ==
    /\ \A t \in mailed : pc[t] = "done"
    /\ \A r \in Requests :
          /\ pc[r] \in {"idle", "insert"} => user[r] = None
          /\ pc[r] \in {"idle", "insert", "set", "mail"} => token[r] = None
          /\ token[r] # None => token[r] \in mailed
          /\ pc[r] \in {"verify", "set", "reset"} => user[r] # None
          /\ verifyToken[r] =>
                user[r] = None /\ pc[r] \in {"mail", "done", "failed"}
          /\ emailVerified[r] => r \in mailed

\* A document has a reset token only of a request that found that document.
ResetTokenOfUser ==
    \A d \in Requests :
        LET t == resetToken[d]
        IN  t # None => user[t] = d /\ pc[t] \in {"mail", "done"}

\* Between its two calls a request holds the document its token belongs to.
TokenOfUser ==
    \A r \in Requests :
        /\ pc[r] = "verify" => token[r] = user[r] /\ user[user[r]] = None
        /\ pc[r] = "reset" => token[r] # None /\ user[token[r]] = user[r]

\* Whatever a request holds is a document that is there; a document's own
\* request is through with the insertion.
DocumentsStay ==
    \A r \in Requests :
        /\ pc[r] = "insert" => address[r] # None
        /\ email[r] # None =>
              user[r] = None /\ pc[r] \in {"mail", "done", "failed"}
        /\ verifyToken[r] => email[r] # None
        /\ user[r] # None => email[user[r]] # None
        /\ pc[r] = "mail" /\ user[r] = None => email[r] # None
        /\ jwt[r] # None => pc[r] = "done" /\ email[jwt[r]] # None

IInv ==
    /\ TypeOK
    /\ TokensDrawn
    /\ DocumentsStay
    /\ ResetTokenOfUser
    /\ TokenOfUser
    /\ OneAccountPerEmail
    /\ SignedInVerified
    /\ PasswordByOwner
    /\ SpentToken
=============================================================================
