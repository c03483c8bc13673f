--------------------------- MODULE AccountsProofs ---------------------------
(***************************************************************************)
(* TLAPS proofs about Accounts, for any number of requests and addresses.  *)
(***************************************************************************)
EXTENDS Accounts, TLAPS

-----------------------------------------------------------------------------
(* Type correctness.                                                       *)

LEMMA TypeInit == Init => TypeOK
BY DEF Init, TypeOK, PCs

LEMMA TypeStep ==
    ASSUME TypeOK, TokensDrawn, NEW r \in Requests, Step(r)
    PROVE  TypeOK'
<1> USE DEF TypeOK, PCs, Goto, users, locals, WithEmail
<1>1. ASSUME NEW e \in Emails, Register(r, e) PROVE TypeOK'
    BY <1>1 DEF Register
<1>2. ASSUME NEW e \in Emails, ForgotPassword(r, e) PROVE TypeOK'
    BY <1>2 DEF ForgotPassword
<1>3. ASSUME NEW e \in Emails, NEW p \in Requests, Login(r, e, p) PROVE TypeOK'
    BY <1>3 DEF Login
<1>4. ASSUME NEW t \in Requests, VerifyEmail(r, t) PROVE TypeOK'
    BY <1>4 DEF VerifyEmail
<1>5. ASSUME NEW t \in Requests, ResetPassword(r, t) PROVE TypeOK'
    BY <1>5 DEF ResetPassword
<1>13. ASSUME NEW t \in Requests, Me(r, t) PROVE TypeOK'
    BY <1>13 DEF Me, Subject
<1>6. CASE RegisterInsert(r)
    <2>1. CASE Indexed /\ WithEmail(address[r]) # {}
        BY <1>6, <2>1 DEF RegisterInsert
    <2>2. CASE ~(Indexed /\ WithEmail(address[r]) # {})
        <3>1. /\ email' = [email EXCEPT ![r] = address[r]]
              /\ password' = [password EXCEPT ![r] = r]
              /\ verifyToken' = [verifyToken EXCEPT ![r] = TRUE]
              /\ \E next \in {"mail", "failed"} : pc' = [pc EXCEPT ![r] = next]
              /\ UNCHANGED <<emailVerified, resetToken, expired, mailed,
                             address, token, user, jwt>>
            BY <1>6, <2>2 DEF RegisterInsert
        <3>2. address[r] \in Emails \cup {None}
            OBVIOUS
        <3> HIDE DEF WithEmail
        <3> QED
            BY <3>1, <3>2
    <2> QED
        BY <2>1, <2>2
<1>7. CASE VerifyUpdate(r)
    <2>1. user[r] \in Requests
        BY <1>7 DEF VerifyUpdate, TokensDrawn
    <2> QED
        BY <1>7, <2>1 DEF VerifyUpdate
<1>8. CASE ForgotUpdate(r)
    BY <1>8 DEF ForgotUpdate
<1>9. CASE ResetUpdate(r)
    BY <1>9 DEF ResetUpdate
<1>10. CASE SendMail(r)
    BY <1>10 DEF SendMail
<1>11. CASE DatabaseFails(r)
    BY <1>11 DEF DatabaseFails
<1>12. CASE Expires(r)
    BY <1>12 DEF Expires
<1> QED
    BY <1>1, <1>2, <1>3, <1>4, <1>5, <1>6, <1>7, <1>8, <1>9, <1>10, <1>11,
       <1>12, <1>13 DEF Step

-----------------------------------------------------------------------------
(* Tokens.                                                                 *)

LEMMA TokensStep ==
    ASSUME TypeOK, TokensDrawn, TokenOfUser, NEW r \in Requests, Step(r)
    PROVE  TokensDrawn'
<1> USE NoneAssumption DEF TypeOK, PCs, TokensDrawn, Goto, users, locals
<1>1. ASSUME NEW e \in Emails, Register(r, e) PROVE TokensDrawn'
    BY <1>1 DEF Register
<1>2. ASSUME NEW e \in Emails, ForgotPassword(r, e) PROVE TokensDrawn'
    BY <1>2 DEF ForgotPassword, WithEmail
<1>3. ASSUME NEW e \in Emails, NEW p \in Requests, Login(r, e, p)
      PROVE  TokensDrawn'
    BY <1>3 DEF Login
<1>4. ASSUME NEW t \in Requests, VerifyEmail(r, t) PROVE TokensDrawn'
    BY <1>4 DEF VerifyEmail
<1>5. ASSUME NEW t \in Requests, ResetPassword(r, t) PROVE TokensDrawn'
    BY <1>5 DEF ResetPassword
<1>13. ASSUME NEW t \in Requests, Me(r, t) PROVE TokensDrawn'
    BY <1>13 DEF Me, Subject
<1>6. CASE RegisterInsert(r)
    BY <1>6 DEF RegisterInsert
<1>7. CASE VerifyUpdate(r)
    BY <1>7 DEF VerifyUpdate, TokenOfUser
<1>8. CASE ForgotUpdate(r)
    BY <1>8 DEF ForgotUpdate
<1>9. CASE ResetUpdate(r)
    BY <1>9 DEF ResetUpdate
<1>10. CASE SendMail(r)
    BY <1>10 DEF SendMail
<1>11. CASE DatabaseFails(r)
    BY <1>11 DEF DatabaseFails
<1>12. CASE Expires(r)
    BY <1>12 DEF Expires
<1> QED
    BY <1>1, <1>2, <1>3, <1>4, <1>5, <1>6, <1>7, <1>8, <1>9, <1>10, <1>11,
       <1>12, <1>13 DEF Step

LEMMA ResetTokenStep ==
    ASSUME TypeOK, TokensDrawn, ResetTokenOfUser,
           NEW r \in Requests, Step(r)
    PROVE  ResetTokenOfUser'
<1> USE NoneAssumption
        DEF TypeOK, PCs, Goto, users, locals, TokensDrawn, ResetTokenOfUser
<1>1. ASSUME NEW e \in Emails, Register(r, e)
      PROVE  ResetTokenOfUser'
    BY <1>1 DEF Register
<1>2. ASSUME NEW e \in Emails, ForgotPassword(r, e)
      PROVE  ResetTokenOfUser'
    BY <1>2 DEF ForgotPassword
<1>3. ASSUME NEW e \in Emails, NEW p \in Requests, Login(r, e, p)
      PROVE  ResetTokenOfUser'
    BY <1>3 DEF Login
<1>4. ASSUME NEW t \in Requests, VerifyEmail(r, t)
      PROVE  ResetTokenOfUser'
    BY <1>4 DEF VerifyEmail
<1>5. ASSUME NEW t \in Requests, ResetPassword(r, t)
      PROVE  ResetTokenOfUser'
    BY <1>5 DEF ResetPassword
<1>13. ASSUME NEW t \in Requests, Me(r, t) PROVE ResetTokenOfUser'
    BY <1>13 DEF Me, Subject
<1>6. CASE RegisterInsert(r)
    BY <1>6 DEF RegisterInsert
<1>7. CASE VerifyUpdate(r)
    BY <1>7 DEF VerifyUpdate
<1>8. CASE ForgotUpdate(r)
    BY <1>8 DEF ForgotUpdate
<1>9. CASE ResetUpdate(r)
    BY <1>9 DEF ResetUpdate
<1>10. CASE SendMail(r)
    BY <1>10 DEF SendMail
<1>11. CASE DatabaseFails(r)
    BY <1>11 DEF DatabaseFails
<1>12. CASE Expires(r)
    BY <1>12 DEF Expires
<1> QED
    BY <1>1, <1>2, <1>3, <1>4, <1>5, <1>6, <1>7, <1>8, <1>9, <1>10, <1>11,
       <1>12, <1>13 DEF Step

LEMMA TokenOfUserStep ==
    ASSUME TypeOK, TokensDrawn, ResetTokenOfUser, TokenOfUser,
           NEW r \in Requests, Step(r)
    PROVE  TokenOfUser'
<1> USE NoneAssumption
        DEF TypeOK, PCs, Goto, users, locals, TokensDrawn, TokenOfUser
<1>1. ASSUME NEW e \in Emails, Register(r, e)
      PROVE  TokenOfUser'
    BY <1>1 DEF Register
<1>2. ASSUME NEW e \in Emails, ForgotPassword(r, e)
      PROVE  TokenOfUser'
    BY <1>2 DEF ForgotPassword
<1>3. ASSUME NEW e \in Emails, NEW p \in Requests, Login(r, e, p)
      PROVE  TokenOfUser'
    BY <1>3 DEF Login
<1>4. ASSUME NEW t \in Requests, VerifyEmail(r, t)
      PROVE  TokenOfUser'
    BY <1>4 DEF VerifyEmail
<1>5. ASSUME NEW t \in Requests, ResetPassword(r, t)
      PROVE  TokenOfUser'
    BY <1>5 DEF ResetPassword, ResetTokenOfUser
<1>13. ASSUME NEW t \in Requests, Me(r, t) PROVE TokenOfUser'
    BY <1>13 DEF Me, Subject
<1>6. CASE RegisterInsert(r)
    BY <1>6 DEF RegisterInsert
<1>7. CASE VerifyUpdate(r)
    BY <1>7 DEF VerifyUpdate
<1>8. CASE ForgotUpdate(r)
    BY <1>8 DEF ForgotUpdate
<1>9. CASE ResetUpdate(r)
    BY <1>9 DEF ResetUpdate
<1>10. CASE SendMail(r)
    BY <1>10 DEF SendMail
<1>11. CASE DatabaseFails(r)
    BY <1>11 DEF DatabaseFails
<1>12. CASE Expires(r)
    BY <1>12 DEF Expires
<1> QED
    BY <1>1, <1>2, <1>3, <1>4, <1>5, <1>6, <1>7, <1>8, <1>9, <1>10, <1>11,
       <1>12, <1>13 DEF Step

LEMMA DocumentsStep ==
    ASSUME TypeOK, TokensDrawn, TokenOfUser, ResetTokenOfUser, DocumentsStay,
           NEW r \in Requests, Step(r)
    PROVE  DocumentsStay'
<1> USE NoneAssumption
        DEF TypeOK, PCs, Goto, users, locals, TokensDrawn, DocumentsStay
<1>1. ASSUME NEW e \in Emails, Register(r, e) PROVE DocumentsStay'
    BY <1>1 DEF Register
<1>2. ASSUME NEW e \in Emails, ForgotPassword(r, e) PROVE DocumentsStay'
    BY <1>2 DEF ForgotPassword, WithEmail
<1>3. ASSUME NEW e \in Emails, NEW p \in Requests, Login(r, e, p)
      PROVE  DocumentsStay'
    BY <1>3 DEF Login, WithEmail
<1>4. ASSUME NEW t \in Requests, VerifyEmail(r, t) PROVE DocumentsStay'
    BY <1>4 DEF VerifyEmail
<1>5. ASSUME NEW t \in Requests, ResetPassword(r, t) PROVE DocumentsStay'
    BY <1>5 DEF ResetPassword, ResetTokenOfUser
<1>13. ASSUME NEW t \in Requests, Me(r, t) PROVE DocumentsStay'
    BY <1>13 DEF Me, Subject
<1>6. CASE RegisterInsert(r)
    BY <1>6 DEF RegisterInsert
<1>7. CASE VerifyUpdate(r)
    BY <1>7 DEF VerifyUpdate
<1>8. CASE ForgotUpdate(r)
    BY <1>8 DEF ForgotUpdate
<1>9. CASE ResetUpdate(r)
    BY <1>9 DEF ResetUpdate
<1>10. CASE SendMail(r)
    BY <1>10 DEF SendMail
<1>11. CASE DatabaseFails(r)
    BY <1>11 DEF DatabaseFails
<1>12. CASE Expires(r)
    BY <1>12 DEF Expires
<1> QED
    BY <1>1, <1>2, <1>3, <1>4, <1>5, <1>6, <1>7, <1>8, <1>9, <1>10, <1>11,
       <1>12, <1>13 DEF Step

-----------------------------------------------------------------------------
(* The properties.                                                         *)

LEMMA OneAccountStep ==
    ASSUME TypeOK, TokensDrawn, OneAccountPerEmail,
           NEW r \in Requests, Step(r)
    PROVE  OneAccountPerEmail'
<1> USE NoneAssumption
        DEF TypeOK, PCs, Goto, users, locals, TokensDrawn, OneAccountPerEmail
<1>1. ASSUME NEW e \in Emails, Register(r, e)
      PROVE  OneAccountPerEmail'
    BY <1>1 DEF Register
<1>2. ASSUME NEW e \in Emails, ForgotPassword(r, e)
      PROVE  OneAccountPerEmail'
    BY <1>2 DEF ForgotPassword
<1>3. ASSUME NEW e \in Emails, NEW p \in Requests, Login(r, e, p)
      PROVE  OneAccountPerEmail'
    BY <1>3 DEF Login
<1>4. ASSUME NEW t \in Requests, VerifyEmail(r, t)
      PROVE  OneAccountPerEmail'
    BY <1>4 DEF VerifyEmail
<1>5. ASSUME NEW t \in Requests, ResetPassword(r, t)
      PROVE  OneAccountPerEmail'
    BY <1>5 DEF ResetPassword
<1>13. ASSUME NEW t \in Requests, Me(r, t) PROVE OneAccountPerEmail'
    BY <1>13 DEF Me, Subject
<1>6. CASE RegisterInsert(r)
    BY <1>6 DEF RegisterInsert, WithEmail
<1>7. CASE VerifyUpdate(r)
    BY <1>7 DEF VerifyUpdate
<1>8. CASE ForgotUpdate(r)
    BY <1>8 DEF ForgotUpdate
<1>9. CASE ResetUpdate(r)
    BY <1>9 DEF ResetUpdate
<1>10. CASE SendMail(r)
    BY <1>10 DEF SendMail
<1>11. CASE DatabaseFails(r)
    BY <1>11 DEF DatabaseFails
<1>12. CASE Expires(r)
    BY <1>12 DEF Expires
<1> QED
    BY <1>1, <1>2, <1>3, <1>4, <1>5, <1>6, <1>7, <1>8, <1>9, <1>10, <1>11,
       <1>12, <1>13 DEF Step

LEMMA SignedInStep ==
    ASSUME TypeOK, TokensDrawn, TokenOfUser, SignedInVerified,
           NEW r \in Requests, Step(r)
    PROVE  SignedInVerified'
<1> USE NoneAssumption
        DEF TypeOK, PCs, Goto, users, locals, TokensDrawn, SignedInVerified
<1>1. ASSUME NEW e \in Emails, Register(r, e)
      PROVE  SignedInVerified'
    BY <1>1 DEF Register
<1>2. ASSUME NEW e \in Emails, ForgotPassword(r, e)
      PROVE  SignedInVerified'
    BY <1>2 DEF ForgotPassword
<1>3. ASSUME NEW e \in Emails, NEW p \in Requests, Login(r, e, p)
      PROVE  SignedInVerified'
    BY <1>3 DEF Login, WithEmail
<1>4. ASSUME NEW t \in Requests, VerifyEmail(r, t)
      PROVE  SignedInVerified'
    BY <1>4 DEF VerifyEmail
<1>5. ASSUME NEW t \in Requests, ResetPassword(r, t)
      PROVE  SignedInVerified'
    BY <1>5 DEF ResetPassword
<1>13. ASSUME NEW t \in Requests, Me(r, t) PROVE SignedInVerified'
    BY <1>13 DEF Me, Subject
<1>6. CASE RegisterInsert(r)
    BY <1>6 DEF RegisterInsert
<1>7. CASE VerifyUpdate(r)
    BY <1>7 DEF VerifyUpdate, TokenOfUser
<1>8. CASE ForgotUpdate(r)
    BY <1>8 DEF ForgotUpdate
<1>9. CASE ResetUpdate(r)
    BY <1>9 DEF ResetUpdate
<1>10. CASE SendMail(r)
    BY <1>10 DEF SendMail
<1>11. CASE DatabaseFails(r)
    BY <1>11 DEF DatabaseFails
<1>12. CASE Expires(r)
    BY <1>12 DEF Expires
<1> QED
    BY <1>1, <1>2, <1>3, <1>4, <1>5, <1>6, <1>7, <1>8, <1>9, <1>10, <1>11,
       <1>12, <1>13 DEF Step

LEMMA PasswordStep ==
    ASSUME TypeOK, TokensDrawn, TokenOfUser, PasswordByOwner,
           NEW r \in Requests, Step(r)
    PROVE  PasswordByOwner'
<1> USE NoneAssumption
        DEF TypeOK, PCs, Goto, users, locals, TokensDrawn, PasswordByOwner
<1>1. ASSUME NEW e \in Emails, Register(r, e)
      PROVE  PasswordByOwner'
    BY <1>1 DEF Register
<1>2. ASSUME NEW e \in Emails, ForgotPassword(r, e)
      PROVE  PasswordByOwner'
    BY <1>2 DEF ForgotPassword
<1>3. ASSUME NEW e \in Emails, NEW p \in Requests, Login(r, e, p)
      PROVE  PasswordByOwner'
    BY <1>3 DEF Login
<1>4. ASSUME NEW t \in Requests, VerifyEmail(r, t)
      PROVE  PasswordByOwner'
    BY <1>4 DEF VerifyEmail
<1>5. ASSUME NEW t \in Requests, ResetPassword(r, t)
      PROVE  PasswordByOwner'
    BY <1>5 DEF ResetPassword
<1>13. ASSUME NEW t \in Requests, Me(r, t) PROVE PasswordByOwner'
    BY <1>13 DEF Me, Subject
<1>6. CASE RegisterInsert(r)
    BY <1>6 DEF RegisterInsert
<1>7. CASE VerifyUpdate(r)
    BY <1>7 DEF VerifyUpdate
<1>8. CASE ForgotUpdate(r)
    BY <1>8 DEF ForgotUpdate
<1>9. CASE ResetUpdate(r)
    BY <1>9 DEF ResetUpdate, TokenOfUser
<1>10. CASE SendMail(r)
    BY <1>10 DEF SendMail
<1>11. CASE DatabaseFails(r)
    BY <1>11 DEF DatabaseFails
<1>12. CASE Expires(r)
    BY <1>12 DEF Expires
<1> QED
    BY <1>1, <1>2, <1>3, <1>4, <1>5, <1>6, <1>7, <1>8, <1>9, <1>10, <1>11,
       <1>12, <1>13 DEF Step

LEMMA SpentStep ==
    ASSUME TypeOK, TokensDrawn, ResetTokenOfUser, TokenOfUser,
           SpentToken,
           NEW r \in Requests, Step(r)
    PROVE  SpentToken'
<1> USE NoneAssumption
        DEF TypeOK, PCs, Goto, users, locals, TokensDrawn, SpentToken
<1>1. ASSUME NEW e \in Emails, Register(r, e)
      PROVE  SpentToken'
    BY <1>1 DEF Register
<1>2. ASSUME NEW e \in Emails, ForgotPassword(r, e)
      PROVE  SpentToken'
    BY <1>2 DEF ForgotPassword
<1>3. ASSUME NEW e \in Emails, NEW p \in Requests, Login(r, e, p)
      PROVE  SpentToken'
    BY <1>3 DEF Login
<1>4. ASSUME NEW t \in Requests, VerifyEmail(r, t)
      PROVE  SpentToken'
    BY <1>4 DEF VerifyEmail
<1>5. ASSUME NEW t \in Requests, ResetPassword(r, t)
      PROVE  SpentToken'
    BY <1>5 DEF ResetPassword
<1>13. ASSUME NEW t \in Requests, Me(r, t) PROVE SpentToken'
    BY <1>13 DEF Me, Subject
<1>6. CASE RegisterInsert(r)
    BY <1>6 DEF RegisterInsert
<1>7. CASE VerifyUpdate(r)
    BY <1>7 DEF VerifyUpdate, TokenOfUser, ResetTokenOfUser
<1>8. CASE ForgotUpdate(r)
    BY <1>8 DEF ForgotUpdate
<1>9. CASE ResetUpdate(r)
    BY <1>9 DEF ResetUpdate, TokenOfUser, ResetTokenOfUser
<1>10. CASE SendMail(r)
    BY <1>10 DEF SendMail
<1>11. CASE DatabaseFails(r)
    BY <1>11 DEF DatabaseFails
<1>12. CASE Expires(r)
    BY <1>12 DEF Expires
<1> QED
    BY <1>1, <1>2, <1>3, <1>4, <1>5, <1>6, <1>7, <1>8, <1>9, <1>10, <1>11,
       <1>12, <1>13 DEF Step

-----------------------------------------------------------------------------
(* The theorems.                                                           *)

LEMMA InvInit == Init => IInv
<1> SUFFICES ASSUME Init PROVE IInv
    OBVIOUS
<1>1. TypeOK
    BY TypeInit
<1> QED
    BY <1>1, NoneAssumption
    DEF Init, IInv, TokensDrawn, DocumentsStay, ResetTokenOfUser, TokenOfUser,
        OneAccountPerEmail, SignedInVerified, PasswordByOwner, SpentToken

LEMMA InvStep == IInv /\ [Next]_vars => IInv'
<1> SUFFICES ASSUME IInv, [Next]_vars PROVE IInv'
    OBVIOUS
<1>1. ASSUME NEW r \in Requests, Step(r) PROVE IInv'
    BY <1>1, TypeStep, TokensStep, DocumentsStep, ResetTokenStep, TokenOfUserStep,
       OneAccountStep, SignedInStep, PasswordStep, SpentStep DEF IInv
<1>2. CASE UNCHANGED vars
    BY <1>2 DEF IInv, vars, users, locals, TypeOK, TokensDrawn,
                DocumentsStay, ResetTokenOfUser, TokenOfUser, OneAccountPerEmail,
                SignedInVerified, PasswordByOwner, SpentToken
<1> QED
    BY <1>1, <1>2 DEF Next, Step

\* The inductive invariant of the accounts holds in every reachable state.
THEOREM Inductive == Spec => []IInv
BY InvInit, InvStep, PTL DEF Spec

\* However many registrations for one address pass the lookup of Register
\* together, the unique index lets one of them insert (auth.go:54-82).
THEOREM OneAccount == Spec => []OneAccountPerEmail
<1>1. IInv => OneAccountPerEmail
    BY DEF IInv
<1> QED
    BY <1>1, Inductive, PTL

\* Login and VerifyEmail issue a JWT only for an account whose link was opened
\* (auth.go:100-125, 140-162), and Me serves no other (middleware/auth.go:19-49).
THEOREM SignedInAreVerified == Spec => []SignedInVerified
<1>1. IInv => SignedInVerified
    BY DEF IInv
<1> QED
    BY <1>1, Inductive, PTL

\* However many requests are between the two calls of ResetPassword, a password
\* is changed only through a link that was mailed to its account
\* (auth.go:211-235).
THEOREM PasswordsByOwner == Spec => []PasswordByOwner
<1>1. IInv => PasswordByOwner
    BY DEF IInv
<1> QED
    BY <1>1, Inductive, PTL

\* A token that a request was through with is in no document any more
\* (auth.go:110-113, 228-231).
THEOREM SpentStaysSpent == Spec => []SpentToken
<1>1. IInv => SpentToken
    BY DEF IInv
<1> QED
    BY <1>1, Inductive, PTL

-----------------------------------------------------------------------------
(* Accounts implements AccountBook.                                        *)

\* What the book's state consists of, when a step leaves it alone.
LEMMA ConfirmedSame ==
    ASSUME UNCHANGED emailVerified
    PROVE  confirmedBar' = confirmedBar
BY DEF confirmedBar

LEMMA LinksSame ==
    ASSUME TypeOK, mailed' = mailed,
           \A t \in mailed : user'[t] = user[t]
    PROVE  linksBar' = linksBar
<1>1. \A t \in mailed : LinkOf(t)' = LinkOf(t)
    BY DEF LinkOf
<1>2. \A d \in Requests :
          {t \in mailed : LinkOf(t)' = d} = {t \in mailed : LinkOf(t) = d}
    BY <1>1
<1> QED
    BY <1>2 DEF linksBar

LEMMA SessionSame ==
    ASSUME \A q \in Requests : SessionOf(q)' = SessionOf(q)
    PROVE  sessionBar' = sessionBar
BY DEF sessionBar

\* Request r alone begins a session.
LEMMA SessionStep ==
    ASSUME NEW r \in Requests, NEW d,
           SessionOf(r)' = d,
           \A q \in Requests \ {r} : SessionOf(q)' = SessionOf(q)
    PROVE  sessionBar' = [sessionBar EXCEPT ![r] = d]
BY DEF sessionBar

\* Actions in which a request draws nothing: the book is as it was.
LEMMA BookStutters ==
    ASSUME TypeOK, UNCHANGED <<email, password, emailVerified, mailed>>,
           \A t \in mailed : user'[t] = user[t],
           \A q \in Requests : SessionOf(q)' = SessionOf(q)
    PROVE  UNCHANGED bookBar
<1>1. confirmedBar' = confirmedBar /\ linksBar' = linksBar
    BY ConfirmedSame, LinksSame
<1>2. sessionBar' = sessionBar
    BY SessionSame
<1> QED
    BY <1>1, <1>2 DEF bookBar

\* RegisterInsert opens an account, or the index refuses it.
LEMMA InsertOpens ==
    ASSUME IInv, NEW r \in Requests, RegisterInsert(r)
    PROVE  [Book!Next]_bookBar
<1> USE NoneAssumption DEF IInv, TypeOK
<1>1. /\ pc[r] = "insert" /\ address[r] \in Emails /\ email[r] = None
      /\ UNCHANGED <<emailVerified, mailed, user, jwt>>
    BY DEF RegisterInsert, DocumentsStay, users
<1>2. PICK label \in {"mail", "failed"} : pc' = [pc EXCEPT ![r] = label]
    BY DEF RegisterInsert, Goto
<1>3. \A q \in Requests : SessionOf(q)' = SessionOf(q)
    BY <1>1, <1>2 DEF SessionOf
<1>4. confirmedBar' = confirmedBar /\ linksBar' = linksBar
    BY <1>1, ConfirmedSame, LinksSame
<1>5. sessionBar' = sessionBar
    BY <1>3, SessionSame
<1>6. CASE Indexed /\ WithEmail(address[r]) # {}
    <2>1. UNCHANGED <<email, password>>
        BY <1>6 DEF RegisterInsert, users
    <2> QED
        BY <2>1, <1>4, <1>5 DEF bookBar
<1>7. CASE ~(Indexed /\ WithEmail(address[r]) # {})
    <2>1. /\ email' = [email EXCEPT ![r] = address[r]]
          /\ password' = [password EXCEPT ![r] = r]
        BY <1>7 DEF RegisterInsert
    <2>2. Indexed => \A b \in Requests : email[b] # address[r]
        BY <1>7 DEF WithEmail
    <2>3. Book!Open(r, address[r])
        BY <1>1, <1>4, <1>5, <2>1, <2>2 DEF Book!Open
    <2> QED
        BY <1>1, <2>3 DEF Book!Next
<1> QED
    BY <1>6, <1>7

\* SendMail brings a link to its own account, or loses it.
LEMMA SendMails ==
    ASSUME IInv, NEW r \in Requests, SendMail(r)
    PROVE  [Book!Next]_bookBar
<1> USE NoneAssumption DEF IInv, TypeOK
<1> DEFINE a == LinkOf(r)
<1>1. /\ pc[r] = "mail" /\ pc' = [pc EXCEPT ![r] = "done"]
      /\ mailed' \in {mailed, mailed \cup {r}}
      /\ UNCHANGED <<email, password, emailVerified, user, jwt>>
    BY DEF SendMail, Goto, users
<1>2. a \in Requests /\ email[a] # None /\ r \notin mailed
    BY <1>1 DEF LinkOf, DocumentsStay, TokensDrawn
<1>3. \A q \in Requests : SessionOf(q)' = SessionOf(q)
    BY <1>1 DEF SessionOf
<1>4. confirmedBar' = confirmedBar /\ sessionBar' = sessionBar
    BY <1>1, <1>3, ConfirmedSame, SessionSame
<1>5. CASE mailed' = mailed
    <2>1. linksBar' = linksBar
        BY <1>1, <1>5, LinksSame
    <2> QED
        BY <1>1, <1>4, <2>1 DEF bookBar
<1>6. CASE mailed' = mailed \cup {r}
    <2>1. \A t : LinkOf(t)' = LinkOf(t)
        BY <1>1 DEF LinkOf
    <2>2. \A d \in Requests : linksBar[d] = {t \in mailed : LinkOf(t) = d}
        BY DEF linksBar
    <2>3. linksBar' = [d \in Requests |->
                          {t \in mailed \cup {r} : LinkOf(t) = d}]
        BY <1>6, <2>1 DEF linksBar
    <2>4. linksBar' = [linksBar EXCEPT ![a] = @ \cup {r}]
        <3> HIDE DEF a, IInv, TypeOK
        <3>1. \A d \in Requests :
                  {t \in mailed \cup {r} : LinkOf(t) = d}
                    = IF d = a THEN linksBar[d] \cup {r} ELSE linksBar[d]
            BY <2>2 DEF a
        <3>2. linksBar = [d \in Requests |-> linksBar[d]]
            BY DEF linksBar
        <3> QED
            BY <1>2, <2>3, <3>1, <3>2
    <2>5. \A b \in Requests : r \notin linksBar[b]
        BY <1>2, <2>2
    <2>6. Book!Mail(a, r)
        BY <1>1, <1>2, <1>4, <2>4, <2>5 DEF Book!Mail
    <2> QED
        BY <1>2, <2>6 DEF Book!Next
<1> QED
    BY <1>1, <1>5, <1>6

\* VerifyUpdate confirms the account whose link was opened, by its own link.
LEMMA UpdateConfirms ==
    ASSUME IInv, NEW r \in Requests, VerifyUpdate(r)
    PROVE  [Book!Next]_bookBar
<1> USE NoneAssumption DEF IInv, TypeOK
<1> DEFINE d == user[r]
<1>1. /\ pc[r] = "verify" /\ jwt[r] = None
      /\ emailVerified' = [emailVerified EXCEPT ![d] = TRUE]
      /\ UNCHANGED <<email, password, mailed, user>>
    BY DEF VerifyUpdate, DocumentsStay
<1>2. /\ d \in Requests /\ user[d] = None /\ d \in mailed
    BY <1>1 DEF TokenOfUser, TokensDrawn
<1>3. linksBar' = linksBar
    BY <1>1, LinksSame
<1>4. d \in linksBar[d]
    BY <1>2 DEF linksBar, LinkOf
<1>5. confirmedBar' = confirmedBar \cup {d}
    BY <1>1, <1>2 DEF confirmedBar
<1>6. sessionBar[r] = None
    BY <1>1 DEF sessionBar, SessionOf
<1>7. sessionBar' \in {sessionBar, [sessionBar EXCEPT ![r] = d]}
    <2>1. CASE jwt' = [jwt EXCEPT ![r] = d] /\ Goto(r, "done")
        <3>1. SessionOf(r)' = d
            BY <2>1 DEF SessionOf, Goto
        <3>2. \A q \in Requests \ {r} : SessionOf(q)' = SessionOf(q)
            BY <1>1, <2>1 DEF SessionOf, Goto
        <3> QED
            BY <3>1, <3>2, SessionStep
    <2>2. CASE UNCHANGED jwt /\ Goto(r, "failed")
        <3>1. \A q \in Requests : SessionOf(q)' = SessionOf(q)
            BY <1>1, <2>2 DEF SessionOf, Goto
        <3> QED
            BY <3>1, SessionSame
    <2> QED
        BY <2>1, <2>2 DEF VerifyUpdate
<1>8. Book!Confirm(d, r)
    BY <1>1, <1>3, <1>4, <1>5, <1>6, <1>7 DEF Book!Confirm
<1> QED
    BY <1>2, <1>8 DEF Book!Next

\* A session that begins without a mail is a confirmed account's.
LEMMA SessionBegins ==
    ASSUME TypeOK, NEW r \in Requests, NEW d \in Requests,
           emailVerified[d], SessionOf(r) = None, SessionOf(r)' = d,
           \A q \in Requests \ {r} : SessionOf(q)' = SessionOf(q),
           \A t \in mailed : user'[t] = user[t],
           UNCHANGED <<email, password, emailVerified, mailed>>
    PROVE  [Book!Next]_bookBar
<1>1. confirmedBar' = confirmedBar /\ linksBar' = linksBar
    BY ConfirmedSame, LinksSame
<1>2. sessionBar' = [sessionBar EXCEPT ![r] = d]
    BY SessionStep
<1>3. sessionBar[r] = None /\ d \in confirmedBar
    BY DEF sessionBar, confirmedBar
<1>4. Book!SignIn(d, r)
    BY <1>1, <1>2, <1>3 DEF Book!SignIn
<1> QED
    BY <1>4 DEF Book!Next

LEMMA LoginSignsIn ==
    ASSUME IInv, NEW r \in Requests, NEW e \in Emails, NEW p \in Requests,
           Login(r, e, p)
    PROVE  [Book!Next]_bookBar
<1> USE NoneAssumption DEF IInv, TypeOK
<1>1. /\ pc[r] = "idle" /\ SessionOf(r) = None
      /\ UNCHANGED <<email, password, emailVerified, mailed, user>>
    BY DEF Login, users, SessionOf, DocumentsStay
<1>2. CASE Goto(r, "failed") /\ UNCHANGED jwt
    <2>1. \A q \in Requests : SessionOf(q)' = SessionOf(q)
        BY <1>1, <1>2 DEF SessionOf, Goto
    <2> QED
        BY <1>1, <2>1, BookStutters
<1>3. ASSUME NEW d \in WithEmail(e), emailVerified[d],
             jwt' = [jwt EXCEPT ![r] = d], Goto(r, "done")
      PROVE  [Book!Next]_bookBar
    <2>1. d \in Requests
        BY <1>3 DEF WithEmail
    <2>2. SessionOf(r)' = d
        BY <1>3 DEF SessionOf, Goto
    <2>3. \A q \in Requests \ {r} : SessionOf(q)' = SessionOf(q)
        BY <1>1, <1>3 DEF SessionOf, Goto
    <2> QED
        BY <1>1, <1>3, <2>1, <2>2, <2>3, SessionBegins
<1> QED
    BY <1>2, <1>3 DEF Login

LEMMA MeServes ==
    ASSUME IInv, NEW r \in Requests, NEW t \in Requests, Me(r, t)
    PROVE  [Book!Next]_bookBar
<1> USE NoneAssumption DEF IInv, TypeOK
<1>1. /\ pc[r] = "idle" /\ SessionOf(r) = None
      /\ UNCHANGED <<email, password, emailVerified, mailed, jwt>>
    BY DEF Me, users, SessionOf, DocumentsStay
<1>2. CASE Goto(r, "failed") /\ UNCHANGED user
    <2>1. \A q \in Requests : SessionOf(q)' = SessionOf(q)
        BY <1>1, <1>2 DEF SessionOf, Goto
    <2> QED
        BY <1>1, <1>2, <2>1, BookStutters
<1>3. CASE /\ Subject(t) # None
           /\ user' = [user EXCEPT ![r] = Subject(t)]
           /\ Goto(r, "served")
    <2>1. Subject(t) \in Requests /\ emailVerified[Subject(t)]
        BY <1>3 DEF Subject, SignedInVerified
    <2>2. SessionOf(r)' = Subject(t)
        BY <1>3 DEF SessionOf, Goto, PCs
    <2>3. \A q \in Requests \ {r} : SessionOf(q)' = SessionOf(q)
        BY <1>1, <1>3 DEF SessionOf, Goto
    <2>4. \A m \in mailed : user'[m] = user[m]
        BY <1>1, <1>3 DEF TokensDrawn
    <2> QED
        BY <1>1, <2>1, <2>2, <2>3, <2>4, SessionBegins
<1> QED
    BY <1>2, <1>3 DEF Me

\* ResetUpdate changes the password of the account whose link was opened.
LEMMA ResetChooses ==
    ASSUME IInv, NEW r \in Requests, ResetUpdate(r)
    PROVE  [Book!Next]_bookBar
<1> USE NoneAssumption DEF IInv, TypeOK
<1> DEFINE d == user[r]
           t == token[r]
<1>1. /\ pc[r] = "reset"
      /\ password' = [password EXCEPT ![d] = r]
      /\ UNCHANGED <<email, emailVerified, mailed, user, jwt>>
      /\ Goto(r, "done") \/ Goto(r, "failed")
    BY DEF ResetUpdate
<1>2. /\ d \in Requests /\ t \in mailed /\ user[t] = d /\ user[d] = None
    BY <1>1 DEF TokenOfUser, TokensDrawn, DocumentsStay
<1>3. t \in linksBar[d] \ {d}
    BY <1>2 DEF linksBar, LinkOf
<1>4. \A q \in Requests : SessionOf(q)' = SessionOf(q)
    BY <1>1 DEF SessionOf, Goto
<1>5. UNCHANGED <<confirmedBar, linksBar, sessionBar>>
    BY <1>1, <1>4, ConfirmedSame, LinksSame, SessionSame
<1>6. Book!ChoosePassword(d, r)
    BY <1>1, <1>3, <1>5 DEF Book!ChoosePassword
<1> QED
    BY <1>2, <1>6 DEF Book!Next

LEMMA BookStep ==
    ASSUME IInv, NEW r \in Requests, Step(r)
    PROVE  [Book!Next]_bookBar
<1> DEFINE Quiet == /\ UNCHANGED <<email, password, emailVerified, mailed>>
                    /\ \A t \in mailed : user'[t] = user[t]
                    /\ \A q \in Requests : SessionOf(q)' = SessionOf(q)
<1>1. ASSUME Quiet PROVE [Book!Next]_bookBar
    BY <1>1, BookStutters DEF IInv
<1> USE NoneAssumption DEF IInv, TypeOK, TokensDrawn, users, locals, Goto,
                           SessionOf, PCs
<1>2. ASSUME NEW e \in Emails, Register(r, e) PROVE Quiet
    BY <1>2 DEF Register
<1>3. ASSUME NEW e \in Emails, ForgotPassword(r, e) PROVE Quiet
    BY <1>3 DEF ForgotPassword
<1>4. ASSUME NEW t \in Requests, VerifyEmail(r, t) PROVE Quiet
    BY <1>4 DEF VerifyEmail
<1>5. ASSUME NEW t \in Requests, ResetPassword(r, t) PROVE Quiet
    BY <1>5 DEF ResetPassword
<1>6. CASE ForgotUpdate(r)
    <2>1. Quiet
        BY <1>6 DEF ForgotUpdate
    <2> QED
        BY <1>1, <2>1
<1>7. CASE DatabaseFails(r)
    <2>1. Quiet
        BY <1>7 DEF DatabaseFails
    <2> QED
        BY <1>1, <2>1
<1>8. CASE Expires(r)
    <2>1. Quiet
        BY <1>8 DEF Expires
    <2> QED
        BY <1>1, <2>1
<1> QED
    BY <1>1, <1>2, <1>3, <1>4, <1>5, <1>6, <1>7, <1>8, InsertOpens, SendMails,
       UpdateConfirms, LoginSignsIn, MeServes, ResetChooses DEF Step

\* The handlers of auth.go implement the account book, whatever their number
\* and however their database calls interleave, fail, or lose their replies:
\* an account keeps its address and stays confirmed, only links mailed to it
\* confirm it or change its password, and a session stays with one confirmed
\* account (auth.go:30-257, middleware/auth.go:19-49).
THEOREM AccountsAreBook == Spec => BookSpec
<1>1. Init => Book!Init
    BY DEF Init, Book!Init, confirmedBar, linksBar, sessionBar, SessionOf
<1>2. IInv /\ [Next]_vars => [Book!Next]_bookBar
    <2> SUFFICES ASSUME IInv, [Next]_vars PROVE [Book!Next]_bookBar
        OBVIOUS
    <2>1. CASE UNCHANGED vars
        <3>1. \A q \in Requests : SessionOf(q)' = SessionOf(q)
            BY <2>1 DEF vars, locals, SessionOf
        <3> QED
            BY <2>1, <3>1, BookStutters DEF vars, users, locals, IInv
    <2> QED
        BY <2>1, BookStep DEF Next
<1> QED
    BY <1>1, <1>2, Inductive, PTL
    DEF Spec, BookSpec, Book!Spec, Book!vars, bookBar

=============================================================================
