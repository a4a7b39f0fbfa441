-------------------------- MODULE CredentialsProofs -------------------------
(***************************************************************************)
(* The properties of Credentials for any number of concurrent requests,    *)
(* any limits and lifetimes, and any schedule.                             *)
(***************************************************************************)
EXTENDS Credentials, FiniteSetTheorems, TLAPS

(***************************************************************************)
(* What the properties need to be inductive.  A secret that codes were     *)
(* accepted for is never enrolled again, and of the secret in force only   *)
(* codes up to lastStep were accepted.  A reset token that set a password  *)
(* is not the one on the account.                                          *)
(***************************************************************************)
SecretsKnown ==
  /\ user.secret <= drawn.secrets
  /\ user.pendingSecret <= drawn.secrets
  /\ user.mfaEnabled => user.pendingSecret = 0

CodesSpent ==
  \A code \in Code : uses[code] # 0 =>
    /\ uses[code] = 1
    /\ code.secret <= drawn.secrets
    /\ code.secret # user.pendingSecret
    /\ code.secret = user.secret => code.step <= user.lastStep

TokensSpent ==
  /\ user.resetToken \in {0, drawn.resets}
  /\ \A token \in 1..MaxResets :
       redeemed[token] # 0 => token <= drawn.resets /\ token # user.resetToken

Inv ==
  /\ TypeOK /\ InactiveSignedOut /\ SessionsFollowPassword /\ SessionsBounded
  /\ SecretsKnown /\ CodesSpent /\ TokensSpent

-----------------------------------------------------------------------------
(***************************************************************************)
(* Types.                                                                  *)
(***************************************************************************)
LEMMA Lifetimes ==
  /\ MaxFailedLogins \in Nat /\ LockoutDuration \in Nat /\ ResetTokenTTL \in Nat
  /\ SessionTTL \in Nat /\ MaxSessionsPerUser \in Nat /\ FirstClock \in Nat
  /\ MaxFailedLogins > 0 /\ MaxSessionsPerUser > 0
  BY CredentialsAssumption

\* A request goes on with something else.
LEMMA RequestChanges ==
  ASSUME NEW table \in [Requests -> Request], NEW r \in Requests, NEW request \in Request
  PROVE  [table EXCEPT ![r] = request] \in [Requests -> Request]
  OBVIOUS

LEMMA TypeInit == Init => TypeOK
<1> SUFFICES ASSUME Init
             PROVE  TypeOK
  OBVIOUS
<1>1. 0 \in 0..(MaxFailedLogins - 1)
  BY Lifetimes
<1>2. user \in User
  <2> DEFINE hash == user.hash
  <2>1. hash \in Hash
    BY DEF Init, Hash
  <2>2. user = [active |-> TRUE, hash |-> hash, failedLogins |-> 0, lockedUntil |-> 0,
                mfaEnabled |-> FALSE, secret |-> 0, pendingSecret |-> 0, lastStep |-> 0,
                resetToken |-> 0, resetExpires |-> 0]
    BY DEF Init
  <2> HIDE DEF hash
  <2> QED
    BY <1>1, <2>1, <2>2 DEF User
<1>3. sessions \subseteq Session /\ IsFiniteSet(sessions)
  BY FS_EmptySet DEF Init
<1>4. requests \in [Requests -> Request]
  BY DEF Init, Request
<1> QED
  BY <1>2, <1>3, <1>4, Lifetimes DEF Init, TypeOK

\* Steps that only move requests on, or the clock.
Aside == UNCHANGED <<user, sessions, drawn, uses, redeemed>>

LEMMA AsideKeeps ==
  ASSUME Inv, Aside, requests' \in [Requests -> Request], clock' \in Nat
  PROVE  Inv'
<1>1. TypeOK'
  BY DEF Inv, Aside, TypeOK
<1>2. (InactiveSignedOut /\ SessionsFollowPassword /\ SessionsBounded)'
  BY DEF Inv, Aside, InactiveSignedOut, SessionsFollowPassword, SessionsBounded
<1>3. (SecretsKnown /\ CodesSpent /\ TokensSpent)'
  BY DEF Inv, Aside, SecretsKnown, CodesSpent, TokensSpent
<1> QED
  BY <1>1, <1>2, <1>3 DEF Inv

LEMMA AsideSteps ==
  ASSUME Inv, NEW r \in Requests,
         \/ \E matched \in BOOLEAN, code \in Presentable : BeginLogin(r, matched, code)
         \/ CheckCode(r)
         \/ \E s \in sessions, matched \in BOOLEAN : BeginChange(r, s, matched)
         \/ \E token \in 1..drawn.resets : BeginReset(r, token)
         \/ GiveUp(r)
  PROVE  Inv'
<1>1. /\ user.hash \in Hash /\ user.secret \in Nat /\ user.lastStep \in Nat
      /\ requests \in [Requests -> Request] /\ clock \in Nat /\ sessions \subseteq Session
  BY DEF Inv, TypeOK, User
<1>2. NoRequest \in Request /\ [next |-> "noteFailure"] \in Request
  BY DEF Request
<1>3. ASSUME NEW matched \in BOOLEAN, NEW code \in Presentable, BeginLogin(r, matched, code)
      PROVE  Inv'
  <2>1. code \in Code \cup {NoCode}
    BY DEF Presentable
  <2>2. [next |-> "checkCode", hash |-> user.hash, secret |-> user.secret,
         lastStep |-> user.lastStep, code |-> code] \in Request
    BY <1>1, <2>1 DEF Request
  <2>3. [next |-> "login", hash |-> user.hash, code |-> code] \in Request
    BY <1>1, <2>1 DEF Request
  <2> QED
    BY <1>1, <1>2, <1>3, <2>2, <2>3, RequestChanges, AsideKeeps DEF BeginLogin, Becomes, Aside
<1>4. CASE CheckCode(r)
  <2> DEFINE request == requests[r]
  <2>1. request \in [next : {"checkCode"}, hash : Hash, secret : Nat, lastStep : Nat,
                     code : Code \cup {NoCode}]
    BY <1>1, <1>4 DEF CheckCode, Request, NoRequest
  <2>2. [next |-> "login", hash |-> request.hash, code |-> request.code] \in Request
    BY <2>1 DEF Request
  <2> QED
    BY <1>1, <1>2, <1>4, <2>2, RequestChanges, AsideKeeps DEF CheckCode, Becomes, Aside
<1>5. ASSUME NEW s \in sessions, NEW matched \in BOOLEAN, BeginChange(r, s, matched)
      PROVE  Inv'
  <2>1. s.token \in Nat
    BY <1>1 DEF Session
  <2>2. [next |-> "change", hash |-> user.hash, session |-> s.token] \in Request
    BY <1>1, <2>1 DEF Request
  <2> QED
    BY <1>1, <1>2, <1>5, <2>2, RequestChanges, AsideKeeps DEF BeginChange, Becomes, Aside
<1>6. ASSUME NEW token \in 1..drawn.resets, BeginReset(r, token)
      PROVE  Inv'
  <2>1. [next |-> "reset", token |-> token] \in Request
    BY DEF Request, Inv, TypeOK
  <2> QED
    BY <1>1, <1>6, <2>1, RequestChanges, AsideKeeps DEF BeginReset, Becomes, Aside
<1>7. CASE GiveUp(r)
  BY <1>1, <1>2, <1>7, RequestChanges, AsideKeeps DEF GiveUp, Becomes, Aside
<1> QED
  BY <1>3, <1>4, <1>5, <1>6, <1>7

-----------------------------------------------------------------------------
(***************************************************************************)
(* Login.                                                                  *)
(***************************************************************************)
\* What pruneSessions leaves makes room for one more session.
LEMMA RoomForOne ==
  ASSUME Inv, NEW kept \in Evictions, NEW new \in Session
  PROVE  /\ kept \cup {new} \subseteq Session
         /\ IsFiniteSet(kept \cup {new})
         /\ Cardinality(kept \cup {new}) <= MaxSessionsPerUser
         /\ kept \subseteq sessions
<1>1. kept \subseteq sessions /\ Cardinality(kept) < MaxSessionsPerUser
  BY DEF Evictions, Live
<1>2. sessions \subseteq Session /\ IsFiniteSet(sessions)
  BY DEF Inv, TypeOK
<1>3. IsFiniteSet(kept)
  BY <1>1, <1>2, FS_Subset
<1>4. Cardinality(kept) \in Nat
  BY <1>3, FS_CardinalityType
<1>5. /\ IsFiniteSet(kept \cup {new})
      /\ Cardinality(kept \cup {new}) \in {Cardinality(kept), Cardinality(kept) + 1}
  BY <1>3, FS_AddElement
<1>6. Cardinality(kept \cup {new}) \in Nat
  BY <1>5, FS_CardinalityType
<1> QED
  BY <1>1, <1>2, <1>4, <1>5, <1>6, Lifetimes

\* The code a login is committed with is one of the account's secret.
LEMMA LoginRequest ==
  ASSUME TypeOK, NEW r \in Requests, requests[r].next = "login"
  PROVE  /\ requests[r].hash \in Hash
         /\ requests[r].code \in Code \cup {NoCode}
<1>1. requests[r] \in Request
  BY DEF TypeOK
<1>2. requests[r] \in [next : {"login"}, hash : Hash, code : Code \cup {NoCode}]
  BY <1>1 DEF Request, NoRequest
<1> QED
  BY <1>2

LEMMA LoginKeeps ==
  ASSUME Inv, NEW r \in Requests, Login(r)
  PROVE  Inv'
<1> DEFINE code == requests[r].code
           step == IF user.mfaEnabled THEN code.step ELSE user.lastStep
           epoch == requests[r].hash.epoch
           new == [token |-> drawn.sessions + 1, created |-> clock,
                   expires |-> clock + SessionTTL, epoch |-> epoch]
<1>1. /\ StillGood(requests[r].hash) /\ AcceptCode(code)
      /\ user' = [user EXCEPT !.hash.legacy = FALSE, !.failedLogins = 0, !.lockedUntil = 0,
                              !.lastStep = step]
      /\ drawn' = [drawn EXCEPT !.sessions = @ + 1]
      /\ requests' = [requests EXCEPT ![r] = NoRequest]
      /\ clock' = clock /\ redeemed' = redeemed
  BY DEF Login, CreateSession, Becomes
<1>2. PICK kept \in Evictions : sessions' = kept \cup {new}
  BY DEF Login, CreateSession
<1>3. /\ user \in User /\ user.hash \in Hash /\ user.lastStep \in Nat
      /\ drawn \in [secrets : Nat, resets : Nat, sessions : Nat] /\ clock \in Nat
      /\ uses \in [Code -> Nat]
  BY DEF Inv, TypeOK, User
<1>4. code \in Code \cup {NoCode} /\ epoch \in Nat /\ epoch = user.hash.epoch
  BY <1>1, LoginRequest DEF Login, Inv, Hash, StillGood
<1>5. user.mfaEnabled => code \in Code /\ VerifyTOTP(user.secret, code, user.lastStep)
  BY <1>1, <1>4 DEF AcceptCode, VerifyTOTP
<1>6. step \in Nat /\ step >= user.lastStep
  BY <1>3, <1>5 DEF Code, VerifyTOTP
<1>7. new \in Session
  BY <1>3, <1>4, Lifetimes DEF Session
<1> HIDE DEF new, step, code, epoch
<1>8. /\ user'.hash.epoch = user.hash.epoch /\ user'.active = user.active
      /\ user'.secret = user.secret /\ user'.pendingSecret = user.pendingSecret
      /\ user'.mfaEnabled = user.mfaEnabled /\ user'.lastStep = step
      /\ user'.resetToken = user.resetToken
      /\ drawn'.secrets = drawn.secrets /\ drawn'.resets = drawn.resets
  BY <1>1, <1>3 DEF User, Hash
<1>9. TypeOK'
  <2>1. user' \in User
    <3> DEFINE hash == [user.hash EXCEPT !.legacy = FALSE]
    <3>1. hash \in Hash
      BY <1>3 DEF Hash
    <3>2. user' = [user EXCEPT !.hash = hash, !.failedLogins = 0, !.lockedUntil = 0,
                               !.lastStep = step]
      BY <1>1, <1>3 DEF User
    <3>3. 0 \in 0..(MaxFailedLogins - 1)
      BY Lifetimes
    <3> HIDE DEF hash
    <3> QED
      BY <1>3, <1>6, <3>1, <3>2, <3>3 DEF User
  <2>2. sessions' \subseteq Session /\ IsFiniteSet(sessions')
    <3>1. kept \cup {new} \subseteq Session /\ IsFiniteSet(kept \cup {new})
      BY <1>7, RoomForOne
    <3> QED
      BY <1>2, <3>1
  <2>3. uses' \in [Code -> Nat]
    BY <1>1, <1>3, <1>5 DEF AcceptCode
  <2>4. requests' \in [Requests -> Request]
    BY <1>1, RequestChanges DEF Inv, TypeOK, Request
  <2>5. drawn' \in [secrets : Nat, resets : Nat, sessions : Nat]
    BY <1>1, <1>3
  <2> QED
    BY <1>1, <2>1, <2>2, <2>3, <2>4, <2>5 DEF Inv, TypeOK
<1>10. InactiveSignedOut' /\ SessionsBounded'
  BY <1>1, <1>2, <1>7, <1>8, RoomForOne DEF InactiveSignedOut, SessionsBounded, StillGood
<1>11. SessionsFollowPassword'
  <2>1. new.epoch = user.hash.epoch
    BY <1>4 DEF new
  <2> QED
    BY <1>2, <1>7, <1>8, <2>1, RoomForOne DEF Inv, SessionsFollowPassword
<1>12. SecretsKnown' /\ TokensSpent'
  BY <1>1, <1>8 DEF Inv, SecretsKnown, TokensSpent
<1>13. CodesSpent'
  <2>1. CASE ~user.mfaEnabled
    <3>1. uses' = uses /\ step = user.lastStep
      BY <1>1, <2>1 DEF AcceptCode, step
    <3> QED
      BY <1>8, <3>1 DEF Inv, CodesSpent
  <2>2. CASE user.mfaEnabled
    <3>1. /\ code \in Code /\ code.secret = user.secret /\ code.step > user.lastStep
          /\ step = code.step /\ user.pendingSecret = 0 /\ code.secret # 0
          /\ code.secret <= drawn.secrets
      BY <1>5, <2>2 DEF VerifyTOTP, step, Inv, SecretsKnown, Code
    <3>2. uses[code] = 0
      BY <1>3, <3>1 DEF Inv, CodesSpent, Code
    <3>3. uses' = [uses EXCEPT ![code] = 1]
      BY <1>1, <1>3, <2>2, <3>1, <3>2 DEF AcceptCode
    <3> SUFFICES ASSUME NEW other \in Code, uses'[other] # 0
                 PROVE  /\ uses'[other] = 1
                        /\ other.secret <= drawn'.secrets
                        /\ other.secret # user'.pendingSecret
                        /\ other.secret = user'.secret => other.step <= user'.lastStep
      BY DEF CodesSpent
    <3>4. CASE other = code
      <4>1. uses'[other] = 1
        BY <1>3, <3>3, <3>4
      <4>2. code.step <= step
        BY <1>6, <3>1
      <4> QED
        BY <1>8, <3>1, <3>4, <4>1, <4>2
    <3>5. CASE other # code
      <4>1. uses'[other] = uses[other]
        BY <1>3, <3>3, <3>5
      <4>2. other.step \in Nat
        BY DEF Code
      <4> QED
        BY <1>3, <1>6, <1>8, <4>1, <4>2 DEF Inv, CodesSpent
    <3> QED
      BY <3>4, <3>5
  <2> QED
    BY <2>1, <2>2
<1> QED
  BY <1>9, <1>10, <1>11, <1>12, <1>13 DEF Inv

-----------------------------------------------------------------------------
(***************************************************************************)
(* The other steps that change the account.                                *)
(***************************************************************************)
\* Changes of the account that none of the invariants but its type is about:
\* it is as active as it was, with the same password, secrets and reset token.
SameAccount ==
  /\ user'.active = user.active /\ user'.hash = user.hash
  /\ user'.secret = user.secret /\ user'.pendingSecret = user.pendingSecret
  /\ user'.mfaEnabled = user.mfaEnabled /\ user'.lastStep = user.lastStep
  /\ user'.resetToken = user.resetToken

LEMMA NoteLoginFailureKeeps ==
  ASSUME Inv, NEW r \in Requests, NoteLoginFailure(r)
  PROVE  Inv'
<1>1. /\ user \in User /\ user.failedLogins \in 0..(MaxFailedLogins - 1) /\ clock \in Nat
      /\ requests \in [Requests -> Request] /\ NoRequest \in Request
  BY DEF Inv, TypeOK, User, Request
<1>2. user' \in User /\ SameAccount
  <2>1. CASE user.failedLogins + 1 < MaxFailedLogins
    <3>1. user' = [user EXCEPT !.failedLogins = @ + 1]
      BY <2>1 DEF NoteLoginFailure
    <3>2. user.failedLogins + 1 \in 0..(MaxFailedLogins - 1)
      BY <1>1, <2>1, Lifetimes
    <3> QED
      BY <1>1, <3>1, <3>2 DEF User, SameAccount
  <2>2. CASE ~(user.failedLogins + 1 < MaxFailedLogins)
    <3>1. user' = [user EXCEPT !.failedLogins = 0, !.lockedUntil = clock + LockoutDuration]
      BY <2>2 DEF NoteLoginFailure
    <3>2. 0 \in 0..(MaxFailedLogins - 1) /\ clock + LockoutDuration \in Nat
      BY <1>1, Lifetimes
    <3> QED
      BY <1>1, <3>1, <3>2 DEF User, SameAccount
  <2> QED
    BY <2>1, <2>2
<1>3. requests' \in [Requests -> Request]
  BY <1>1, RequestChanges DEF NoteLoginFailure, Becomes
<1>4. UNCHANGED <<sessions, clock, drawn, uses, redeemed>>
  BY DEF NoteLoginFailure
<1>5. TypeOK'
  BY <1>2, <1>3, <1>4 DEF Inv, TypeOK
<1>6. (InactiveSignedOut /\ SessionsFollowPassword /\ SessionsBounded)'
  BY <1>2, <1>4 DEF Inv, SameAccount, InactiveSignedOut, SessionsFollowPassword, SessionsBounded
<1>7. (SecretsKnown /\ CodesSpent /\ TokensSpent)'
  BY <1>2, <1>4 DEF Inv, SameAccount, SecretsKnown, CodesSpent, TokensSpent
<1> QED
  BY <1>5, <1>6, <1>7 DEF Inv

LEMMA LogoutKeeps ==
  ASSUME Inv, NEW s \in sessions, Logout(s)
  PROVE  Inv'
<1>1. /\ sessions' = sessions \ {s}
      /\ UNCHANGED <<user, requests, clock, drawn, uses, redeemed>>
  BY DEF Logout
<1>2. IsFiniteSet(sessions) /\ sessions \subseteq Session
  BY DEF Inv, TypeOK
<1>3. IsFiniteSet(sessions') /\ Cardinality(sessions') <= Cardinality(sessions)
  BY <1>1, <1>2, FS_Subset
<1>4. Cardinality(sessions) \in Nat /\ Cardinality(sessions') \in Nat
  BY <1>2, <1>3, FS_CardinalityType
<1>5. TypeOK'
  BY <1>1, <1>3 DEF Inv, TypeOK
<1>6. (InactiveSignedOut /\ SessionsFollowPassword)'
  BY <1>1 DEF Inv, InactiveSignedOut, SessionsFollowPassword
<1>7. SessionsBounded'
  BY <1>3, <1>4, Lifetimes DEF Inv, SessionsBounded
<1>8. (SecretsKnown /\ CodesSpent /\ TokensSpent)'
  BY <1>1 DEF Inv, SecretsKnown, CodesSpent, TokensSpent
<1> QED
  BY <1>5, <1>6, <1>7, <1>8 DEF Inv

\* The account's next password.
LEMMA NewPasswordType ==
  ASSUME TypeOK
  PROVE  NewPassword \in Hash
  BY DEF TypeOK, User, Hash, NewPassword

LEMMA ChangePasswordKeeps ==
  ASSUME Inv, NEW r \in Requests, ChangePassword(r)
  PROVE  Inv'
<1>1. /\ user \in User /\ NewPassword \in Hash
      /\ requests \in [Requests -> Request] /\ NoRequest \in Request
  BY NewPasswordType DEF Inv, TypeOK, Request
<1>2. PICK s \in sessions : /\ user.active
                            /\ sessions' = {[s EXCEPT !.epoch = NewPassword.epoch]}
  BY DEF ChangePassword, SignedIn
<1> DEFINE new == [s EXCEPT !.epoch = NewPassword.epoch]
<1>3. /\ user' = [user EXCEPT !.hash = NewPassword]
      /\ requests' = [requests EXCEPT ![r] = NoRequest]
      /\ UNCHANGED <<clock, drawn, uses, redeemed>>
  BY DEF ChangePassword, Becomes
<1>4. new \in Session /\ new.epoch = NewPassword.epoch
  BY <1>1 DEF Inv, TypeOK, Session, Hash
<1> HIDE DEF new
<1>5. /\ user' \in User /\ user'.active = user.active /\ user'.hash = NewPassword
      /\ user'.secret = user.secret /\ user'.pendingSecret = user.pendingSecret
      /\ user'.mfaEnabled = user.mfaEnabled /\ user'.lastStep = user.lastStep
      /\ user'.resetToken = user.resetToken
  BY <1>1, <1>3 DEF User
<1>6. sessions' = {new} /\ IsFiniteSet(sessions') /\ Cardinality(sessions') = 1
  BY <1>2, FS_Singleton DEF new
<1>7. TypeOK'
  <2>1. requests' \in [Requests -> Request]
    BY <1>1, <1>3, RequestChanges
  <2>2. sessions' \subseteq Session
    BY <1>4, <1>6
  <2> QED
    BY <1>3, <1>5, <1>6, <2>1, <2>2 DEF Inv, TypeOK
<1>8. (InactiveSignedOut /\ SessionsFollowPassword)'
  BY <1>2, <1>4, <1>5, <1>6 DEF InactiveSignedOut, SessionsFollowPassword
<1>9. SessionsBounded'
  BY <1>6, Lifetimes DEF SessionsBounded
<1>10. (SecretsKnown /\ CodesSpent /\ TokensSpent)'
  BY <1>3, <1>5 DEF Inv, SecretsKnown, CodesSpent, TokensSpent
<1> QED
  BY <1>7, <1>8, <1>9, <1>10 DEF Inv

\* Who signs everybody out keeps what is said of sessions.
LEMMA SignedOut ==
  ASSUME sessions' = {}
  PROVE  /\ sessions' \subseteq Session /\ IsFiniteSet(sessions')
         /\ (InactiveSignedOut /\ SessionsFollowPassword /\ SessionsBounded)'
<1>1. IsFiniteSet(sessions') /\ Cardinality(sessions') = 0
  BY FS_EmptySet
<1> QED
  BY <1>1, Lifetimes DEF InactiveSignedOut, SessionsFollowPassword, SessionsBounded

LEMMA CompleteResetKeeps ==
  ASSUME Inv, NEW r \in Requests, CompleteReset(r)
  PROVE  Inv'
<1> DEFINE token == requests[r].token
<1>1. /\ user \in User /\ NewPassword \in Hash
      /\ requests \in [Requests -> Request] /\ NoRequest \in Request
      /\ redeemed \in [1..MaxResets -> Nat] /\ drawn.resets \in Nat
  BY NewPasswordType DEF Inv, TypeOK, Request
<1>2. /\ token = user.resetToken /\ token # 0
      /\ redeemed' = [redeemed EXCEPT ![token] = @ + 1]
      /\ user' = [user EXCEPT !.hash = NewPassword, !.resetToken = 0, !.resetExpires = 0,
                              !.failedLogins = 0, !.lockedUntil = 0]
      /\ sessions' = {}
      /\ requests' = [requests EXCEPT ![r] = NoRequest]
      /\ UNCHANGED <<clock, drawn, uses>>
  BY DEF CompleteReset, ValidReset, Becomes
<1> HIDE DEF token
<1>3. 0 \in 0..(MaxFailedLogins - 1)
  BY Lifetimes
<1>4. /\ user' \in User
      /\ user'.secret = user.secret /\ user'.pendingSecret = user.pendingSecret
      /\ user'.mfaEnabled = user.mfaEnabled /\ user'.lastStep = user.lastStep
      /\ user'.resetToken = 0
  BY <1>1, <1>2, <1>3 DEF User
<1>5. token = drawn.resets
  BY <1>2 DEF Inv, TokensSpent
<1>6. TypeOK'
  <2>1. requests' \in [Requests -> Request]
    BY <1>1, <1>2, RequestChanges
  <2>2. redeemed' \in [1..MaxResets -> Nat]
    <3>1. CASE token \in 1..MaxResets
      <4>1. redeemed[token] + 1 \in Nat
        BY <1>1, <3>1
      <4> QED
        BY <1>1, <1>2, <4>1
    <3>2. CASE token \notin 1..MaxResets
      BY <1>1, <1>2, <3>2
    <3> QED
      BY <3>1, <3>2
  <2> QED
    BY <1>2, <1>4, <2>1, <2>2, SignedOut DEF Inv, TypeOK
<1>7. (SecretsKnown /\ CodesSpent)'
  BY <1>2, <1>4 DEF Inv, SecretsKnown, CodesSpent
<1>8. TokensSpent'
  <2> SUFFICES ASSUME NEW other \in 1..MaxResets, redeemed'[other] # 0
               PROVE  other <= drawn'.resets /\ other # user'.resetToken
    BY <1>4 DEF TokensSpent
  <2>1. CASE other = token
    BY <1>1, <1>2, <1>4, <1>5, <2>1
  <2>2. CASE other # token
    BY <1>1, <1>2, <1>4, <2>2 DEF Inv, TokensSpent
  <2> QED
    BY <2>1, <2>2
<1> QED
  BY <1>2, <1>6, <1>7, <1>8, SignedOut DEF Inv

LEMMA IssueResetTokenKeeps ==
  ASSUME Inv, IssueResetToken
  PROVE  Inv'
<1>1. /\ user \in User /\ clock \in Nat
      /\ drawn \in [secrets : Nat, resets : Nat, sessions : Nat]
  BY DEF Inv, TypeOK
<1>2. /\ drawn' = [drawn EXCEPT !.resets = @ + 1]
      /\ user' = [user EXCEPT !.resetToken = drawn.resets + 1,
                              !.resetExpires = clock + ResetTokenTTL]
      /\ UNCHANGED <<sessions, requests, clock, uses, redeemed>>
  BY DEF IssueResetToken
<1>3. /\ user' \in User /\ user'.active = user.active /\ user'.hash = user.hash
      /\ user'.secret = user.secret /\ user'.pendingSecret = user.pendingSecret
      /\ user'.mfaEnabled = user.mfaEnabled /\ user'.lastStep = user.lastStep
      /\ user'.resetToken = drawn.resets + 1
  <2>1. drawn.resets + 1 \in Nat /\ clock + ResetTokenTTL \in Nat
    BY <1>1, Lifetimes
  <2> QED
    BY <1>1, <1>2, <2>1 DEF User
<1>4. /\ drawn' \in [secrets : Nat, resets : Nat, sessions : Nat]
      /\ drawn'.resets = drawn.resets + 1 /\ drawn'.secrets = drawn.secrets
  BY <1>1, <1>2
<1>5. TypeOK'
  BY <1>2, <1>3, <1>4 DEF Inv, TypeOK
<1>6. (InactiveSignedOut /\ SessionsFollowPassword /\ SessionsBounded)'
  BY <1>2, <1>3 DEF Inv, InactiveSignedOut, SessionsFollowPassword, SessionsBounded
<1>7. (SecretsKnown /\ CodesSpent)'
  BY <1>2, <1>3, <1>4 DEF Inv, SecretsKnown, CodesSpent
<1>8. TokensSpent'
  BY <1>1, <1>2, <1>3, <1>4 DEF Inv, TokensSpent
<1> QED
  BY <1>5, <1>6, <1>7, <1>8 DEF Inv

LEMMA EnrollMFAKeeps ==
  ASSUME Inv, NEW s \in sessions, EnrollMFA(s)
  PROVE  Inv'
<1>1. /\ user \in User /\ drawn \in [secrets : Nat, resets : Nat, sessions : Nat]
      /\ user.secret \in Nat /\ ~user.mfaEnabled
  BY DEF Inv, TypeOK, User, EnrollMFA
<1>2. /\ drawn' = [drawn EXCEPT !.secrets = @ + 1]
      /\ user' = [user EXCEPT !.pendingSecret = drawn.secrets + 1]
      /\ UNCHANGED <<sessions, requests, clock, uses, redeemed>>
  BY DEF EnrollMFA
<1>3. /\ user' \in User /\ user'.active = user.active /\ user'.hash = user.hash
      /\ user'.secret = user.secret /\ user'.pendingSecret = drawn.secrets + 1
      /\ user'.mfaEnabled = user.mfaEnabled /\ user'.lastStep = user.lastStep
      /\ user'.resetToken = user.resetToken
  BY <1>1, <1>2 DEF User
<1>4. /\ drawn' \in [secrets : Nat, resets : Nat, sessions : Nat]
      /\ drawn'.resets = drawn.resets /\ drawn'.secrets = drawn.secrets + 1
  BY <1>1, <1>2
<1>5. TypeOK'
  BY <1>2, <1>3, <1>4 DEF Inv, TypeOK
<1>6. (InactiveSignedOut /\ SessionsFollowPassword /\ SessionsBounded)'
  BY <1>2, <1>3 DEF Inv, InactiveSignedOut, SessionsFollowPassword, SessionsBounded
<1>7. SecretsKnown' /\ TokensSpent'
  BY <1>1, <1>2, <1>3, <1>4 DEF Inv, SecretsKnown, TokensSpent
<1>8. CodesSpent'
  <2>1. \A code \in Code : code.secret \in Nat
    BY DEF Code
  <2> QED
    BY <1>1, <1>2, <1>3, <1>4, <2>1 DEF Inv, CodesSpent
<1> QED
  BY <1>5, <1>6, <1>7, <1>8 DEF Inv

LEMMA ConfirmMFAKeeps ==
  ASSUME Inv, NEW s \in sessions, NEW code \in Presentable, ConfirmMFA(s, code)
  PROVE  Inv'
<1>1. /\ user \in User /\ user.pendingSecret \in Nat /\ drawn.secrets \in Nat
      /\ uses \in [Code -> Nat]
  BY DEF Inv, TypeOK, User
<1>2. /\ user' = [user EXCEPT !.secret = user.pendingSecret, !.pendingSecret = 0,
                              !.mfaEnabled = TRUE, !.lastStep = code.step]
      /\ uses' = [uses EXCEPT ![code] = @ + 1]
      /\ UNCHANGED <<sessions, requests, clock, drawn, redeemed>>
  BY DEF ConfirmMFA
<1>3. code \in Code /\ code.secret = user.pendingSecret /\ code.step \in Nat
  BY DEF ConfirmMFA, VerifyTOTP, Presentable, Code
<1>4. /\ user' \in User /\ user'.active = user.active /\ user'.hash = user.hash
      /\ user'.secret = user.pendingSecret /\ user'.pendingSecret = 0
      /\ user'.mfaEnabled = TRUE /\ user'.lastStep = code.step
      /\ user'.resetToken = user.resetToken
  BY <1>1, <1>2, <1>3 DEF User
<1>5. uses[code] = 0
  BY <1>1, <1>3 DEF Inv, CodesSpent
<1>6. uses' = [uses EXCEPT ![code] = 1]
  BY <1>1, <1>2, <1>3, <1>5
<1>7. TypeOK'
  <2>1. uses' \in [Code -> Nat]
    BY <1>1, <1>6
  <2> QED
    BY <1>2, <1>4, <2>1 DEF Inv, TypeOK
<1>8. (InactiveSignedOut /\ SessionsFollowPassword /\ SessionsBounded)'
  BY <1>2, <1>4 DEF Inv, InactiveSignedOut, SessionsFollowPassword, SessionsBounded
<1>9. SecretsKnown' /\ TokensSpent'
  BY <1>1, <1>2, <1>4 DEF Inv, SecretsKnown, TokensSpent
<1>10. CodesSpent'
  <2> SUFFICES ASSUME NEW other \in Code, uses'[other] # 0
               PROVE  /\ uses'[other] = 1
                      /\ other.secret <= drawn'.secrets
                      /\ other.secret # user'.pendingSecret
                      /\ other.secret = user'.secret => other.step <= user'.lastStep
    BY DEF CodesSpent
  <2>1. other.secret # 0 /\ other.step \in Nat
    BY DEF Code
  <2>2. CASE other = code
    <3>1. uses'[other] = 1
      BY <1>1, <1>6, <2>2
    <3> QED
      BY <1>2, <1>3, <1>4, <2>1, <2>2, <3>1 DEF Inv, SecretsKnown
  <2>3. CASE other # code
    <3>1. uses'[other] = uses[other]
      BY <1>1, <1>6, <2>3
    <3> QED
      BY <1>2, <1>4, <2>1, <3>1 DEF Inv, CodesSpent
  <2> QED
    BY <2>2, <2>3
<1> QED
  BY <1>7, <1>8, <1>9, <1>10 DEF Inv

LEMMA AdministrationKeeps ==
  ASSUME Inv, ResetMFA \/ Deactivate \/ Reactivate
  PROVE  Inv'
<1>1. user \in User /\ 0 \in 0..(MaxFailedLogins - 1) /\ drawn.secrets \in Nat
  BY Lifetimes DEF Inv, TypeOK
<1>2. \A code \in Code : code.secret # 0
  BY DEF Code
<1>3. CASE ResetMFA
  <2>1. /\ user' = [user EXCEPT !.mfaEnabled = FALSE, !.secret = 0, !.pendingSecret = 0,
                                !.lastStep = 0]
        /\ sessions' = {}
        /\ UNCHANGED <<requests, clock, drawn, uses, redeemed>>
    BY <1>3 DEF ResetMFA
  <2>2. /\ user' \in User /\ user'.secret = 0 /\ user'.pendingSecret = 0
        /\ user'.resetToken = user.resetToken
    BY <1>1, <2>1 DEF User
  <2>3. TypeOK'
    BY <2>1, <2>2, SignedOut DEF Inv, TypeOK
  <2>4. (SecretsKnown /\ CodesSpent /\ TokensSpent)'
    BY <1>1, <1>2, <2>1, <2>2 DEF Inv, SecretsKnown, CodesSpent, TokensSpent
  <2> QED
    BY <2>1, <2>3, <2>4, SignedOut DEF Inv
<1>4. CASE Deactivate
  <2>1. /\ user' = [user EXCEPT !.active = FALSE] /\ sessions' = {}
        /\ UNCHANGED <<requests, clock, drawn, uses, redeemed>>
    BY <1>4 DEF Deactivate
  <2>2. /\ user' \in User /\ user'.secret = user.secret
        /\ user'.pendingSecret = user.pendingSecret /\ user'.mfaEnabled = user.mfaEnabled
        /\ user'.lastStep = user.lastStep /\ user'.resetToken = user.resetToken
    BY <1>1, <2>1 DEF User
  <2>3. TypeOK'
    BY <2>1, <2>2, SignedOut DEF Inv, TypeOK
  <2>4. (SecretsKnown /\ CodesSpent /\ TokensSpent)'
    BY <2>1, <2>2 DEF Inv, SecretsKnown, CodesSpent, TokensSpent
  <2> QED
    BY <2>1, <2>3, <2>4, SignedOut DEF Inv
<1>5. CASE Reactivate
  <2>1. /\ user' = [user EXCEPT !.active = TRUE, !.failedLogins = 0, !.lockedUntil = 0]
        /\ UNCHANGED <<sessions, requests, clock, drawn, uses, redeemed>>
    BY <1>5 DEF Reactivate
  <2>2. /\ user' \in User /\ user'.active /\ user'.hash = user.hash
        /\ user'.secret = user.secret
        /\ user'.pendingSecret = user.pendingSecret /\ user'.mfaEnabled = user.mfaEnabled
        /\ user'.lastStep = user.lastStep /\ user'.resetToken = user.resetToken
    BY <1>1, <2>1 DEF User
  <2>3. TypeOK'
    BY <2>1, <2>2 DEF Inv, TypeOK
  <2>4. (InactiveSignedOut /\ SessionsFollowPassword /\ SessionsBounded)'
    BY <2>1, <2>2 DEF Inv, InactiveSignedOut, SessionsFollowPassword, SessionsBounded
  <2>5. (SecretsKnown /\ CodesSpent /\ TokensSpent)'
    BY <2>1, <2>2 DEF Inv, SecretsKnown, CodesSpent, TokensSpent
  <2> QED
    BY <2>3, <2>4, <2>5 DEF Inv
<1> QED
  BY <1>3, <1>4, <1>5

-----------------------------------------------------------------------------
(***************************************************************************)
(* The theorems.                                                           *)
(***************************************************************************)
\* Every step of every request keeps the invariant.
THEOREM CredentialsInvariant == Spec => []Inv
<1>1. Init => Inv
  <2> SUFFICES ASSUME Init
               PROVE  Inv
    OBVIOUS
  <2>1. TypeOK
    BY TypeInit
  <2>2. sessions = {} /\ Cardinality(sessions) = 0
    BY FS_EmptySet DEF Init
  <2>3. InactiveSignedOut /\ SessionsFollowPassword /\ SessionsBounded
    BY <2>2, Lifetimes DEF InactiveSignedOut, SessionsFollowPassword, SessionsBounded
  <2>4. SecretsKnown /\ CodesSpent /\ TokensSpent
    BY DEF Init, SecretsKnown, CodesSpent, TokensSpent
  <2> QED
    BY <2>1, <2>3, <2>4 DEF Inv
<1>2. Inv /\ [Next]_vars => Inv'
  <2> SUFFICES ASSUME Inv, [Next]_vars
               PROVE  Inv'
    OBVIOUS
  <2>1. requests \in [Requests -> Request] /\ clock \in Nat
    BY DEF Inv, TypeOK
  <2>2. ASSUME NEW r \in Requests, Login(r)
        PROVE  Inv'
    BY <2>2, LoginKeeps
  <2>3. ASSUME NEW r \in Requests, NoteLoginFailure(r)
        PROVE  Inv'
    BY <2>3, NoteLoginFailureKeeps
  <2>4. ASSUME NEW r \in Requests, ChangePassword(r)
        PROVE  Inv'
    BY <2>4, ChangePasswordKeeps
  <2>5. ASSUME NEW r \in Requests, CompleteReset(r)
        PROVE  Inv'
    BY <2>5, CompleteResetKeeps
  <2>6. ASSUME NEW s \in sessions, NEW code \in Presentable,
               Logout(s) \/ EnrollMFA(s) \/ ConfirmMFA(s, code)
        PROVE  Inv'
    BY <2>6, LogoutKeeps, EnrollMFAKeeps, ConfirmMFAKeeps
  <2>7. CASE Tick
    BY <2>1, <2>7, AsideKeeps DEF Tick, Aside
  <2>8. CASE UNCHANGED vars
    BY <2>1, <2>8, AsideKeeps DEF vars, Aside
  <2>9. NoCode \in Presentable
    BY DEF Presentable
  <2> QED
    BY <2>2, <2>3, <2>4, <2>5, <2>6, <2>7, <2>8, <2>9, AsideSteps, IssueResetTokenKeeps,
       AdministrationKeeps DEF Next
<1> QED
  BY <1>1, <1>2, PTL DEF Spec

\* The variables keep their types.
THEOREM CredentialsTypeCorrect == Spec => []TypeOK
<1>1. Inv => TypeOK
  BY DEF Inv
<1> QED
  BY <1>1, CredentialsInvariant, PTL

\* A deactivated account is signed out, whatever logins were hashing.
THEOREM DeactivationSignsOut == Spec => []InactiveSignedOut
<1>1. Inv => InactiveSignedOut
  BY DEF Inv
<1> QED
  BY <1>1, CredentialsInvariant, PTL

\* No session outlives the password it was opened under.
THEOREM SessionsOfThePassword == Spec => []SessionsFollowPassword
<1>1. Inv => SessionsFollowPassword
  BY DEF Inv
<1> QED
  BY <1>1, CredentialsInvariant, PTL

\* There are never more sessions than MaxSessionsPerUser.
THEOREM SessionsStayBounded == Spec => []SessionsBounded
<1>1. Inv => SessionsBounded
  BY DEF Inv
<1> QED
  BY <1>1, CredentialsInvariant, PTL

\* No code is accepted twice.
THEOREM CodesAreUsedOnce == Spec => []CodesUsedOnce
<1>1. Inv => CodesUsedOnce
  BY DEF Inv, TypeOK, CodesSpent, CodesUsedOnce
<1> QED
  BY <1>1, CredentialsInvariant, PTL

(***************************************************************************)
(* Whatever changes while a password is being checked, the session is      *)
(* opened under the rules of the moment it is opened.                      *)
(***************************************************************************)
THEOREM EverySessionIsEarned == Spec => SessionsAreEarned
<1> DEFINE Earned == drawn'.sessions # drawn.sessions =>
                       /\ user.active /\ ~IsLocked
                       /\ user.mfaEnabled => uses' # uses
<1>1. Inv /\ [Next]_vars => [Earned]_vars
  <2> SUFFICES ASSUME Inv, Next, drawn'.sessions # drawn.sessions
               PROVE  Earned
    BY DEF vars
  <2>1. drawn \in [secrets : Nat, resets : Nat, sessions : Nat] /\ uses \in [Code -> Nat]
    BY DEF Inv, TypeOK
  <2>2. PICK r \in Requests : Login(r)
    <3>1. ~IssueResetToken /\ \A s \in sessions : ~EnrollMFA(s)
      BY <2>1 DEF IssueResetToken, EnrollMFA
    <3> QED
      BY <3>1 DEF Next, BeginLogin, CheckCode, NoteLoginFailure, BeginChange, ChangePassword,
                  BeginReset, CompleteReset, GiveUp, Logout, ConfirmMFA, ResetMFA,
                  Deactivate, Reactivate, Tick
  <2>3. user.active /\ ~IsLocked
    BY <2>2 DEF Login, StillGood
  <2>4. ASSUME user.mfaEnabled
        PROVE  uses' # uses
    <3> DEFINE code == requests[r].code
    <3>1. code \in Code
      BY <2>2, <2>4, LoginRequest DEF Login, AcceptCode, VerifyTOTP, Inv
    <3>2. uses' = [uses EXCEPT ![code] = @ + 1]
      BY <2>2, <2>4 DEF Login, AcceptCode
    <3> HIDE DEF code
    <3>3. uses'[code] = uses[code] + 1 /\ uses[code] \in Nat
      BY <2>1, <3>1, <3>2
    <3> QED
      BY <3>3
  <2> QED
    BY <2>3, <2>4
<1> QED
  BY <1>1, CredentialsInvariant, PTL DEF Spec, SessionsAreEarned

(***************************************************************************)
(* Two requests with one reset token, or one with a token that was         *)
(* replaced, do not both set a password.                                   *)
(***************************************************************************)
THEOREM TokensAreRedeemedOnce == Spec => TokensRedeemedOnce
<1> DEFINE Redeems(token) == /\ redeemed[token] = 0 /\ redeemed'[token] = 1
                             /\ token = drawn.resets
                             /\ clock < user.resetExpires
<1>1. Inv /\ [Next]_vars =>
        [\A token \in 1..MaxResets : redeemed'[token] # redeemed[token] => Redeems(token)]_vars
  <2> SUFFICES ASSUME Inv, Next,
                      NEW token \in 1..MaxResets, redeemed'[token] # redeemed[token]
               PROVE  Redeems(token)
    BY DEF vars
  <2>1. PICK r \in Requests : CompleteReset(r)
    BY DEF Next, BeginLogin, CheckCode, Login, NoteLoginFailure, BeginChange, ChangePassword,
           BeginReset, GiveUp, Logout, IssueResetToken, EnrollMFA, ConfirmMFA, ResetMFA,
           Deactivate, Reactivate, Tick
  <2>2. /\ ValidReset(requests[r].token)
        /\ redeemed' = [redeemed EXCEPT ![requests[r].token] = @ + 1]
    BY <2>1 DEF CompleteReset
  <2>3. redeemed \in [1..MaxResets -> Nat]
    BY DEF Inv, TypeOK
  <2>4. token = requests[r].token /\ token = user.resetToken
    BY <2>2, <2>3 DEF ValidReset
  <2>5. token = drawn.resets /\ redeemed[token] = 0
    BY <2>4 DEF Inv, TokensSpent
  <2> QED
    BY <2>2, <2>3, <2>4, <2>5 DEF ValidReset
<1> QED
  BY <1>1, CredentialsInvariant, PTL DEF Spec, TokensRedeemedOnce

=============================================================================
