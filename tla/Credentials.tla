---------------------------- MODULE Credentials -----------------------------
(***************************************************************************)
(* How the holder of one account comes to be signed in: passwords, the     *)
(* lockout, sessions, one-time codes (MFA), reset tokens and deactivation  *)
(* (service/auth.go, service/security.go, service/common.go).              *)
(*                                                                         *)
(* Hashing a password is slow, so three handlers hash outside any lock:    *)
(* they read the account in one transaction, hash, and commit in another,  *)
(* which must not trust what the first one saw.  requests holds what such  *)
(* a request took from its first transaction, and what it does next; all   *)
(* other handlers are one transaction.                                     *)
(*                                                                         *)
(* A password is told from others only by whether it matches a hash: what  *)
(* a request presents matches the hash it has read, or does not.  A clock  *)
(* tick is a period of one-time codes, and a code is the secret and the    *)
(* period it was computed from.                                            *)
(***************************************************************************)
EXTENDS Integers, FiniteSets

CONSTANTS
  Requests,            \* bound: requests between their transactions at a time
  MaxFailedLogins, LockoutDuration, ResetTokenTTL, SessionTTL, MaxSessionsPerUser,
  FirstClock, MaxClock,  \* bound: the clock runs from the one to the other
  MaxPasswords,        \* bound: passwords the account has, one after another
  MaxSecrets,          \* bound: MFA secrets drawn
  MaxResets,           \* bound: reset tokens issued
  MaxLogins            \* bound: sessions opened

ASSUME CredentialsAssumption ==
  /\ {MaxFailedLogins, LockoutDuration, ResetTokenTTL, SessionTTL, MaxSessionsPerUser,
      FirstClock} \subseteq Nat \ {0}
  /\ {MaxClock, MaxPasswords, MaxSecrets, MaxResets, MaxLogins} \subseteq Nat

VARIABLES
  user,      \* the account
  sessions,  \* its sessions
  requests,  \* what is hashing, and what it does next
  clock,     \* LockClock and time.Now, in periods
  drawn,     \* how many secrets, reset tokens and session tokens were drawn
  uses,      \* how often a code was accepted (history)
  redeemed   \* how often a reset token set a password (history)

vars == <<user, sessions, requests, clock, drawn, uses, redeemed>>

\* epoch counts the account's passwords; a legacy hash is replaced at a login.
Hash == [epoch : Nat, legacy : BOOLEAN]

Code   == [secret : 1..MaxSecrets, step : 1..(MaxClock + 1)]
NoCode == [secret |-> 0, step |-> 0]

\* 0 stands for none: no lock, no secret, no reset token.
User == [active : BOOLEAN, hash : Hash, failedLogins : 0..(MaxFailedLogins - 1),
         lockedUntil : Nat, mfaEnabled : BOOLEAN, secret : Nat, pendingSecret : Nat,
         lastStep : Nat, resetToken : Nat, resetExpires : Nat]

\* epoch: the password the session was opened under (history).
Session == [token : Nat, created : Nat, expires : Nat, epoch : Nat]

NoRequest == [next |-> "none"]
Request ==
  {NoRequest} \cup [next : {"noteFailure"}]
    \cup [next : {"checkCode"}, hash : Hash, secret : Nat, lastStep : Nat,
          code : Code \cup {NoCode}]
    \cup [next : {"login"}, hash : Hash, code : Code \cup {NoCode}]
    \cup [next : {"change"}, hash : Hash, session : Nat]
    \cup [next : {"reset"}, token : Nat]

-----------------------------------------------------------------------------
(***************************************************************************)
(* What the handlers ask of an account and its sessions.                   *)
(***************************************************************************)
IsLocked == clock < user.lockedUntil

\* actorFromTokenNoMFA
SignedIn(s) == s \in sessions /\ clock <= s.expires /\ user.active

\* VerifyTOTP: the code of this period or a neighbour, later than the last.
VerifyTOTP(secret, code, lastStep) ==
  /\ code # NoCode
  /\ code.secret = secret
  /\ code.step \in (clock - 1)..(clock + 1)
  /\ code.step > lastStep

\* The reset token, as it is and unexpired.
ValidReset(token) ==
  /\ user.active
  /\ user.resetToken = token /\ token # 0
  /\ clock < user.resetExpires

\* Codes whoever asks can have computed.
Presentable == {code \in Code : code.secret <= drawn.secrets} \cup {NoCode}

-----------------------------------------------------------------------------
(***************************************************************************)
(* Sessions.                                                               *)
(***************************************************************************)
Live == {s \in sessions : clock <= s.expires}

\* Mutant: no room is made for the session to come.
EvictionsTooFew ==
  {kept \in SUBSET Live :
     /\ Cardinality(kept) <= MaxSessionsPerUser
     /\ kept # Live => Cardinality(kept) = MaxSessionsPerUser
     /\ \A s \in kept, t \in Live \ kept : t.created <= s.created}

(***************************************************************************)
(* pruneSessions: what may be left.  The code compares the times of        *)
(* creation as texts, which within a second is not their order; here any   *)
(* order is possible within a period.                                      *)
(***************************************************************************)
Evictions ==
  {kept \in SUBSET Live :
     /\ Cardinality(kept) < MaxSessionsPerUser
     /\ kept # Live => Cardinality(kept) = MaxSessionsPerUser - 1
     /\ \A s \in kept, t \in Live \ kept : t.created <= s.created}

\* createSessionForUser
CreateSession(epoch) ==
  /\ drawn.sessions < MaxLogins
  /\ drawn' = [drawn EXCEPT !.sessions = @ + 1]
  /\ \E kept \in Evictions :
       sessions' = kept \cup {[token |-> drawn.sessions + 1, created |-> clock,
                               expires |-> clock + SessionTTL, epoch |-> epoch]}

-----------------------------------------------------------------------------
Init ==
  /\ user \in [active : {TRUE}, hash : [epoch : {1}, legacy : BOOLEAN], failedLogins : {0},
               lockedUntil : {0}, mfaEnabled : {FALSE}, secret : {0}, pendingSecret : {0},
               lastStep : {0}, resetToken : {0}, resetExpires : {0}]
  /\ sessions = {}
  /\ requests = [r \in Requests |-> NoRequest]
  /\ clock = FirstClock
  /\ drawn = [secrets |-> 0, resets |-> 0, sessions |-> 0]
  /\ uses = [code \in Code |-> 0]
  /\ redeemed = [token \in 1..MaxResets |-> 0]

Becomes(r, request) == requests' = [requests EXCEPT ![r] = request]

-----------------------------------------------------------------------------
(***************************************************************************)
(* Login.                                                                  *)
(***************************************************************************)
\* Up to the verdict on the password; an unknown name, an inactive account
\* and a locked one are refused and leave no trace.
BeginLogin(r, matched, code) ==
  /\ requests[r] = NoRequest
  /\ user.active /\ ~IsLocked
  /\ Becomes(r,
       IF ~matched THEN [next |-> "noteFailure"]
       ELSE IF user.mfaEnabled
            THEN [next |-> "checkCode", hash |-> user.hash, secret |-> user.secret,
                  lastStep |-> user.lastStep, code |-> code]
            ELSE [next |-> "login", hash |-> user.hash, code |-> code])
  /\ UNCHANGED <<user, sessions, clock, drawn, uses, redeemed>>

\* The first check of the code, against what was read; none given is no failure.
CheckCode(r) ==
  /\ requests[r].next = "checkCode"
  /\ LET request == requests[r] IN
     Becomes(r,
       IF VerifyTOTP(request.secret, request.code, request.lastStep)
       THEN [next |-> "login", hash |-> request.hash, code |-> request.code]
       ELSE IF request.code = NoCode THEN NoRequest
       ELSE [next |-> "noteFailure"])
  /\ UNCHANGED <<user, sessions, clock, drawn, uses, redeemed>>

\* Mutant: the code has been checked.
AcceptCodeOnceChecked(code) ==
  /\ user.mfaEnabled => code # NoCode
  /\ uses' = IF user.mfaEnabled THEN [uses EXCEPT ![code] = @ + 1] ELSE uses

AcceptCode(code) ==
  /\ user.mfaEnabled => VerifyTOTP(user.secret, code, user.lastStep)
  /\ uses' = IF user.mfaEnabled THEN [uses EXCEPT ![code] = @ + 1] ELSE uses

\* Mutant: the account was not locked when the password was read.
StillGoodUnlocked(hash) == user.active /\ user.hash = hash

\* Mutant: whatever the password is now.
StillGoodAnyHash(hash) == user.active /\ ~IsLocked

\* Mutant: active or not.
StillGoodInactive(hash) == user.hash = hash /\ ~IsLocked

\* The account is as it was when the password was checked.
StillGood(hash) == user.active /\ user.hash = hash /\ ~IsLocked

Login(r) ==
  /\ requests[r].next = "login"
  /\ LET request == requests[r] IN
     /\ StillGood(request.hash)
     /\ AcceptCode(request.code)
     /\ user' = [user EXCEPT !.hash.legacy = FALSE, !.failedLogins = 0, !.lockedUntil = 0,
                             !.lastStep = IF user.mfaEnabled THEN request.code.step ELSE @]
     /\ CreateSession(request.hash.epoch)
  /\ Becomes(r, NoRequest)
  /\ UNCHANGED <<clock, redeemed>>

\* Mutant: the counter goes on after it started a lock.
NoteLoginFailureNoReset(r) ==
  /\ requests[r].next = "noteFailure"
  /\ user' = IF user.failedLogins + 1 < MaxFailedLogins
             THEN [user EXCEPT !.failedLogins = @ + 1]
             ELSE [user EXCEPT !.failedLogins = @ + 1, !.lockedUntil = clock + LockoutDuration]
  /\ Becomes(r, NoRequest)
  /\ UNCHANGED <<sessions, clock, drawn, uses, redeemed>>

\* noteLoginFailure, of a login or of a change of password, locked or not.
NoteLoginFailure(r) ==
  /\ requests[r].next = "noteFailure"
  /\ user' = IF user.failedLogins + 1 < MaxFailedLogins
             THEN [user EXCEPT !.failedLogins = @ + 1]
             ELSE [user EXCEPT !.failedLogins = 0, !.lockedUntil = clock + LockoutDuration]
  /\ Becomes(r, NoRequest)
  /\ UNCHANGED <<sessions, clock, drawn, uses, redeemed>>

\* A request refused by its second transaction, or lost with the server.
GiveUp(r) ==
  /\ requests[r] # NoRequest
  /\ Becomes(r, NoRequest)
  /\ UNCHANGED <<user, sessions, clock, drawn, uses, redeemed>>

Logout(s) ==
  /\ s \in sessions
  /\ sessions' = sessions \ {s}
  /\ UNCHANGED <<user, requests, clock, drawn, uses, redeemed>>

-----------------------------------------------------------------------------
(***************************************************************************)
(* Changing the password, and setting a forgotten one.                     *)
(***************************************************************************)
BeginChange(r, s, matched) ==
  /\ requests[r] = NoRequest
  /\ SignedIn(s) /\ ~IsLocked
  /\ Becomes(r, IF matched THEN [next |-> "change", hash |-> user.hash, session |-> s.token]
                ELSE [next |-> "noteFailure"])
  /\ UNCHANGED <<user, sessions, clock, drawn, uses, redeemed>>

NewPassword == [epoch |-> user.hash.epoch + 1, legacy |-> FALSE]

ChangePassword(r) ==
  /\ requests[r].next = "change"
  /\ NewPassword.epoch <= MaxPasswords
  /\ \E s \in sessions :
       /\ s.token = requests[r].session /\ SignedIn(s)
       /\ user.hash = requests[r].hash
       /\ sessions' = {[s EXCEPT !.epoch = NewPassword.epoch]}
  /\ user' = [user EXCEPT !.hash = NewPassword]
  /\ Becomes(r, NoRequest)
  /\ UNCHANGED <<clock, drawn, uses, redeemed>>

IssueResetToken ==
  /\ drawn.resets < MaxResets
  /\ drawn' = [drawn EXCEPT !.resets = @ + 1]
  /\ user' = [user EXCEPT !.resetToken = drawn.resets + 1,
                          !.resetExpires = clock + ResetTokenTTL]
  /\ UNCHANGED <<sessions, requests, clock, uses, redeemed>>

BeginReset(r, token) ==
  /\ requests[r] = NoRequest
  /\ ValidReset(token)
  /\ Becomes(r, [next |-> "reset", token |-> token])
  /\ UNCHANGED <<user, sessions, clock, drawn, uses, redeemed>>

\* Mutant: the token was valid before the password was hashed.
CompleteResetOnceValid(r) ==
  /\ requests[r].next = "reset"
  /\ NewPassword.epoch <= MaxPasswords
  /\ redeemed' = [redeemed EXCEPT ![requests[r].token] = @ + 1]
  /\ user' = [user EXCEPT !.hash = NewPassword, !.resetToken = 0, !.resetExpires = 0,
                          !.failedLogins = 0, !.lockedUntil = 0]
  /\ sessions' = {}
  /\ Becomes(r, NoRequest)
  /\ UNCHANGED <<clock, drawn, uses>>

CompleteReset(r) ==
  /\ requests[r].next = "reset"
  /\ NewPassword.epoch <= MaxPasswords
  /\ ValidReset(requests[r].token)
  /\ redeemed' = [redeemed EXCEPT ![requests[r].token] = @ + 1]
  /\ user' = [user EXCEPT !.hash = NewPassword, !.resetToken = 0, !.resetExpires = 0,
                          !.failedLogins = 0, !.lockedUntil = 0]
  /\ sessions' = {}
  /\ Becomes(r, NoRequest)
  /\ UNCHANGED <<clock, drawn, uses>>

-----------------------------------------------------------------------------
(***************************************************************************)
(* One-time codes, and what an administrator does to the account.          *)
(***************************************************************************)
EnrollMFA(s) ==
  /\ SignedIn(s) /\ ~user.mfaEnabled
  /\ drawn.secrets < MaxSecrets
  /\ drawn' = [drawn EXCEPT !.secrets = @ + 1]
  /\ user' = [user EXCEPT !.pendingSecret = drawn.secrets + 1]
  /\ UNCHANGED <<sessions, requests, clock, uses, redeemed>>

ConfirmMFA(s, code) ==
  /\ SignedIn(s) /\ user.pendingSecret # 0
  /\ VerifyTOTP(user.pendingSecret, code, 0)
  /\ user' = [user EXCEPT !.secret = user.pendingSecret, !.pendingSecret = 0,
                          !.mfaEnabled = TRUE, !.lastStep = code.step]
  /\ uses' = [uses EXCEPT ![code] = @ + 1]
  /\ UNCHANGED <<sessions, requests, clock, drawn, redeemed>>

ResetMFA ==
  /\ user' = [user EXCEPT !.mfaEnabled = FALSE, !.secret = 0, !.pendingSecret = 0,
                          !.lastStep = 0]
  /\ sessions' = {}
  /\ UNCHANGED <<requests, clock, drawn, uses, redeemed>>

Deactivate ==
  /\ user.active
  /\ user' = [user EXCEPT !.active = FALSE]
  /\ sessions' = {}
  /\ UNCHANGED <<requests, clock, drawn, uses, redeemed>>

Reactivate ==
  /\ ~user.active
  /\ user' = [user EXCEPT !.active = TRUE, !.failedLogins = 0, !.lockedUntil = 0]
  /\ UNCHANGED <<sessions, requests, clock, drawn, uses, redeemed>>

Tick ==
  /\ clock < MaxClock
  /\ clock' = clock + 1
  /\ UNCHANGED <<user, sessions, requests, drawn, uses, redeemed>>

Next ==
  \/ \E r \in Requests :
       \/ \E matched \in BOOLEAN, code \in Presentable : BeginLogin(r, matched, code)
       \/ CheckCode(r)
       \/ Login(r)
       \/ NoteLoginFailure(r)
       \/ \E s \in sessions, matched \in BOOLEAN : BeginChange(r, s, matched)
       \/ ChangePassword(r)
       \/ \E token \in 1..drawn.resets : BeginReset(r, token)
       \/ CompleteReset(r)
       \/ GiveUp(r)
  \/ \E s \in sessions : Logout(s)
  \/ IssueResetToken
  \/ \E s \in sessions : EnrollMFA(s)
  \/ \E s \in sessions, code \in Presentable : ConfirmMFA(s, code)
  \/ ResetMFA
  \/ Deactivate
  \/ Reactivate
  \/ Tick

Spec == Init /\ [][Next]_vars

-----------------------------------------------------------------------------
\* The variables have their types; in particular the failures never add up to
\* a lockout that was not started.
TypeOK ==
  /\ user \in User
  /\ sessions \subseteq Session /\ IsFiniteSet(sessions)
  /\ requests \in [Requests -> Request]
  /\ clock \in Nat
  /\ drawn \in [secrets : Nat, resets : Nat, sessions : Nat]
  /\ uses \in [Code -> Nat]
  /\ redeemed \in [1..MaxResets -> Nat]

(***************************************************************************)
(* A deactivated account is signed out everywhere, and no login that was   *)
(* hashing when it was deactivated signs it in again (SetUserActive).      *)
(***************************************************************************)
InactiveSignedOut == ~user.active => sessions = {}

(***************************************************************************)
(* Every session was opened under the password the account has now, or is  *)
(* the one that changed it: a change or a reset of the password ends all   *)
(* others, and no login with the old password overtakes it.                *)
(***************************************************************************)
SessionsFollowPassword == \A s \in sessions : s.epoch = user.hash.epoch

\* MaxSessionsPerUser bounds the sessions of the account.
SessionsBounded == Cardinality(sessions) <= MaxSessionsPerUser

(***************************************************************************)
(* A one-time code is accepted once, by a login or by an enrolment, also   *)
(* when two logins present it at the same time, and across enrolments.     *)
(***************************************************************************)
CodesUsedOnce == \A code \in Code : uses[code] <= 1

(***************************************************************************)
(* A session is opened only while the account is active and not locked,    *)
(* and with a code if the account asks for one, however much of this       *)
(* changed while the password was being checked.                           *)
(***************************************************************************)
SessionsAreEarned ==
  [][drawn'.sessions # drawn.sessions =>
       /\ user.active /\ ~IsLocked
       /\ user.mfaEnabled => uses' # uses]_vars

(***************************************************************************)
(* A reset token sets a password once, and only if it is the newest and    *)
(* has not expired when it does (CompleteReset: "single use, even under    *)
(* concurrent submissions").                                               *)
(***************************************************************************)
TokensRedeemedOnce ==
  [][\A token \in 1..MaxResets : redeemed'[token] # redeemed[token] =>
       /\ redeemed[token] = 0 /\ redeemed'[token] = 1
       /\ token = drawn.resets
       /\ clock < user.resetExpires]_vars

=============================================================================
