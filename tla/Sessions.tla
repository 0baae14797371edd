------------------------------- MODULE Sessions -------------------------------
(***************************************************************************)
(* The auth pack (features/auth/src/render.ts): registration, login,       *)
(* refresh sessions that rotate on every use, logout, and the single-use   *)
(* codes that verify an address or reset a password, as concurrent calls   *)
(* on PostgreSQL under READ COMMITTED.                                     *)
(*                                                                         *)
(* Every effect of a call is confined to one account, so there is one.  A  *)
(* statement sees the rows that are committed when it starts: what it has  *)
(* seen is kept in the call until it is done, and a row another            *)
(* transaction has changed makes it wait.  A password is the number of     *)
(* resets before it.  What a call refuses without having changed anything  *)
(* (a wrong password, an expired token or code) is no step here.           *)
(***************************************************************************)
EXTENDS Naturals, FiniteSets

CONSTANTS Calls,          \* calls of clients, each serving one after the other
          RefreshTokens,  \* RefreshSession rows, named for their tokens
          Codes           \* EmailVerificationToken and PasswordResetToken rows

ASSUME SessionsAssumption == RefreshTokens \cap Codes = {}

VARIABLES
    account,    \* [status, password, verified]
    sessions,   \* the RefreshSession table
    codes,      \* the two token tables
    auth,       \* of each call: how far it is
    reused      \* logins (families) for which reuse was detected and answered

authVars == <<account, sessions, codes, auth, reused>>

(* family: the session its login began with; overlapped: it was created by *)
(* a call that was under way while some revocation was.                    *)
Session == [status: {"absent", "live", "revoked", "other"},
            family: RefreshTokens \cup {"-"}, overlapped: BOOLEAN]
NoSession == [status |-> "absent", family |-> "-", overlapped |-> FALSE]

Code == [status: {"absent", "open", "consumed", "deleted", "other"},
         kind: {"-", "verify", "reset"}]

AuthCall == [step: {"idle", "issue", "claim", "commit", "detect", "revoke",
                    "spend", "change", "finish"},
             on: RefreshTokens \cup Codes \cup {"-"},
             seen: SUBSET RefreshTokens, overlapped: BOOLEAN]
NoAuthCall == [step |-> "idle", on |-> "-", seen |-> {}, overlapped |-> FALSE]

(* The account has the rows in S and K still to create; the others are     *)
(* those of other accounts.  Without any in K the pack is configured       *)
(* without verification and reset.                                         *)
AuthInit(S, K) ==
    /\ account = [status |-> "absent", password |-> 0, verified |-> FALSE]
    /\ sessions = [s \in RefreshTokens |->
                     IF s \in S THEN NoSession ELSE [NoSession EXCEPT !.status = "other"]]
    /\ codes = [k \in Codes |-> [status |-> IF k \in K THEN "absent" ELSE "other",
                                 kind |-> "-"]]
    /\ auth = [c \in Calls |-> NoAuthCall]
    /\ reused = {}

Recovers == \E k \in Codes : codes[k].status # "other"

(* The steps of a call that is going to issue a session.                   *)
Issuing == {"issue", "claim", "commit"}

(* Has somebody looked which sessions to revoke, and not revoked them yet? *)
Revoking == \E c \in Calls : auth[c].step \in {"revoke", "finish"}

Begin(c, step, on) ==
    /\ auth[c].step = "idle"
    /\ auth' = [auth EXCEPT ![c] = [NoAuthCall EXCEPT
                  !.step = step, !.on = on, !.overlapped = Revoking /\ step \in Issuing]]
AuthGoes(c, step) == auth' = [auth EXCEPT ![c].step = step]
AuthEnds(c) == auth' = [auth EXCEPT ![c] = NoAuthCall]

Live == {s \in RefreshTokens : sessions[s].status = "live"}
Open(kind) == {k \in Codes : codes[k].status = "open" /\ codes[k].kind = kind}

(* Rows a transaction has updated and not committed yet.                   *)
Claimed(x) == \E c \in Calls : auth[c].on = x /\ auth[c].step \in {"commit", "change", "finish"}

(* Rows that are not there yet; a new one can be any of them.              *)
NewSessions == {s \in RefreshTokens : sessions[s].status = "absent"}
NewCodes    == {k \in Codes : codes[k].status = "absent"}
AnyOf(S)    == CHOOSE x \in S : TRUE

(* issue, and the create of rotate.                                        *)
Issued(c, family) ==
    [NoSession EXCEPT !.status = "live", !.family = family,
                      !.overlapped = auth[c].overlapped]

NewCode(kind) == [status |-> "open", kind |-> kind]

-----------------------------------------------------------------------------
(* register: one transaction with the account, its verification code and   *)
(* its first session.  The unique address decides who of many registers.   *)
Register == /\ account.status = "absent" /\ NewSessions # {} /\ (Recovers => NewCodes # {})
            /\ account' = [account EXCEPT !.status = "active"]
            /\ sessions' = [sessions EXCEPT ![AnyOf(NewSessions)] =
                  [NoSession EXCEPT !.status = "live", !.family = AnyOf(NewSessions)]]
            /\ codes' = IF Recovers THEN [codes EXCEPT ![AnyOf(NewCodes)] = NewCode("verify")]
                        ELSE codes
            /\ UNCHANGED <<auth, reused>>

(* login with the right password: the account is read, bcrypt compares,    *)
(* and a session is issued.                                                *)
Login(c) == /\ account.status = "active"
            /\ Begin(c, "issue", "-")
            /\ UNCHANGED <<account, sessions, codes, reused>>

Issue(c) == /\ auth[c].step = "issue" /\ NewSessions # {}
            /\ sessions' = [sessions EXCEPT ![AnyOf(NewSessions)] = Issued(c, AnyOf(NewSessions))]
            /\ AuthEnds(c)
            /\ UNCHANGED <<account, codes, reused>>

(* logout.                                                                 *)
Logout(s) == /\ s \in Live /\ ~Claimed(s)
             /\ sessions' = [sessions EXCEPT ![s].status = "revoked"]
             /\ UNCHANGED <<account, codes, auth, reused>>

-----------------------------------------------------------------------------
(* rotate: the session is read and judged,                                 *)
Rotate(c, s) ==
    /\ sessions[s].status \in {"live", "revoked"}
    /\ \/ account.status = "deleted" /\ Begin(c, "detect", "-")
       \/ /\ account.status = "active" /\ sessions[s].status = "revoked"
          /\ Begin(c, "detect", s)
       \/ /\ account.status = "active" /\ s \in Live
          /\ Begin(c, "claim", s)
    /\ UNCHANGED <<account, sessions, codes, reused>>

(* Mutant of ClaimSession: a session that was read as live is claimed.     *)
ClaimAsRead(c) ==
    /\ auth[c].step = "claim" /\ ~Claimed(auth[c].on)
    /\ AuthGoes(c, "commit")
    /\ UNCHANGED <<account, sessions, codes, reused>>

(* then claimed in a transaction if nobody has revoked it since: waiting   *)
(* for one that is about to,                                               *)
ClaimSession(c) ==
    /\ auth[c].step = "claim" /\ ~Claimed(auth[c].on)
    /\ auth' = [auth EXCEPT ![c] = IF @.on \in Live THEN [@ EXCEPT !.step = "commit"]
                                   ELSE [@ EXCEPT !.step = "detect", !.overlapped = FALSE]]
    /\ UNCHANGED <<account, sessions, codes, reused>>

(* and replaced.                                                           *)
Replace(c) ==
    /\ auth[c].step = "commit" /\ NewSessions # {}
    /\ sessions' = [sessions EXCEPT
          ![auth[c].on].status = "revoked",
          ![AnyOf(NewSessions)] = Issued(c, sessions[auth[c].on].family)]
    /\ AuthEnds(c)
    /\ UNCHANGED <<account, codes, reused>>

(* revokeAllSessions sees the sessions that are live now.  What other      *)
(* calls are about to issue it does not see.                               *)
Sees(c, step) ==
    auth' = [d \in Calls |->
        IF d = c THEN [auth[c] EXCEPT !.step = step, !.seen = Live]
        ELSE IF auth[d].step \in Issuing
             THEN [auth[d] EXCEPT !.overlapped = TRUE] ELSE auth[d]]

Revoked(c) == [s \in RefreshTokens |->
                 IF s \in auth[c].seen /\ s \in Live
                 THEN [sessions[s] EXCEPT !.status = "revoked"] ELSE sessions[s]]

(* A rotated or revoked token was presented: every session is revoked.     *)
Detect(c) ==
    /\ auth[c].step = "detect"
    /\ Sees(c, "revoke")
    /\ UNCHANGED <<account, sessions, codes, reused>>

RevokeAll(c) ==
    /\ auth[c].step = "revoke" /\ \A s \in auth[c].seen : ~Claimed(s)
    /\ sessions' = Revoked(c)
    /\ reused' = reused \cup {sessions[s].family : s \in {auth[c].on} \ {"-"}}
    /\ AuthEnds(c)
    /\ UNCHANGED <<account, codes>>

-----------------------------------------------------------------------------
(* requestEmailVerification and requestPasswordReset: a transaction that   *)
(* deletes the open codes, but for those that another such transaction is  *)
(* creating at the same time, and creates one.                             *)
AskCode(kind, unseen) ==
    /\ account.status = "active" /\ NewCodes # {} /\ unseen \subseteq Open(kind)
    /\ \A k \in Open(kind) \ unseen : ~Claimed(k)
    /\ codes' = [k \in Codes |->
          IF k = AnyOf(NewCodes) THEN NewCode(kind)
          ELSE IF k \in Open(kind) \ unseen
               THEN [status |-> "deleted", kind |-> "-"] ELSE codes[k]]
    /\ UNCHANGED <<account, sessions, auth, reused>>

Usable(k) == codes[k].status = "open"

(* where: { consumedAt: null, expiresAt: { gt: now } }                     *)
Spendable(k) == Usable(k)

(* verifyEmail: read, and then consumed with the account's verification.   *)
VerifyEmail(c, k) == /\ account.status = "active" /\ codes[k].kind = "verify" /\ Usable(k)
                     /\ Begin(c, "spend", k)
                     /\ UNCHANGED <<account, sessions, codes, reused>>

(* resetPassword: read; the new password is hashed;                        *)
ResetPassword(c, k) == /\ account.status = "active" /\ codes[k].kind = "reset" /\ Usable(k)
                       /\ Begin(c, "spend", k)
                       /\ UNCHANGED <<account, sessions, codes, reused>>

(* the code is claimed, or turns out to be spent, and the account updated, *)
(* unless it has been deleted;                                             *)
Spend(c) ==
    /\ auth[c].step = "spend" /\ ~Claimed(auth[c].on)
    /\ IF ~Spendable(auth[c].on) \/ account.status # "active"
       THEN AuthEnds(c) /\ UNCHANGED <<account, codes>>
       ELSE IF codes[auth[c].on].kind = "reset" THEN AuthGoes(c, "change") /\ UNCHANGED <<account, codes>>
       ELSE /\ codes' = [codes EXCEPT ![auth[c].on].status = "consumed"]
            /\ account' = [account EXCEPT !.verified = TRUE]
            /\ AuthEnds(c)
    /\ UNCHANGED <<sessions, reused>>

(* the sessions are revoked,                                               *)
Change(c) == /\ auth[c].step = "change"
             /\ Sees(c, "finish")
             /\ UNCHANGED <<account, sessions, codes, reused>>

(* Mutant of Finish: the sessions are revoked by themselves, afterwards.   *)
FinishInPieces(c) ==
    /\ auth[c].step = "finish" /\ \A s \in auth[c].seen : ~Claimed(s)
    /\ account' = [account EXCEPT !.password = @ + 1]
    /\ codes' = [codes EXCEPT ![auth[c].on].status = "consumed"]
    /\ AuthGoes(c, "revoke")
    /\ UNCHANGED <<sessions, reused>>

(* and all of it is committed at once.                                     *)
Finish(c) ==
    /\ auth[c].step = "finish" /\ \A s \in auth[c].seen : ~Claimed(s)
    /\ account' = [account EXCEPT !.password = @ + 1]
    /\ codes' = [codes EXCEPT ![auth[c].on].status = "consumed"]
    /\ sessions' = Revoked(c)
    /\ AuthEnds(c)
    /\ UNCHANGED <<reused>>

-----------------------------------------------------------------------------
(* A query fails or the process dies: an open transaction is rolled back.  *)
AuthFails(c) == /\ auth[c].step # "idle"
                /\ AuthEnds(c)
                /\ UNCHANGED <<account, sessions, codes, reused>>

(* The operator deletes the account, softly: deletedAt is set.             *)
DeleteAccount == /\ account.status = "active"
                 /\ account' = [account EXCEPT !.status = "deleted"]
                 /\ UNCHANGED <<sessions, codes, auth, reused>>

AuthNext ==
    \/ Register \/ DeleteAccount
    \/ \E c \in Calls : \/ Login(c) \/ Issue(c)
                        \/ ClaimSession(c) \/ Replace(c) \/ Detect(c) \/ RevokeAll(c)
                        \/ Spend(c) \/ Change(c) \/ Finish(c) \/ AuthFails(c)
    \/ \E c \in Calls, s \in RefreshTokens : Rotate(c, s)
    \/ \E kind \in {"verify", "reset"}, unseen \in SUBSET Codes : AskCode(kind, unseen)
    \/ \E c \in Calls, k \in Codes : VerifyEmail(c, k) \/ ResetPassword(c, k)
    \/ \E s \in RefreshTokens : Logout(s)

-----------------------------------------------------------------------------
AuthTypeOK == /\ account \in [status: {"absent", "active", "deleted"},
                              password: 0 .. Cardinality(Codes), verified: BOOLEAN]
              /\ sessions \in [RefreshTokens -> Session]
              /\ codes \in [Codes -> Code]
              /\ auth \in [Calls -> AuthCall]
              /\ reused \subseteq RefreshTokens

(* However many calls present a refresh token at once, what one login has  *)
(* led to is one live session at most.  render.ts rotate.                  *)
OneLivePerLogin ==
    \A s, t \in Live : sessions[s].family = sessions[t].family => s = t

(* Once the reuse of a token was answered, nothing is left of the login it *)
(* stems from, and nothing comes of it later, but through a rotation that  *)
(* was under way at that moment.  render.ts rotate, revokeAllSessions.     *)
ReuseEndsLogin ==
    \A s \in Live : sessions[s].family \in reused =>
        \E t \in RefreshTokens : sessions[t].family = sessions[s].family /\ sessions[t].overlapped

(* A password changes by one open reset code that is spent with it, and no *)
(* session from before stays live, but for one that a call under way at    *)
(* that moment has just issued.                                            *)
ResetEndsSessions ==
    [][account'.password # account.password =>
         /\ account'.password = account.password + 1
         /\ \E k \in Codes : /\ codes[k] = NewCode("reset")
                            /\ codes' = [codes EXCEPT ![k].status = "consumed"]
         /\ \A s \in RefreshTokens : sessions'[s].status = "live" => sessions'[s].overlapped]_authVars

(* What revokes an account's sessions leaves none usable.  render.ts       *)
(* rotate, revokeAllSessions, resetPassword ("one state transition").      *)
RevocationEndsSessions == []ReuseEndsLogin /\ ResetEndsSessions
=============================================================================
