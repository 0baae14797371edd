------------------------------ MODULE PackProofs ------------------------------
(***************************************************************************)
(* Proofs about parts that share nothing: the sessions and codes of the    *)
(* auth pack (Sessions), for any number of concurrent calls, tokens and    *)
(* codes; the attachments of the uploads pack (Uploads), for any number of *)
(* clients, sweepers, rows, faults and objects the store answers no call   *)
(* for; and the messages of the notifications pack (Notifications), for    *)
(* any number of dispatchers, messages and faults: that a recipient gets   *)
(* no needless duplicate, and that every step is one that Mailbox allows.  *)
(***************************************************************************)
EXTENDS Sessions, Uploads, Notifications, WorkQueueProofs

(* Sessions.                                                               *)
AuthSpec(S, K) == AuthInit(S, K) /\ [][AuthNext]_authVars

(* The sessions and calls are what they should be,                         *)
SessionsOK == /\ sessions \in [RefreshTokens -> Session]
              /\ auth \in [Calls -> AuthCall]

(* a session stems from a login that was: a new one gets a family of its   *)
(* own,                                                                    *)
Rooted(s) == sessions[s].status \in {"live", "revoked"} =>
                /\ sessions[s].family \in RefreshTokens
                /\ sessions[sessions[s].family].status # "absent"

(* and the one that a rotation has claimed is live until it is replaced,   *)
(* since whoever else would revoke it waits,                               *)
Held(c) == auth[c].step = "commit" => auth[c].on \in Live

(* and no other rotation's.                                                *)
Exclusive == \A c, d \in Calls : /\ auth[c].step = "commit" /\ auth[d].step = "commit"
                                 /\ auth[c].on = auth[d].on
                                 => c = d

IInv == /\ SessionsOK
        /\ \A s \in RefreshTokens : Rooted(s)
        /\ \A c \in Calls : Held(c)
        /\ Exclusive
        /\ OneLivePerLogin

-----------------------------------------------------------------------------
LEMMA InitOneLive == ASSUME NEW S, NEW K, AuthInit(S, K) PROVE IInv
<1>1. \A s \in RefreshTokens : sessions[s].status \in {"absent", "other"}
  BY DEF AuthInit, NoSession
<1>2. SessionsOK
  BY DEF AuthInit, SessionsOK, Session, NoSession, AuthCall, NoAuthCall
<1>3. \A c \in Calls : auth[c].step = "idle"
  BY DEF AuthInit, NoAuthCall
<1> QED BY <1>1, <1>2, <1>3 DEF IInv, Rooted, Held, Exclusive, OneLivePerLogin, Live

(* A row that does not exist yet can be had.                               *)
LEMMA AnyOfIn == ASSUME NEW S, S # {} PROVE AnyOf(S) \in S
BY DEF AnyOf

(* The next state's calls in a commit were in it before.                   *)
NoNewCommit == \A c \in Calls : auth'[c].step = "commit" =>
                   auth[c].step = "commit" /\ auth'[c].on = auth[c].on

(* What keeps the sessions as they are, and claims none, keeps it all.     *)
LEMMA SessionsKept ==
    ASSUME IInv, UNCHANGED sessions, auth' \in [Calls -> AuthCall], NoNewCommit
    PROVE  IInv'
<1>1. Exclusive'
  BY DEF IInv, Exclusive, NoNewCommit
<1> QED BY <1>1 DEF IInv, SessionsOK, Rooted, Held, NoNewCommit, OneLivePerLogin, Live

(* Revoking sessions that no rotation has claimed keeps it too.            *)
LEMMA SomeRevoked ==
    ASSUME IInv, auth' \in [Calls -> AuthCall], NoNewCommit,
           sessions' \in [RefreshTokens -> Session],
           \A s \in RefreshTokens : \/ sessions'[s] = sessions[s]
                                    \/ /\ s \in Live /\ ~Claimed(s)
                                       /\ sessions'[s].status = "revoked"
                                       /\ sessions'[s].family = sessions[s].family
    PROVE  IInv'
<1>1. \A s \in RefreshTokens : /\ sessions[s].status # "absent" => sessions'[s].status # "absent"
                               /\ sessions'[s].status = sessions[s].status
                                  \/ (sessions[s].status = "live" /\ sessions'[s].status = "revoked")
                               /\ sessions'[s].family = sessions[s].family
  BY DEF Live
<1>2. ASSUME NEW s \in RefreshTokens PROVE Rooted(s)'
  BY <1>1 DEF IInv, Rooted
<1>3. ASSUME NEW c \in Calls, auth'[c].step = "commit" PROVE auth'[c].on \in Live'
  <2>1. auth[c].step = "commit" /\ auth'[c].on = auth[c].on /\ auth[c].on \in Live
    BY <1>3 DEF NoNewCommit, IInv, Held
  <2>2. Claimed(auth[c].on)
    BY <2>1 DEF Claimed
  <2> QED BY <2>1, <2>2 DEF Live
<1>4. Exclusive'
  BY DEF IInv, Exclusive, NoNewCommit
<1>5. OneLivePerLogin'
  BY <1>1 DEF IInv, OneLivePerLogin, Live
<1> QED BY <1>2, <1>3, <1>4, <1>5 DEF IInv, SessionsOK, Held

(* A new login is alone in a family of its own.                            *)
LEMMA LoggedIn ==
    ASSUME IInv, NEW n \in NewSessions, auth' \in [Calls -> AuthCall], NoNewCommit,
           sessions' \in [RefreshTokens -> Session],
           sessions'[n].status = "live" /\ sessions'[n].family = n,
           \A s \in RefreshTokens \ {n} : sessions'[s] = sessions[s]
    PROVE  IInv'
<1>1. n \in RefreshTokens /\ sessions[n].status = "absent"
  BY DEF NewSessions
<1>2. \A s \in RefreshTokens : sessions[s].status \in {"live", "revoked"} =>
         s # n /\ sessions[s].family \in RefreshTokens \ {n} /\ sessions'[s] = sessions[s]
  BY <1>1 DEF IInv, Rooted
<1>3. ASSUME NEW s \in RefreshTokens PROVE Rooted(s)'
  BY <1>1, <1>2 DEF IInv, Rooted
<1>4. ASSUME NEW c \in Calls PROVE Held(c)'
  BY <1>2 DEF NoNewCommit, IInv, Held, Live
<1>5. Exclusive'
  BY DEF IInv, Exclusive, NoNewCommit
<1>6. ASSUME NEW s \in Live', NEW t \in Live', sessions'[s].family = sessions'[t].family
      PROVE  s = t
  <2>1. s \in RefreshTokens /\ t \in RefreshTokens
    BY DEF Live
  <2>2. \A u \in {s, t} : u = n \/ (u \in Live /\ sessions'[u].family = sessions[u].family
                                    /\ sessions'[u].family # n)
    BY <1>2, <2>1 DEF Live
  <2> QED BY <1>6, <2>2 DEF IInv, OneLivePerLogin
<1> QED BY <1>3, <1>4, <1>5, <1>6 DEF IInv, SessionsOK, OneLivePerLogin

-----------------------------------------------------------------------------
(* What a call does with itself.                                           *)
LEMMA BeginType ==
    ASSUME IInv, NEW c \in Calls, NEW step \in {"issue", "claim", "detect", "spend"},
           NEW on \in RefreshTokens \cup Codes \cup {"-"}, Begin(c, step, on)
    PROVE  auth' \in [Calls -> AuthCall] /\ NoNewCommit
<1> DEFINE a == [NoAuthCall EXCEPT !.step = step, !.on = on,
                                   !.overlapped = Revoking /\ step \in Issuing]
<1>1. a.step = step /\ a \in AuthCall
  BY DEF NoAuthCall, AuthCall
<1>2. auth' = [auth EXCEPT ![c] = a]
  BY DEF Begin
<1> HIDE DEF a
<1> QED BY <1>1, <1>2 DEF IInv, SessionsOK, NoNewCommit

LEMMA GoesType ==
    ASSUME IInv, NEW c \in Calls, NEW step \in {"change"}, AuthGoes(c, step)
    PROVE  auth' \in [Calls -> AuthCall] /\ NoNewCommit
BY DEF AuthGoes, IInv, SessionsOK, AuthCall, NoNewCommit

LEMMA EndsType ==
    ASSUME IInv, NEW c \in Calls, AuthEnds(c)
    PROVE  auth' \in [Calls -> AuthCall] /\ NoNewCommit
BY DEF AuthEnds, IInv, SessionsOK, AuthCall, NoAuthCall, NoNewCommit

LEMMA SeesType ==
    ASSUME IInv, NEW c \in Calls, NEW step \in {"revoke", "finish"}, Sees(c, step)
    PROVE  auth' \in [Calls -> AuthCall] /\ NoNewCommit
<1>1. Live \in SUBSET RefreshTokens
  BY DEF Live
<1>2. auth \in [Calls -> AuthCall]
  BY DEF IInv, SessionsOK
<1>3. ASSUME NEW d \in Calls
      PROVE  auth'[d] \in AuthCall /\ (auth'[d].step = "commit" =>
                auth[d].step = "commit" /\ auth'[d].on = auth[d].on)
  <2>1. CASE d = c
    BY <1>1, <1>2, <2>1 DEF Sees, AuthCall
  <2>2. CASE d # c
    BY <1>2, <2>2 DEF Sees, AuthCall
  <2> QED BY <2>1, <2>2
<1>4. auth' = [d \in Calls |-> auth'[d]]
  BY DEF Sees
<1> QED BY <1>3, <1>4 DEF NoNewCommit

(* What is revoked is live and no other transaction's.                     *)
LEMMA RevokedType ==
    ASSUME IInv, NEW c \in Calls, sessions' = Revoked(c), \A s \in auth[c].seen : ~Claimed(s)
    PROVE  /\ sessions' \in [RefreshTokens -> Session]
           /\ \A s \in RefreshTokens : \/ sessions'[s] = sessions[s]
                                       \/ /\ s \in Live /\ ~Claimed(s)
                                          /\ sessions'[s].status = "revoked"
                                          /\ sessions'[s].family = sessions[s].family
<1>1. sessions \in [RefreshTokens -> Session]
  BY DEF IInv, SessionsOK
<1>2. ASSUME NEW s \in RefreshTokens
      PROVE  /\ sessions'[s] \in Session
             /\ \/ sessions'[s] = sessions[s]
                \/ /\ s \in Live /\ ~Claimed(s)
                   /\ sessions'[s].status = "revoked"
                   /\ sessions'[s].family = sessions[s].family
  BY <1>1 DEF Revoked, Session
<1>3. sessions' = [s \in RefreshTokens |-> sessions'[s]]
  BY DEF Revoked
<1> QED BY <1>2, <1>3

-----------------------------------------------------------------------------
LEMMA ClaimKeeps ==
    ASSUME IInv, NEW c \in Calls, ClaimSession(c) PROVE IInv'
<1>1. sessions \in [RefreshTokens -> Session] /\ auth \in [Calls -> AuthCall]
  BY DEF IInv, SessionsOK
<1>2. CASE auth[c].on \in Live
  <2> DEFINE a == [auth[c] EXCEPT !.step = "commit"]
  <2>1. auth' = [auth EXCEPT ![c] = a]
    BY <1>1, <1>2 DEF ClaimSession
  <2>2. a \in AuthCall /\ a.step = "commit" /\ a.on = auth[c].on
    BY <1>1 DEF AuthCall
  <2> HIDE DEF a
  <2>3. auth' \in [Calls -> AuthCall]
    BY <1>1, <2>1, <2>2
  <2>4. \A d \in Calls : Held(d)'
    BY <1>1, <1>2, <2>1, <2>2 DEF ClaimSession, IInv, Held, Live
  <2>5. \A d \in Calls : auth[d].step = "commit" => auth[d].on # auth[c].on
    BY DEF ClaimSession, Claimed
  <2>6. Exclusive'
    BY <1>1, <2>1, <2>2, <2>5 DEF IInv, Exclusive
  <2> QED BY <2>3, <2>4, <2>6 DEF ClaimSession, IInv, SessionsOK, Rooted, OneLivePerLogin, Live
<1>3. CASE auth[c].on \notin Live
  <2> DEFINE a == [auth[c] EXCEPT !.step = "detect", !.overlapped = FALSE]
  <2>1. auth' = [auth EXCEPT ![c] = a]
    BY <1>1, <1>3 DEF ClaimSession
  <2>2. a \in AuthCall /\ a.step = "detect"
    BY <1>1 DEF AuthCall
  <2> HIDE DEF a
  <2>3. auth' \in [Calls -> AuthCall] /\ NoNewCommit
    BY <1>1, <2>1, <2>2 DEF NoNewCommit
  <2> QED BY <2>3, SessionsKept DEF ClaimSession
<1> QED BY <1>2, <1>3

(* The session that is replaced was the live one of its login: the new one *)
(* takes its place.                                                        *)
LEMMA ReplaceKeeps ==
    ASSUME IInv, NEW c \in Calls, Replace(c) PROVE IInv'
<1> DEFINE o == auth[c].on
           n == AnyOf(NewSessions)
           new == Issued(c, sessions[o].family)
<1>1. sessions \in [RefreshTokens -> Session] /\ auth \in [Calls -> AuthCall]
  BY DEF IInv, SessionsOK
<1>2. o \in RefreshTokens /\ sessions[o].status = "live"
  BY DEF Replace, IInv, Held, Live
<1>3. n \in RefreshTokens /\ sessions[n].status = "absent"
  BY AnyOfIn DEF Replace, NewSessions
<1>4. n # o /\ sessions[o].family \in RefreshTokens \ {n}
  BY <1>2, <1>3 DEF IInv, Rooted
<1>5. /\ new \in Session /\ new.status = "live" /\ new.family = sessions[o].family
  BY <1>1, <1>4 DEF Issued, NoSession, Session, AuthCall
<1>6. /\ sessions' \in [RefreshTokens -> Session]
      /\ sessions'[n] = new
      /\ sessions'[o].status = "revoked" /\ sessions'[o].family = sessions[o].family
      /\ \A s \in RefreshTokens \ {n, o} : sessions'[s] = sessions[s]
  <2>1. sessions' = [[sessions EXCEPT ![o].status = "revoked"] EXCEPT ![n] = new]
    BY DEF Replace
  <2>2. [sessions EXCEPT ![o].status = "revoked"] \in [RefreshTokens -> Session]
    BY <1>1, <1>2 DEF Session
  <2> HIDE DEF new, n
  <2> QED BY <1>1, <1>2, <1>3, <1>4, <1>5, <2>1, <2>2 DEF Session
<1>7. auth' \in [Calls -> AuthCall] /\ NoNewCommit /\ auth'[c].step # "commit"
  BY <1>1, EndsType DEF Replace, AuthEnds, NoAuthCall
<1> HIDE DEF n, o, new
<1>8. ASSUME NEW s \in RefreshTokens PROVE Rooted(s)'
  <2>1. \A t \in RefreshTokens : sessions[t].status # "absent" => sessions'[t].status # "absent"
    BY <1>3, <1>5, <1>6
  <2>2. CASE s \in {n, o}
    BY <1>2, <1>4, <1>5, <1>6, <2>1, <2>2 DEF IInv, Rooted
  <2>3. CASE s \notin {n, o}
    BY <1>6, <2>1, <2>3 DEF IInv, Rooted
  <2> QED BY <2>2, <2>3
<1>9. ASSUME NEW d \in Calls, auth'[d].step = "commit" PROVE auth'[d].on \in Live'
  <2>1. d # c /\ auth[d].step = "commit" /\ auth'[d].on = auth[d].on /\ auth[d].on \in Live
    BY <1>7, <1>9 DEF NoNewCommit, IInv, Held
  <2>2. auth[d].on # o
    BY <2>1 DEF Replace, IInv, Exclusive, o
  <2>3. auth[d].on # n
    BY <1>3, <2>1 DEF Live
  <2> QED BY <1>6, <2>1, <2>2, <2>3 DEF Live
<1>10. Exclusive'
  BY <1>7 DEF IInv, Exclusive, NoNewCommit
<1>11. ASSUME NEW s \in Live', NEW t \in Live', sessions'[s].family = sessions'[t].family
       PROVE  s = t
  <2>1. \A u \in {s, t} : u = n \/ (u \in Live /\ u # o /\ sessions'[u] = sessions[u])
    BY <1>6 DEF Live
  <2>2. \A u \in Live : sessions[u].family = sessions[o].family => u = o
    BY <1>2 DEF IInv, OneLivePerLogin, Live
  <2>3. CASE s = n /\ t # n
    BY <1>5, <1>6, <1>11, <2>1, <2>2, <2>3
  <2>4. CASE s # n /\ t = n
    BY <1>5, <1>6, <1>11, <2>1, <2>2, <2>4
  <2>5. CASE s # n /\ t # n
    BY <1>11, <2>1, <2>5 DEF IInv, OneLivePerLogin
  <2> QED BY <2>3, <2>4, <2>5
<1> QED BY <1>6, <1>7, <1>8, <1>9, <1>10, <1>11 DEF IInv, SessionsOK, Held, OneLivePerLogin

LEMMA SpendKeeps ==
    ASSUME IInv, NEW c \in Calls, Spend(c) PROVE IInv'
<1>1. CASE AuthEnds(c)
  BY <1>1, EndsType, SessionsKept DEF Spend
<1>2. CASE AuthGoes(c, "change")
  BY <1>2, GoesType, SessionsKept DEF Spend
<1> QED BY <1>1, <1>2 DEF Spend

-----------------------------------------------------------------------------
LEMMA NextOneLive == IInv /\ [AuthNext]_authVars => IInv'
<1> SUFFICES ASSUME IInv, [AuthNext]_authVars PROVE IInv'
  OBVIOUS
<1>0. sessions \in [RefreshTokens -> Session] /\ auth \in [Calls -> AuthCall]
  BY DEF IInv, SessionsOK
<1>1. CASE UNCHANGED authVars
  BY <1>0, <1>1, SessionsKept DEF authVars, NoNewCommit
<1>2. CASE Register
  <2> DEFINE n == AnyOf(NewSessions)
             new == [NoSession EXCEPT !.status = "live", !.family = n]
  <2>1. n \in NewSessions /\ n \in RefreshTokens
    BY <1>2, AnyOfIn DEF Register, NewSessions
  <2>2. new \in Session /\ new.status = "live" /\ new.family = n
    BY <2>1 DEF NoSession, Session
  <2>3. sessions' = [sessions EXCEPT ![n] = new] /\ UNCHANGED auth
    BY <1>2 DEF Register
  <2> HIDE DEF n, new
  <2> QED BY <1>0, <2>1, <2>2, <2>3, LoggedIn DEF NoNewCommit
<1>3. CASE DeleteAccount
  BY <1>0, <1>3, SessionsKept DEF DeleteAccount, NoNewCommit
<1>4. ASSUME NEW c \in Calls, Login(c) PROVE IInv'
  BY <1>4, BeginType, SessionsKept DEF Login
<1>5. ASSUME NEW c \in Calls, Issue(c) PROVE IInv'
  <2> DEFINE n == AnyOf(NewSessions)
             new == Issued(c, n)
  <2>1. n \in NewSessions /\ n \in RefreshTokens
    BY <1>5, AnyOfIn DEF Issue, NewSessions
  <2>2. new \in Session /\ new.status = "live" /\ new.family = n
    BY <1>0, <2>1 DEF Issued, NoSession, Session, AuthCall
  <2>3. sessions' = [sessions EXCEPT ![n] = new]
    BY <1>5 DEF Issue
  <2>4. auth' \in [Calls -> AuthCall] /\ NoNewCommit
    BY <1>5, EndsType DEF Issue
  <2> HIDE DEF n, new
  <2> QED BY <1>0, <2>1, <2>2, <2>3, <2>4, LoggedIn
<1>6. ASSUME NEW c \in Calls, ClaimSession(c) PROVE IInv'
  BY <1>6, ClaimKeeps
<1>7. ASSUME NEW c \in Calls, Replace(c) PROVE IInv'
  BY <1>7, ReplaceKeeps
<1>8. ASSUME NEW c \in Calls, Detect(c) PROVE IInv'
  BY <1>8, SeesType, SessionsKept DEF Detect
<1>9. ASSUME NEW c \in Calls, RevokeAll(c) PROVE IInv'
  <2>1. auth' \in [Calls -> AuthCall] /\ NoNewCommit
    BY <1>9, EndsType DEF RevokeAll
  <2> QED BY <1>9, <2>1, RevokedType, SomeRevoked DEF RevokeAll
<1>10. ASSUME NEW c \in Calls, Spend(c) PROVE IInv'
  BY <1>10, SpendKeeps
<1>11. ASSUME NEW c \in Calls, Change(c) PROVE IInv'
  BY <1>11, SeesType, SessionsKept DEF Change
<1>12. ASSUME NEW c \in Calls, Finish(c) PROVE IInv'
  <2>1. auth' \in [Calls -> AuthCall] /\ NoNewCommit
    BY <1>12, EndsType DEF Finish
  <2> QED BY <1>12, <2>1, RevokedType, SomeRevoked DEF Finish
<1>13. ASSUME NEW c \in Calls, AuthFails(c) PROVE IInv'
  BY <1>13, EndsType, SessionsKept DEF AuthFails
<1>14. ASSUME NEW c \in Calls, NEW s \in RefreshTokens, Rotate(c, s) PROVE IInv'
  BY <1>14, BeginType, SessionsKept DEF Rotate
<1>15. ASSUME NEW kind \in {"verify", "reset"}, NEW unseen \in SUBSET Codes, AskCode(kind, unseen)
       PROVE  IInv'
  BY <1>0, <1>15, SessionsKept DEF AskCode, NoNewCommit
<1>16. ASSUME NEW c \in Calls, NEW k \in Codes, VerifyEmail(c, k) \/ ResetPassword(c, k)
       PROVE  IInv'
  BY <1>16, BeginType, SessionsKept DEF VerifyEmail, ResetPassword
<1>17. ASSUME NEW s \in RefreshTokens, Logout(s) PROVE IInv'
  <2>1. /\ sessions' \in [RefreshTokens -> Session]
        /\ \A t \in RefreshTokens : \/ sessions'[t] = sessions[t]
                                    \/ /\ t \in Live /\ ~Claimed(t)
                                       /\ sessions'[t].status = "revoked"
                                       /\ sessions'[t].family = sessions[t].family
    BY <1>0, <1>17 DEF Logout, Session
  <2>2. auth' \in [Calls -> AuthCall] /\ NoNewCommit
    BY <1>0, <1>17 DEF Logout, NoNewCommit
  <2> QED BY <2>1, <2>2, SomeRevoked
<1> QED BY <1>1, <1>2, <1>3, <1>4, <1>5, <1>6, <1>7, <1>8, <1>9, <1>10, <1>11, <1>12, <1>13,
           <1>14, <1>15, <1>16, <1>17 DEF AuthNext

(* However many calls present tokens at once, and log in, log out, reset   *)
(* and revoke meanwhile, one login has one live session at most.           *)
(* features/auth/src/render.ts rotate.                                     *)
THEOREM LoginHasOneSession ==
    ASSUME NEW S, NEW K PROVE AuthSpec(S, K) => []OneLivePerLogin
<1>1. AuthInit(S, K) => IInv
  BY InitOneLive
<1>2. IInv => OneLivePerLogin
  BY DEF IInv
<1> QED BY <1>1, <1>2, NextOneLive, PTL DEF AuthSpec

-----------------------------------------------------------------------------
(* What revocation needs besides.  Rows and accounts are what they should  *)
(* be; a row that is not there yet says nothing;                           *)
RowsOK == /\ account \in [status: {"absent", "active", "deleted"}, password: Nat, verified: BOOLEAN]
          /\ codes \in [Codes -> Code]
          /\ \A s \in RefreshTokens : sessions[s].status = "absent" => sessions[s] = NoSession

(* nobody is called before there is an account;                            *)
NobodyYet == account.status = "absent" => \A c \in Calls : auth[c].step = "idle"

(* a refresh goes on about a session that was there;                       *)
Presented(c) == auth[c].step \in {"claim", "commit", "detect", "revoke"} /\ auth[c].on # "-" =>
                    /\ auth[c].on \in RefreshTokens
                    /\ sessions[auth[c].on].status \in {"live", "revoked"}

(* a reset has a code to itself, open until the reset is committed;        *)
Resetting(c) == auth[c].step \in {"change", "finish"}
Holding(c) == /\ auth[c].step = "spend" => auth[c].on \in Codes
              /\ Resetting(c) => auth[c].on \in Codes /\ codes[auth[c].on] = NewCode("reset")
Alone == \A c, d \in Calls : Resetting(c) /\ Resetting(d) /\ auth[c].on = auth[d].on => c = d

(* whoever revokes has not seen some live sessions, but those, and those   *)
(* still to come from calls under way, are the ones marked so;             *)
Revokes(c) == auth[c].step \in {"revoke", "finish"}
Marked(c) == Revokes(c) => /\ \A s \in Live \ auth[c].seen : sessions[s].overlapped
                           /\ \A d \in Calls : auth[d].step \in Issuing => auth[d].overlapped

(* and a login that was answered for was one.                              *)
Answered == reused \subseteq RefreshTokens /\ \A f \in reused : sessions[f].status # "absent"

RInv == /\ IInv /\ RowsOK /\ NobodyYet
        /\ \A c \in Calls : Presented(c) /\ Holding(c) /\ Marked(c)
        /\ Alone /\ Answered /\ ReuseEndsLogin

-----------------------------------------------------------------------------
LEMMA InitRevocable == ASSUME NEW S, NEW K, AuthInit(S, K) PROVE RInv
<1>1. IInv
  BY InitOneLive
<1>2. \A s \in RefreshTokens : sessions[s].status \in {"absent", "other"}
                               /\ (sessions[s].status = "absent" => sessions[s] = NoSession)
  BY DEF AuthInit, NoSession
<1>3. \A c \in Calls : auth[c].step = "idle"
  BY DEF AuthInit, NoAuthCall
<1>4. account \in [status: {"absent", "active", "deleted"}, password: Nat, verified: BOOLEAN]
  BY DEF AuthInit
<1>5. codes \in [Codes -> Code] /\ reused = {}
  BY DEF AuthInit, Code
<1>6. \A c \in Calls : Presented(c) /\ Holding(c) /\ Marked(c) /\ ~Resetting(c)
  BY <1>3 DEF Presented, Holding, Marked, Revokes, Resetting
<1> QED BY <1>1, <1>2, <1>3, <1>4, <1>5, <1>6
        DEF RInv, RowsOK, NobodyYet, Alone, Answered, ReuseEndsLogin, Live

(* What a step may do to the sessions: revoke live ones, and make new ones *)
(* that begin a login or go on with one that is live.                      *)
Ages == \A s \in RefreshTokens :
    \/ sessions'[s] = sessions[s]
    \/ /\ sessions[s].status = "live" /\ sessions'[s].status = "revoked"
       /\ sessions'[s].family = sessions[s].family
       /\ sessions'[s].overlapped = sessions[s].overlapped
    \/ sessions[s].status = "absent" /\ sessions'[s].status = "live"
Descends == \A s \in Live' \ Live :
    \/ sessions'[s].family = s
    \/ \E o \in Live : sessions'[s].family = sessions[o].family

(* A session that was there stays, of its login and marked as it was.      *)
LEMMA Aged ==
    ASSUME RInv, Ages, NEW s \in RefreshTokens
    PROVE  /\ sessions'[s].status = "absent" => sessions'[s] = NoSession
           /\ sessions[s].status # "absent" => /\ sessions'[s].status # "absent"
                                               /\ sessions'[s].family = sessions[s].family
                                               /\ sessions'[s].overlapped = sessions[s].overlapped
           /\ sessions[s].status \in {"live", "revoked"} => sessions'[s].status \in {"live", "revoked"}
           /\ s \in Live' => s \in Live \/ sessions[s].status = "absent"
           /\ sessions[s].overlapped => sessions[s].status # "absent"
BY DEF RInv, RowsOK, Ages, Live, NoSession

(* Whatever a login that was answered for still has stems from a session   *)
(* marked so; a new session is no exception, for it goes on with such one, *)
(* or is of a login that is new.                                           *)
LEMMA AnswersStand ==
    ASSUME RInv, Ages, Descends, UNCHANGED reused
    PROVE  Answered' /\ ReuseEndsLogin'
<1>1. Answered'
  BY Aged DEF RInv, Answered
<1>2. ASSUME NEW s \in Live', sessions'[s].family \in reused
      PROVE  \E t \in RefreshTokens : sessions'[t].family = sessions'[s].family /\ sessions'[t].overlapped
  <2>1. s \in RefreshTokens
    BY DEF Live
  <2>2. PICK o \in Live : sessions[o].family = sessions'[s].family
    <3>1. CASE s \in Live
      BY <2>1, <3>1, Aged DEF Live
    <3>2. CASE s \notin Live
      <4>1. sessions[s].status = "absent"
        BY <2>1, <3>2, Aged
      <4>2. sessions'[s].family # s
        BY <1>2, <4>1 DEF RInv, Answered
      <4> QED BY <3>2, <4>2 DEF Descends
    <3> QED BY <3>1, <3>2
  <2>3. PICK t \in RefreshTokens : sessions[t].family = sessions[o].family /\ sessions[t].overlapped
    BY <1>2, <2>2 DEF RInv, ReuseEndsLogin
  <2> QED BY <2>2, <2>3, Aged
<1> QED BY <1>1, <1>2 DEF ReuseEndsLogin

(* What was presented stays presented.                                     *)
LEMMA StaysPresented ==
    ASSUME RInv, Ages,
           \A d \in Calls : \/ Presented(d)'
                            \/ /\ auth'[d].on = auth[d].on
                               /\ auth'[d].step = auth[d].step \/ auth[d].step = "detect"
    PROVE  \A d \in Calls : Presented(d)'
<1> SUFFICES ASSUME NEW d \in Calls, auth'[d].on = auth[d].on,
                    auth'[d].step = auth[d].step \/ auth[d].step = "detect",
                    auth'[d].step \in {"claim", "commit", "detect", "revoke"}, auth'[d].on # "-"
             PROVE  /\ auth'[d].on \in RefreshTokens
                    /\ sessions'[auth'[d].on].status \in {"live", "revoked"}
  BY DEF Presented
<1>1. auth[d].on \in RefreshTokens /\ sessions[auth[d].on].status \in {"live", "revoked"}
  BY DEF RInv, Presented
<1> QED BY <1>1, Aged

(* A code that is held is kept, and held by one.                           *)
LEMMA StaysHeld ==
    ASSUME RInv,
           \A d \in Calls :
              \/ /\ auth'[d].step \in {"spend", "change", "finish"} => auth'[d].on \in Codes
                 /\ ~(Resetting(d)')
              \/ /\ auth'[d].on = auth[d].on
                 /\ auth'[d].step = auth[d].step \/ (Resetting(d)' /\ Resetting(d))
                 /\ Resetting(d) => codes'[auth[d].on] = codes[auth[d].on]
    PROVE  Alone' /\ \A d \in Calls : Holding(d)'
BY DEF RInv, Alone, Holding, Resetting, NewCode

(* The marks stay right while nobody begins to revoke.                     *)
LEMMA StaysMarked ==
    ASSUME RInv, Ages,
           \A s \in Live' \ Live : (\E d \in Calls : Revokes(d)) => sessions'[s].overlapped,
           \A d \in Calls : \/ auth'[d] = auth[d]
                            \/ /\ ~(Revokes(d)')
                               /\ auth'[d].step \in Issuing =>
                                     \/ auth'[d].overlapped
                                     \/ \A e \in Calls : ~Revokes(e)
                                     \/ auth[d].step \in Issuing /\ auth'[d].overlapped = auth[d].overlapped
    PROVE  \A d \in Calls : Marked(d)'
<1> SUFFICES ASSUME NEW d \in Calls, Revokes(d)'
             PROVE  /\ \A s \in Live' \ auth'[d].seen : sessions'[s].overlapped
                    /\ \A e \in Calls : auth'[e].step \in Issuing' => auth'[e].overlapped
  BY DEF Marked
<1>1. auth'[d] = auth[d] /\ Revokes(d)
  BY DEF Revokes
<1>2. /\ \A s \in Live \ auth[d].seen : sessions[s].overlapped
      /\ \A e \in Calls : auth[e].step \in Issuing => auth[e].overlapped
  BY <1>1 DEF RInv, Marked
<1>3. ASSUME NEW s \in Live', s \notin auth'[d].seen PROVE sessions'[s].overlapped
  <2>1. CASE s \in Live
    <3>1. s \in RefreshTokens /\ sessions[s].status # "absent"
      BY <2>1 DEF Live
    <3> QED BY <1>1, <1>2, <1>3, <2>1, <3>1, Aged
  <2>2. CASE s \notin Live
    BY <1>1, <1>3, <2>2
  <2> QED BY <2>1, <2>2
<1>4. ASSUME NEW e \in Calls, auth'[e].step \in Issuing' PROVE auth'[e].overlapped
  BY <1>1, <1>2, <1>4 DEF Issuing
<1> QED BY <1>3, <1>4

(* They are made right when somebody does.                                 *)
LEMMA SeesMarks ==
    ASSUME RInv, NEW c \in Calls, NEW step \in {"revoke", "finish"}, auth[c].step \notin Issuing,
           Sees(c, step), UNCHANGED sessions
    PROVE  \A d \in Calls : Marked(d)'
<1>1. auth \in [Calls -> AuthCall]
  BY DEF RInv, IInv, SessionsOK
<1>2. ASSUME NEW d \in Calls
      PROVE  /\ auth'[d].step \in Issuing => auth'[d].overlapped
             /\ d = c => auth'[d].seen = Live
             /\ d # c => auth'[d].step = auth[d].step /\ auth'[d].seen = auth[d].seen
             /\ d = c => auth'[d].step = step
  <2>1. CASE d = c
    BY <1>1, <2>1 DEF Sees, AuthCall, Issuing
  <2>2. CASE d # c
    BY <1>1, <2>2 DEF Sees, AuthCall
  <2> QED BY <2>1, <2>2
<1>3. ASSUME NEW d \in Calls, Revokes(d)', NEW s \in Live, s \notin auth'[d].seen
      PROVE  sessions[s].overlapped
  BY <1>2, <1>3 DEF RInv, Marked, Revokes
<1> QED BY <1>2, <1>3 DEF Marked, Live, Issuing

-----------------------------------------------------------------------------
(* A step that leaves the sessions alone.                                  *)
LEMMA Quiet ==
    ASSUME RInv, UNCHANGED sessions
    PROVE  Ages /\ Descends /\ Live' = Live
BY DEF Ages, Descends, Live

(* What is asked of a step; the rest follows from it.                      *)
Steady == /\ IInv' /\ RowsOK' /\ NobodyYet'
          /\ \A d \in Calls : Presented(d)'
          /\ Alone' /\ \A d \in Calls : Holding(d)'
          /\ \A d \in Calls : Marked(d)'

LEMMA SteadyIsEnough ==
    ASSUME RInv, Ages, Descends, UNCHANGED reused, Steady PROVE RInv'
BY AnswersStand DEF Steady, RInv

(* The rows stay what they should be, when the codes and the account do.   *)
LEMMA RowsKept ==
    ASSUME RInv, Ages, UNCHANGED <<account, codes>> PROVE RowsOK'
BY Aged DEF RInv, RowsOK

LEMMA BeginKeeps ==
    ASSUME RInv, IInv', NEW c \in Calls, NEW step \in {"issue", "claim", "detect", "spend"}, NEW on,
           Begin(c, step, on), UNCHANGED <<account, sessions, codes, reused>>,
           account.status # "absent",
           step = "issue" => on = "-",
           step \in {"claim", "detect"} /\ on # "-" =>
              on \in RefreshTokens /\ sessions[on].status \in {"live", "revoked"},
           step = "spend" => on \in Codes
    PROVE  RInv'
<1>1. Ages /\ Descends /\ Live' = Live
  BY Quiet
<1>2. /\ auth'[c].step = step /\ auth'[c].on = on
      /\ auth'[c].overlapped = (Revoking /\ step \in Issuing)
      /\ \A d \in Calls \ {c} : auth'[d] = auth[d]
  BY DEF Begin, RInv, IInv, SessionsOK, NoAuthCall
<1>3. Presented(c)'
  BY <1>2 DEF Presented
<1>4. \A d \in Calls : Presented(d)'
  BY <1>1, <1>2, <1>3, StaysPresented
<1>5. Alone' /\ \A d \in Calls : Holding(d)'
  <2>1. (auth'[c].step \in {"spend", "change", "finish"} => auth'[c].on \in Codes) /\ ~(Resetting(c)')
    BY <1>2 DEF Resetting
  <2> QED BY <1>2, <2>1, StaysHeld
<1>6. \A d \in Calls : Marked(d)'
  <2>1. ~(Revokes(c)') /\ (auth'[c].step \in Issuing =>
                           \/ auth'[c].overlapped
                           \/ \A e \in Calls : ~Revokes(e))
    BY <1>2 DEF Revokes, Revoking
  <2> QED BY <1>1, <1>2, <2>1, StaysMarked
<1>7. RowsOK' /\ NobodyYet'
  BY <1>1, RowsKept DEF NobodyYet
<1> QED BY <1>1, <1>4, <1>5, <1>6, <1>7, SteadyIsEnough DEF Steady

(* A call that ends, with the sessions as they are or as it leaves them.   *)
LEMMA EndKeeps ==
    ASSUME RInv, NEW c \in Calls, AuthEnds(c), Ages,
           \A s \in Live' \ Live : (\E d \in Calls : Revokes(d)) => sessions'[s].overlapped,
           \A k \in Codes : \/ Resetting(c) /\ k = auth[c].on
                            \/ codes'[k] = codes[k]
                            \/ codes[k] # NewCode("reset")
                            \/ \A d \in Calls : Resetting(d) => auth[d].on # k
    PROVE  /\ \A d \in Calls : Presented(d)' /\ Holding(d)' /\ Marked(d)'
           /\ Alone'
<1>1. /\ auth'[c] = NoAuthCall
      /\ \A d \in Calls \ {c} : auth'[d] = auth[d]
  BY DEF AuthEnds, RInv, IInv, SessionsOK
<1>2. Presented(c)'
  BY <1>1 DEF Presented, NoAuthCall
<1>3. \A d \in Calls : Presented(d)'
  BY <1>1, <1>2, StaysPresented
<1>4. Alone' /\ \A d \in Calls : Holding(d)'
  <2>1. auth'[c].step = "idle" /\ ~(Resetting(c)')
    BY <1>1 DEF Resetting, NoAuthCall
  <2>2. ASSUME NEW d \in Calls \ {c}, Resetting(d) PROVE codes'[auth[d].on] = codes[auth[d].on]
    <3>1. auth[d].on \in Codes /\ codes[auth[d].on] = NewCode("reset")
      BY <2>2 DEF RInv, Holding
    <3>2. ~(Resetting(c) /\ auth[d].on = auth[c].on)
      BY <2>2 DEF RInv, Alone
    <3> QED BY <2>2, <3>1, <3>2
  <2> QED BY <1>1, <2>1, <2>2, StaysHeld
<1>5. \A d \in Calls : Marked(d)'
  <2>1. ~(Revokes(c)') /\ auth'[c].step \notin Issuing
    BY <1>1 DEF Revokes, Issuing, NoAuthCall
  <2> QED BY <1>1, <2>1, StaysMarked
<1> QED BY <1>3, <1>4, <1>5

-----------------------------------------------------------------------------
LEMMA RegisterRevocable ==
    ASSUME RInv, IInv', Register PROVE RInv'
<1> DEFINE n == AnyOf(NewSessions)
           new == [NoSession EXCEPT !.status = "live", !.family = n]
<1>1. n \in RefreshTokens /\ sessions[n].status = "absent"
  BY AnyOfIn DEF Register, NewSessions
<1>2. new.status = "live" /\ new.family = n
  BY DEF NoSession
<1>3. sessions' = [sessions EXCEPT ![n] = new] /\ sessions \in [RefreshTokens -> Session]
  BY DEF Register, RInv, IInv, SessionsOK
<1> HIDE DEF n, new
<1>4. Ages /\ Live' \ Live = {n} /\ Descends
  BY <1>1, <1>2, <1>3 DEF Ages, Descends, Live
<1>5. \A d \in Calls : auth[d].step = "idle" /\ auth'[d] = auth[d]
  BY DEF Register, RInv, NobodyYet
<1>6. RowsOK'
  <2>1. account' \in [status: {"absent", "active", "deleted"}, password: Nat, verified: BOOLEAN]
    BY DEF Register, RInv, RowsOK
  <2>2. codes' \in [Codes -> Code]
    BY AnyOfIn DEF Register, RInv, RowsOK, NewCode, NewCodes, Code
  <2> QED BY <1>4, <2>1, <2>2, Aged DEF RowsOK
<1>7. \A d \in Calls : Presented(d)' /\ Holding(d)' /\ Marked(d)' /\ ~(Resetting(d)')
  BY <1>5 DEF Presented, Holding, Marked, Revokes, Resetting
<1>8. NobodyYet' /\ Alone'
  BY <1>5, <1>7 DEF NobodyYet, Alone
<1> QED BY <1>4, <1>6, <1>7, <1>8, SteadyIsEnough DEF Steady, Register

LEMMA IssueRevocable ==
    ASSUME RInv, IInv', NEW c \in Calls, Issue(c) PROVE RInv'
<1> DEFINE n == AnyOf(NewSessions)
           new == Issued(c, n)
<1>1. n \in RefreshTokens /\ sessions[n].status = "absent"
  BY AnyOfIn DEF Issue, NewSessions
<1>2. new.status = "live" /\ new.family = n /\ new.overlapped = auth[c].overlapped
  BY DEF Issued, NoSession
<1>3. sessions' = [sessions EXCEPT ![n] = new] /\ sessions \in [RefreshTokens -> Session]
  BY DEF Issue, RInv, IInv, SessionsOK
<1> HIDE DEF n, new
<1>4. Ages /\ Live' \ Live = {n} /\ Descends
  BY <1>1, <1>2, <1>3 DEF Ages, Descends, Live
<1>5. (\E d \in Calls : Revokes(d)) => sessions'[n].overlapped
  BY <1>1, <1>2, <1>3 DEF Issue, RInv, Marked, Issuing
<1>6. RowsOK' /\ NobodyYet'
  BY <1>4, RowsKept DEF Issue, RInv, NobodyYet
<1>7. /\ \A d \in Calls : Presented(d)' /\ Holding(d)' /\ Marked(d)'
      /\ Alone'
  BY <1>4, <1>5, EndKeeps DEF Issue
<1> QED BY <1>4, <1>6, <1>7, SteadyIsEnough DEF Steady, Issue

LEMMA ReplaceRevocable ==
    ASSUME RInv, IInv', NEW c \in Calls, Replace(c) PROVE RInv'
<1> DEFINE o == auth[c].on
           n == AnyOf(NewSessions)
           new == Issued(c, sessions[o].family)
<1>1. n \in RefreshTokens /\ sessions[n].status = "absent"
  BY AnyOfIn DEF Replace, NewSessions
<1>2. o \in Live /\ o \in RefreshTokens /\ sessions[o].status = "live" /\ n # o
  BY <1>1 DEF Replace, RInv, IInv, Held, Live
<1>3. new.status = "live" /\ new.family = sessions[o].family /\ new.overlapped = auth[c].overlapped
  BY DEF Issued, NoSession
<1>4. sessions \in [RefreshTokens -> Session] /\ auth[c].step = "commit"
  BY DEF Replace, RInv, IInv, SessionsOK
<1>5. /\ sessions'[n] = new
      /\ sessions'[o] = [sessions[o] EXCEPT !.status = "revoked"]
      /\ \A s \in RefreshTokens \ {n, o} : sessions'[s] = sessions[s]
  <2>1. sessions' = [[sessions EXCEPT ![o].status = "revoked"] EXCEPT ![n] = new]
    BY DEF Replace
  <2> HIDE DEF new, n
  <2> QED BY <1>1, <1>2, <1>4, <2>1
<1> HIDE DEF n, o, new
<1>6. sessions'[o].status = "revoked" /\ sessions'[o].family = sessions[o].family
      /\ sessions'[o].overlapped = sessions[o].overlapped
  BY <1>2, <1>4, <1>5 DEF Session
<1>7. Ages /\ Live' \ Live = {n} /\ Descends
  BY <1>1, <1>2, <1>3, <1>5, <1>6 DEF Ages, Descends, Live
<1>8. (\E d \in Calls : Revokes(d)) => sessions'[n].overlapped
  BY <1>3, <1>4, <1>5 DEF RInv, Marked, Issuing
<1>9. RowsOK' /\ NobodyYet'
  BY <1>4, <1>7, RowsKept DEF Replace, RInv, NobodyYet
<1>10. /\ \A d \in Calls : Presented(d)' /\ Holding(d)' /\ Marked(d)'
       /\ Alone'
  BY <1>7, <1>8, EndKeeps DEF Replace
<1> QED BY <1>7, <1>9, <1>10, SteadyIsEnough DEF Steady, Replace

LEMMA ClaimRevocable ==
    ASSUME RInv, IInv', NEW c \in Calls, ClaimSession(c) PROVE RInv'
<1> DEFINE a == IF auth[c].on \in Live THEN [auth[c] EXCEPT !.step = "commit"]
                ELSE [auth[c] EXCEPT !.step = "detect", !.overlapped = FALSE]
<1>1. auth[c].step = "claim" /\ auth \in [Calls -> AuthCall]
  BY DEF ClaimSession, RInv, IInv, SessionsOK
<1>2. auth' = [auth EXCEPT ![c] = a]
  BY DEF ClaimSession
<1>3. /\ a.on = auth[c].on /\ a.step \in {"commit", "detect"}
      /\ a.step = "commit" => a.overlapped = auth[c].overlapped
  BY <1>1 DEF AuthCall
<1> HIDE DEF a
<1>4. /\ auth'[c].on = auth[c].on /\ auth'[c].step \in {"commit", "detect"}
      /\ auth'[c].step = "commit" => auth'[c].overlapped = auth[c].overlapped
      /\ \A d \in Calls \ {c} : auth'[d] = auth[d]
  BY <1>1, <1>2, <1>3
<1>5. Ages /\ Descends /\ Live' = Live
  BY Quiet DEF ClaimSession
<1>6. Presented(c)'
  BY <1>1, <1>4 DEF RInv, Presented, ClaimSession
<1>7. \A d \in Calls : Presented(d)'
  BY <1>4, <1>5, <1>6, StaysPresented
<1>8. Alone' /\ \A d \in Calls : Holding(d)'
  <2>1. auth'[c].step \notin {"spend", "change", "finish"} /\ ~(Resetting(c)')
    BY <1>4 DEF Resetting
  <2> QED BY <1>4, <2>1, StaysHeld DEF ClaimSession
<1>9. \A d \in Calls : Marked(d)'
  <2>1. /\ ~(Revokes(c)')
        /\ auth'[c].step \in Issuing =>
              auth[c].step \in Issuing /\ auth'[c].overlapped = auth[c].overlapped
    BY <1>1, <1>4 DEF Revokes, Issuing
  <2> QED BY <1>4, <1>5, <2>1, StaysMarked
<1>10. RowsOK' /\ NobodyYet'
  BY <1>1, <1>5, RowsKept DEF ClaimSession, RInv, NobodyYet
<1> QED BY <1>5, <1>7, <1>8, <1>9, <1>10, SteadyIsEnough DEF Steady, ClaimSession

LEMMA SeesRevocable ==
    ASSUME RInv, IInv', NEW c \in Calls, Detect(c) \/ Change(c) PROVE RInv'
<1>1. PICK step \in {"revoke", "finish"} :
         /\ Sees(c, step)
         /\ step = "revoke" => auth[c].step = "detect"
         /\ step = "finish" => auth[c].step = "change"
  BY DEF Detect, Change
<1>2. auth \in [Calls -> AuthCall] /\ UNCHANGED <<account, sessions, codes, reused>>
  BY DEF Detect, Change, RInv, IInv, SessionsOK
<1>3. \A d \in Calls : /\ auth'[d].on = auth[d].on
                       /\ d = c => auth'[d].step = step
                       /\ d # c => auth'[d].step = auth[d].step
  <2>1. auth'[c].on = auth[c].on /\ auth'[c].step = step
    BY <1>1, <1>2 DEF Sees, AuthCall
  <2>2. ASSUME NEW d \in Calls \ {c} PROVE auth'[d].on = auth[d].on /\ auth'[d].step = auth[d].step
    BY <1>1, <1>2 DEF Sees, AuthCall
  <2> QED BY <2>1, <2>2
<1>4. Ages /\ Descends /\ Live' = Live
  BY <1>2, Quiet
<1>5. \A d \in Calls : Presented(d)'
  <2>1. step = "finish" => Presented(c)'
    BY <1>3 DEF Presented
  <2> QED BY <1>1, <1>3, <1>4, <2>1, StaysPresented
<1>6. Alone' /\ \A d \in Calls : Holding(d)'
  <2>1. step = "revoke" => auth'[c].step \notin {"spend", "change", "finish"} /\ ~(Resetting(c)')
    BY <1>3 DEF Resetting
  <2>2. step = "finish" => Resetting(c)' /\ Resetting(c)
    BY <1>1, <1>3 DEF Resetting
  <2> QED BY <1>1, <1>2, <1>3, <2>1, <2>2, StaysHeld
<1>7. \A d \in Calls : Marked(d)'
  <2>1. auth[c].step \notin Issuing
    BY <1>1 DEF Issuing
  <2> QED BY <1>1, <1>2, <2>1, SeesMarks
<1>8. RowsOK' /\ NobodyYet'
  BY <1>1, <1>2, <1>4, RowsKept DEF RInv, NobodyYet
<1> QED BY <1>2, <1>4, <1>5, <1>6, <1>7, <1>8, SteadyIsEnough DEF Steady

(* Revoking what was seen.                                                 *)
LEMMA RevokedAges ==
    ASSUME RInv, NEW c \in Calls, sessions' = Revoked(c), Revokes(c)
    PROVE  /\ Ages /\ Descends
           /\ \A s \in Live' : s \in Live /\ sessions'[s] = sessions[s] /\ sessions[s].overlapped
<1>1. sessions \in [RefreshTokens -> Session]
  BY DEF RInv, IInv, SessionsOK
<1>2. ASSUME NEW s \in RefreshTokens
      PROVE  \/ sessions'[s] = sessions[s] /\ (s \notin auth[c].seen \/ s \notin Live)
             \/ /\ sessions[s].status = "live" /\ sessions'[s].status = "revoked"
                /\ sessions'[s].family = sessions[s].family
                /\ sessions'[s].overlapped = sessions[s].overlapped
  BY <1>1 DEF Revoked, Live, Session
<1>3. Ages
  BY <1>2 DEF Ages
<1>4. \A s \in Live' : s \in Live /\ sessions'[s] = sessions[s] /\ s \notin auth[c].seen
  BY <1>2 DEF Live
<1> QED BY <1>3, <1>4 DEF Descends, RInv, Marked

LEMMA RevokeAllRevocable ==
    ASSUME RInv, IInv', NEW c \in Calls, RevokeAll(c) PROVE RInv'
<1>1. Revokes(c) /\ auth[c].step = "revoke"
  BY DEF RevokeAll, Revokes
<1>2. /\ Ages /\ Descends
      /\ \A s \in Live' : s \in Live /\ sessions'[s] = sessions[s] /\ sessions[s].overlapped
  BY <1>1, RevokedAges DEF RevokeAll
<1>3. /\ \A d \in Calls : Presented(d)' /\ Holding(d)' /\ Marked(d)'
      /\ Alone'
  BY <1>2, EndKeeps DEF RevokeAll
<1>4. RowsOK' /\ NobodyYet'
  BY <1>1, <1>2, RowsKept DEF RevokeAll, RInv, NobodyYet
<1>5. Answered'
  <2>1. ASSUME NEW f \in reused PROVE f \in RefreshTokens /\ sessions'[f].status # "absent"
    BY <1>2, Aged DEF RInv, Answered
  <2>2. ASSUME auth[c].on # "-"
        PROVE  /\ sessions[auth[c].on].family \in RefreshTokens
               /\ sessions'[sessions[auth[c].on].family].status # "absent"
    <3>1. auth[c].on \in RefreshTokens /\ sessions[auth[c].on].status \in {"live", "revoked"}
      BY <1>1, <2>2 DEF RInv, Presented
    <3>2. /\ sessions[auth[c].on].family \in RefreshTokens
          /\ sessions[sessions[auth[c].on].family].status # "absent"
      BY <3>1 DEF RInv, IInv, Rooted
    <3> QED BY <1>2, <3>2, Aged
  <2> QED BY <2>1, <2>2 DEF RevokeAll, Answered
<1>6. ReuseEndsLogin'
  <2>1. \A s \in Live' : s \in RefreshTokens
    BY DEF Live
  <2> QED BY <1>2, <2>1 DEF ReuseEndsLogin
<1> QED BY <1>3, <1>4, <1>5, <1>6 DEF RInv

LEMMA FinishRevocable ==
    ASSUME RInv, IInv', NEW c \in Calls, Finish(c) PROVE RInv'
<1>1. Revokes(c) /\ Resetting(c)
  BY DEF Finish, Revokes, Resetting
<1>2. /\ Ages /\ Descends
      /\ \A s \in Live' : s \in Live /\ sessions'[s] = sessions[s] /\ sessions[s].overlapped
  BY <1>1, RevokedAges DEF Finish
<1>3. codes' = [codes EXCEPT ![auth[c].on].status = "consumed"] /\ codes \in [Codes -> Code]
  BY DEF Finish, RInv, RowsOK
<1>4. \A k \in Codes : k = auth[c].on \/ codes'[k] = codes[k]
  BY <1>3
<1>5. /\ \A d \in Calls : Presented(d)' /\ Holding(d)' /\ Marked(d)'
      /\ Alone'
  BY <1>1, <1>2, <1>4, EndKeeps DEF Finish
<1>6. RowsOK'
  <2>1. codes' \in [Codes -> Code]
    BY <1>3 DEF Code
  <2>2. account' \in [status: {"absent", "active", "deleted"}, password: Nat, verified: BOOLEAN]
    BY DEF Finish, RInv, RowsOK
  <2> QED BY <1>2, <2>1, <2>2, Aged DEF RowsOK
<1>7. NobodyYet'
  BY <1>1 DEF Finish, RInv, RowsOK, NobodyYet, Revokes
<1> QED BY <1>2, <1>5, <1>6, <1>7, SteadyIsEnough DEF Steady, Finish

-----------------------------------------------------------------------------
LEMMA SpendRevocable ==
    ASSUME RInv, IInv', NEW c \in Calls, Spend(c) PROVE RInv'
<1>1. auth[c].step = "spend" /\ auth[c].on \in Codes /\ ~Claimed(auth[c].on)
  BY DEF Spend, RInv, Holding
<1>2. Ages /\ Descends /\ Live' = Live
  BY Quiet DEF Spend
<1>3. account.status # "absent"
  BY <1>1 DEF RInv, NobodyYet
<1>4. \A d \in Calls : Resetting(d) => auth[d].on # auth[c].on
  BY <1>1 DEF Resetting, Claimed
<1>5. CASE AuthEnds(c)
  <2>1. \A k \in Codes : codes'[k] = codes[k] \/ k = auth[c].on
    BY DEF Spend, RInv, RowsOK
  <2>2. /\ \A d \in Calls : Presented(d)' /\ Holding(d)' /\ Marked(d)'
        /\ Alone'
    BY <1>2, <1>4, <1>5, <2>1, EndKeeps
  <2>3. RowsOK' /\ NobodyYet'
    <3>1. CASE UNCHANGED <<account, codes>>
      BY <1>2, <1>3, <3>1, RowsKept DEF NobodyYet
    <3>2. CASE /\ codes' = [codes EXCEPT ![auth[c].on].status = "consumed"]
               /\ account' = [account EXCEPT !.verified = TRUE]
      <4>1. codes' \in [Codes -> Code]
        BY <3>2 DEF RInv, RowsOK, Code
      <4>2. /\ account' \in [status: {"absent", "active", "deleted"}, password: Nat, verified: BOOLEAN]
            /\ account'.status # "absent"
        BY <1>3, <3>2 DEF RInv, RowsOK
      <4> QED BY <1>2, <4>1, <4>2, Aged DEF RowsOK, NobodyYet
    <3> QED BY <3>1, <3>2 DEF Spend
  <2> QED BY <1>2, <2>2, <2>3, SteadyIsEnough DEF Steady, Spend
<1>6. CASE /\ AuthGoes(c, "change") /\ UNCHANGED <<account, codes>>
           /\ Spendable(auth[c].on) /\ codes[auth[c].on].kind = "reset"
  <2>1. auth \in [Calls -> AuthCall]
    BY DEF RInv, IInv, SessionsOK
  <2>2. /\ auth'[c].step = "change" /\ auth'[c].on = auth[c].on
        /\ \A d \in Calls \ {c} : auth'[d] = auth[d]
    BY <1>6, <2>1 DEF AuthGoes, AuthCall
  <2>3. Presented(c)'
    BY <2>2 DEF Presented
  <2>4. \A d \in Calls : Presented(d)'
    BY <1>2, <2>2, <2>3, StaysPresented
  <2>5. codes[auth[c].on] = NewCode("reset")
    BY <1>1, <1>6 DEF RInv, RowsOK, Code, NewCode, Spendable, Usable
  <2>6. \A d \in Calls : Holding(d)'
    BY <1>1, <1>6, <2>2, <2>5 DEF RInv, Holding, Resetting, NewCode
  <2>7. Alone'
    BY <1>4, <2>2 DEF RInv, Alone, Resetting
  <2>8. \A d \in Calls : Marked(d)'
    <3>1. ~(Revokes(c)') /\ auth'[c].step \notin Issuing
      BY <2>2 DEF Revokes, Issuing
    <3> QED BY <1>2, <2>2, <3>1, StaysMarked
  <2>9. RowsOK' /\ NobodyYet'
    BY <1>2, <1>3, <1>6, RowsKept DEF NobodyYet
  <2> QED BY <1>2, <2>4, <2>6, <2>7, <2>8, <2>9, SteadyIsEnough DEF Steady, Spend
<1> QED BY <1>5, <1>6 DEF Spend

LEMMA AuthFailsRevocable ==
    ASSUME RInv, IInv', NEW c \in Calls, AuthFails(c) PROVE RInv'
<1>1. Ages /\ Descends /\ Live' = Live
  BY Quiet DEF AuthFails
<1>2. /\ \A d \in Calls : Presented(d)' /\ Holding(d)' /\ Marked(d)'
      /\ Alone'
  BY <1>1, EndKeeps DEF AuthFails
<1>3. RowsOK' /\ NobodyYet'
  BY <1>1, RowsKept DEF AuthFails, RInv, NobodyYet
<1> QED BY <1>1, <1>2, <1>3, SteadyIsEnough DEF Steady, AuthFails

LEMMA AskCodeRevocable ==
    ASSUME RInv, IInv', NEW kind \in {"verify", "reset"}, NEW unseen \in SUBSET Codes,
           AskCode(kind, unseen)
    PROVE  RInv'
<1>1. Ages /\ Descends /\ Live' = Live
  BY Quiet DEF AskCode
<1>2. AnyOf(NewCodes) \in Codes /\ codes[AnyOf(NewCodes)].status = "absent"
  BY AnyOfIn DEF AskCode, NewCodes
<1>3. ASSUME NEW d \in Calls, Resetting(d) PROVE codes'[auth[d].on] = codes[auth[d].on]
  <2>1. auth[d].on \in Codes /\ codes[auth[d].on] = NewCode("reset")
    BY <1>3 DEF RInv, Holding
  <2>2. Claimed(auth[d].on)
    BY <1>3 DEF Claimed, Resetting
  <2> QED BY <1>2, <2>1, <2>2 DEF AskCode, NewCode
<1>4. Alone' /\ \A d \in Calls : Holding(d)'
  BY <1>3, StaysHeld DEF AskCode
<1>5. \A d \in Calls : Presented(d)' /\ Marked(d)'
  BY <1>1, StaysPresented, StaysMarked DEF AskCode
<1>6. RowsOK'
  <2>1. codes' \in [Codes -> Code]
    <3>1. \A k \in Codes : codes'[k] \in Code
      BY DEF AskCode, RInv, RowsOK, Code, NewCode
    <3>2. codes' = [k \in Codes |-> codes'[k]]
      BY DEF AskCode
    <3> QED BY <3>1, <3>2
  <2> QED BY <1>1, <2>1, Aged DEF AskCode, RInv, RowsOK
<1>7. NobodyYet'
  BY DEF AskCode, RInv, NobodyYet
<1> QED BY <1>1, <1>4, <1>5, <1>6, <1>7, SteadyIsEnough DEF Steady, AskCode

LEMMA LogoutRevocable ==
    ASSUME RInv, IInv', NEW s \in RefreshTokens, Logout(s) PROVE RInv'
<1>1. sessions \in [RefreshTokens -> Session]
  BY DEF RInv, IInv, SessionsOK
<1>2. Ages /\ Live' \subseteq Live
  BY <1>1 DEF Logout, Ages, Live, Session
<1>3. Descends
  BY <1>2 DEF Descends
<1>4. \A d \in Calls : Presented(d)' /\ Marked(d)'
  BY <1>2, StaysPresented, StaysMarked DEF Logout
<1>5. Alone' /\ \A d \in Calls : Holding(d)'
  BY StaysHeld DEF Logout
<1>6. RowsOK' /\ NobodyYet'
  BY <1>2, RowsKept DEF Logout, RInv, NobodyYet
<1> QED BY <1>2, <1>3, <1>4, <1>5, <1>6, SteadyIsEnough DEF Steady, Logout

LEMMA DeletedRevocable ==
    ASSUME RInv, IInv', DeleteAccount PROVE RInv'
<1>1. Ages /\ Descends /\ Live' = Live
  BY Quiet DEF DeleteAccount
<1>2. \A d \in Calls : Presented(d)' /\ Marked(d)'
  BY <1>1, StaysPresented, StaysMarked DEF DeleteAccount
<1>3. Alone' /\ \A d \in Calls : Holding(d)'
  BY StaysHeld DEF DeleteAccount
<1>4. /\ account' \in [status: {"absent", "active", "deleted"}, password: Nat, verified: BOOLEAN]
      /\ account'.status = "deleted"
  BY DEF DeleteAccount, RInv, RowsOK
<1>5. RowsOK' /\ NobodyYet'
  BY <1>1, <1>4, Aged DEF DeleteAccount, RInv, RowsOK, NobodyYet
<1> QED BY <1>1, <1>2, <1>3, <1>5, SteadyIsEnough DEF Steady, DeleteAccount

LEMMA NextRevocable == RInv /\ [AuthNext]_authVars => RInv'
<1> SUFFICES ASSUME RInv, [AuthNext]_authVars PROVE RInv'
  OBVIOUS
<1>0. IInv'
  BY NextOneLive DEF RInv
<1>1. CASE UNCHANGED authVars
  <2>1. Ages /\ Descends /\ Live' = Live
    BY <1>1, Quiet DEF authVars
  <2>2. \A d \in Calls : Presented(d)' /\ Marked(d)'
    BY <1>1, <2>1, StaysPresented, StaysMarked DEF authVars
  <2>3. Alone' /\ \A d \in Calls : Holding(d)'
    BY <1>1, StaysHeld DEF authVars
  <2>4. RowsOK' /\ NobodyYet'
    BY <1>1, <2>1, RowsKept DEF authVars, RInv, NobodyYet
  <2> QED BY <1>0, <1>1, <2>1, <2>2, <2>3, <2>4, SteadyIsEnough DEF Steady, authVars
<1>2. CASE Register
  BY <1>0, <1>2, RegisterRevocable
<1>3. CASE DeleteAccount
  BY <1>0, <1>3, DeletedRevocable
<1>4. ASSUME NEW c \in Calls, Login(c) PROVE RInv'
  BY <1>0, <1>4, BeginKeeps DEF Login
<1>5. ASSUME NEW c \in Calls, Issue(c) PROVE RInv'
  BY <1>0, <1>5, IssueRevocable
<1>6. ASSUME NEW c \in Calls, ClaimSession(c) PROVE RInv'
  BY <1>0, <1>6, ClaimRevocable
<1>7. ASSUME NEW c \in Calls, Replace(c) PROVE RInv'
  BY <1>0, <1>7, ReplaceRevocable
<1>8. ASSUME NEW c \in Calls, Detect(c) \/ Change(c) PROVE RInv'
  BY <1>0, <1>8, SeesRevocable
<1>9. ASSUME NEW c \in Calls, RevokeAll(c) PROVE RInv'
  BY <1>0, <1>9, RevokeAllRevocable
<1>10. ASSUME NEW c \in Calls, Spend(c) PROVE RInv'
  BY <1>0, <1>10, SpendRevocable
<1>11. ASSUME NEW c \in Calls, Finish(c) PROVE RInv'
  BY <1>0, <1>11, FinishRevocable
<1>12. ASSUME NEW c \in Calls, AuthFails(c) PROVE RInv'
  BY <1>0, <1>12, AuthFailsRevocable
<1>13. ASSUME NEW c \in Calls, NEW s \in RefreshTokens, Rotate(c, s) PROVE RInv'
  <2>1. CASE Begin(c, "detect", "-")
    BY <1>0, <1>13, <2>1, BeginKeeps DEF Rotate, RInv, RowsOK
  <2>2. CASE Begin(c, "detect", s)
    BY <1>0, <1>13, <2>2, BeginKeeps DEF Rotate
  <2>3. CASE Begin(c, "claim", s)
    BY <1>0, <1>13, <2>3, BeginKeeps DEF Rotate
  <2> QED BY <1>13, <2>1, <2>2, <2>3 DEF Rotate
<1>14. ASSUME NEW kind \in {"verify", "reset"}, NEW unseen \in SUBSET Codes, AskCode(kind, unseen)
       PROVE  RInv'
  BY <1>0, <1>14, AskCodeRevocable
<1>15. ASSUME NEW c \in Calls, NEW k \in Codes, VerifyEmail(c, k) \/ ResetPassword(c, k)
       PROVE  RInv'
  BY <1>0, <1>15, BeginKeeps DEF VerifyEmail, ResetPassword
<1>16. ASSUME NEW s \in RefreshTokens, Logout(s) PROVE RInv'
  BY <1>0, <1>16, LogoutRevocable
<1> QED BY <1>1, <1>2, <1>3, <1>4, <1>5, <1>6, <1>7, <1>8, <1>9, <1>10, <1>11, <1>12, <1>13,
           <1>14, <1>15, <1>16 DEF AuthNext

-----------------------------------------------------------------------------
(* What a step that changes the password does besides.                     *)
Resets ==
    account'.password # account.password =>
       /\ account'.password = account.password + 1
       /\ \E k \in Codes : /\ codes[k] = NewCode("reset")
                          /\ codes' = [codes EXCEPT ![k].status = "consumed"]
       /\ \A s \in RefreshTokens : sessions'[s].status = "live" => sessions'[s].overlapped

LEMMA ResetIsFinal == RInv /\ [AuthNext]_authVars => [Resets]_authVars
<1> SUFFICES ASSUME RInv, AuthNext, account'.password # account.password PROVE Resets
  BY DEF Resets
<1>1. account \in [status: {"absent", "active", "deleted"}, password: Nat, verified: BOOLEAN]
  BY DEF RInv, RowsOK
<1>2. PICK c \in Calls : Finish(c)
  <2>1. ~Register /\ ~DeleteAccount
    BY <1>1 DEF Register, DeleteAccount
  <2>2. \A c \in Calls : ~Spend(c)
    BY <1>1 DEF Spend
  <2>3. \A c \in Calls : ~(Login(c) \/ Issue(c) \/ ClaimSession(c) \/ Replace(c) \/ Detect(c)
                           \/ RevokeAll(c) \/ Change(c) \/ AuthFails(c))
    BY DEF Login, Issue, ClaimSession, Replace, Detect, RevokeAll, Change, AuthFails
  <2>4. \A c \in Calls, s \in RefreshTokens : ~Rotate(c, s)
    BY DEF Rotate
  <2>5. \A kind \in {"verify", "reset"}, unseen \in SUBSET Codes : ~AskCode(kind, unseen)
    BY DEF AskCode
  <2>6. \A c \in Calls, k \in Codes : ~(VerifyEmail(c, k) \/ ResetPassword(c, k))
    BY DEF VerifyEmail, ResetPassword
  <2>7. \A s \in RefreshTokens : ~Logout(s)
    BY DEF Logout
  <2> QED BY <2>1, <2>2, <2>3, <2>4, <2>5, <2>6, <2>7 DEF AuthNext
<1>3. account'.password = account.password + 1
  BY <1>1, <1>2 DEF Finish
<1>4. /\ auth[c].on \in Codes /\ codes[auth[c].on] = NewCode("reset")
      /\ codes' = [codes EXCEPT ![auth[c].on].status = "consumed"]
  BY <1>2 DEF Finish, RInv, Holding, Resetting
<1>5. \A s \in Live' : sessions'[s].overlapped
  BY <1>2, RevokedAges DEF Finish, Revokes
<1>6. \A s \in RefreshTokens : sessions'[s].status = "live" => sessions'[s].overlapped
  BY <1>5 DEF Live
<1> QED BY <1>3, <1>4, <1>6 DEF Resets

(* However many calls, resets and answers to reused tokens overlap, and    *)
(* wherever one of them fails: nothing is left of a login whose token was  *)
(* reused, and no session survives a reset, which takes one open code,     *)
(* but for sessions of calls that were under way at that moment.           *)
(* features/auth/src/render.ts rotate, revokeAllSessions, resetPassword.   *)
THEOREM RevocationIsFinal ==
    ASSUME NEW S, NEW K PROVE AuthSpec(S, K) => RevocationEndsSessions
<1>1. AuthInit(S, K) => RInv
  BY InitRevocable
<1>2. RInv => ReuseEndsLogin
  BY DEF RInv
<1>3. AuthSpec(S, K) => []ReuseEndsLogin
  BY <1>1, <1>2, NextRevocable, PTL DEF AuthSpec
<1>4. AuthSpec(S, K) => ResetEndsSessions
  <2>1. AuthSpec(S, K) => [][Resets]_authVars
    BY <1>1, NextRevocable, ResetIsFinal, PTL DEF AuthSpec
  <2> QED BY <2>1 DEF Resets, ResetEndsSessions
<1> QED BY <1>3, <1>4 DEF RevocationEndsSessions

-----------------------------------------------------------------------------
(* Uploads.                                                                *)
UploadSpec(A, C, W) == UploadInit(A, C, W) /\ [][UploadNext]_uploadVars

(* The row of a call and of a sweep, once it has been removed, stays so.   *)
Dead(a) == files[a].status \in {"DELETING", "gone"}
Signed(a) == tickets[a].step = "issued"
InTime(a) == Signed(a) /\ ~tickets[a].late

(* The URL of a row expires by the time the row is PresignTtl old, unless  *)
(* it was signed late; before it is created a row has neither.             *)
Expires(a) == /\ InTime(a) => tickets[a].left = 0 \/ tickets[a].left + files[a].age <= PresignTtl
              /\ files[a].status = "absent" => files[a].age = 0 /\ tickets[a].step = "none"
              /\ tickets[a].left > 0 => Signed(a)

(* A completion that is about to mark a row READY has seen the object that *)
(* was declared, which nobody touches while the row is not removed; one    *)
(* that discards an object has seen another.  A removal that goes on to    *)
(* the row leaves no object, and no URL to put one with.                   *)
Judged(c) ==
    LET a == upcall[c].row
    IN  /\ upcall[c].step \notin {"away", "idle"} => a \in Attachments /\ files[a].status # "absent"
        /\ upcall[c].step = "ready" => a \in mismatched \/ objects[a] = "declared" \/ Dead(a)
        /\ upcall[c].step = "discard" => a \in mismatched
        /\ upcall[c].step \in {"delete", "drop"} => Dead(a)
        /\ upcall[c].step \in {"mark", "delete", "drop"} => Signed(a)
        /\ upcall[c].step = "drop" /\ ~upcall[c].early => tickets[a].left = 0 /\ objects[a] = "none"

(* A sweep has old rows before it, which it removes or has seen removed.   *)
Old(a) == a \in Attachments /\ files[a].status # "absent" /\ files[a].age > StaleAfter
Sound(sweep) ==
    /\ sweep.rows \in Seq(Attachments) /\ Len(sweep.rows) <= CleanupSize
    /\ \A i \in DOMAIN sweep.rows : /\ Old(sweep.rows[i])
                                    /\ \/ sweep.rows[i] \in sweep.uploading
                                       \/ Dead(sweep.rows[i])
    /\ sweep.step \in {"claim", "delete", "drop", "touch"} => sweep.rows # <<>>
    /\ sweep.step \in {"delete", "drop", "touch"} => Dead(sweep.rows[1])
    /\ sweep.step = "drop" /\ InTime(sweep.rows[1]) => objects[sweep.rows[1]] = "none"
Swept(s) == Sound(cleanup[s])

(* The order of the rows has every one that exists, once.                  *)
InOrder == /\ touched \in Seq(Attachments)
           /\ Among(touched) = {a \in Attachments : Exists(a)}
           /\ \A i, k \in DOMAIN touched : touched[i] = touched[k] => i = k

Sweeping == [step: {"away", "idle", "next", "claim", "delete", "drop", "touch"},
             rows: Seq(Attachments), uploading: SUBSET Attachments]
UploadTypes == /\ files \in [Attachments -> File]
               /\ tickets \in [Attachments -> Ticket]
               /\ objects \in [Attachments -> {"none", "declared", "other"}]
               /\ mismatched \subseteq Attachments
               /\ upcall \in [Uploaders -> Upcall]
               /\ cleanup \in [Sweepers -> Sweeping]
               /\ storageFaults \in 0 .. MaxStorageFaults

UInv == /\ UploadTypes /\ InOrder
        /\ \A a \in Attachments : Expires(a)
        /\ \A c \in Uploaders : Judged(c)
        /\ \A s \in Sweepers : Swept(s)
        /\ ReadyIsVerified

-----------------------------------------------------------------------------
(* The order without one of its rows.                                      *)
LEMMA ButOne ==
    ASSUME InOrder, NEW a \in Among(touched)
    PROVE  /\ TouchedBut(a) \in Seq(Attachments)
           /\ Among(TouchedBut(a)) = Among(touched) \ {a}
           /\ \A i, k \in DOMAIN TouchedBut(a) : TouchedBut(a)[i] = TouchedBut(a)[k] => i = k
<1> DEFINE p == CHOOSE i \in DOMAIN touched : touched[i] = a
           t == TouchedBut(a)
           n == Len(touched)
<1>1. n \in Nat /\ DOMAIN touched = 1 .. n /\ \A i \in 1 .. n : touched[i] \in Attachments
  BY DEF InOrder
<1>2. p \in 1 .. n /\ touched[p] = a
  <2>1. \E i \in DOMAIN touched : touched[i] = a
    BY DEF Among
  <2> QED BY <1>1, <2>1
<1>3. t = [i \in 1 .. n - 1 |-> touched[IF i < p THEN i ELSE i + 1]]
  BY DEF TouchedBut
<1> HIDE DEF p, t
<1>4. n - 1 \in Nat /\ DOMAIN t = 1 .. n - 1
  BY <1>1, <1>2, <1>3
<1>5. \A i \in 1 .. n - 1 : /\ i < p => t[i] = touched[i] /\ i \in 1 .. n
                            /\ ~(i < p) => t[i] = touched[i + 1] /\ i + 1 \in 1 .. n
  BY <1>1, <1>2, <1>3
<1>6. t \in Seq(Attachments)
  BY <1>1, <1>3, <1>4, <1>5
<1>7. \A i, k \in 1 .. n : touched[i] = touched[k] => i = k
  BY <1>1 DEF InOrder
<1>8. \A i, k \in 1 .. n - 1 : t[i] = t[k] => i = k
  <2> SUFFICES ASSUME NEW i \in 1 .. n - 1, NEW k \in 1 .. n - 1, t[i] = t[k] PROVE i = k
    OBVIOUS
  <2> DEFINE u == IF i < p THEN i ELSE i + 1
             v == IF k < p THEN k ELSE k + 1
  <2>1. u \in 1 .. n /\ v \in 1 .. n /\ touched[u] = touched[v]
    BY <1>1, <1>5
  <2>2. u = v
    BY <1>7, <2>1
  <2> QED BY <1>1, <1>2, <2>2
<1>9. ASSUME NEW b PROVE (\E i \in 1 .. n - 1 : t[i] = b) <=> (\E i \in 1 .. n : touched[i] = b) /\ b # a
  <2>1. ASSUME NEW i \in 1 .. n - 1, t[i] = b PROVE (\E k \in 1 .. n : touched[k] = b) /\ b # a
    <3>1. i < p => touched[i] = b /\ i \in 1 .. n /\ i # p
      BY <1>1, <1>2, <1>5, <2>1
    <3>2. ~(i < p) => touched[i + 1] = b /\ i + 1 \in 1 .. n /\ i + 1 # p
      BY <1>1, <1>2, <1>5, <2>1
    <3> QED BY <1>2, <1>7, <3>1, <3>2
  <2>2. ASSUME NEW k \in 1 .. n, touched[k] = b, b # a PROVE \E i \in 1 .. n - 1 : t[i] = b
    <3>1. CASE k < p
      <4>1. k \in 1 .. n - 1
        BY <1>1, <1>2, <3>1
      <4> QED BY <1>5, <2>2, <3>1, <4>1
    <3>2. CASE ~(k < p)
      <4>1. k # p
        BY <1>2, <2>2
      <4>2. k - 1 \in 1 .. n - 1 /\ ~(k - 1 < p) /\ (k - 1) + 1 = k
        BY <1>1, <1>2, <3>2, <4>1
      <4> QED BY <1>5, <2>2, <4>2
    <3> QED BY <3>1, <3>2
  <2> QED BY <2>1, <2>2
<1>10. Among(t) = Among(touched) \ {a}
  BY <1>1, <1>4, <1>9 DEF Among
<1> QED BY <1>4, <1>6, <1>8, <1>10 DEF t

(* A row put behind the others.                                            *)
LEMMA Behind ==
    ASSUME NEW s \in Seq(Attachments), NEW a \in Attachments, a \notin Among(s),
           \A i, k \in DOMAIN s : s[i] = s[k] => i = k
    PROVE  /\ Append(s, a) \in Seq(Attachments)
           /\ Among(Append(s, a)) = Among(s) \cup {a}
           /\ \A i, k \in DOMAIN Append(s, a) : Append(s, a)[i] = Append(s, a)[k] => i = k
<1> DEFINE t == Append(s, a)
           n == Len(s)
<1>1. n \in Nat /\ DOMAIN s = 1 .. n
  OBVIOUS
<1>2. /\ t \in Seq(Attachments) /\ DOMAIN t = 1 .. n + 1 /\ t[n + 1] = a
      /\ \A i \in 1 .. n : t[i] = s[i]
  OBVIOUS
<1> HIDE DEF t, n
<1>3. \A i \in 1 .. n + 1 : i = n + 1 \/ i \in 1 .. n
  BY <1>1
<1>4. \A i \in 1 .. n : s[i] # a
  BY <1>1 DEF Among
<1>5. \A i, k \in 1 .. n + 1 : t[i] = t[k] => i = k
  BY <1>1, <1>2, <1>3, <1>4
<1>6. n + 1 \in 1 .. n + 1 /\ \A i \in 1 .. n : i \in 1 .. n + 1
  BY <1>1
<1>7. Among(t) = Among(s) \cup {a}
  BY <1>1, <1>2, <1>3, <1>6 DEF Among
<1> QED BY <1>2, <1>5, <1>7 DEF t

(* The rows a sweep can start with.                                        *)
LEMMA BatchRows ==
    ASSUME UInv, NEW batch \in Batches
    PROVE  /\ batch \in Seq(Attachments) /\ Len(batch) <= CleanupSize
           /\ \A i \in DOMAIN batch : Stale(batch[i])
<1> DEFINE stale == {i \in DOMAIN touched : Stale(touched[i])}
           size  == IF Cardinality(stale) < CleanupSize THEN Cardinality(stale) ELSE CleanupSize
<1>1. touched \in Seq(Attachments) /\ DOMAIN touched = 1 .. Len(touched) /\ Len(touched) \in Nat
  BY DEF UInv, InOrder
<1>2. IsFiniteSet(stale)
  <2>1. IsFiniteSet(1 .. Len(touched))
    BY <1>1, FS_Interval
  <2>2. stale \subseteq 1 .. Len(touched)
    BY <1>1
  <2> HIDE DEF stale
  <2> QED BY <2>1, <2>2, FS_Subset
<1>3. size \in Nat /\ size <= CleanupSize
  BY <1>2, FS_CardinalityType, UploadsAssumption
<1> HIDE DEF size
<1>4. PICK p \in [1 .. size -> stale] : batch = [k \in 1 .. size |-> touched[p[k]]]
  BY DEF Batches, size
<1>5. \A k \in 1 .. size : batch[k] \in Attachments /\ Stale(batch[k])
  BY <1>1, <1>4
<1> QED BY <1>3, <1>4, <1>5

-----------------------------------------------------------------------------
(* What a step may do to a row, its URL and its object: an object that is  *)
(* not the declared one for sure, or of a row that was removed, may go,    *)
(* and one may be put as long as the URL is good.                          *)
Onward == \A a \in Attachments :
    /\ files'[a].status = "absent" => files[a].status = "absent"
    /\ Dead(a) => Dead(a)'
    /\ files'[a].age >= files[a].age
    /\ a \in mismatched => a \in mismatched'
    /\ Signed(a) => Signed(a)'
    /\ Signed(a) /\ tickets[a].left = 0 => tickets'[a].left = 0
    /\ InTime(a)' => InTime(a) \/ files[a].age = 0
    /\ \/ objects'[a] = objects[a]
       \/ objects[a] = "none" /\ tickets[a].left > 0
       \/ objects'[a] = "none" /\ (a \in mismatched \/ Dead(a))

(* A call that does nothing sees what it saw.                              *)
LEMMA JudgedStays ==
    ASSUME UInv, Onward, NEW c \in Uploaders, upcall'[c] = upcall[c]
    PROVE  Judged(c)'
<1> DEFINE a == upcall[c].row
<1>1. Judged(c)
  BY DEF UInv
<1>2. CASE upcall[c].step \in {"away", "idle"}
  BY <1>2 DEF Judged
<1>3. CASE upcall[c].step \notin {"away", "idle"}
  <2>1. a \in Attachments
    BY <1>1, <1>3 DEF Judged
  <2>2. tickets[a].left \in Nat
    BY <2>1, UploadsAssumption DEF UInv, UploadTypes, Ticket
  <2> QED BY <1>1, <2>1, <2>2 DEF Judged, Onward, Dead
<1> QED BY <1>2, <1>3

(* An old row has an expired URL, if that was signed in time.              *)
LEMMA OldExpired ==
    ASSUME UInv, NEW a \in Attachments, InTime(a), files[a].age >= PresignTtl
    PROVE  tickets[a].left = 0
<1>1. tickets[a].left \in Nat /\ files[a].age \in Nat
  BY UploadsAssumption DEF UInv, UploadTypes, Ticket, File
<1> QED BY <1>1, UploadsAssumption DEF UInv, Expires

LEMMA SoundStays ==
    ASSUME UInv, Onward, UploadTypes', NEW sweep \in Sweeping, Sound(sweep)
    PROVE  Sound(sweep)'
<1> DEFINE rows == sweep.rows
           first == rows[1]
<1>1. \A a \in Attachments : files[a].age \in Nat /\ files'[a].age \in Nat /\ tickets[a].left \in Nat
  BY UploadsAssumption DEF UInv, UploadTypes, File, Ticket
<1>2. ASSUME NEW i \in DOMAIN rows
      PROVE  Old(rows[i])' /\ (rows[i] \in sweep.uploading \/ Dead(rows[i])')
  <2>1. Old(rows[i]) /\ (rows[i] \in sweep.uploading \/ Dead(rows[i]))
    BY DEF Sound
  <2> QED BY <1>1, <2>1, UploadsAssumption DEF Onward, Old, Dead
<1>3. CASE sweep.step \in {"delete", "drop", "touch"}
  <2>1. rows # <<>> /\ Dead(first) /\ 1 \in DOMAIN rows
    BY <1>3 DEF Sound
  <2>2. Old(first) /\ first \in Attachments
    BY <2>1 DEF Sound, Old
  <2>3. Dead(first)'
    BY <2>1, <2>2 DEF Onward, Dead
  <2>4. ASSUME sweep.step = "drop", InTime(first)' PROVE objects'[first] = "none"
    <3>1. InTime(first) /\ files[first].age >= PresignTtl
      BY <1>1, <2>2, <2>4, UploadsAssumption DEF Onward, Old
    <3>2. tickets[first].left = 0 /\ objects[first] = "none"
      BY <2>2, <2>4, <3>1, OldExpired DEF Sound
    <3> QED BY <2>2, <3>2 DEF Onward
  <2> QED BY <1>2, <2>1, <2>3, <2>4 DEF Sound
<1>4. CASE sweep.step \notin {"delete", "drop", "touch"}
  BY <1>2, <1>4 DEF Sound
<1> QED BY <1>3, <1>4

LEMMA SweptStays ==
    ASSUME UInv, Onward, UploadTypes', NEW s \in Sweepers, cleanup'[s] = cleanup[s]
    PROVE  Swept(s)'
<1>1. PICK sweep \in Sweeping : sweep = cleanup[s] /\ Sound(sweep)
  BY DEF UInv, UploadTypes, Swept
<1>2. Sound(sweep)'
  BY <1>1, SoundStays
<1> QED BY <1>1, <1>2 DEF Swept

(* What is asked of a step; the rest follows from it.                      *)
Proceeds ==
    /\ UploadTypes' /\ InOrder' /\ Onward
    /\ \A a \in Attachments : Expires(a)'
    /\ \A c \in Uploaders : upcall'[c] = upcall[c] \/ Judged(c)'
    /\ \A s \in Sweepers : cleanup'[s] = cleanup[s] \/ Swept(s)'
    /\ \A a \in Attachments : files'[a].status = "READY" =>
          \/ files[a].status = "READY" \/ a \in mismatched
          \/ objects[a] = "declared" /\ objects'[a] = objects[a]

LEMMA ProceedsKeeps == ASSUME UInv, Proceeds PROVE UInv'
<1>1. \A c \in Uploaders : Judged(c)'
  BY JudgedStays DEF Proceeds
<1>2. \A s \in Sweepers : Swept(s)'
  BY SweptStays DEF Proceeds
<1>3. ASSUME NEW a \in Attachments, files'[a].status = "READY", a \notin mismatched'
      PROVE  objects'[a] = "declared"
  <2>1. a \notin mismatched /\ ~Dead(a)
    BY <1>3 DEF Proceeds, Onward, Dead
  <2>2. files[a].status = "READY" => objects[a] = "declared"
    BY <2>1 DEF UInv, ReadyIsVerified
  <2> QED BY <1>3, <2>1, <2>2 DEF Proceeds, Onward
<1> QED BY <1>1, <1>2, <1>3 DEF UInv, ReadyIsVerified, Proceeds

-----------------------------------------------------------------------------
(* What becomes of the rows when the status of one is set.                 *)
FilesGo == /\ files' \in [Attachments -> File] /\ InOrder'
           /\ \A a \in Attachments : /\ files'[a].age = files[a].age
                                     /\ files'[a].status = "absent" => files[a].status = "absent"
                                     /\ Dead(a) => Dead(a)'

LEMMA StatusSet ==
    ASSUME UInv, NEW a \in Attachments, NEW from \in SUBSET {"UPLOADING", "READY", "DELETING"},
           NEW to \in {"READY", "DELETING"}, to = "READY" => "DELETING" \notin from,
           SetStatus(a, from, to)
    PROVE  /\ FilesGo
           /\ files'[a].status = IF files[a].status \in from THEN to ELSE files[a].status
           /\ \A b \in Attachments \ {a} : files'[b] = files[b]
<1>1. files \in [Attachments -> File] /\ InOrder
  BY DEF UInv, UploadTypes
<1>2. CASE files[a].status \notin from
  BY <1>1, <1>2 DEF SetStatus, FilesGo, InOrder, Exists, Dead
<1>3. CASE files[a].status \in from
  <2>1. files' = [files EXCEPT ![a].status = to] /\ touched' = Append(TouchedBut(a), a)
    BY <1>3 DEF SetStatus
  <2>2. /\ files' \in [Attachments -> File]
        /\ files'[a].status = to /\ files'[a].age = files[a].age
        /\ \A b \in Attachments \ {a} : files'[b] = files[b]
    BY <1>1, <2>1 DEF File
  <2>3. Exists(a) /\ Exists(a)'
    BY <1>3, <2>2 DEF Exists
  <2>4. a \in Among(touched)
    BY <1>1, <2>3 DEF InOrder
  <2>5. /\ TouchedBut(a) \in Seq(Attachments)
        /\ Among(TouchedBut(a)) = Among(touched) \ {a}
        /\ \A i, k \in DOMAIN TouchedBut(a) : TouchedBut(a)[i] = TouchedBut(a)[k] => i = k
    BY <1>1, <2>4, ButOne
  <2>6. /\ touched' \in Seq(Attachments)
        /\ Among(touched') = Among(touched)
        /\ \A i, k \in DOMAIN touched' : touched'[i] = touched'[k] => i = k
    <3> DEFINE t == TouchedBut(a)
    <3> HIDE DEF t
    <3>1. a \notin Among(t)
      BY <2>5 DEF t
    <3>2. /\ Append(t, a) \in Seq(Attachments)
          /\ Among(Append(t, a)) = Among(t) \cup {a}
          /\ \A i, k \in DOMAIN Append(t, a) : Append(t, a)[i] = Append(t, a)[k] => i = k
      BY <2>5, <3>1, Behind DEF t
    <3> QED BY <2>1, <2>4, <2>5, <3>2 DEF t
  <2>7. \A b \in Attachments : Exists(b)' <=> Exists(b)
    BY <2>2, <2>3 DEF Exists
  <2>8. InOrder'
    BY <1>1, <2>6, <2>7 DEF InOrder, Among
  <2> QED BY <1>3, <2>2, <2>3, <2>8 DEF FilesGo, Exists, Dead
<1> QED BY <1>2, <1>3

LEMMA RowDropped ==
    ASSUME UInv, NEW a \in Attachments, DropRow(a)
    PROVE  /\ FilesGo
           /\ files'[a].status # "READY" \/ files[a].status = "READY"
           /\ \A b \in Attachments \ {a} : files'[b] = files[b]
<1>1. files \in [Attachments -> File] /\ InOrder
  BY DEF UInv, UploadTypes
<1>2. CASE files[a].status # "DELETING"
  BY <1>1, <1>2 DEF DropRow, FilesGo, InOrder, Exists, Dead
<1>3. CASE files[a].status = "DELETING"
  <2>1. files' = [files EXCEPT ![a].status = "gone"] /\ touched' = TouchedBut(a)
    BY <1>3 DEF DropRow
  <2>2. /\ files' \in [Attachments -> File]
        /\ files'[a].status = "gone" /\ files'[a].age = files[a].age
        /\ \A b \in Attachments \ {a} : files'[b] = files[b]
    BY <1>1, <2>1 DEF File
  <2>3. Exists(a) /\ ~Exists(a)'
    BY <1>3, <2>2 DEF Exists
  <2>4. a \in Among(touched)
    BY <1>1, <2>3 DEF InOrder
  <2>5. /\ touched' \in Seq(Attachments)
        /\ Among(touched') = Among(touched) \ {a}
        /\ \A i, k \in DOMAIN touched' : touched'[i] = touched'[k] => i = k
    BY <1>1, <2>1, <2>4, ButOne
  <2>6. \A b \in Attachments : Exists(b)' <=> Exists(b) /\ b # a
    BY <2>2, <2>3 DEF Exists
  <2>7. InOrder'
    BY <1>1, <2>5, <2>6 DEF InOrder, Among
  <2> QED BY <1>3, <2>2, <2>7 DEF FilesGo, Dead
<1> QED BY <1>2, <1>3

(* Without a new or later URL nothing changes about when one expires.      *)
LEMMA ExpiresStays ==
    ASSUME UInv, UNCHANGED tickets, FilesGo PROVE \A a \in Attachments : Expires(a)'
BY DEF UInv, Expires, FilesGo, InTime, Signed

(* Nor does a step onward that leaves the rows as they are.                *)
LEMMA FilesStay ==
    ASSUME UInv, UNCHANGED <<files, touched>> PROVE FilesGo
BY DEF UInv, UploadTypes, FilesGo, InOrder, Among, Exists, Dead

LEMMA GoesOnward ==
    ASSUME UInv, FilesGo, UNCHANGED tickets, mismatched \subseteq mismatched',
           \A a \in Attachments :
              \/ objects'[a] = objects[a]
              \/ objects[a] = "none" /\ tickets[a].left > 0
              \/ objects'[a] = "none" /\ (a \in mismatched \/ Dead(a))
    PROVE  Onward
<1>1. \A a \in Attachments : files[a].age \in Nat
  BY UploadsAssumption DEF UInv, UploadTypes, File
<1> QED BY <1>1 DEF FilesGo, Onward, InTime, Signed

-----------------------------------------------------------------------------
(* A step of one client, that sets the status of its row, or deletes its   *)
(* object, or does neither.                                                *)
LEMMA CallProceeds ==
    ASSUME UInv, NEW c \in Uploaders, NEW call \in Upcall, upcall' = [upcall EXCEPT ![c] = call],
           FilesGo, UNCHANGED <<tickets, cleanup>>,
           objects' \in [Attachments -> {"none", "declared", "other"}],
           mismatched \subseteq mismatched', mismatched' \subseteq Attachments,
           storageFaults' \in 0 .. MaxStorageFaults,
           \A a \in Attachments :
              \/ objects'[a] = objects[a]
              \/ objects'[a] = "none" /\ (a \in mismatched \/ Dead(a)),
           \A a \in Attachments : files'[a].status = "READY" =>
              \/ files[a].status = "READY" \/ a \in mismatched
              \/ objects[a] = "declared" /\ objects'[a] = objects[a],
           Judged(c)'
    PROVE  UInv'
<1>1. UploadTypes'
  BY DEF UInv, UploadTypes, FilesGo
<1>2. Onward
  BY GoesOnward
<1>3. \A a \in Attachments : Expires(a)'
  BY ExpiresStays
<1>4. \A d \in Uploaders : upcall'[d] = upcall[d] \/ Judged(d)'
  BY DEF UInv, UploadTypes
<1> QED BY <1>1, <1>2, <1>3, <1>4, ProceedsKeeps DEF Proceeds, FilesGo

(* A call that is over.                                                    *)
LEMMA CallOver ==
    ASSUME UInv, NEW c \in Uploaders, CallEnds(c)
    PROVE  NoCall \in Upcall /\ upcall' = [upcall EXCEPT ![c] = NoCall] /\ Judged(c)'
<1>1. NoCall \in Upcall
  BY DEF NoCall, Upcall
<1>2. upcall' = [upcall EXCEPT ![c] = NoCall] /\ upcall'[c].step = "idle"
  BY DEF CallEnds, UInv, UploadTypes, NoCall
<1> QED BY <1>1, <1>2 DEF Judged

(* One that goes on.                                                       *)
LEMMA CallOn ==
    ASSUME UInv, NEW c \in Uploaders, NEW step \in {"discard", "ready", "delete"}, CallGoes(c, step)
    PROVE  \E call \in Upcall : /\ call.step = step /\ call.row = upcall[c].row
                                /\ upcall' = [upcall EXCEPT ![c] = call]
<1> DEFINE call == [upcall[c] EXCEPT !.step = step]
<1>1. call \in Upcall /\ call.step = step /\ call.row = upcall[c].row
  BY DEF UInv, UploadTypes, Upcall
<1>2. upcall' = [upcall EXCEPT ![c] = call]
  BY DEF CallGoes
<1> QED BY <1>1, <1>2

(* The row of a call under way.                                            *)
LEMMA CallRow ==
    ASSUME UInv, NEW c \in Uploaders, upcall[c].step \notin {"away", "idle"}
    PROVE  upcall[c].row \in Attachments /\ files[upcall[c].row].status # "absent"
BY DEF UInv, Judged

(* Only the call changes.                                                  *)
LEMMA CallAlone ==
    ASSUME UInv, NEW c \in Uploaders, NEW call \in Upcall, upcall' = [upcall EXCEPT ![c] = call],
           UNCHANGED <<files, touched, tickets, objects, mismatched, cleanup>>,
           storageFaults' \in 0 .. MaxStorageFaults, Judged(c)'
    PROVE  UInv'
<1>1. FilesGo /\ mismatched \subseteq Attachments /\ objects \in [Attachments -> {"none", "declared", "other"}]
  BY FilesStay DEF UInv, UploadTypes
<1> QED BY <1>1, CallProceeds

LEMMA BeginsKeeps ==
    ASSUME UInv, NEW c \in Uploaders, NEW a \in Attachments, Complete(c, a) \/ RemoveUpload(c, a)
    PROVE  UInv'
<1>1. PICK step \in {"head", "mark"} :
         /\ upcall' = [upcall EXCEPT ![c] = [NoCall EXCEPT !.row = a, !.step = step]]
         /\ step = "mark" => Signed(a)
  BY DEF Complete, RemoveUpload, Signed
<1> DEFINE call == [NoCall EXCEPT !.row = a, !.step = step]
<1>2. call \in Upcall /\ call.row = a /\ call.step = step
  BY DEF NoCall, Upcall
<1>3. upcall' = [upcall EXCEPT ![c] = call] /\ files[a].status # "absent"
  BY <1>1 DEF Complete, RemoveUpload, Exists
<1> HIDE DEF call
<1>4. UNCHANGED <<files, touched, tickets, objects, mismatched, cleanup, storageFaults>>
  BY DEF Complete, RemoveUpload
<1>5. upcall'[c] = call
  BY <1>3 DEF UInv, UploadTypes
<1>6. Judged(c)'
  BY <1>1, <1>2, <1>3, <1>4, <1>5 DEF Judged, Signed
<1>7. storageFaults' \in 0 .. MaxStorageFaults
  BY <1>4 DEF UInv, UploadTypes
<1> QED BY <1>2, <1>3, <1>4, <1>6, <1>7, CallAlone

LEMMA HeadKeeps ==
    ASSUME UInv, NEW c \in Uploaders, HeadObject(c) PROVE UInv'
<1> DEFINE a == upcall[c].row
<1>1. a \in Attachments /\ files[a].status # "absent"
  BY CallRow DEF HeadObject
<1>2. /\ UNCHANGED <<files, touched, tickets, objects, cleanup, storageFaults>>
      /\ storageFaults' \in 0 .. MaxStorageFaults /\ FilesGo
      /\ objects' \in [Attachments -> {"none", "declared", "other"}]
      /\ mismatched \subseteq Attachments
  BY FilesStay DEF HeadObject, UInv, UploadTypes
<1>3. CASE objects[a] = "none"
  <2>1. CallEnds(c) /\ UNCHANGED mismatched
    BY <1>3 DEF HeadObject
  <2>2. NoCall \in Upcall /\ upcall' = [upcall EXCEPT ![c] = NoCall] /\ Judged(c)'
    BY <2>1, CallOver
  <2> QED BY <1>2, <2>1, <2>2, CallAlone
<1>4. CASE objects[a] = "declared"
  <2>1. CallGoes(c, "ready") /\ UNCHANGED mismatched
    BY <1>4 DEF HeadObject
  <2>2. PICK call \in Upcall : /\ call.step = "ready" /\ call.row = a
                               /\ upcall' = [upcall EXCEPT ![c] = call]
    BY <2>1, CallOn
  <2>3. upcall'[c] = call
    BY <2>2 DEF UInv, UploadTypes
  <2>4. Judged(c)'
    BY <1>1, <1>2, <1>4, <2>2, <2>3 DEF Judged
  <2> QED BY <1>2, <2>1, <2>2, <2>4, CallAlone
<1>5. CASE objects[a] \notin {"none", "declared"}
  <2>1. CallGoes(c, "discard") /\ mismatched' = mismatched \cup {a}
    BY <1>5 DEF HeadObject
  <2>2. PICK call \in Upcall : /\ call.step = "discard" /\ call.row = a
                               /\ upcall' = [upcall EXCEPT ![c] = call]
    BY <2>1, CallOn
  <2>3. upcall'[c] = call
    BY <2>2 DEF UInv, UploadTypes
  <2>4. Judged(c)'
    BY <1>1, <1>2, <2>1, <2>2, <2>3 DEF Judged
  <2>5. mismatched \subseteq mismatched' /\ mismatched' \subseteq Attachments
    BY <1>1, <1>2, <2>1
  <2>6. \A b \in Attachments : objects'[b] = objects[b] /\ files'[b] = files[b]
    BY <1>2
  <2> QED BY <1>2, <2>2, <2>4, <2>5, <2>6, CallProceeds
<1> QED BY <1>3, <1>4, <1>5

(* An object is deleted that nobody vouches for any more.                  *)
LEMMA Deleted ==
    ASSUME UInv, NEW a \in Attachments, Deletes(a), a \in mismatched \/ Dead(a)
    PROVE  /\ objects' \in [Attachments -> {"none", "declared", "other"}]
           /\ objects'[a] = "none"
           /\ \A b \in Attachments : \/ objects'[b] = objects[b]
                                     \/ objects'[b] = "none" /\ (b \in mismatched \/ Dead(b))
BY DEF Deletes, UInv, UploadTypes

LEMMA DiscardKeeps ==
    ASSUME UInv, NEW c \in Uploaders, Discard(c) PROVE UInv'
<1> DEFINE a == upcall[c].row
<1>1. a \in Attachments
  BY CallRow DEF Discard
<1>2. a \in mismatched /\ Deletes(a) /\ CallEnds(c)
  BY DEF Discard, UInv, Judged
<1>3. /\ objects' \in [Attachments -> {"none", "declared", "other"}]
      /\ \A b \in Attachments : \/ objects'[b] = objects[b]
                                \/ objects'[b] = "none" /\ (b \in mismatched \/ Dead(b))
  BY <1>1, <1>2, Deleted
<1>4. NoCall \in Upcall /\ upcall' = [upcall EXCEPT ![c] = NoCall] /\ Judged(c)'
  BY <1>2, CallOver
<1>5. /\ UNCHANGED <<files, touched, tickets, mismatched, cleanup>>
      /\ storageFaults' \in 0 .. MaxStorageFaults /\ mismatched \subseteq Attachments /\ FilesGo
  BY FilesStay DEF Discard, UInv, UploadTypes
<1>6. \A b \in Attachments : files'[b] = files[b]
  BY <1>5
<1> QED BY <1>3, <1>4, <1>5, <1>6, CallProceeds

LEMMA MarkReadyKeeps ==
    ASSUME UInv, NEW c \in Uploaders, MarkReady(c) PROVE UInv'
<1> DEFINE a == upcall[c].row
<1>1. a \in Attachments
  BY CallRow DEF MarkReady
<1>2. SetStatus(a, {"UPLOADING"}, "READY") /\ CallEnds(c)
  BY DEF MarkReady
<1>3. /\ FilesGo
      /\ files'[a].status = IF files[a].status \in {"UPLOADING"} THEN "READY" ELSE files[a].status
      /\ \A b \in Attachments \ {a} : files'[b] = files[b]
  BY <1>1, <1>2, StatusSet
<1>4. NoCall \in Upcall /\ upcall' = [upcall EXCEPT ![c] = NoCall] /\ Judged(c)'
  BY <1>2, CallOver
<1>5. /\ UNCHANGED <<tickets, objects, mismatched, cleanup>>
      /\ storageFaults' \in 0 .. MaxStorageFaults /\ mismatched \subseteq Attachments
      /\ objects' \in [Attachments -> {"none", "declared", "other"}]
  BY DEF MarkReady, UInv, UploadTypes
<1>6. a \in mismatched \/ objects[a] = "declared" \/ Dead(a)
  BY DEF MarkReady, UInv, Judged
<1>7. ASSUME NEW b \in Attachments, files'[b].status = "READY"
      PROVE  \/ files[b].status = "READY" \/ b \in mismatched
             \/ objects[b] = "declared" /\ objects'[b] = objects[b]
  BY <1>3, <1>5, <1>6, <1>7 DEF Dead
<1> QED BY <1>3, <1>4, <1>5, <1>7, CallProceeds

LEMMA MarkDeletingKeeps ==
    ASSUME UInv, NEW c \in Uploaders, MarkDeleting(c) PROVE UInv'
<1> DEFINE a == upcall[c].row
<1>1. a \in Attachments /\ files[a].status # "absent" /\ Signed(a)
  BY CallRow DEF MarkDeleting, UInv, Judged
<1>2. SetStatus(a, {"UPLOADING", "READY"}, "DELETING") /\ CallGoes(c, "delete")
  BY DEF MarkDeleting
<1>3. /\ FilesGo
      /\ files'[a].status = IF files[a].status \in {"UPLOADING", "READY"} THEN "DELETING" ELSE files[a].status
      /\ \A b \in Attachments \ {a} : files'[b] = files[b]
  BY <1>1, <1>2, StatusSet
<1>4. PICK call \in Upcall : /\ call.step = "delete" /\ call.row = a
                             /\ upcall' = [upcall EXCEPT ![c] = call]
  BY <1>2, CallOn
<1>5. /\ UNCHANGED <<tickets, objects, mismatched, cleanup>>
      /\ storageFaults' \in 0 .. MaxStorageFaults /\ mismatched \subseteq Attachments
      /\ objects' \in [Attachments -> {"none", "declared", "other"}]
  BY DEF MarkDeleting, UInv, UploadTypes
<1>6. upcall'[c] = call
  BY <1>4 DEF UInv, UploadTypes
<1>7. files'[a].status \in {"DELETING", "gone"}
  BY <1>1, <1>3 DEF UInv, UploadTypes, File
<1>8. Judged(c)'
  BY <1>1, <1>4, <1>5, <1>6, <1>7 DEF Judged, Dead, Signed
<1>9. \A b \in Attachments : files'[b].status = "READY" => files[b].status = "READY"
  BY <1>3
<1> QED BY <1>3, <1>4, <1>5, <1>8, <1>9, CallProceeds

LEMMA DeleteObjectKeeps ==
    ASSUME UInv, NEW c \in Uploaders, DeleteObject(c) PROVE UInv'
<1> DEFINE a == upcall[c].row
           early == tickets[a].left > 0
           call == [upcall[c] EXCEPT !.step = "drop", !.early = early]
<1>1. a \in Attachments /\ files[a].status # "absent" /\ Signed(a) /\ Dead(a)
  BY CallRow DEF DeleteObject, UInv, Judged
<1>2. Deletes(a)
  BY DEF DeleteObject
<1>3. /\ objects' \in [Attachments -> {"none", "declared", "other"}]
      /\ objects'[a] = "none"
      /\ \A b \in Attachments : \/ objects'[b] = objects[b]
                                \/ objects'[b] = "none" /\ (b \in mismatched \/ Dead(b))
  BY <1>1, <1>2, Deleted
<1>4. /\ call \in Upcall /\ call.step = "drop" /\ call.row = a
      /\ call.early = early
  <2>1. early \in BOOLEAN /\ upcall[c] \in Upcall
    BY DEF UInv, UploadTypes
  <2> HIDE DEF early
  <2> QED BY <2>1 DEF Upcall
<1>5. upcall \in [Uploaders -> Upcall]
  BY DEF UInv, UploadTypes
<1>6. upcall' = [upcall EXCEPT ![c] = call]
  BY <1>5 DEF DeleteObject
<1>7. /\ UNCHANGED <<files, touched, tickets, mismatched, cleanup>>
      /\ storageFaults' \in 0 .. MaxStorageFaults /\ mismatched \subseteq Attachments /\ FilesGo
  BY FilesStay DEF DeleteObject, UInv, UploadTypes
<1>8. tickets[a].left \in Nat
  BY <1>1, UploadsAssumption DEF UInv, UploadTypes, Ticket
<1>9. ~early => tickets[a].left = 0
  BY <1>8
<1> HIDE DEF call, early
<1>10. upcall'[c] = call
  BY <1>5, <1>6
<1>11. Judged(c)'
  BY <1>1, <1>3, <1>4, <1>7, <1>10, <1>9 DEF Judged, Dead, Signed
<1>12. \A b \in Attachments : files'[b] = files[b]
  BY <1>7
<1> QED BY <1>3, <1>4, <1>6, <1>7, <1>11, <1>12, CallProceeds

LEMMA DropRemovedKeeps ==
    ASSUME UInv, NEW c \in Uploaders, DropRemoved(c) PROVE UInv'
<1> DEFINE a == upcall[c].row
<1>1. a \in Attachments
  BY CallRow DEF DropRemoved
<1>2. /\ FilesGo
      /\ \A b \in Attachments : files'[b].status = "READY" => files[b].status = "READY"
  <2>1. CASE DropRow(a)
    BY <1>1, <2>1, RowDropped
  <2>2. CASE UNCHANGED <<files, touched>>
    BY <2>2, FilesStay
  <2> QED BY <2>1, <2>2 DEF DropRemoved
<1>3. NoCall \in Upcall /\ upcall' = [upcall EXCEPT ![c] = NoCall] /\ Judged(c)'
  BY CallOver DEF DropRemoved
<1>4. /\ UNCHANGED <<tickets, objects, mismatched, cleanup>>
      /\ storageFaults' \in 0 .. MaxStorageFaults /\ mismatched \subseteq Attachments
      /\ objects' \in [Attachments -> {"none", "declared", "other"}]
  BY DEF DropRemoved, UInv, UploadTypes
<1> QED BY <1>2, <1>3, <1>4, CallProceeds

LEMMA FaultCounts ==
    ASSUME UInv, StorageFault \/ UNCHANGED storageFaults
    PROVE  storageFaults' \in 0 .. MaxStorageFaults
BY UploadsAssumption DEF UInv, UploadTypes, StorageFault

LEMMA CallFailsKeeps ==
    ASSUME UInv, NEW c \in Uploaders, CallFails(c) PROVE UInv'
<1>1. NoCall \in Upcall /\ upcall' = [upcall EXCEPT ![c] = NoCall] /\ Judged(c)'
  BY CallOver DEF CallFails
<1>2. storageFaults' \in 0 .. MaxStorageFaults
  BY FaultCounts DEF CallFails
<1> QED BY <1>1, <1>2, CallAlone DEF CallFails

-----------------------------------------------------------------------------
(* A step of one sweep.                                                    *)
LEMMA SweepProceeds ==
    ASSUME UInv, NEW s \in Sweepers, NEW sweep \in Sweeping, cleanup' = [cleanup EXCEPT ![s] = sweep],
           FilesGo, UNCHANGED <<tickets, mismatched, upcall>>,
           objects' \in [Attachments -> {"none", "declared", "other"}],
           storageFaults' \in 0 .. MaxStorageFaults,
           \A a \in Attachments :
              \/ objects'[a] = objects[a]
              \/ objects'[a] = "none" /\ (a \in mismatched \/ Dead(a)),
           \A a \in Attachments : files'[a].status = "READY" => files[a].status = "READY",
           Sound(sweep)'
    PROVE  UInv'
<1>1. UploadTypes'
  BY DEF UInv, UploadTypes, FilesGo
<1>2. Onward
  BY GoesOnward
<1>3. \A a \in Attachments : Expires(a)'
  BY ExpiresStays
<1>4. \A d \in Sweepers : cleanup'[d] = cleanup[d] \/ Swept(d)'
  BY DEF UInv, UploadTypes, Swept
<1> QED BY <1>1, <1>2, <1>3, <1>4, ProceedsKeeps DEF Proceeds, FilesGo

(* Only the sweep changes.                                                 *)
LEMMA SweepAlone ==
    ASSUME UInv, NEW s \in Sweepers, NEW sweep \in Sweeping, cleanup' = [cleanup EXCEPT ![s] = sweep],
           UNCHANGED <<files, touched, tickets, objects, mismatched, upcall>>,
           storageFaults' \in 0 .. MaxStorageFaults, Sound(sweep)'
    PROVE  UInv'
<1>1. FilesGo /\ objects \in [Attachments -> {"none", "declared", "other"}]
  BY FilesStay DEF UInv, UploadTypes
<1> QED BY <1>1, SweepProceeds

(* The rows that are left when a sweep goes on.                            *)
LEMMA RestSound ==
    ASSUME UInv, FilesGo, NEW sweep \in Sweeping, Sound(sweep), sweep.rows # <<>>
    PROVE  /\ [sweep EXCEPT !.step = "next", !.rows = Tail(sweep.rows)] \in Sweeping
           /\ Sound([sweep EXCEPT !.step = "next", !.rows = Tail(sweep.rows)])'
<1> DEFINE rows == sweep.rows
           rest == Tail(rows)
           next == [sweep EXCEPT !.step = "next", !.rows = rest]
<1>1. rows \in Seq(Attachments) /\ Len(rows) <= CleanupSize /\ Len(rows) \in Nat
  BY DEF Sound
<1>2. Len(rows) # 0 /\ CleanupSize \in Nat
  BY <1>1, UploadsAssumption
<1>3. rest \in Seq(Attachments) /\ Len(rest) = Len(rows) - 1
      /\ \A i \in 1 .. Len(rows) - 1 : rest[i] = rows[i + 1]
  BY <1>1
<1>4. Len(rest) <= CleanupSize /\ DOMAIN rest = 1 .. Len(rows) - 1 /\ DOMAIN rows = 1 .. Len(rows)
  BY <1>1, <1>2, <1>3
<1>5. \A i \in DOMAIN rest : \E k \in DOMAIN rows : rest[i] = rows[k]
  <2>1. \A i \in DOMAIN rest : i + 1 \in DOMAIN rows /\ rest[i] = rows[i + 1]
    BY <1>1, <1>3, <1>4
  <2> QED BY <2>1
<1> HIDE DEF rest
<1>6. next \in Sweeping /\ next.step = "next" /\ next.rows = rest /\ next.uploading = sweep.uploading
  BY <1>3 DEF Sweeping
<1> HIDE DEF next
<1>7. ASSUME NEW i \in DOMAIN rest
      PROVE  Old(rest[i])' /\ (rest[i] \in sweep.uploading \/ Dead(rest[i])')
  <2>1. Old(rest[i]) /\ (rest[i] \in sweep.uploading \/ Dead(rest[i]))
    BY <1>5 DEF Sound
  <2> QED BY <2>1 DEF FilesGo, Old, Dead
<1>8. Sound(next)'
  BY <1>3, <1>4, <1>6, <1>7 DEF Sound
<1> QED BY <1>6, <1>8 DEF next, rest

(* The sweep of a sweeper, and the row it is at.                           *)
LEMMA SweepAt ==
    ASSUME UInv, NEW s \in Sweepers
    PROVE  /\ cleanup[s] \in Sweeping /\ Sound(cleanup[s])
           /\ cleanup[s].rows # <<>> => At(s) \in Attachments /\ Old(At(s))
<1>1. cleanup[s] \in Sweeping /\ Sound(cleanup[s])
  BY DEF UInv, UploadTypes, Swept
<1>2. cleanup[s].rows # <<>> => 1 \in DOMAIN cleanup[s].rows
  BY <1>1 DEF Sound
<1> QED BY <1>1, <1>2 DEF Sound, Old, At

LEMMA SweepNext ==
    ASSUME UInv, NEW s \in Sweepers, cleanup[s].rows # <<>>, SweepOn(s), FilesGo
    PROVE  \E sweep \in Sweeping : cleanup' = [cleanup EXCEPT ![s] = sweep] /\ Sound(sweep)'
<1>1. PICK w \in Sweeping : w = cleanup[s] /\ Sound(w)
  BY SweepAt
<1>2. PICK sweep \in Sweeping : /\ sweep = [w EXCEPT !.step = "next", !.rows = Tail(w.rows)]
                                /\ Sound(sweep)'
  BY <1>1, RestSound
<1>3. cleanup' = [cleanup EXCEPT ![s] = sweep]
  BY <1>1, <1>2 DEF SweepOn, UInv, UploadTypes
<1> QED BY <1>2, <1>3

(* One that goes on with the row it is at: its row stays as it is but for  *)
(* being removed, and the object with it.                                  *)
LEMMA SweepStays ==
    ASSUME UInv, NEW s \in Sweepers, cleanup[s].rows # <<>>, FilesGo, UNCHANGED tickets,
           NEW step \in {"claim", "delete", "drop", "touch"}, SweepGoes(s, step),
           step \in {"delete", "drop", "touch"} => Dead(At(s)) \/ files'[At(s)].status = "DELETING",
           step = "drop" => objects'[At(s)] = "none"
    PROVE  \E sweep \in Sweeping : cleanup' = [cleanup EXCEPT ![s] = sweep] /\ Sound(sweep)'
<1>1. PICK w \in Sweeping : w = cleanup[s] /\ Sound(w)
  BY SweepAt
<1>2. PICK sweep : sweep = [w EXCEPT !.step = step]
  OBVIOUS
<1>3. sweep \in Sweeping /\ sweep.step = step /\ sweep.rows = w.rows /\ sweep.uploading = w.uploading
  BY <1>2 DEF Sweeping
<1>4. cleanup' = [cleanup EXCEPT ![s] = sweep]
  BY <1>1, <1>2 DEF SweepGoes
<1>5. PICK a \in Attachments : a = At(s) /\ a = w.rows[1]
  BY <1>1, SweepAt DEF At
<1>6. \A i \in DOMAIN w.rows : Old(w.rows[i])' /\ (w.rows[i] \in w.uploading \/ Dead(w.rows[i])')
  <2>1. \A i \in DOMAIN w.rows : Old(w.rows[i]) /\ (w.rows[i] \in w.uploading \/ Dead(w.rows[i]))
    BY <1>1 DEF Sound
  <2> QED BY <2>1 DEF FilesGo, Old, Dead
<1>7. step \in {"delete", "drop", "touch"} => Dead(a)'
  BY <1>5 DEF FilesGo, Dead
<1>8. Sound(sweep)'
  BY <1>1, <1>3, <1>5, <1>6, <1>7 DEF Sound
<1> QED BY <1>3, <1>4, <1>8

LEMMA SelectKeeps ==
    ASSUME UInv, NEW s \in Sweepers, SelectStale(s) PROVE UInv'
<1>1. PICK batch \in Batches :
         /\ batch # <<>>
         /\ cleanup' = [cleanup EXCEPT ![s] =
               [step |-> "next", rows |-> batch,
                uploading |-> {a \in Among(batch) : files[a].status = "UPLOADING"}]]
  BY DEF SelectStale
<1>2. PICK uploading : uploading = {a \in Among(batch) : files[a].status = "UPLOADING"}
  OBVIOUS
<1>3. /\ batch \in Seq(Attachments) /\ Len(batch) <= CleanupSize
      /\ \A i \in DOMAIN batch : batch[i] \in Attachments /\ Stale(batch[i])
  BY BatchRows
<1>4. PICK sweep : sweep = [step |-> "next", rows |-> batch, uploading |-> uploading]
  OBVIOUS
<1>5. uploading \subseteq Attachments
  BY <1>2, <1>3 DEF Among
<1>6. sweep \in Sweeping /\ sweep.step = "next" /\ sweep.rows = batch /\ sweep.uploading = uploading
  BY <1>3, <1>4, <1>5 DEF Sweeping
<1>7. cleanup' = [cleanup EXCEPT ![s] = sweep]
  BY <1>1, <1>2, <1>4
<1>8. \A i \in DOMAIN batch : Old(batch[i]) /\ (batch[i] \in uploading \/ Dead(batch[i]))
  BY <1>2, <1>3 DEF Stale, Old, Dead, Among
<1>9. UNCHANGED <<files, touched, tickets, objects, mismatched, upcall, storageFaults>>
  BY DEF SelectStale
<1>10. \A i \in DOMAIN batch : Old(batch[i])' /\ (batch[i] \in uploading \/ Dead(batch[i])')
  BY <1>8, <1>9 DEF Old, Dead
<1>11. Sound(sweep)'
  BY <1>3, <1>6, <1>10 DEF Sound
<1>12. storageFaults' \in 0 .. MaxStorageFaults
  BY <1>9 DEF UInv, UploadTypes
<1> QED BY <1>6, <1>7, <1>9, <1>11, <1>12, SweepAlone

(* A sweep that is over.                                                   *)
LEMMA SweepOver ==
    ASSUME UInv, NEW s \in Sweepers, cleanup' = [cleanup EXCEPT ![s] = NoSweep],
           UNCHANGED <<files, touched, tickets, objects, mismatched, upcall>>,
           storageFaults' \in 0 .. MaxStorageFaults
    PROVE  UInv'
<1>1. NoSweep \in Sweeping
  BY DEF NoSweep, Sweeping
<1>2. Sound(NoSweep)'
  BY UploadsAssumption DEF NoSweep, Sound
<1> QED BY <1>1, <1>2, SweepAlone

LEMMA NextStaleKeeps ==
    ASSUME UInv, NEW s \in Sweepers, NextStale(s) PROVE UInv'
<1>1. /\ UNCHANGED <<files, touched, tickets, objects, mismatched, upcall, storageFaults>>
      /\ storageFaults' \in 0 .. MaxStorageFaults
  BY DEF NextStale, UInv, UploadTypes
<1>2. CASE cleanup[s].rows = <<>>
  BY <1>1, <1>2, SweepOver DEF NextStale
<1>3. CASE cleanup[s].rows # <<>>
  <2>1. PICK step \in {"claim", "delete"} :
           /\ SweepGoes(s, step)
           /\ step = "delete" => At(s) \notin cleanup[s].uploading
    BY <1>3 DEF NextStale
  <2>2. step = "delete" => Dead(At(s))
    <3>1. 1 \in DOMAIN cleanup[s].rows /\ Sound(cleanup[s])
      BY <1>3, SweepAt DEF Sound
    <3> QED BY <2>1, <3>1 DEF Sound, At
  <2>3. FilesGo
    BY <1>1, FilesStay
  <2>4. \E sweep \in Sweeping : cleanup' = [cleanup EXCEPT ![s] = sweep] /\ Sound(sweep)'
    BY <1>1, <1>3, <2>1, <2>2, <2>3, SweepStays
  <2> QED BY <1>1, <2>4, SweepAlone
<1> QED BY <1>2, <1>3

LEMMA ClaimStaleKeeps ==
    ASSUME UInv, NEW s \in Sweepers, ClaimStale(s) PROVE UInv'
<1>1. /\ UNCHANGED <<tickets, objects, mismatched, upcall, storageFaults>>
      /\ storageFaults' \in 0 .. MaxStorageFaults
      /\ objects' \in [Attachments -> {"none", "declared", "other"}]
  BY DEF ClaimStale, UInv, UploadTypes
<1>2. cleanup[s].rows # <<>> /\ At(s) \in Attachments
  BY SweepAt DEF ClaimStale, Sound
<1>3. SetStatus(At(s), {"UPLOADING"}, "DELETING")
  BY DEF ClaimStale
<1>4. /\ FilesGo
      /\ files'[At(s)].status = IF files[At(s)].status \in {"UPLOADING"} THEN "DELETING"
                                ELSE files[At(s)].status
      /\ \A b \in Attachments \ {At(s)} : files'[b] = files[b]
  BY <1>2, <1>3, StatusSet
<1>5. \E sweep \in Sweeping : cleanup' = [cleanup EXCEPT ![s] = sweep] /\ Sound(sweep)'
  <2>1. CASE files[At(s)].status = "UPLOADING"
    BY <1>1, <1>2, <1>4, <2>1, SweepStays DEF ClaimStale
  <2>2. CASE files[At(s)].status # "UPLOADING"
    BY <1>2, <1>4, <2>2, SweepNext DEF ClaimStale
  <2> QED BY <2>1, <2>2
<1>6. \A b \in Attachments : files'[b].status = "READY" => files[b].status = "READY"
  BY <1>4
<1>7. \A a \in Attachments : objects'[a] = objects[a]
  BY <1>1
<1> QED BY <1>1, <1>4, <1>5, <1>6, <1>7, SweepProceeds

LEMMA SweepObjectKeeps ==
    ASSUME UInv, NEW s \in Sweepers, SweepObject(s) PROVE UInv'
<1>1. /\ UNCHANGED <<files, touched, tickets, mismatched, upcall>>
      /\ storageFaults' \in 0 .. MaxStorageFaults
  BY FaultCounts DEF SweepObject
<1>2. cleanup[s].rows # <<>> /\ At(s) \in Attachments /\ Dead(At(s))
  BY SweepAt DEF SweepObject, Sound, At
<1>3. FilesGo /\ \A b \in Attachments : files'[b] = files[b]
  BY <1>1, FilesStay
<1>4. CASE SweepGoes(s, "touch") /\ UNCHANGED objects
  <2>1. \E sweep \in Sweeping : cleanup' = [cleanup EXCEPT ![s] = sweep] /\ Sound(sweep)'
    BY <1>1, <1>2, <1>3, <1>4, SweepStays
  <2> QED BY <1>1, <1>4, <2>1, SweepAlone
<1>5. CASE Deletes(At(s)) /\ SweepGoes(s, "drop")
  <2>1. /\ objects' \in [Attachments -> {"none", "declared", "other"}]
        /\ objects'[At(s)] = "none"
        /\ \A b \in Attachments : \/ objects'[b] = objects[b]
                                  \/ objects'[b] = "none" /\ (b \in mismatched \/ Dead(b))
    BY <1>2, <1>5, Deleted
  <2>2. \E sweep \in Sweeping : cleanup' = [cleanup EXCEPT ![s] = sweep] /\ Sound(sweep)'
    BY <1>1, <1>2, <1>3, <1>5, <2>1, SweepStays
  <2> QED BY <1>1, <1>3, <2>1, <2>2, SweepProceeds
<1> QED BY <1>4, <1>5 DEF SweepObject

LEMMA SweepRowKeeps ==
    ASSUME UInv, NEW s \in Sweepers, SweepRow(s) PROVE UInv'
<1>1. /\ UNCHANGED <<tickets, objects, mismatched, upcall>>
      /\ storageFaults' \in 0 .. MaxStorageFaults
      /\ objects' \in [Attachments -> {"none", "declared", "other"}]
  BY FaultCounts DEF SweepRow, UInv, UploadTypes
<1>2. cleanup[s].rows # <<>> /\ At(s) \in Attachments /\ Dead(At(s))
  BY SweepAt DEF SweepRow, Sound, At
<1>3. \A b \in Attachments : objects'[b] = objects[b]
  BY <1>1
<1>4. CASE SweepGoes(s, "touch") /\ UNCHANGED <<files, touched>>
  <2>1. FilesGo
    BY <1>4, FilesStay
  <2>2. \E sweep \in Sweeping : cleanup' = [cleanup EXCEPT ![s] = sweep] /\ Sound(sweep)'
    BY <1>1, <1>2, <1>4, <2>1, SweepStays
  <2> QED BY <1>1, <1>4, <2>2, SweepAlone
<1>5. CASE DropRow(At(s)) /\ SweepOn(s)
  <2>1. FilesGo /\ \A b \in Attachments : files'[b].status = "READY" => files[b].status = "READY"
    BY <1>2, <1>5, RowDropped
  <2>2. \E sweep \in Sweeping : cleanup' = [cleanup EXCEPT ![s] = sweep] /\ Sound(sweep)'
    BY <1>2, <1>5, <2>1, SweepNext
  <2> QED BY <1>1, <1>3, <2>1, <2>2, SweepProceeds
<1> QED BY <1>4, <1>5 DEF SweepRow

LEMMA TouchKeeps ==
    ASSUME UInv, NEW s \in Sweepers, TouchRow(s) PROVE UInv'
<1>1. /\ UNCHANGED <<tickets, objects, mismatched, upcall, storageFaults>>
      /\ storageFaults' \in 0 .. MaxStorageFaults
      /\ objects' \in [Attachments -> {"none", "declared", "other"}]
  BY DEF TouchRow, UInv, UploadTypes
<1>2. cleanup[s].rows # <<>> /\ At(s) \in Attachments
  BY SweepAt DEF TouchRow, Sound
<1>3. SetStatus(At(s), {"DELETING"}, "DELETING") /\ SweepOn(s)
  BY DEF TouchRow
<1>4. /\ FilesGo
      /\ files'[At(s)].status = IF files[At(s)].status \in {"DELETING"} THEN "DELETING"
                                ELSE files[At(s)].status
      /\ \A b \in Attachments \ {At(s)} : files'[b] = files[b]
  BY <1>2, <1>3, StatusSet
<1>5. \E sweep \in Sweeping : cleanup' = [cleanup EXCEPT ![s] = sweep] /\ Sound(sweep)'
  BY <1>2, <1>3, <1>4, SweepNext
<1>6. \A b \in Attachments : files'[b].status = "READY" => files[b].status = "READY"
  BY <1>4
<1>7. \A a \in Attachments : objects'[a] = objects[a]
  BY <1>1
<1> QED BY <1>1, <1>4, <1>5, <1>6, <1>7, SweepProceeds

LEMMA SweepFailsKeeps ==
    ASSUME UInv, NEW s \in Sweepers, SweepFails(s) PROVE UInv'
<1>1. storageFaults' \in 0 .. MaxStorageFaults
  BY FaultCounts DEF SweepFails
<1> QED BY <1>1, SweepOver DEF SweepFails

-----------------------------------------------------------------------------
(* The steps that are about no call and no sweep.                          *)
LEMMA RequestKeeps ==
    ASSUME UInv, NEW a \in Attachments, RequestUpload(a) PROVE UInv'
<1>1. UploadTypes /\ InOrder
  BY DEF UInv
<1>2. /\ files' = [files EXCEPT ![a].status = "UPLOADING"]
      /\ tickets' = [tickets EXCEPT ![a].step = "created"]
      /\ touched' = Append(touched, a) /\ files[a].status = "absent"
      /\ UNCHANGED <<objects, mismatched, upcall, cleanup, storageFaults>>
  BY DEF RequestUpload
<1>3. /\ files' \in [Attachments -> File]
      /\ files'[a].status = "UPLOADING" /\ files'[a].age = files[a].age
      /\ \A b \in Attachments \ {a} : files'[b] = files[b]
  BY <1>1, <1>2 DEF UploadTypes, File
<1>4. /\ tickets' \in [Attachments -> Ticket]
      /\ tickets'[a].step = "created" /\ tickets'[a].left = tickets[a].left
      /\ \A b \in Attachments \ {a} : tickets'[b] = tickets[b]
  BY <1>1, <1>2 DEF UploadTypes, Ticket
<1>5. tickets[a].step = "none" /\ tickets[a].left = 0 /\ files[a].age = 0 /\ ~Signed(a)
  BY <1>1, <1>2, UploadsAssumption DEF UInv, Expires, Signed, UploadTypes, Ticket
<1>6. \A b \in Attachments : files[b].age \in Nat
  BY <1>1, UploadsAssumption DEF UploadTypes, File
<1>7. Onward
  BY <1>2, <1>3, <1>4, <1>5, <1>6 DEF Onward, Dead, Signed, InTime
<1>8. \A b \in Attachments : Expires(b)'
  BY <1>3, <1>4, <1>5 DEF UInv, Expires, Signed, InTime
<1>9. InOrder'
  <2>1. ~Exists(a) /\ \A b \in Attachments : Exists(b)' <=> Exists(b) \/ b = a
    BY <1>2, <1>3 DEF Exists
  <2>2. a \notin Among(touched)
    BY <1>1, <2>1 DEF InOrder
  <2>3. /\ touched' \in Seq(Attachments) /\ Among(touched') = Among(touched) \cup {a}
        /\ \A i, k \in DOMAIN touched' : touched'[i] = touched'[k] => i = k
    BY <1>1, <1>2, <2>2, Behind DEF InOrder
  <2> QED BY <1>1, <2>1, <2>3 DEF InOrder, Among
<1>10. UploadTypes'
  BY <1>1, <1>2, <1>3, <1>4 DEF UploadTypes
<1> QED BY <1>2, <1>3, <1>7, <1>8, <1>9, <1>10, ProceedsKeeps DEF Proceeds

LEMMA PresignKeeps ==
    ASSUME UInv, NEW a \in Attachments, PresignPut(a) PROVE UInv'
<1> DEFINE late == files[a].age > 0
           ticket == [step |-> "issued", left |-> PresignTtl, late |-> late]
<1>1. UploadTypes /\ InOrder
  BY DEF UInv
<1>2. /\ tickets[a].step = "created" /\ tickets' = [tickets EXCEPT ![a] = ticket]
      /\ UNCHANGED <<files, touched, objects, mismatched, upcall, cleanup, storageFaults>>
  BY DEF PresignPut
<1>3. files[a].age \in Nat /\ late \in BOOLEAN /\ (~late => files[a].age = 0)
  BY <1>1, UploadsAssumption DEF UploadTypes, File
<1>4. files[a].status # "absent"
  BY <1>2 DEF UInv, Expires
<1> HIDE DEF late
<1>5. ticket \in Ticket /\ ticket.step = "issued" /\ ticket.left = PresignTtl /\ ticket.late = late
  BY <1>3, UploadsAssumption DEF Ticket
<1> HIDE DEF ticket
<1>6. /\ tickets' \in [Attachments -> Ticket] /\ tickets'[a] = ticket
      /\ \A b \in Attachments \ {a} : tickets'[b] = tickets[b]
  BY <1>1, <1>2, <1>5 DEF UploadTypes
<1>7. \A b \in Attachments : files[b].age \in Nat
  BY <1>1, UploadsAssumption DEF UploadTypes, File
<1>8. Onward
  BY <1>2, <1>3, <1>5, <1>6, <1>7 DEF Onward, Dead, Signed, InTime
<1>9. \A b \in Attachments : Expires(b)'
  BY <1>2, <1>3, <1>4, <1>5, <1>6, UploadsAssumption DEF UInv, Expires, Signed, InTime
<1>10. UploadTypes' /\ InOrder'
  BY <1>1, <1>2, <1>6 DEF UploadTypes, InOrder, Among, Exists
<1> QED BY <1>2, <1>8, <1>9, <1>10, ProceedsKeeps DEF Proceeds

LEMMA PutKeeps ==
    ASSUME UInv, NEW a \in Attachments, NEW what \in {"declared", "other"}, Put(a, what) PROVE UInv'
<1>1. /\ UNCHANGED <<files, touched, tickets, mismatched, upcall, cleanup, storageFaults>>
      /\ objects' = [objects EXCEPT ![a] = what] /\ objects[a] = "none" /\ tickets[a].left > 0
  BY DEF Put
<1>2. UploadTypes' /\ FilesGo
  BY <1>1, FilesStay DEF UInv, UploadTypes
<1>3. \A b \in Attachments : objects'[b] = objects[b] \/ (objects[b] = "none" /\ tickets[b].left > 0)
  BY <1>1 DEF UInv, UploadTypes
<1>4. Onward
  BY <1>1, <1>2, <1>3, GoesOnward
<1>5. \A b \in Attachments : Expires(b)'
  BY <1>1, <1>2, ExpiresStays
<1> QED BY <1>1, <1>2, <1>4, <1>5, ProceedsKeeps DEF Proceeds, FilesGo

LEMMA ClockKeeps ==
    ASSUME UInv, UploadClock PROVE UInv'
<1>1. UploadTypes /\ InOrder
  BY DEF UInv
<1>2. UNCHANGED <<touched, objects, mismatched, upcall, cleanup, storageFaults>>
  BY DEF UploadClock
<1>3. ASSUME NEW a \in Attachments
      PROVE  /\ files'[a] \in File /\ files'[a].status = files[a].status
             /\ files'[a].age = IF Exists(a) /\ files[a].age <= StaleAfter
                                THEN files[a].age + 1 ELSE files[a].age
  BY <1>1, UploadsAssumption DEF UploadClock, UploadTypes, File
<1>4. ASSUME NEW a \in Attachments
      PROVE  /\ tickets'[a] \in Ticket
             /\ tickets'[a].step = tickets[a].step /\ tickets'[a].late = tickets[a].late
             /\ tickets'[a].left = IF tickets[a].left > 0 THEN tickets[a].left - 1 ELSE 0
  BY <1>1, UploadsAssumption DEF UploadClock, UploadTypes, Ticket
<1>5. \A a \in Attachments : files[a].age \in 0 .. StaleAfter + 1 /\ tickets[a].left \in 0 .. PresignTtl
  BY <1>1 DEF UploadTypes, File, Ticket
<1>6. UploadTypes'
  <2>1. files' \in [Attachments -> File]
    BY <1>3 DEF UploadClock
  <2>2. tickets' \in [Attachments -> Ticket]
    BY <1>4 DEF UploadClock
  <2> QED BY <1>1, <1>2, <2>1, <2>2 DEF UploadTypes
<1>7. InOrder'
  BY <1>1, <1>2, <1>3 DEF InOrder, Among, Exists
<1>8. Onward
  BY <1>2, <1>3, <1>4, <1>5, UploadsAssumption DEF Onward, Dead, Signed, InTime
<1>9. ASSUME NEW a \in Attachments PROVE Expires(a)'
  <2>1. Expires(a)
    BY DEF UInv
  <2> QED BY <1>3, <1>4, <1>5, <2>1, UploadsAssumption DEF Expires, Signed, InTime, Exists
<1> QED BY <1>2, <1>3, <1>6, <1>7, <1>8, <1>9, ProceedsKeeps DEF Proceeds

LEMMA InitUploads == ASSUME NEW A, NEW C, NEW W, UploadInit(A, C, W) PROVE UInv
<1>1. UploadTypes
  <2>1. files \in [Attachments -> File] /\ tickets \in [Attachments -> Ticket]
    BY UploadsAssumption DEF UploadInit, File, Ticket
  <2>2. upcall \in [Uploaders -> Upcall]
    BY DEF UploadInit, Upcall, NoCall
  <2>3. cleanup \in [Sweepers -> Sweeping]
    <3>1. NoSweep \in Sweeping
      <4>1. <<>> \in Seq(Attachments)
        OBVIOUS
      <4> QED BY <4>1 DEF NoSweep, Sweeping
    <3>2. \A w \in Sweeping : [w EXCEPT !.step = "away"] \in Sweeping
      BY DEF Sweeping
    <3> QED BY <3>1, <3>2 DEF UploadInit
  <2>4. /\ objects \in [Attachments -> {"none", "declared", "other"}]
        /\ mismatched \subseteq Attachments /\ storageFaults \in 0 .. MaxStorageFaults
    BY UploadsAssumption DEF UploadInit
  <2> QED BY <2>1, <2>2, <2>3, <2>4 DEF UploadTypes
<1>2. InOrder
  BY DEF UploadInit, InOrder, Among, Exists
<1>3. \A a \in Attachments : Expires(a) /\ files[a].status \in {"absent", "gone"}
  BY UploadsAssumption DEF UploadInit, Expires, InTime, Signed
<1>4. \A c \in Uploaders : upcall[c].step \in {"away", "idle"}
  BY DEF UploadInit, NoCall
<1>5. ASSUME NEW s \in Sweepers PROVE Swept(s)
  <2>1. cleanup[s].step \in {"away", "idle"} /\ cleanup[s].rows = <<>>
    BY DEF UploadInit, NoSweep
  <2> QED BY <2>1, UploadsAssumption DEF Swept, Sound
<1> QED BY <1>1, <1>2, <1>3, <1>4, <1>5 DEF UInv, Judged, ReadyIsVerified

LEMMA NextUploads == UInv /\ [UploadNext]_uploadVars => UInv'
<1> SUFFICES ASSUME UInv, [UploadNext]_uploadVars PROVE UInv'
  OBVIOUS
<1>1. CASE UNCHANGED uploadVars
  <2>1. FilesGo /\ UploadTypes'
    BY <1>1, FilesStay DEF uploadVars, UInv, UploadTypes
  <2>2. Onward /\ \A a \in Attachments : Expires(a)'
    BY <1>1, <2>1, GoesOnward, ExpiresStays DEF uploadVars
  <2> QED BY <1>1, <2>1, <2>2, ProceedsKeeps DEF uploadVars, Proceeds, FilesGo
<1>2. ASSUME NEW a \in Attachments, RequestUpload(a) \/ PresignPut(a) PROVE UInv'
  BY <1>2, RequestKeeps, PresignKeeps
<1>3. ASSUME NEW a \in Attachments, NEW what \in {"declared", "other"}, Put(a, what) PROVE UInv'
  BY <1>3, PutKeeps
<1>4. ASSUME NEW c \in Uploaders, UploadCall(c) \/ CallFails(c) PROVE UInv'
  BY <1>4, BeginsKeeps, HeadKeeps, DiscardKeeps, MarkReadyKeeps, MarkDeletingKeeps,
     DeleteObjectKeeps, DropRemovedKeeps, CallFailsKeeps DEF UploadCall
<1>5. ASSUME NEW s \in Sweepers, SweepStep(s) \/ SweepFails(s) PROVE UInv'
  BY <1>5, SelectKeeps, NextStaleKeeps, ClaimStaleKeeps, SweepObjectKeeps, SweepRowKeeps,
     TouchKeeps, SweepFailsKeeps DEF SweepStep
<1>6. CASE UploadClock
  BY <1>6, ClockKeeps
<1> QED BY <1>1, <1>2, <1>3, <1>4, <1>5, <1>6 DEF UploadNext

-----------------------------------------------------------------------------
(* The attachment rows, URLs, objects, calls and sweeps are what they      *)
(* should be, and the order in which the sweeper finds the rows has each   *)
(* that exists once.                                                       *)
THEOREM UploadsTyped ==
    ASSUME NEW A, NEW C, NEW W PROVE UploadSpec(A, C, W) => []UploadTypeOK
<1>1. UploadInit(A, C, W) => UInv
  BY InitUploads
<1>2. ASSUME UInv PROVE UploadTypeOK
  <2>1. ASSUME NEW s \in Sweepers
        PROVE  /\ cleanup[s].step \in {"away", "idle", "next", "claim", "delete", "drop", "touch"}
               /\ Len(cleanup[s].rows) <= CleanupSize /\ cleanup[s].uploading \subseteq Attachments
    BY <1>2, SweepAt DEF Sweeping, Sound
  <2> QED BY <1>2, <2>1 DEF UInv, UploadTypes, InOrder, UploadTypeOK
<1> QED BY <1>1, <1>2, NextUploads, PTL DEF UploadSpec

(* What is served is what was verified, however many clients complete and  *)
(* remove an upload and however many sweepers are at it, unless a          *)
(* completion found another object under its key.                          *)
(* features/uploads/src/render.ts complete, remove, sweepStale.            *)
THEOREM ServedIsVerified ==
    ASSUME NEW A, NEW C, NEW W PROVE UploadSpec(A, C, W) => []ReadyIsVerified
<1>1. UploadInit(A, C, W) => UInv
  BY InitUploads
<1>2. UInv => ReadyIsVerified
  BY DEF UInv
<1> QED BY <1>1, <1>2, NextUploads, PTL DEF UploadSpec

(* A row that goes.                                                        *)
Leaves(a) ==
    files[a].status = "DELETING" /\ files'[a].status = "gone"
      /\ tickets[a].step = "issued" /\ ~tickets[a].late =>
    /\ tickets[a].left = 0
    /\ \/ objects[a] = "none"
       \/ \E c \in Uploaders : upcall[c].row = a /\ upcall[c].early

LEMMA RowsLeave ==
    ASSUME UInv, UploadNext, NEW a \in Attachments PROVE Leaves(a)
<1> SUFFICES ASSUME files[a].status = "DELETING", files'[a].status = "gone", InTime(a)
             PROVE  /\ tickets[a].left = 0
                    /\ \/ objects[a] = "none"
                       \/ \E c \in Uploaders : upcall[c].row = a /\ upcall[c].early
  BY DEF Leaves, InTime, Signed
<1>1. \/ \E c \in Uploaders : DropRemoved(c)
      \/ \E s \in Sweepers : SweepRow(s)
  <2>1. \A b \in Attachments : ~RequestUpload(b) /\ ~PresignPut(b)
    BY DEF RequestUpload, PresignPut, UInv, UploadTypes
  <2>2. \A b \in Attachments, what \in {"declared", "other"} : ~Put(b, what)
    BY DEF Put
  <2>3. \A c \in Uploaders, b \in Attachments : ~Complete(c, b) /\ ~RemoveUpload(c, b)
    BY DEF Complete, RemoveUpload
  <2>4. \A c \in Uploaders : ~HeadObject(c) /\ ~Discard(c) /\ ~DeleteObject(c) /\ ~CallFails(c)
    BY DEF HeadObject, Discard, DeleteObject, CallFails
  <2>0. \A b, from, to : to \in {"READY", "DELETING"} => ~SetStatus(b, from, to)
    BY DEF SetStatus, UInv, UploadTypes, File
  <2>5. \A c \in Uploaders : ~MarkReady(c) /\ ~MarkDeleting(c)
    BY <2>0 DEF MarkReady, MarkDeleting
  <2>6. \A s \in Sweepers : ~SelectStale(s) /\ ~NextStale(s) /\ ~SweepObject(s) /\ ~SweepFails(s)
    BY DEF SelectStale, NextStale, SweepObject, SweepFails
  <2>7. \A s \in Sweepers : ~ClaimStale(s) /\ ~TouchRow(s)
    BY <2>0 DEF ClaimStale, TouchRow
  <2>8. ~UploadClock
    BY DEF UploadClock, UInv, UploadTypes, File
  <2> QED BY <2>1, <2>2, <2>3, <2>4, <2>5, <2>6, <2>7, <2>8 DEF UploadNext, UploadCall, SweepStep
<1>2. ASSUME NEW c \in Uploaders, DropRemoved(c)
      PROVE  /\ tickets[a].left = 0
             /\ objects[a] = "none" \/ (upcall[c].row = a /\ upcall[c].early)
  <2>1. upcall[c].row = a /\ files[a].age >= PresignTtl
    BY <1>2 DEF DropRemoved, DropRow, UInv, UploadTypes
  <2>2. tickets[a].left = 0
    BY <2>1, OldExpired
  <2>3. upcall[c].early \/ objects[a] = "none"
    BY <1>2, <2>1 DEF DropRemoved, UInv, Judged
  <2> QED BY <2>1, <2>2, <2>3
<1>3. ASSUME NEW s \in Sweepers, SweepRow(s)
      PROVE  tickets[a].left = 0 /\ objects[a] = "none"
  <2>1. At(s) = a
    BY <1>3 DEF SweepRow, DropRow, UInv, UploadTypes
  <2>2. Sound(cleanup[s]) /\ cleanup[s].rows # <<>> /\ Old(a)
    BY <1>3, <2>1, SweepAt DEF SweepRow, Sound
  <2>3. files[a].age >= PresignTtl
    BY <2>2, UploadsAssumption DEF Old, UInv, UploadTypes, File
  <2>4. tickets[a].left = 0
    BY <2>3, OldExpired
  <2>5. objects[a] = "none"
    BY <1>3, <2>1, <2>2 DEF SweepRow, Sound, At
  <2> QED BY <2>4, <2>5
<1> QED BY <1>1, <1>2, <1>3

(* A row goes only when its URL has expired and its object is gone, unless *)
(* the URL was signed late, or a removal has deleted the object early.     *)
(* features/uploads/src/render.ts remove, sweepStale.                      *)
THEOREM NothingOrphaned ==
    ASSUME NEW A, NEW C, NEW W PROVE UploadSpec(A, C, W) => NoOrphan
<1>1. UploadInit(A, C, W) => UInv
  BY InitUploads
<1>2. UInv /\ [UploadNext]_uploadVars => [\A a \in Attachments : Leaves(a)]_uploadVars
  BY RowsLeave
<1>3. UploadSpec(A, C, W) => [][\A a \in Attachments : Leaves(a)]_uploadVars
  BY <1>1, <1>2, NextUploads, PTL DEF UploadSpec
<1> QED BY <1>3 DEF NoOrphan, Leaves

-----------------------------------------------------------------------------
(* Notifications.  What bounds the provider's calls, and the messages it   *)
(* has accepted, is a budget: an attempt may cost one call until it has    *)
(* been made, and a message may be accepted once more as long as its row   *)
(* is queued and nothing that holds its lease is about to settle it.       *)
(* Everything that opens the row again, a crash, an overrun lease, an      *)
(* update the database refuses or an answer that came too late, is paid    *)
(* for by a fault.                                                         *)
MailSpec == MailInit /\ [][MailNext]_mailVars

(* A call is of a row that is there and made one of its attempts, which no *)
(* other one has made; the latest has its row's lease for as long as the   *)
(* row is queued.                                                          *)
Made(c) == /\ outbox[c.row].status # "absent"
           /\ c.attempt <= outbox[c.row].attempts
Latest(c) == /\ c.attempt = outbox[c.row].attempts /\ outbox[c.row].status = "PENDING"
             => outbox[c.row].locked /\ c.left = outbox[c.row].left
OneEach == \A c, d \in mailing : c.row = d.row /\ c.attempt = d.attempt => c = d

(* The attempts for which the provider is still to be asked,               *)
UnsentOf(S, m) == {c.attempt : c \in {x \in S : x.row = m /\ x.step \in {"render", "send"}}}
Unsent(m) == UnsentOf(mailing, m)

(* and whether, without anything going wrong, there may be one more: not   *)
(* when the row is settled, nor while a call whose lease runs is about to  *)
(* settle it.                                                              *)
Covered(m) == \E c \in mailing : /\ c.row = m /\ MayRecord(c)
                                 /\ c.left >= 1 /\ c.step # "retry"
MailOpen(m) == IF outbox[m].status \notin {"absent", "PENDING"} \/ Covered(m) THEN 0 ELSE 1

(* Each attempt costs one call at most, and each acceptance but the first  *)
(* a fault.                                                                *)
Budget(m) ==
    /\ provider[m].calls + Cardinality(Unsent(m)) <= outbox[m].attempts
    /\ provider[m].accepted + Cardinality(Unsent(m)) + MailOpen(m) <= 1 + mailFaults

(* The same for a recovery message, whose attempts are made in one loop.   *)
RecoveryBudget(m) ==
    LET r == recovery[m]
    IN  /\ r.step = "none" => provider[m].calls = 0 /\ provider[m].accepted = 0
        /\ r.step = "send" => r.attempt \in 1 .. MaxAttempts /\ provider[m].calls < r.attempt
        /\ provider[m].calls <= MaxAttempts
        /\ provider[m].accepted + (IF r.step \in {"none", "send"} THEN 1 ELSE 0) <= 1 + mailFaults
        /\ r.step \in {"accepted", "delivered"} => provider[m].accepted > 0

(* A row that is DONE was accepted, and one that is not there never tried.  *)
Told(m) == /\ outbox[m].status = "DONE" => provider[m].accepted > 0
           /\ outbox[m].status = "absent" => outbox[m].attempts = 0

Asking == [calls: Nat, accepted: Nat]

Accepted(c) == c.step = "ok" => provider[c.row].accepted > 0

MailCalls == /\ \A c \in mailing : Made(c) /\ Latest(c) /\ Accepted(c)
             /\ OneEach

(* A dispatcher between two ticks has no batch behind it.                  *)
AtRest == \A w \in Dispatchers : ~dispatch[w].running => dispatch[w].batch = 0

Types == /\ MailTypeOK /\ AtRest
         /\ provider \in [Messages \cup Recoveries -> Asking]

MailInv == /\ Types /\ MailCalls
           /\ \A m \in Messages : Budget(m) /\ Told(m)
           /\ \A m \in Recoveries : RecoveryBudget(m)

-----------------------------------------------------------------------------
(* Rows, calls and batches keep their types.                               *)
LEMMA PageClaimable ==
    ASSUME NEW page \in Pages(outbox)
    PROVE  page \subseteq DOMAIN outbox /\ \A m \in page : Claimable(outbox[m])
  BY DEF Pages

LEMMA RestingType == Resting \in Dispatching
  BY NotificationsAssumption DEF Resting, Dispatching

LEMMA FaultType == ASSUME MailTypeOK, MailFault
                   PROVE  mailFaults' \in 0 .. MaxMailFaults /\ mailFaults' = mailFaults + 1
  BY NotificationsAssumption DEF MailTypeOK, MailFault

LEMMA MailingGoes ==
    ASSUME NEW c \in Mailing, NEW step \in {"render", "send", "ok", "retry", "drop"}
    PROVE  LET g == [c EXCEPT !.step = step]
           IN  /\ g \in Mailing /\ g.step = step /\ g.row = c.row /\ g.attempt = c.attempt
               /\ g.left = c.left /\ g.by = c.by
  BY DEF Mailing

LEMMA MailGoesType ==
    ASSUME MailTypeOK, NEW c \in mailing,
           NEW step \in {"render", "send", "ok", "retry", "drop"}, MailGoes(c, step)
    PROVE  mailing' \subseteq Mailing
<1>1. [c EXCEPT !.step = step] \in Mailing
  BY MailingGoes DEF MailTypeOK
<1> QED BY <1>1 DEF MailTypeOK, MailGoes

LEMMA AskedType ==
    ASSUME MailTypeOK, provider \in [Messages \cup Recoveries -> Asking],
           NEW m \in Messages \cup Recoveries, NEW answer \in Answers, Asked(m, answer)
    PROVE  /\ provider' \in [Messages \cup Recoveries -> Asking]
           /\ mailFaults' \in 0 .. MaxMailFaults
           /\ \A n \in Messages \cup Recoveries : n # m => provider'[n] = provider[n]
           /\ provider'[m].calls = provider[m].calls + 1
           /\ answer \in {"accepted", "late"} => provider'[m].accepted = provider[m].accepted + 1
           /\ answer \notin {"accepted", "late"} => provider'[m].accepted = provider[m].accepted
           /\ mailFaults' = IF answer = "late" THEN mailFaults + 1 ELSE mailFaults
<1> DEFINE n == IF answer \in {"accepted", "late"} THEN provider[m].accepted + 1
                ELSE provider[m].accepted
           k == provider[m].calls + 1
           q == [provider[m] EXCEPT !.calls = k, !.accepted = n]
<1>1. n \in Nat /\ k \in Nat /\ provider[m] \in Asking
  BY DEF Asking
<1>2. provider' = [provider EXCEPT ![m] = q]
  BY DEF Asked
<1> HIDE DEF n, k
<1>3. q \in Asking /\ q.calls = k /\ q.accepted = n
  BY <1>1 DEF Asking
<1> HIDE DEF q
<1>4. /\ provider' \in [Messages \cup Recoveries -> Asking] /\ provider'[m] = q
      /\ \A i \in Messages \cup Recoveries : i # m => provider'[i] = provider[i]
  BY <1>2, <1>3
<1>5. /\ mailFaults' \in 0 .. MaxMailFaults
      /\ mailFaults' = IF answer = "late" THEN mailFaults + 1 ELSE mailFaults
  BY FaultType DEF Asked, MailTypeOK
<1> QED BY <1>3, <1>4, <1>5 DEF n, k

LEMMA NotifyTyped == ASSUME Types, NEW m \in Messages, Notify(m) PROVE Types'
<1>1. NewRow(0) \in Row /\ NewRow(0).attempts = 0
  <2>1. 0 \in 0 .. MaxDelay
    BY QueueAssumption
  <2>2. NewRow(0).attempts = 0
    BY DEF NewRow, NoRow
  <2> QED BY <2>1, <2>2, NewRowType
<1>2. outbox' \in [Messages -> Row] /\ \A n \in Messages : outbox'[n].attempts <= MaxAttempts
  BY <1>1, QueueAssumption DEF Notify, Types, MailTypeOK, AtRest
<1> QED BY <1>2 DEF Notify, Types, MailTypeOK, AtRest

LEMMA RecoverTyped == ASSUME Types, NEW m \in Recoveries, Recover(m) PROVE Types'
<1>1. [step |-> "send", attempt |-> 1] \in Sending
  BY QueueAssumption DEF Sending
<1> QED BY <1>1 DEF Recover, Types, MailTypeOK, AtRest

LEMMA SendRecoveryTyped ==
    ASSUME Types, NEW m \in Recoveries, NEW answer \in Answers,
           SendRecovery(m, answer), recovery[m].attempt \in 1 .. MaxAttempts
    PROVE  Types'
<1> DEFINE r == recovery[m]
           a == [r EXCEPT !.step = "accepted"]
           f == [r EXCEPT !.step = "failed"]
           n == [r EXCEPT !.attempt = @ + 1]
<1>1. r \in Sending
  BY DEF Types, MailTypeOK
<1>2. a \in Sending /\ f \in Sending
  BY <1>1 DEF Sending
<1>3. r.attempt # MaxAttempts => n \in Sending
  BY <1>1, QueueAssumption DEF Sending
<1>4. recovery' \in [Recoveries -> Sending]
  BY <1>2, <1>3 DEF SendRecovery, Types, MailTypeOK
<1>5. /\ mailFaults' \in 0 .. MaxMailFaults
      /\ provider' \in [Messages \cup Recoveries -> Asking]
  BY AskedType DEF SendRecovery, Types
<1> QED BY <1>4, <1>5 DEF SendRecovery, Types, MailTypeOK, AtRest

LEMMA AnswerTyped == ASSUME Types, NEW m \in Recoveries, AnswerRequest(m) PROVE Types'
<1>1. recovery' \in [Recoveries -> Sending]
  BY DEF AnswerRequest, Types, MailTypeOK, AtRest, Sending
<1> QED BY <1>1 DEF AnswerRequest, Types, MailTypeOK, AtRest

LEMMA DiesTyped == ASSUME Types, NEW m \in Recoveries, RequestDies(m) PROVE Types'
<1>1. recovery' \in [Recoveries -> Sending]
  BY DEF RequestDies, Types, MailTypeOK, AtRest, Sending
<1> QED BY <1>1, FaultType DEF RequestDies, Types, MailTypeOK, AtRest

(* The calls a claim adds.                                                 *)
NewCall(w, m) == [row |-> m, attempt |-> outbox[m].attempts + 1, left |-> Lease,
                  by |-> w, step |-> "render", awaited |-> TRUE]

LEMMA ClaimPage ==
    ASSUME MailTypeOK, AtRest, NEW w \in Dispatchers, ClaimBatch(w)
    PROVE  \E page \in SUBSET Messages :
              LET runnable == page \ Exhausted(page)
              IN  /\ \A m \in page : Claimable(outbox[m])
                  /\ outbox' = [m \in Messages |->
                        IF m \in runnable THEN Leased(outbox[m])
                        ELSE IF m \in page THEN Settled(outbox[m], "FAILED")
                        ELSE outbox[m]]
                  /\ mailing' = mailing \cup {NewCall(w, m) : m \in runnable}
                  /\ dispatch' \in [Dispatchers -> Dispatching] /\ AtRest'
<1> PICK page \in Pages(outbox) :
          LET runnable == page \ Exhausted(page)
          IN  /\ outbox' = [m \in Messages |->
                    IF m \in runnable THEN Leased(outbox[m])
                    ELSE IF m \in page THEN Settled(outbox[m], "FAILED")
                    ELSE outbox[m]]
              /\ mailing' = mailing \cup {NewCall(w, m) : m \in runnable}
              /\ dispatch' = [dispatch EXCEPT ![w] =
                    IF runnable = {} THEN Resting
                    ELSE [running |-> TRUE, batch |-> @.batch + 1,
                          full |-> Cardinality(runnable) = BatchSize]]
  BY DEF ClaimBatch, NewCall
<1>1. page \subseteq Messages /\ \A m \in page : Claimable(outbox[m])
  BY PageClaimable DEF MailTypeOK
<1> DEFINE runnable == page \ Exhausted(page)
           q == [running |-> TRUE, batch |-> dispatch[w].batch + 1,
                 full |-> Cardinality(runnable) = BatchSize]
<1>2. dispatch' = [dispatch EXCEPT ![w] = IF runnable = {} THEN Resting ELSE q]
  OBVIOUS
<1>3. dispatch[w].batch + 1 \in 0 .. DispatchBatches
  BY NotificationsAssumption DEF ClaimBatch, AnotherBatch, MailTypeOK, Dispatching, AtRest
<1>4. (Cardinality(runnable) = BatchSize) \in BOOLEAN
  OBVIOUS
<1>5. q \in Dispatching
  BY <1>3, <1>4 DEF Dispatching
<1>6. q.running /\ ~Resting.running /\ Resting.batch = 0
  BY DEF Resting
<1> HIDE DEF q
<1>7. dispatch' \in [Dispatchers -> Dispatching] /\ AtRest'
  BY <1>2, <1>5, <1>6, RestingType DEF MailTypeOK, AtRest
<1> QED BY <1>1, <1>7

LEMMA NewCallType == ASSUME MailTypeOK, NEW w \in Dispatchers, NEW m \in Messages,
                            outbox[m].attempts < MaxAttempts
                     PROVE  NewCall(w, m) \in Mailing
<1>1. outbox[m].attempts + 1 \in 1 .. MaxAttempts
  BY QueueAssumption DEF MailTypeOK, Row
<1> QED BY <1>1, QueueAssumption DEF NewCall, Mailing

LEMMA ClaimTyped == ASSUME Types, NEW w \in Dispatchers, ClaimBatch(w) PROVE Types'
<1> PICK page \in SUBSET Messages :
       LET runnable == page \ Exhausted(page)
       IN  /\ \A m \in page : Claimable(outbox[m])
           /\ outbox' = [m \in Messages |->
                 IF m \in runnable THEN Leased(outbox[m])
                 ELSE IF m \in page THEN Settled(outbox[m], "FAILED")
                 ELSE outbox[m]]
           /\ mailing' = mailing \cup {NewCall(w, m) : m \in runnable}
           /\ dispatch' \in [Dispatchers -> Dispatching] /\ AtRest'
  BY ClaimPage DEF Types
<1> DEFINE runnable == page \ Exhausted(page)
<1>1. \A m \in runnable : m \in Messages /\ outbox[m].attempts < MaxAttempts
  BY QueueAssumption DEF Exhausted, Types, MailTypeOK, Row
<1>2. mailing' \subseteq Mailing
  BY <1>1, NewCallType DEF Types, MailTypeOK
<1>3. \A m \in Messages : /\ outbox[m] \in Row /\ outbox[m].attempts <= MaxAttempts
                          /\ outbox[m].attempts \in Nat
  BY DEF Types, MailTypeOK, Row
<1>4. \A m \in Messages : /\ Leased(outbox[m]) \in Row
                          /\ Leased(outbox[m]).attempts = outbox[m].attempts + 1
                          /\ Settled(outbox[m], "FAILED") \in Row
                          /\ Settled(outbox[m], "FAILED").attempts = outbox[m].attempts
  BY <1>3, LeasedRow, SettledRow DEF Statuses
<1>5. /\ outbox' \in [Messages -> Row]
      /\ \A m \in Messages : outbox'[m].attempts <= MaxAttempts
  BY <1>1, <1>3, <1>4, QueueAssumption
<1> QED BY <1>2, <1>5 DEF ClaimBatch, Types, MailTypeOK

LEMMA EndDispatchTyped == ASSUME Types, NEW w \in Dispatchers, EndDispatch(w) PROVE Types'
  BY RestingType DEF EndDispatch, Types, MailTypeOK, AtRest, Resting

LEMMA RenderTyped ==
    ASSUME Types, NEW c \in mailing, NEW found \in BOOLEAN, RenderMail(c, found) PROVE Types'
  BY MailGoesType DEF RenderMail, Types, MailTypeOK, AtRest

LEMMA SendTyped ==
    ASSUME Types, NEW c \in mailing, NEW answer \in Answers, SendMail(c, answer) PROVE Types'
<1>1. c.row \in Messages \cup Recoveries
  BY DEF Types, MailTypeOK, Mailing
<1>2. mailing' \subseteq Mailing
  BY MailGoesType DEF SendMail, Types
<1> QED BY <1>1, <1>2, AskedType DEF SendMail, Types, MailTypeOK, AtRest

(* Recording how an attempt ended: its row keeps its attempts.             *)
LEMMA Recorded ==
    ASSUME MailTypeOK, NEW c \in mailing, RecordDelivered(c) \/ RecordFailure(c)
    PROVE  /\ c.row \in Messages /\ mailing' = mailing \ {c}
           /\ outbox' \in [Messages -> Row]
           /\ \A m \in Messages : outbox'[m].attempts = outbox[m].attempts
           /\ \A m \in Messages : m # c.row \/ ~MayRecord(c) => outbox'[m] = outbox[m]
           /\ MayRecord(c) =>
                 \/ RecordDelivered(c) /\ outbox'[c.row].status = "DONE"
                 \/ RecordFailure(c) /\ outbox'[c.row].status = "FAILED"
                 \/ /\ c.step = "retry" /\ outbox'[c.row].status = "PENDING"
                    /\ ~outbox'[c.row].locked
<1> DEFINE row == outbox[c.row]
           d == Settled(row, "DONE")
           f == Settled(row, "FAILED")
           r == Retried(row, RetryDelay(c.attempt))
<1>1. c.row \in Messages /\ c.attempt \in Nat \ {0} /\ row \in Row
  BY DEF MailTypeOK, Mailing
<1>2. /\ d \in Row /\ d.attempts = row.attempts /\ d.status = "DONE"
      /\ f \in Row /\ f.attempts = row.attempts /\ f.status = "FAILED"
      /\ r \in Row /\ r.attempts = row.attempts /\ r.status = row.status /\ ~r.locked
  BY <1>1, SettledRow, RetriedRow, DelayType DEF Statuses
<1>3. RecordDelivered(c) =>
         outbox' = IF MayRecord(c) THEN [outbox EXCEPT ![c.row] = d] ELSE outbox
  BY DEF RecordDelivered
<1>4. RecordFailure(c) =>
         outbox' = IF ~MayRecord(c) THEN outbox
                   ELSE [outbox EXCEPT ![c.row] =
                           IF c.step = "drop" \/ c.attempt >= MaxAttempts THEN f ELSE r]
  BY DEF RecordFailure
<1>5. mailing' = mailing \ {c} /\ (RecordFailure(c) => c.step \in {"retry", "drop"})
  BY DEF RecordDelivered, RecordFailure, MailEnds
<1>6. MayRecord(c) => row.status = "PENDING"
  BY DEF MayRecord
<1> HIDE DEF d, f, r
<1>7. CASE RecordDelivered(c)
  BY <1>1, <1>2, <1>3, <1>5, <1>7 DEF MailTypeOK
<1>8. CASE RecordFailure(c)
  BY <1>1, <1>2, <1>4, <1>5, <1>6, <1>8 DEF MailTypeOK
<1> QED BY <1>7, <1>8

LEMMA RecordTyped ==
    ASSUME Types, NEW c \in mailing, RecordDelivered(c) \/ RecordFailure(c) PROVE Types'
<1>1. /\ outbox' \in [Messages -> Row] /\ mailing' \subseteq Mailing
      /\ \A m \in Messages : outbox'[m].attempts <= MaxAttempts
  BY Recorded DEF Types, MailTypeOK
<1> QED BY <1>1 DEF RecordDelivered, RecordFailure, Types, MailTypeOK, AtRest

LEMMA CaughtTyped == ASSUME Types, NEW c \in mailing, MailCaught(c) PROVE Types'
  BY MailGoesType, FaultType DEF MailCaught, Types, MailTypeOK, AtRest

LEMMA RejectsTyped == ASSUME Types, NEW c \in mailing, MailRejects(c) PROVE Types'
<1>1. \A x \in mailing : x \in Mailing /\ [x EXCEPT !.awaited = FALSE] \in Mailing
  BY DEF Types, MailTypeOK, Mailing
<1>2. mailing' \subseteq Mailing
  BY <1>1 DEF MailRejects
<1>3. dispatch' \in [Dispatchers -> Dispatching] /\ AtRest'
  BY RestingType DEF MailRejects, Types, MailTypeOK, AtRest, Resting
<1> QED BY <1>2, <1>3, FaultType DEF MailRejects, Types, MailTypeOK

LEMMA DispatcherTyped == ASSUME Types, NEW w \in Dispatchers, DispatcherDies(w) PROVE Types'
<1>1. dispatch' \in [Dispatchers -> Dispatching] /\ AtRest'
  BY RestingType DEF DispatcherDies, Types, MailTypeOK, AtRest, Resting
<1> QED BY <1>1, FaultType DEF DispatcherDies, Types, MailTypeOK

MailAged(c) == [c EXCEPT !.left = Down(@, -1)]

LEMMA AgedCall == ASSUME NEW c \in Mailing
                  PROVE  /\ MailAged(c) \in Mailing
                         /\ MailAged(c).left = Down(c.left, -1) /\ MailAged(c).row = c.row
                         /\ MailAged(c).attempt = c.attempt /\ MailAged(c).step = c.step
<1>1. Down(c.left, -1) \in -1 .. Lease
  BY QueueAssumption DEF Mailing, Down
<1> QED BY <1>1 DEF MailAged, Mailing

LEMMA ClockTyped == ASSUME Types, MailClock PROVE Types'
<1>1. /\ outbox' \in [Messages -> Row]
      /\ \A m \in Messages : outbox'[m].attempts <= MaxAttempts
  BY LaterRow DEF MailClock, Types, MailTypeOK
<1>2. mailing' \subseteq Mailing
  BY AgedCall DEF MailClock, Types, MailTypeOK, MailAged
<1>3. mailFaults' \in 0 .. MaxMailFaults
  BY FaultType DEF MailClock, Types, MailTypeOK
<1> QED BY <1>1, <1>2, <1>3 DEF MailClock, Types, MailTypeOK, AtRest

-----------------------------------------------------------------------------
(* The calls in flight.  Most steps move one, end some or change nothing   *)
(* that tells them apart; a row changes under a call only when it is taken *)
(* off the queue or when a later attempt gives it back.                    *)
Same(c, g) == g.row = c.row /\ g.attempt = c.attempt /\ g.left = c.left

LEMMA CallsKept ==
    ASSUME Types, MailCalls, OneEach',
           \A g \in mailing' : \E c \in mailing :
              Same(c, g) /\ (g.step = "ok" => c.step = "ok" \/ provider'[g.row].accepted > 0),
           \A g \in mailing' :
              LET old == outbox[g.row]  new == outbox'[g.row]
              IN  /\ new.status # "absent" /\ new.attempts = old.attempts
                  /\ new = old \/ new.status # "PENDING" \/ g.attempt # old.attempts,
           \A m \in Messages : provider[m].accepted > 0 => provider'[m].accepted > 0
    PROVE  MailCalls'
<1> SUFFICES ASSUME NEW g \in mailing' PROVE (Made(g) /\ Latest(g) /\ Accepted(g))'
  BY DEF MailCalls
<1> PICK c \in mailing :
       Same(c, g) /\ (g.step = "ok" => c.step = "ok" \/ provider'[g.row].accepted > 0)
  OBVIOUS
<1>1. Made(c) /\ Latest(c) /\ Accepted(c) /\ c.row \in Messages
  BY DEF MailCalls, Types, MailTypeOK, Mailing
<1>2. (Made(g) /\ Latest(g))'
  BY <1>1 DEF Made, Latest, Same
<1>3. c.step = "ok" => provider'[c.row].accepted > 0
  BY <1>1 DEF Accepted
<1>4. Accepted(g)'
  BY <1>3 DEF Accepted, Same
<1> QED BY <1>2, <1>4

LEMMA CallsSame == ASSUME Types, MailCalls, mailing' \subseteq mailing, UNCHANGED <<outbox, provider>>
                   PROVE  MailCalls'
<1>1. OneEach' /\ \A g \in mailing' : \E c \in mailing : Same(c, g) /\ g.step = c.step
  BY DEF MailCalls, OneEach, Same
<1>2. \A m \in Messages : provider[m].accepted > 0 => provider'[m].accepted > 0
  BY DEF Types, Asking
<1> QED BY <1>1, <1>2, CallsKept DEF MailCalls, Made

(* A call that moves on.                                                   *)
LEMMA CallsMove ==
    ASSUME Types, MailCalls, UNCHANGED outbox, NEW c \in mailing,
           NEW step \in {"render", "send", "ok", "retry", "drop"}, MailGoes(c, step),
           \A m \in Messages : provider[m].accepted > 0 => provider'[m].accepted > 0,
           step = "ok" => provider'[c.row].accepted > 0
    PROVE  MailCalls'
<1> DEFINE g == [c EXCEPT !.step = step]
<1>1. Same(c, g) /\ g.step = step
  BY MailingGoes DEF Types, MailTypeOK, Same
<1>2. mailing' = (mailing \ {c}) \cup {g}
  BY DEF MailGoes
<1> HIDE DEF g
<1>3. OneEach'
  BY <1>1, <1>2 DEF MailCalls, OneEach, Same
<1>4. \A h \in mailing' : \E d \in mailing :
         Same(d, h) /\ (h.step = "ok" => d.step = "ok" \/ provider'[h.row].accepted > 0)
  BY <1>1, <1>2 DEF Same
<1>5. \A h \in mailing' : outbox[h.row].status # "absent"
  BY <1>1, <1>2 DEF MailCalls, Made, Same
<1> QED BY <1>3, <1>4, <1>5, CallsKept

LEMMA NotifyCalls == ASSUME MailInv, NEW m \in Messages, Notify(m) PROVE MailCalls'
<1>1. \A c \in mailing : c.row # m /\ c.row \in Messages
  BY DEF MailInv, MailCalls, Made, Notify, Types, MailTypeOK, Mailing
<1>2. \A c \in mailing : outbox'[c.row] = outbox[c.row]
  BY <1>1 DEF Notify, MailInv, Types, MailTypeOK
<1> QED BY <1>2 DEF Notify, MailInv, MailCalls, Made, Latest, Accepted, OneEach

LEMMA ClaimCalls == ASSUME MailInv, NEW w \in Dispatchers, ClaimBatch(w) PROVE MailCalls'
<1> PICK page \in SUBSET Messages :
       LET runnable == page \ Exhausted(page)
       IN  /\ \A m \in page : Claimable(outbox[m])
           /\ outbox' = [m \in Messages |->
                 IF m \in runnable THEN Leased(outbox[m])
                 ELSE IF m \in page THEN Settled(outbox[m], "FAILED")
                 ELSE outbox[m]]
           /\ mailing' = mailing \cup {NewCall(w, m) : m \in runnable}
           /\ dispatch' \in [Dispatchers -> Dispatching] /\ AtRest'
  BY ClaimPage DEF MailInv, Types
<1> DEFINE runnable == page \ Exhausted(page)
<1>1. \A m \in Messages : /\ outbox[m] \in Row /\ outbox[m].attempts \in Nat
                          /\ m \in page => outbox[m].status = "PENDING"
  BY DEF MailInv, Types, MailTypeOK, Row, Claimable
<1>2. \A m \in Messages :
         LET old == outbox[m]  new == outbox'[m]
         IN  IF m \in runnable
             THEN /\ new.status = "PENDING" /\ new.attempts = old.attempts + 1
                  /\ new.locked /\ new.left = Lease
             ELSE /\ new.attempts = old.attempts
                  /\ IF m \in page THEN new.status = "FAILED" ELSE new = old
  BY <1>1, LeasedRow, SettledRow DEF Statuses
<1> HIDE DEF runnable
<1>3. ASSUME NEW c \in mailing PROVE (Made(c) /\ Latest(c) /\ Accepted(c))'
  <2>1. Made(c) /\ Latest(c) /\ Accepted(c) /\ c.row \in Messages /\ c.attempt \in Nat
    BY QueueAssumption DEF MailInv, MailCalls, Types, MailTypeOK, Mailing
  <2>2. Accepted(c)'
    BY <2>1 DEF Accepted, ClaimBatch
  <2> QED BY <1>1, <1>2, <2>1, <2>2 DEF Made, Latest
<1>4. \A m \in runnable : LET g == NewCall(w, m) IN
         /\ g.row = m /\ g.attempt = outbox[m].attempts + 1 /\ g.left = Lease
         /\ g.step = "render" /\ m \in Messages
  BY DEF NewCall, runnable
<1>5. ASSUME NEW g \in mailing', g \notin mailing
      PROVE  /\ g.row \in runnable /\ g.row \in Messages /\ g = NewCall(w, g.row)
             /\ g.attempt = outbox[g.row].attempts + 1
             /\ g.left = Lease /\ g.step = "render"
  BY <1>4, <1>5 DEF runnable
<1>6. ASSUME NEW g \in mailing', g \notin mailing PROVE (Made(g) /\ Latest(g) /\ Accepted(g))'
  BY <1>1, <1>2, <1>5, <1>6 DEF Made, Latest, Accepted
<1>7. \A c \in mailing : /\ c.attempt <= outbox[c.row].attempts /\ c.attempt \in Nat
                         /\ outbox[c.row].attempts \in Nat
  BY <1>1, QueueAssumption DEF MailInv, MailCalls, Made, Types, MailTypeOK, Mailing
<1>8. OneEach'
  <2> SUFFICES ASSUME NEW c \in mailing', NEW d \in mailing',
                      c.row = d.row, c.attempt = d.attempt
               PROVE  c = d
    BY DEF OneEach
  <2>1. CASE c \in mailing /\ d \in mailing
    BY <2>1 DEF MailInv, MailCalls, OneEach
  <2>2. CASE c \notin mailing /\ d \notin mailing
    BY <1>5, <2>2
  <2>3. CASE c \in mailing /\ d \notin mailing
    BY <1>5, <1>7, <2>3
  <2>4. CASE c \notin mailing /\ d \in mailing
    BY <1>5, <1>7, <2>4
  <2> QED BY <2>1, <2>2, <2>3, <2>4
<1> QED BY <1>3, <1>6, <1>8 DEF MailCalls

LEMMA RecordCalls ==
    ASSUME MailInv, NEW c \in mailing, RecordDelivered(c) \/ RecordFailure(c) PROVE MailCalls'
<1>1. mailing' = mailing \ {c} /\ UNCHANGED provider
  BY Recorded DEF MailInv, Types, RecordDelivered, RecordFailure
<1>2. OneEach' /\ \A g \in mailing' : \E d \in mailing : Same(d, g) /\ g.step = d.step
  BY <1>1 DEF MailInv, MailCalls, OneEach, Same
<1>3. ASSUME NEW g \in mailing'
      PROVE  LET old == outbox[g.row]  new == outbox'[g.row]
             IN  /\ new.status # "absent" /\ new.attempts = old.attempts
                 /\ new = old \/ new.status # "PENDING" \/ g.attempt # old.attempts
  <2>1. g \in mailing /\ g # c /\ g.row \in Messages /\ outbox[g.row].status # "absent"
    BY <1>1 DEF MailInv, MailCalls, Made, Types, MailTypeOK, Mailing
  <2>2. CASE g.row # c.row \/ ~MayRecord(c)
    BY <2>1, <2>2, Recorded DEF MailInv, Types
  <2>3. CASE g.row = c.row /\ MayRecord(c)
    <3>1. c.attempt = outbox[c.row].attempts /\ g.attempt # c.attempt
      BY <2>1, <2>3 DEF MayRecord, MailInv, MailCalls, OneEach
    <3>2. /\ outbox'[c.row].attempts = outbox[c.row].attempts
          /\ outbox'[c.row].status \in {"DONE", "FAILED", "PENDING"}
      BY <2>3, Recorded DEF MailInv, Types
    <3> QED BY <2>3, <3>1, <3>2
  <2> QED BY <2>2, <2>3
<1>4. \A m \in Messages : provider[m].accepted > 0 => provider'[m].accepted > 0
  BY <1>1 DEF MailInv, Types, Asking
<1> QED BY <1>2, <1>3, <1>4, CallsKept DEF MailInv

LEMMA RejectsCalls == ASSUME MailInv, NEW c \in mailing, MailRejects(c) PROVE MailCalls'
<1> DEFINE a(x) == [x EXCEPT !.awaited = FALSE]
<1>1. \A x \in mailing : Same(x, a(x)) /\ a(x).step = x.step
  BY DEF MailInv, Types, MailTypeOK, Mailing, Same
<1>2. mailing' = {IF x.by = c.by THEN a(x) ELSE x : x \in mailing \ {c}}
  BY DEF MailRejects
<1> HIDE DEF a
<1>3. \A g \in mailing' : \E x \in mailing : /\ g = IF x.by = c.by THEN a(x) ELSE x
                                             /\ Same(x, g) /\ g.step = x.step
  BY <1>1, <1>2 DEF Same
<1>4. OneEach'
  BY <1>3 DEF MailInv, MailCalls, OneEach, Same
<1>5. UNCHANGED <<outbox, provider>>
  BY DEF MailRejects
<1>6. \A m \in Messages : provider[m].accepted > 0 => provider'[m].accepted > 0
  BY <1>5 DEF MailInv, Types, Asking
<1>7. \A g \in mailing' : outbox[g.row].status # "absent"
  BY <1>3 DEF MailInv, MailCalls, Made, Same
<1> QED BY <1>3, <1>4, <1>5, <1>6, <1>7, CallsKept DEF MailInv

LEMMA ClockCalls == ASSUME MailInv, MailClock PROVE MailCalls'
<1>1. /\ mailing' = {MailAged(c) : c \in mailing} /\ UNCHANGED provider
      /\ \A m \in Messages : outbox'[m] = Later(outbox[m])
  BY DEF MailClock, MailAged
<1>2. ASSUME NEW c \in mailing PROVE (Made(MailAged(c)) /\ Latest(MailAged(c)) /\ Accepted(MailAged(c)))'
  <2>1. Made(c) /\ Latest(c) /\ Accepted(c) /\ c.row \in Messages /\ c \in Mailing
    BY DEF MailInv, MailCalls, Types, MailTypeOK, Mailing
  <2>2. outbox[c.row] \in Row
    BY <2>1 DEF MailInv, Types, MailTypeOK
  <2> QED BY <1>1, <2>1, <2>2, AgedCall, LaterRow DEF Made, Latest, Accepted
<1>3. OneEach'
  BY <1>1, AgedCall DEF MailInv, Types, MailTypeOK, MailCalls, OneEach
<1> QED BY <1>1, <1>2, <1>3 DEF MailCalls

-----------------------------------------------------------------------------
(* The budgets.                                                            *)
LEMMA UnsentFinite ==
    ASSUME NEW S, S \subseteq Mailing, NEW m
    PROVE  /\ UnsentOf(S, m) \subseteq 1 .. MaxAttempts
           /\ IsFiniteSet(UnsentOf(S, m)) /\ Cardinality(UnsentOf(S, m)) \in Nat
<1>1. UnsentOf(S, m) \subseteq 1 .. MaxAttempts
  BY DEF UnsentOf, Mailing
<1>2. IsFiniteSet(1 .. MaxAttempts)
  BY FS_Interval, QueueAssumption
<1>3. IsFiniteSet(UnsentOf(S, m))
  BY <1>1, <1>2, FS_Subset
<1> QED BY <1>1, <1>3, FS_CardinalityType

LEMMA UnsentIn ==
    ASSUME NEW S, NEW m, NEW n
    PROVE  n \in UnsentOf(S, m) <=>
              \E c \in S : c.row = m /\ c.step \in {"render", "send"} /\ c.attempt = n
  BY DEF UnsentOf

LEMMA OpenType == ASSUME NEW m PROVE MailOpen(m) \in {0, 1}
  BY DEF MailOpen

LEMMA Numbers ==
    ASSUME Types, NEW m \in Messages
    PROVE  /\ provider[m].calls \in Nat /\ provider[m].accepted \in Nat /\ mailFaults \in Nat
           /\ outbox[m].attempts \in Nat
           /\ IsFiniteSet(Unsent(m)) /\ Cardinality(Unsent(m)) \in Nat
           /\ MailOpen(m) \in {0, 1}
<1>1. provider[m] \in Asking /\ mailFaults \in Nat /\ outbox[m] \in Row
  BY NotificationsAssumption DEF Types, MailTypeOK
<1>2. IsFiniteSet(Unsent(m)) /\ Cardinality(Unsent(m)) \in Nat
  BY UnsentFinite DEF Types, MailTypeOK, Unsent
<1> QED BY <1>1, <1>2, OpenType DEF Asking, Row

(* Nothing is asked of the provider, and what is opened is paid for.       *)
LEMMA LessIsLess ==
    ASSUME NEW u \in Nat, NEW v \in Nat, v <= u, NEW c \in Nat, NEW n \in Nat, c + u <= n,
           NEW a \in Nat, NEW o \in Nat, NEW p \in Nat, NEW f \in Nat, NEW g \in Nat,
           a + u + o <= 1 + f, p + f <= o + g
    PROVE  c + v <= n /\ a + v + p <= 1 + g
  OBVIOUS

LEMMA BudgetKept ==
    ASSUME Types, Types', NEW m \in Messages, Budget(m), provider'[m] = provider[m],
           outbox'[m].attempts = outbox[m].attempts,
           Unsent(m)' \subseteq Unsent(m),
           MailOpen(m)' + mailFaults <= MailOpen(m) + mailFaults'
    PROVE  Budget(m)'
<1>1. /\ provider[m].calls \in Nat /\ provider[m].accepted \in Nat /\ mailFaults \in Nat
      /\ outbox[m].attempts \in Nat /\ Cardinality(Unsent(m)) \in Nat
      /\ IsFiniteSet(Unsent(m)) /\ MailOpen(m) \in Nat
  BY Numbers
<1>2. mailFaults' \in Nat /\ MailOpen(m)' \in Nat
  BY NotificationsAssumption DEF MailOpen, Types, MailTypeOK
<1>3. Cardinality(Unsent(m)') \in Nat /\ Cardinality(Unsent(m)') <= Cardinality(Unsent(m))
  BY <1>1, FS_Subset, FS_CardinalityType
<1>4. /\ provider[m].calls + Cardinality(Unsent(m)) <= outbox[m].attempts
      /\ provider[m].accepted + Cardinality(Unsent(m)) + MailOpen(m) <= 1 + mailFaults
  BY DEF Budget
<1>5. /\ provider[m].calls + Cardinality(Unsent(m)') <= outbox[m].attempts
      /\ provider[m].accepted + Cardinality(Unsent(m)') + MailOpen(m)' <= 1 + mailFaults'
  BY <1>1, <1>2, <1>3, <1>4, LessIsLess
<1> QED BY <1>5 DEF Budget

(* The calls of other messages.                                            *)
LEMMA BudgetSame ==
    ASSUME Types, Types', NEW m \in Messages, Budget(m), provider'[m] = provider[m],
           outbox'[m] = outbox[m], mailFaults <= mailFaults',
           \A c : c.row = m => (c \in mailing' <=> c \in mailing)
    PROVE  Budget(m)'
<1>1. Unsent(m)' \subseteq Unsent(m)
  BY UnsentIn DEF Unsent
<1>2. Covered(m) => Covered(m)'
  BY DEF Covered, MayRecord
<1>3. MailOpen(m)' <= MailOpen(m)
  BY <1>2 DEF MailOpen
<1>4. /\ mailFaults \in Nat /\ mailFaults' \in Nat
      /\ MailOpen(m) \in {0, 1} /\ MailOpen(m)' \in {0, 1}
  BY NotificationsAssumption DEF MailOpen, Types, MailTypeOK
<1>5. MailOpen(m)' + mailFaults <= MailOpen(m) + mailFaults'
  BY <1>3, <1>4
<1> QED BY <1>1, <1>5, BudgetKept

Budgets == \A m \in Messages : Budget(m)

(* Nothing changes but what may make a fault of it: the calls that go on   *)
(* are the ones there were, or they may have lost what covered their row.  *)
LEMMA FaultBudgets ==
    ASSUME MailInv, Types', UNCHANGED <<outbox, provider>>, mailFaults' = mailFaults + 1,
           \A m \in Messages : Unsent(m)' \subseteq Unsent(m)
    PROVE  Budgets'
<1> SUFFICES ASSUME NEW m \in Messages PROVE Budget(m)'
  BY DEF Budgets
<1>1. /\ mailFaults \in Nat /\ MailOpen(m) \in {0, 1} /\ MailOpen(m)' \in {0, 1}
  BY Numbers DEF MailInv, MailOpen
<1>2. MailOpen(m)' + mailFaults <= MailOpen(m) + mailFaults'
  BY <1>1
<1> QED BY <1>2, BudgetKept DEF MailInv

LEMMA UnsentMoves ==
    ASSUME Types, NEW c \in mailing, NEW m \in Messages,
           NEW step \in {"render", "send", "ok", "retry", "drop"}, MailGoes(c, step),
           step \in {"render", "send"} => c.step \in {"render", "send"}
    PROVE  Unsent(m)' \subseteq Unsent(m)
<1> DEFINE g == [c EXCEPT !.step = step]
<1>1. g.step = step /\ g.row = c.row /\ g.attempt = c.attempt
  BY MailingGoes DEF Types, MailTypeOK
<1>2. mailing' = (mailing \ {c}) \cup {g}
  BY DEF MailGoes
<1> HIDE DEF g
<1>3. \A n : n \in UnsentOf(mailing', m) => n \in UnsentOf(mailing, m)
  BY <1>1, <1>2, UnsentIn
<1> QED BY <1>3 DEF Unsent

LEMMA CaughtBudgets == ASSUME MailInv, Types', NEW c \in mailing, MailCaught(c) PROVE Budgets'
<1>1. \A m \in Messages : Unsent(m)' \subseteq Unsent(m)
  BY UnsentMoves DEF MailCaught, MailInv
<1> QED BY <1>1, FaultType, FaultBudgets DEF MailCaught, MailInv, Types

LEMMA RejectsBudgets == ASSUME MailInv, Types', NEW c \in mailing, MailRejects(c) PROVE Budgets'
<1> DEFINE a(x) == [x EXCEPT !.awaited = FALSE]
<1>1. \A x \in mailing : a(x).row = x.row /\ a(x).attempt = x.attempt /\ a(x).step = x.step
  BY DEF MailInv, Types, MailTypeOK, Mailing
<1>2. \A g \in mailing' : \E x \in mailing : g = x \/ g = a(x)
  BY DEF MailRejects
<1> HIDE DEF a
<1>3. \A m \in Messages : \A n : n \in UnsentOf(mailing', m) => n \in UnsentOf(mailing, m)
  BY <1>1, <1>2, UnsentIn
<1>4. \A m \in Messages : Unsent(m)' \subseteq Unsent(m)
  BY <1>3 DEF Unsent
<1> QED BY <1>4, FaultType, FaultBudgets DEF MailRejects, MailInv, Types

LEMMA DispatcherBudgets ==
    ASSUME MailInv, Types', NEW w \in Dispatchers, DispatcherDies(w) PROVE Budgets'
<1>1. \A m \in Messages : \A n : n \in UnsentOf(mailing', m) => n \in UnsentOf(mailing, m)
  BY UnsentIn DEF DispatcherDies
<1>2. \A m \in Messages : Unsent(m)' \subseteq Unsent(m)
  BY <1>1 DEF Unsent
<1> QED BY <1>2, FaultType, FaultBudgets DEF DispatcherDies, MailInv, Types

LEMMA NotifyBudgets == ASSUME MailInv, Types', NEW m \in Messages, Notify(m) PROVE Budgets'
<1>1. /\ outbox'[m].attempts = 0 /\ outbox[m].attempts = 0
      /\ \A n \in Messages : n # m => outbox'[n] = outbox[n]
      /\ UNCHANGED <<mailing, provider, mailFaults>>
  BY DEF Notify, MailInv, Told, Types, MailTypeOK, NewRow, NoRow
<1>2. /\ MailOpen(m)' + mailFaults <= MailOpen(m) + mailFaults'
      /\ \A n \in Messages : mailFaults <= mailFaults'
  <2>1. MailOpen(m) = 1 /\ MailOpen(m)' \in {0, 1} /\ mailFaults \in Nat
    BY Numbers DEF Notify, MailInv, MailOpen, Covered, MayRecord
  <2> QED BY <1>1, <2>1
<1>3. Unsent(m)' = Unsent(m)
  BY <1>1 DEF Unsent
<1>4. Budget(m)'
  BY <1>1, <1>2, <1>3, BudgetKept DEF MailInv
<1>5. \A n \in Messages : n # m => Budget(n)'
  BY <1>1, <1>2, BudgetSame DEF MailInv
<1> QED BY <1>4, <1>5 DEF Budgets

(* A step of one call: what it leaves alone, and its own message.          *)
LEMMA OneCall ==
    ASSUME MailInv, Types', NEW c \in mailing,
           \A d : d.row # c.row => (d \in mailing' <=> d \in mailing),
           \A m \in Messages : m # c.row => /\ outbox'[m] = outbox[m]
                                            /\ provider'[m] = provider[m],
           mailFaults <= mailFaults', Budget(c.row)'
    PROVE  Budgets'
<1> SUFFICES ASSUME NEW m \in Messages, m # c.row PROVE Budget(m)'
  BY DEF Budgets
<1> QED BY BudgetSame DEF MailInv

LEMMA RenderBudgets ==
    ASSUME MailInv, Types', NEW c \in mailing, NEW found \in BOOLEAN, RenderMail(c, found)
    PROVE  Budgets'
<1> DEFINE step == IF found THEN "send" ELSE "drop"
           g == [c EXCEPT !.step = step]
           m == c.row
<1>1. step \in {"send", "drop"} /\ m \in Messages
  BY DEF MailInv, Types, MailTypeOK, Mailing
<1>2. MailGoes(c, step) /\ UNCHANGED <<outbox, provider, mailFaults>>
  BY DEF RenderMail
<1> HIDE DEF step
<1>3. g.step = step /\ g.row = m /\ g.attempt = c.attempt /\ g.left = c.left
  BY <1>1, MailingGoes DEF MailInv, Types, MailTypeOK
<1>4. mailing' = (mailing \ {c}) \cup {g}
  BY <1>2 DEF MailGoes
<1> HIDE DEF g, m
<1>5. Unsent(m)' \subseteq Unsent(m)
  BY <1>1, <1>2, UnsentMoves DEF RenderMail, MailInv
<1>6. Covered(m) => Covered(m)'
  BY <1>1, <1>2, <1>3, <1>4 DEF Covered, MayRecord
<1>7. MailOpen(m)' <= MailOpen(m)
  BY <1>2, <1>6 DEF MailOpen
<1>8. MailOpen(m)' + mailFaults <= MailOpen(m) + mailFaults' /\ mailFaults <= mailFaults'
  <2>1. mailFaults \in Nat /\ MailOpen(m) \in {0, 1} /\ MailOpen(m)' \in {0, 1}
    BY <1>1, Numbers DEF MailInv, MailOpen
  <2> QED BY <1>2, <1>7, <2>1
<1>9. Budget(m)'
  BY <1>1, <1>2, <1>5, <1>8, BudgetKept DEF MailInv
<1> QED BY <1>2, <1>3, <1>4, <1>8, <1>9, OneCall DEF m

LEMMA RecordBudgets ==
    ASSUME MailInv, Types', NEW c \in mailing, RecordDelivered(c) \/ RecordFailure(c)
    PROVE  Budgets'
<1> DEFINE m == c.row
<1>1. /\ m \in Messages /\ mailing' = mailing \ {c} /\ UNCHANGED <<provider, mailFaults>>
      /\ outbox'[m].attempts = outbox[m].attempts
      /\ \A n \in Messages : n # m => outbox'[n] = outbox[n]
      /\ ~MayRecord(c) => outbox'[m] = outbox[m]
  BY Recorded DEF MailInv, Types, RecordDelivered, RecordFailure
<1> HIDE DEF m
<1>2. \A n : n \in UnsentOf(mailing', m) => n \in UnsentOf(mailing, m)
  BY <1>1, UnsentIn
<1>3. Unsent(m)' \subseteq Unsent(m)
  BY <1>2 DEF Unsent
<1>4. MailOpen(m)' <= MailOpen(m)
  <2>1. CASE ~MayRecord(c)
    <3>1. Covered(m) => Covered(m)'
      BY <1>1, <2>1 DEF Covered, MayRecord
    <3> QED BY <1>1, <2>1, <3>1 DEF MailOpen
  <2>2. CASE MayRecord(c) /\ outbox'[m].status # "PENDING"
    <3>1. outbox'[m].status \in {"DONE", "FAILED"}
      BY <2>2, Recorded DEF MailInv, Types, m
    <3> QED BY <3>1 DEF MailOpen
  <2>3. CASE MayRecord(c) /\ outbox'[m].status = "PENDING"
    <3>1. c.step = "retry"
      BY <2>3, Recorded DEF MailInv, Types, m
    <3>2. \A d \in mailing : d.row = m /\ MayRecord(d) => d = c
      BY <2>3 DEF MayRecord, MailInv, MailCalls, OneEach, m
    <3>3. ~Covered(m)
      BY <3>1, <3>2 DEF Covered
    <3>4. outbox[m].status = "PENDING"
      BY <2>3 DEF MayRecord, m
    <3> QED BY <3>3, <3>4 DEF MailOpen
  <2> QED BY <2>1, <2>2, <2>3
<1>5. MailOpen(m)' + mailFaults <= MailOpen(m) + mailFaults' /\ mailFaults <= mailFaults'
  <2>1. mailFaults \in Nat /\ MailOpen(m) \in {0, 1} /\ MailOpen(m)' \in {0, 1}
    BY <1>1, Numbers DEF MailInv, MailOpen
  <2> QED BY <1>1, <1>4, <2>1
<1>6. Budget(m)'
  BY <1>1, <1>3, <1>5, BudgetKept DEF MailInv
<1>7. \A d : d.row # m => (d \in mailing' <=> d \in mailing)
  BY <1>1 DEF m
<1> QED BY <1>1, <1>5, <1>6, <1>7, OneCall DEF m

(* The provider is asked: the attempt is spent.                            *)
LEMMA SpentIsSpent ==
    ASSUME NEW u \in Nat, NEW v \in Nat, v + 1 <= u, NEW c \in Nat, NEW n \in Nat, c + u <= n,
           NEW a \in Nat, NEW b \in Nat, NEW o \in {0, 1}, NEW p \in {0, 1},
           NEW f \in Nat, NEW g \in Nat, a + u + o <= 1 + f,
           \/ b = a + 1 /\ p <= o /\ g = f
           \/ b = a /\ g = f
           \/ b = a + 1 /\ g = f + 1
    PROVE  c + 1 + v <= n /\ b + v + p <= 1 + g
  OBVIOUS

LEMMA SendBudgets ==
    ASSUME MailInv, Types', NEW c \in mailing, NEW answer \in Answers, SendMail(c, answer)
    PROVE  Budgets'
<1> DEFINE step == CASE answer = "accepted" -> "ok"
                     [] answer = "rejected" -> "drop"
                     [] OTHER -> "retry"
           g == [c EXCEPT !.step = step]
           m == c.row
<1>1. /\ step \in {"ok", "drop", "retry"} /\ m \in Messages /\ c \in Mailing
      /\ answer = "accepted" => step = "ok"
  BY DEF MailInv, Types, MailTypeOK, Mailing
<1>2. MailGoes(c, step) /\ UNCHANGED outbox /\ Asked(m, answer) /\ c.step = "send"
  BY DEF SendMail
<1> HIDE DEF step
<1>3. g.step = step /\ g.row = m /\ g.attempt = c.attempt /\ g.left = c.left
  BY <1>1, MailingGoes
<1>4. mailing' = (mailing \ {c}) \cup {g}
  BY <1>2 DEF MailGoes
<1>5. /\ \A n \in Messages : n # m => provider'[n] = provider[n]
      /\ provider'[m].calls = provider[m].calls + 1
      /\ answer \in {"accepted", "late"} => provider'[m].accepted = provider[m].accepted + 1
      /\ answer \notin {"accepted", "late"} => provider'[m].accepted = provider[m].accepted
      /\ mailFaults' = IF answer = "late" THEN mailFaults + 1 ELSE mailFaults
  BY <1>1, <1>2, AskedType DEF MailInv, Types
<1> HIDE DEF g, m
<1>6. c.attempt \in Unsent(m)
  BY <1>2, UnsentIn DEF Unsent, m
<1>7. \A n : n \in UnsentOf(mailing', m) => n \in UnsentOf(mailing, m) /\ n # c.attempt
  <2> SUFFICES ASSUME NEW d \in mailing', d.row = m, d.step \in {"render", "send"}
               PROVE  d \in mailing /\ d.attempt # c.attempt
    BY UnsentIn
  <2>1. d \in mailing /\ d # c
    BY <1>1, <1>3, <1>4
  <2> QED BY <2>1 DEF MailInv, MailCalls, OneEach, m
<1>8. Unsent(m)' \subseteq Unsent(m) \ {c.attempt}
  BY <1>7 DEF Unsent
<1>9. /\ provider[m].calls \in Nat /\ provider[m].accepted \in Nat /\ mailFaults \in Nat
      /\ outbox[m].attempts \in Nat /\ Cardinality(Unsent(m)) \in Nat
      /\ IsFiniteSet(Unsent(m)) /\ MailOpen(m) \in {0, 1} /\ MailOpen(m)' \in {0, 1}
  BY <1>1, Numbers DEF MailInv, MailOpen
<1>10. /\ Cardinality(Unsent(m)') \in Nat
       /\ Cardinality(Unsent(m)') + 1 <= Cardinality(Unsent(m))
  <2>1. /\ IsFiniteSet(Unsent(m) \ {c.attempt})
        /\ Cardinality(Unsent(m) \ {c.attempt}) = Cardinality(Unsent(m)) - 1
    BY <1>6, <1>9, FS_RemoveElement
  <2>2. /\ IsFiniteSet(Unsent(m)')
        /\ Cardinality(Unsent(m)') <= Cardinality(Unsent(m) \ {c.attempt})
    BY <1>8, <2>1, FS_Subset
  <2>3. Cardinality(Unsent(m)') \in Nat
    BY <2>2, FS_CardinalityType
  <2> QED BY <1>9, <2>1, <2>2, <2>3
<1>11. answer = "accepted" => MailOpen(m)' <= MailOpen(m)
  <2> SUFFICES ASSUME answer = "accepted" PROVE MailOpen(m)' <= MailOpen(m)
    OBVIOUS
  <2>1. Covered(m) => Covered(m)'
    BY <1>1, <1>2, <1>3, <1>4 DEF Covered, MayRecord
  <2> QED BY <1>2, <2>1 DEF MailOpen
<1>12. Budget(m)'
  <2>1. /\ provider[m].calls + Cardinality(Unsent(m)) <= outbox[m].attempts
        /\ provider[m].accepted + Cardinality(Unsent(m)) + MailOpen(m) <= 1 + mailFaults
    BY <1>1 DEF MailInv, Budget
  <2>2. provider'[m].accepted \in Nat /\ mailFaults' \in Nat
    BY <1>5, <1>9
  <2>3. \/ /\ provider'[m].accepted = provider[m].accepted + 1
           /\ MailOpen(m)' <= MailOpen(m) /\ mailFaults' = mailFaults
        \/ provider'[m].accepted = provider[m].accepted /\ mailFaults' = mailFaults
        \/ /\ provider'[m].accepted = provider[m].accepted + 1
           /\ mailFaults' = mailFaults + 1
    BY <1>5, <1>11
  <2>4. /\ provider[m].calls + 1 + Cardinality(Unsent(m)') <= outbox[m].attempts
        /\ provider'[m].accepted + Cardinality(Unsent(m)') + MailOpen(m)' <= 1 + mailFaults'
    BY <1>9, <1>10, <2>1, <2>2, <2>3, SpentIsSpent
  <2> QED BY <1>2, <1>5, <2>4 DEF Budget
<1>13. mailFaults <= mailFaults'
  BY <1>5, <1>9
<1>14. \A d : d.row # m => (d \in mailing' <=> d \in mailing)
  BY <1>3, <1>4 DEF m
<1> QED BY <1>2, <1>5, <1>12, <1>13, <1>14, OneCall DEF m

(* A row is claimed for an attempt of its own, when nothing covers it.     *)
LEMMA ClaimBudgets ==
    ASSUME MailInv, Types', NEW w \in Dispatchers, ClaimBatch(w) PROVE Budgets'
<1> PICK page \in SUBSET Messages :
       LET runnable == page \ Exhausted(page)
       IN  /\ \A m \in page : Claimable(outbox[m])
           /\ outbox' = [m \in Messages |->
                 IF m \in runnable THEN Leased(outbox[m])
                 ELSE IF m \in page THEN Settled(outbox[m], "FAILED")
                 ELSE outbox[m]]
           /\ mailing' = mailing \cup {NewCall(w, m) : m \in runnable}
           /\ dispatch' \in [Dispatchers -> Dispatching] /\ AtRest'
  BY ClaimPage DEF MailInv, Types
<1> DEFINE runnable == page \ Exhausted(page)
<1>1. \A m \in runnable : LET g == NewCall(w, m) IN
         /\ g.row = m /\ g.attempt = outbox[m].attempts + 1 /\ g.left = Lease
         /\ g.step = "render" /\ m \in Messages
  BY DEF NewCall
<1>2. UNCHANGED <<provider, mailFaults>> /\ mailFaults \in Nat
  BY NotificationsAssumption DEF ClaimBatch, MailInv, Types, MailTypeOK
<1>3. \A m \in Messages : outbox[m] \in Row /\ outbox[m].attempts \in Nat
  BY DEF MailInv, Types, MailTypeOK, Row
<1> SUFFICES ASSUME NEW m \in Messages PROVE Budget(m)'
  BY DEF Budgets
<1>4. CASE m \notin page
  <2>1. outbox'[m] = outbox[m] /\ \A d : d.row = m => (d \in mailing' <=> d \in mailing)
    BY <1>1, <1>4
  <2>2. mailFaults <= mailFaults' /\ provider'[m] = provider[m]
    BY <1>2
  <2> QED BY <2>1, <2>2, BudgetSame DEF MailInv
<1>5. CASE m \in page /\ m \notin runnable
  <2>1. outbox'[m] = Settled(outbox[m], "FAILED")
    BY <1>5
  <2>2. outbox'[m].status = "FAILED" /\ outbox'[m].attempts = outbox[m].attempts
    BY <1>3, <2>1, SettledRow DEF Statuses
  <2>3. \A n : n \in UnsentOf(mailing', m) => n \in UnsentOf(mailing, m)
    BY <1>1, <1>5, UnsentIn
  <2>4. Unsent(m)' \subseteq Unsent(m)
    BY <2>3 DEF Unsent
  <2>5. MailOpen(m)' = 0 /\ MailOpen(m) \in {0, 1}
    BY <2>2 DEF MailOpen
  <2>6. MailOpen(m)' + mailFaults <= MailOpen(m) + mailFaults'
    BY <1>2, <2>5
  <2> QED BY <1>2, <2>2, <2>4, <2>6, BudgetKept DEF MailInv
<1>6. CASE m \in runnable
  <2> DEFINE k == outbox[m].attempts + 1
             g == NewCall(w, m)
  <2>1. /\ outbox'[m].status = "PENDING" /\ outbox'[m].attempts = k
        /\ outbox'[m].locked /\ outbox[m].status = "PENDING"
    BY <1>3, <1>6, LeasedRow DEF Claimable
  <2>2. Covered(m)'
    <3>1. g \in mailing' /\ g.row = m /\ g.attempt = k /\ g.left = Lease /\ g.step = "render"
      BY <1>1, <1>6
    <3>2. g.left >= 1
      BY <3>1, QueueAssumption
    <3> HIDE DEF g, k
    <3> QED BY <2>1, <3>1, <3>2 DEF Covered, MayRecord
  <2>3. ~Covered(m)
    <3> SUFFICES ASSUME NEW c \in mailing, c.row = m, MayRecord(c), c.left >= 1
                 PROVE  FALSE
      BY DEF Covered
    <3>1. outbox[m].locked /\ c.left = outbox[m].left
      BY DEF MailInv, MailCalls, Latest, MayRecord
    <3>2. outbox[m].left <= 0 /\ outbox[m].left \in Int
      BY <1>3, <1>6, <3>1 DEF Claimable, Row
    <3> QED BY <3>1, <3>2
  <2>4. MailOpen(m) = 1 /\ MailOpen(m)' = 0
    BY <2>1, <2>2, <2>3 DEF MailOpen
  <2>5. \A n : n \in UnsentOf(mailing', m) => n \in UnsentOf(mailing, m) \/ n = k
    BY <1>1, UnsentIn
  <2>6. Unsent(m)' \subseteq Unsent(m) \cup {k}
    BY <2>5 DEF Unsent
  <2>7. /\ provider[m].calls \in Nat /\ provider[m].accepted \in Nat
        /\ Cardinality(Unsent(m)) \in Nat /\ IsFiniteSet(Unsent(m))
    BY Numbers DEF MailInv
  <2>8. /\ Cardinality(Unsent(m)') \in Nat
        /\ Cardinality(Unsent(m)') <= Cardinality(Unsent(m)) + 1
    <3>1. /\ IsFiniteSet(Unsent(m) \cup {k})
          /\ Cardinality(Unsent(m) \cup {k}) <= Cardinality(Unsent(m)) + 1
      <4> HIDE DEF k
      <4>1. /\ IsFiniteSet(Unsent(m) \cup {k})
            /\ \/ Cardinality(Unsent(m) \cup {k}) = Cardinality(Unsent(m))
               \/ Cardinality(Unsent(m) \cup {k}) = Cardinality(Unsent(m)) + 1
        BY <2>7, FS_AddElement
      <4> QED BY <2>7, <4>1
    <3>2. Cardinality(Unsent(m) \cup {k}) \in Nat
      BY <3>1, FS_CardinalityType
    <3>3. /\ IsFiniteSet(Unsent(m)')
          /\ Cardinality(Unsent(m)') <= Cardinality(Unsent(m) \cup {k})
      BY <2>6, <3>1, FS_Subset
    <3>4. Cardinality(Unsent(m)') \in Nat
      BY <3>3, FS_CardinalityType
    <3> QED BY <2>7, <3>1, <3>2, <3>3, <3>4
  <2>9. /\ provider[m].calls + Cardinality(Unsent(m)) <= outbox[m].attempts
        /\ provider[m].accepted + Cardinality(Unsent(m)) + 1 <= 1 + mailFaults
    BY <2>4 DEF MailInv, Budget
  <2>10. /\ provider[m].calls + Cardinality(Unsent(m)') <= outbox'[m].attempts
         /\ provider[m].accepted + Cardinality(Unsent(m)') + 0 <= 1 + mailFaults
    BY <1>2, <1>3, <2>1, <2>7, <2>8, <2>9
  <2> QED BY <1>2, <2>4, <2>10 DEF Budget
<1> QED BY <1>4, <1>5, <1>6

(* Time takes a lease from a call at the price of one fault.               *)
LEMMA ClockBudgets == ASSUME MailInv, Types', MailClock PROVE Budgets'
<1>1. /\ mailing' = {MailAged(c) : c \in mailing} /\ UNCHANGED provider
      /\ \A m \in Messages : outbox'[m] = Later(outbox[m])
      /\ mailFaults \in Nat
  BY NotificationsAssumption DEF MailClock, MailAged, MailInv, Types, MailTypeOK
<1>2. \A c \in mailing : /\ MailAged(c).left = Down(c.left, -1) /\ MailAged(c).row = c.row
                         /\ MailAged(c).attempt = c.attempt /\ MailAged(c).step = c.step
                         /\ c.left \in -1 .. Lease /\ c.row \in Messages
  BY AgedCall DEF MailInv, Types, MailTypeOK, Mailing
<1>3. \A m \in Messages :
         /\ outbox'[m].attempts = outbox[m].attempts
         /\ outbox'[m].status = outbox[m].status
         /\ outbox'[m].locked = outbox[m].locked
  BY <1>1, LaterRow DEF MailInv, Types, MailTypeOK
<1> SUFFICES ASSUME NEW m \in Messages PROVE Budget(m)'
  BY DEF Budgets
<1>4. \A n : n \in UnsentOf(mailing', m) => n \in UnsentOf(mailing, m)
  BY <1>1, <1>2, UnsentIn
<1>5. Unsent(m)' \subseteq Unsent(m)
  BY <1>4 DEF Unsent
<1>6. /\ MailOpen(m) \in {0, 1} /\ MailOpen(m)' \in {0, 1}
      /\ MailOpen(m)' + mailFaults <= MailOpen(m) + mailFaults'
  <2>0. MailOpen(m) \in {0, 1} /\ MailOpen(m)' \in {0, 1}
    BY DEF MailOpen
  <2>1. CASE \E c \in mailing : c.left = 1
    <3>1. mailFaults' = mailFaults + 1
      BY <2>1, FaultType DEF MailClock, MailInv, Types
    <3> QED BY <1>1, <2>0, <3>1
  <2>2. CASE \A c \in mailing : c.left # 1
    <3>1. mailFaults' = mailFaults
      BY <2>2 DEF MailClock
    <3>2. Covered(m) => Covered(m)'
      <4> SUFFICES ASSUME NEW c \in mailing, c.row = m, MayRecord(c), c.left >= 1,
                          c.step # "retry"
                   PROVE  Covered(m)'
        BY DEF Covered
      <4>1. MailAged(c) \in mailing' /\ MailAged(c).left >= 1
        BY <1>1, <1>2, <2>2, QueueAssumption DEF Down
      <4>2. MayRecord(MailAged(c))'
        BY <1>2, <1>3 DEF MayRecord
      <4>3. /\ MailAged(c).row = m /\ MailAged(c).step # "retry"
        BY <1>2
      <4> DEFINE g == MailAged(c)
      <4>4. g \in mailing' /\ g.left >= 1 /\ MayRecord(g)' /\ g.row = m /\ g.step # "retry"
        BY <4>1, <4>2, <4>3
      <4> HIDE DEF g
      <4> QED BY <4>4 DEF Covered
    <3>3. MailOpen(m)' <= MailOpen(m)
      BY <1>3, <3>2 DEF MailOpen
    <3> QED BY <1>1, <2>0, <3>1, <3>3
  <2> QED BY <2>1, <2>2
<1> QED BY <1>1, <1>3, <1>5, <1>6, BudgetKept DEF MailInv

-----------------------------------------------------------------------------
(* What is left of the invariant.  The dispatchers do not touch recovery   *)
(* messages, and the requests do not touch the outbox.                     *)
Recovering == \A m \in Recoveries : RecoveryBudget(m)

FaultsGrow == mailFaults \in Nat /\ mailFaults' \in Nat /\ mailFaults <= mailFaults'

LEMMA RecoverySame ==
    ASSUME Types, NEW m \in Recoveries, RecoveryBudget(m), FaultsGrow,
           recovery'[m] = recovery[m], provider'[m] = provider[m]
    PROVE  RecoveryBudget(m)'
<1>1. provider[m].accepted \in Nat
  BY DEF Types, Asking
<1> QED BY <1>1 DEF RecoveryBudget, FaultsGrow

LEMMA OutboxStep ==
    ASSUME MailInv, Types', FaultsGrow, UNCHANGED recovery,
           \A m \in Recoveries : provider'[m] = provider[m]
    PROVE  Recovering'
  BY RecoverySame DEF MailInv, Recovering

LEMMA ToldKept ==
    ASSUME MailInv,
           \A m \in Messages : /\ outbox'[m].status = "DONE" =>
                                     outbox[m].status = "DONE" \/ provider'[m].accepted > 0
                               /\ outbox'[m].status = "absent" => outbox'[m] = outbox[m]
                               /\ provider[m].accepted > 0 => provider'[m].accepted > 0
    PROVE  \A m \in Messages : Told(m)'
  BY DEF MailInv, Told

LEMMA RequestStep ==
    ASSUME MailInv, Types', FaultsGrow, UNCHANGED <<outbox, mailing>>,
           \A m \in Messages : provider'[m] = provider[m]
    PROVE  MailCalls' /\ Budgets' /\ \A m \in Messages : Told(m)'
<1>1. \A c \in mailing : c.row \in Messages
  BY DEF MailInv, Types, MailTypeOK, Mailing
<1>2. MailCalls'
  BY <1>1 DEF MailInv, MailCalls, Made, Latest, Accepted, OneEach
<1>3. Budgets'
  BY BudgetSame DEF MailInv, Budgets, FaultsGrow
<1> QED BY <1>2, <1>3 DEF MailInv, Told

LEMMA Disjoint == /\ \A m \in Messages : m \notin Recoveries
                  /\ \A m \in Recoveries : m \notin Messages
  BY NotificationsAssumption

LEMMA Together == ASSUME Types', MailCalls', Budgets', Recovering', \A m \in Messages : Told(m)'
                  PROVE  MailInv'
  BY DEF MailInv, Budgets, Recovering

LEMMA InitHolds == MailInit => MailInv
<1> SUFFICES ASSUME MailInit PROVE MailInv
  OBVIOUS
<1>1. NoRow \in Row /\ NoRow.status = "absent" /\ NoRow.attempts = 0
  BY QueueAssumption DEF NoRow, Row, Statuses
<1>2. [step |-> "none", attempt |-> 0] \in Sending /\ [calls |-> 0, accepted |-> 0] \in Asking
  BY QueueAssumption DEF Sending, Asking
<1>3. Types
  BY <1>1, <1>2, RestingType, QueueAssumption, NotificationsAssumption
     DEF MailInit, Types, MailTypeOK, AtRest, Resting
<1>4. MailCalls
  BY DEF MailInit, MailCalls, OneEach
<1>5. ASSUME NEW m \in Messages PROVE Budget(m) /\ Told(m)
  <2>1. /\ outbox[m].status = "absent" /\ outbox[m].attempts = 0
        /\ provider[m].calls = 0 /\ provider[m].accepted = 0 /\ mailFaults = 0
    BY <1>1 DEF MailInit
  <2>2. Unsent(m) = {}
    BY DEF MailInit, Unsent, UnsentOf
  <2>3. Cardinality(Unsent(m)) = 0
    BY <2>2, FS_EmptySet
  <2>4. MailOpen(m) \in {0, 1}
    BY OpenType
  <2> QED BY <2>1, <2>3, <2>4 DEF Budget, Told
<1>6. ASSUME NEW m \in Recoveries PROVE RecoveryBudget(m)
  BY QueueAssumption DEF MailInit, RecoveryBudget
<1> QED BY <1>3, <1>4, <1>5, <1>6 DEF MailInv

LEMMA RecoverKeeps == ASSUME MailInv, NEW m \in Recoveries, Recover(m) PROVE MailInv'
<1>0. Types' /\ m \notin Messages
  BY RecoverTyped, Disjoint DEF MailInv
<1>1. UNCHANGED <<outbox, mailing, provider, mailFaults>> /\ FaultsGrow
  BY NotificationsAssumption DEF Recover, FaultsGrow, MailInv, Types, MailTypeOK
<1>2. MailCalls' /\ Budgets' /\ \A n \in Messages : Told(n)'
  BY <1>0, <1>1, RequestStep
<1>3. ASSUME NEW n \in Recoveries PROVE RecoveryBudget(n)'
  <2>1. CASE n # m
    BY <1>1, <2>1, RecoverySame DEF Recover, MailInv, Types, MailTypeOK
  <2>2. CASE n = m
    <3>1. recovery'[m] = [step |-> "send", attempt |-> 1] /\ recovery[m].step = "none"
      BY DEF Recover, MailInv, Types, MailTypeOK
    <3>2. /\ recovery'[m].step = "send" /\ recovery'[m].attempt = 1
      BY <3>1
    <3> QED BY <1>1, <2>2, <3>1, <3>2, QueueAssumption DEF MailInv, RecoveryBudget, FaultsGrow
  <2> QED BY <2>1, <2>2
<1> QED BY <1>0, <1>2, <1>3, Together DEF Recovering

LEMMA RecoveryGoes ==
    ASSUME Types, NEW m \in Recoveries, NEW answer \in Answers, SendRecovery(m, answer),
           recovery[m].attempt \in 1 .. MaxAttempts
    PROVE  LET r == recovery[m]
               s == recovery'[m]
           IN  /\ \A n \in Recoveries : n # m => recovery'[n] = recovery[n]
               /\ answer = "accepted" => s.step = "accepted"
               /\ answer # "accepted" => \/ s.step = "failed"
                                         \/ /\ s.step = "send" /\ s.attempt = r.attempt + 1
                                            /\ r.attempt # MaxAttempts
<1> DEFINE r == recovery[m]
           s == recovery'[m]
           a == [r EXCEPT !.step = "accepted"]
           f == [r EXCEPT !.step = "failed"]
           n == [r EXCEPT !.attempt = @ + 1]
           v == IF answer = "accepted" THEN a
                ELSE IF answer = "rejected" \/ r.attempt = MaxAttempts THEN f ELSE n
<1>1. r \in Sending /\ r.step = "send"
  BY DEF SendRecovery, Types, MailTypeOK
<1>2. a.step = "accepted" /\ f.step = "failed"
  BY <1>1 DEF Sending
<1>3. n.step = "send" /\ n.attempt = r.attempt + 1
  BY <1>1 DEF Sending
<1>4. recovery' = [recovery EXCEPT ![m] = v]
  BY DEF SendRecovery
<1> HIDE DEF a, f, n, r
<1>5. /\ answer = "accepted" => v = a
      /\ answer # "accepted" => v = f \/ (v = n /\ r.attempt # MaxAttempts)
  OBVIOUS
<1> HIDE DEF v
<1>6. s = v /\ \A i \in Recoveries : i # m => recovery'[i] = recovery[i]
  BY <1>4 DEF Types, MailTypeOK
<1> QED BY <1>2, <1>3, <1>5, <1>6 DEF r, s

LEMMA SendRecoveryKeeps ==
    ASSUME MailInv, NEW m \in Recoveries, NEW answer \in Answers, SendRecovery(m, answer)
    PROVE  MailInv'
<1> DEFINE r == recovery[m]
           s == recovery'[m]
<1>0. r.attempt \in 1 .. MaxAttempts /\ r.step = "send" /\ provider[m].calls < r.attempt
  BY DEF MailInv, RecoveryBudget, SendRecovery
<1>1. Types' /\ m \notin Messages
  BY <1>0, SendRecoveryTyped, Disjoint DEF MailInv
<1>2. /\ \A n \in Messages \cup Recoveries : n # m => provider'[n] = provider[n]
      /\ provider'[m].calls = provider[m].calls + 1
      /\ answer \in {"accepted", "late"} => provider'[m].accepted = provider[m].accepted + 1
      /\ answer \notin {"accepted", "late"} => provider'[m].accepted = provider[m].accepted
      /\ mailFaults' = IF answer = "late" THEN mailFaults + 1 ELSE mailFaults
  BY AskedType DEF MailInv, Types, SendRecovery
<1>3. FaultsGrow
  BY <1>2, NotificationsAssumption DEF FaultsGrow, MailInv, Types, MailTypeOK
<1>4. MailCalls' /\ Budgets' /\ \A n \in Messages : Told(n)'
  BY <1>1, <1>2, <1>3, RequestStep DEF SendRecovery
<1>5. /\ \A n \in Recoveries : n # m => recovery'[n] = recovery[n]
      /\ r \in Sending
  BY DEF SendRecovery, MailInv, Types, MailTypeOK
<1>6. /\ answer = "accepted" => s.step = "accepted"
      /\ answer # "accepted" => \/ s.step = "failed"
                                \/ /\ s.step = "send" /\ s.attempt = r.attempt + 1
                                   /\ r.attempt # MaxAttempts
  BY <1>0, RecoveryGoes DEF MailInv
<1>7. /\ provider[m].calls \in Nat /\ provider[m].accepted \in Nat /\ mailFaults \in Nat
      /\ provider[m].accepted + 1 <= 1 + mailFaults
  BY <1>0, NotificationsAssumption DEF MailInv, Types, MailTypeOK, Asking, RecoveryBudget
<1> HIDE DEF r, s
<1>8. RecoveryBudget(m)'
  <2>1. answer \in Answers /\ provider'[m].calls <= MaxAttempts
    BY <1>0, <1>2, <1>7, QueueAssumption
  <2>2. CASE answer = "accepted"
    BY <1>2, <1>6, <1>7, <2>1, <2>2 DEF RecoveryBudget, s
  <2>3. CASE answer # "accepted"
    <3>1. \/ s.step = "failed"
          \/ /\ s.step = "send" /\ s.attempt \in 1 .. MaxAttempts
             /\ provider'[m].calls < s.attempt
      BY <1>0, <1>2, <1>6, <1>7, <2>3, QueueAssumption
    <3>2. provider'[m].accepted + 1 <= 1 + mailFaults'
      BY <1>2, <1>7, <2>3
    <3>3. provider'[m].accepted \in Nat /\ mailFaults' \in Nat
      BY <1>2, <1>7
    <3> QED BY <2>1, <3>1, <3>2, <3>3 DEF RecoveryBudget, s
  <2> QED BY <2>2, <2>3
<1>9. ASSUME NEW n \in Recoveries, n # m PROVE RecoveryBudget(n)'
  BY <1>2, <1>3, <1>5, <1>9, RecoverySame DEF MailInv
<1> QED BY <1>1, <1>4, <1>8, <1>9, Together DEF Recovering

LEMMA RequestEnds ==
    ASSUME MailInv, NEW m \in Recoveries, AnswerRequest(m) \/ RequestDies(m) PROVE MailInv'
<1>0. Types' /\ m \notin Messages
  BY AnswerTyped, DiesTyped, Disjoint DEF MailInv
<1>1. UNCHANGED <<outbox, mailing, provider>> /\ FaultsGrow
  BY FaultType, NotificationsAssumption
     DEF AnswerRequest, RequestDies, FaultsGrow, MailInv, Types, MailTypeOK
<1>2. MailCalls' /\ Budgets' /\ \A n \in Messages : Told(n)'
  BY <1>0, <1>1, RequestStep
<1>3. /\ \A n \in Recoveries : n # m => recovery'[n] = recovery[n]
      /\ \/ recovery[m].step = "accepted" /\ recovery'[m].step = "delivered"
         \/ recovery'[m].step = "refused"
  BY DEF AnswerRequest, RequestDies, MailInv, Types, MailTypeOK, Sending
<1>4. RecoveryBudget(m)'
  <2>1. provider[m].accepted \in Nat
    BY DEF MailInv, Types, Asking
  <2>2. provider[m].accepted <= 1 + mailFaults
    BY <1>1, <2>1 DEF MailInv, RecoveryBudget, FaultsGrow
  <2> QED BY <1>1, <1>3, <2>1, <2>2 DEF MailInv, RecoveryBudget, FaultsGrow
<1>5. ASSUME NEW n \in Recoveries, n # m PROVE RecoveryBudget(n)'
  BY <1>1, <1>3, <1>5, RecoverySame DEF MailInv
<1> QED BY <1>0, <1>2, <1>4, <1>5, Together DEF Recovering

(* The dispatchers.                                                        *)
LEMMA MailStep ==
    ASSUME MailInv, Types', MailCalls', Budgets', FaultsGrow, UNCHANGED recovery,
           \A m \in Recoveries : provider'[m] = provider[m],
           \A m \in Messages : /\ outbox'[m].status = "DONE" =>
                                     outbox[m].status = "DONE" \/ provider'[m].accepted > 0
                               /\ outbox'[m].status = "absent" => outbox'[m] = outbox[m]
                               /\ provider[m].accepted > 0 => provider'[m].accepted > 0
    PROVE  MailInv'
  BY OutboxStep, ToldKept, Together

LEMMA SameFaults == ASSUME MailInv, UNCHANGED mailFaults \/ MailFault PROVE FaultsGrow
<1>1. mailFaults \in Nat
  BY NotificationsAssumption DEF MailInv, Types, MailTypeOK
<1> QED BY <1>1, FaultType DEF FaultsGrow, MailInv, Types

LEMMA NotifyKeeps == ASSUME MailInv, NEW m \in Messages, Notify(m) PROVE MailInv'
<1>1. Types' /\ MailCalls'
  BY NotifyTyped, NotifyCalls DEF MailInv
<1>2. Budgets' /\ FaultsGrow
  BY <1>1, NotifyBudgets, SameFaults DEF Notify
<1>3. NewRow(0).status = "PENDING"
  BY DEF NewRow, NoRow
<1>4. \A n \in Messages : outbox'[n] = outbox[n] \/ outbox'[n].status = "PENDING"
  BY <1>3 DEF Notify, MailInv, Types, MailTypeOK
<1> QED BY <1>1, <1>2, <1>4, MailStep DEF Notify

LEMMA MailClaimKeeps == ASSUME MailInv, NEW w \in Dispatchers, ClaimBatch(w) PROVE MailInv'
<1>1. Types' /\ MailCalls'
  BY ClaimTyped, ClaimCalls DEF MailInv
<1>2. Budgets' /\ FaultsGrow
  BY <1>1, ClaimBudgets, SameFaults DEF ClaimBatch
<1> PICK page \in SUBSET Messages :
       LET runnable == page \ Exhausted(page)
       IN  /\ \A m \in page : Claimable(outbox[m])
           /\ outbox' = [m \in Messages |->
                 IF m \in runnable THEN Leased(outbox[m])
                 ELSE IF m \in page THEN Settled(outbox[m], "FAILED")
                 ELSE outbox[m]]
           /\ mailing' = mailing \cup {NewCall(w, m) : m \in runnable}
           /\ dispatch' \in [Dispatchers -> Dispatching] /\ AtRest'
  BY ClaimPage DEF MailInv, Types
<1>3. \A m \in Messages : outbox[m] \in Row /\ (m \in page => outbox[m].status = "PENDING")
  BY DEF MailInv, Types, MailTypeOK, Claimable
<1>4. \A m \in Messages : outbox'[m] = outbox[m] \/ outbox'[m].status \in {"PENDING", "FAILED"}
  BY <1>3, LeasedRow, SettledRow DEF Statuses
<1> QED BY <1>1, <1>2, <1>4, MailStep DEF ClaimBatch

LEMMA RecordKeeps ==
    ASSUME MailInv, NEW c \in mailing, RecordDelivered(c) \/ RecordFailure(c) PROVE MailInv'
<1>1. Types' /\ MailCalls'
  BY RecordTyped, RecordCalls DEF MailInv
<1>2. UNCHANGED <<recovery, provider, mailFaults>>
  BY DEF RecordDelivered, RecordFailure
<1>3. Budgets' /\ FaultsGrow
  BY <1>1, <1>2, RecordBudgets, SameFaults
<1>4. RecordDelivered(c) => provider[c.row].accepted > 0
  BY DEF RecordDelivered, MailInv, MailCalls, Accepted
<1>5. \A m \in Messages : \/ outbox'[m] = outbox[m]
                          \/ outbox'[m].status \in {"FAILED", "PENDING"}
                          \/ outbox'[m].status = "DONE" /\ provider[m].accepted > 0
  BY <1>4, Recorded DEF MailInv, Types
<1> QED BY <1>1, <1>2, <1>3, <1>5, MailStep

LEMMA SendKeeps ==
    ASSUME MailInv, NEW c \in mailing, NEW answer \in Answers, SendMail(c, answer) PROVE MailInv'
<1>1. Types' /\ c.row \in Messages /\ c.row \notin Recoveries
  BY SendTyped, Disjoint DEF MailInv, Types, MailTypeOK, Mailing
<1>2. /\ \A n \in Messages \cup Recoveries : n # c.row => provider'[n] = provider[n]
      /\ \/ provider'[c.row].accepted = provider[c.row].accepted + 1
         \/ /\ provider'[c.row].accepted = provider[c.row].accepted
            /\ answer # "accepted"
      /\ \A n \in Messages : provider[n].accepted \in Nat
  BY <1>1, AskedType DEF MailInv, Types, SendMail, Answers, Asking
<1>3. \A n \in Messages : provider[n].accepted > 0 => provider'[n].accepted > 0
  BY <1>1, <1>2
<1>4. answer = "accepted" => provider'[c.row].accepted > 0
  BY <1>1, <1>2
<1>5. MailCalls'
  BY <1>3, <1>4, CallsMove DEF SendMail, MailInv
<1>6. UNCHANGED mailFaults \/ MailFault
  BY DEF SendMail, Asked
<1>7. Budgets' /\ FaultsGrow
  BY <1>1, <1>6, SendBudgets, SameFaults
<1> QED BY <1>1, <1>2, <1>3, <1>5, <1>7, MailStep DEF SendMail

LEMMA RenderKeeps ==
    ASSUME MailInv, NEW c \in mailing, NEW found \in BOOLEAN, RenderMail(c, found) PROVE MailInv'
<1>1. Types'
  BY RenderTyped DEF MailInv
<1>2. MailCalls'
  BY CallsMove DEF RenderMail, MailInv
<1>3. Budgets' /\ FaultsGrow
  BY <1>1, RenderBudgets, SameFaults DEF RenderMail
<1> QED BY <1>1, <1>2, <1>3, MailStep DEF RenderMail

LEMMA CaughtKeeps == ASSUME MailInv, NEW c \in mailing, MailCaught(c) PROVE MailInv'
<1>1. Types'
  BY CaughtTyped DEF MailInv
<1>2. MailCalls'
  BY CallsMove DEF MailCaught, MailInv
<1>3. Budgets' /\ FaultsGrow
  BY <1>1, CaughtBudgets, SameFaults DEF MailCaught
<1> QED BY <1>1, <1>2, <1>3, MailStep DEF MailCaught

LEMMA RejectsKeeps == ASSUME MailInv, NEW c \in mailing, MailRejects(c) PROVE MailInv'
<1>1. Types' /\ MailCalls'
  BY RejectsTyped, RejectsCalls DEF MailInv
<1>2. Budgets' /\ FaultsGrow
  BY <1>1, RejectsBudgets, SameFaults DEF MailRejects
<1> QED BY <1>1, <1>2, MailStep DEF MailRejects

LEMMA DispatcherKeeps ==
    ASSUME MailInv, NEW w \in Dispatchers, EndDispatch(w) \/ DispatcherDies(w) PROVE MailInv'
<1>1. Types'
  BY EndDispatchTyped, DispatcherTyped DEF MailInv
<1>2. mailing' \subseteq mailing /\ UNCHANGED <<outbox, provider, recovery>>
  BY DEF EndDispatch, DispatcherDies
<1>3. MailCalls'
  BY <1>2, CallsSame DEF MailInv
<1>4. EndDispatch(w) => UNCHANGED <<mailing, mailFaults>>
  BY DEF EndDispatch
<1>5. FaultsGrow
  BY SameFaults DEF EndDispatch, DispatcherDies
<1>6. Budgets'
  <2>1. CASE DispatcherDies(w)
    BY <1>1, <2>1, DispatcherBudgets
  <2>2. CASE EndDispatch(w)
    BY <1>1, <1>2, <1>4, <1>5, <2>2, BudgetSame DEF MailInv, Budgets, FaultsGrow
  <2> QED BY <2>1, <2>2
<1> QED BY <1>1, <1>2, <1>3, <1>5, <1>6, MailStep

LEMMA MailClockKeeps == ASSUME MailInv, MailClock PROVE MailInv'
<1>1. Types' /\ MailCalls'
  BY ClockTyped, ClockCalls DEF MailInv
<1>2. Budgets' /\ FaultsGrow
  BY <1>1, ClockBudgets, SameFaults DEF MailClock
<1>3. \A m \in Messages : /\ outbox'[m].status = outbox[m].status
                          /\ outbox'[m].attempts = outbox[m].attempts
  BY LaterRow DEF MailClock, MailInv, Types, MailTypeOK
<1>4. \A m \in Messages : Told(m)'
  BY <1>3 DEF MailInv, Told, MailClock
<1> QED BY <1>1, <1>2, <1>4, OutboxStep, Together DEF MailClock

LEMMA NextKeeps == MailInv /\ [MailNext]_mailVars => MailInv'
<1> SUFFICES ASSUME MailInv, [MailNext]_mailVars PROVE MailInv'
  OBVIOUS
<1>1. CASE UNCHANGED mailVars
  BY <1>1 DEF mailVars, MailInv, Types, MailTypeOK, AtRest, MailCalls, Made, Latest, Accepted, OneEach,
              Budget, Unsent, MailOpen, Covered, MayRecord, Told, RecoveryBudget
<1> QED BY <1>1, NotifyKeeps, RecoverKeeps, SendRecoveryKeeps, RequestEnds, MailClaimKeeps,
           DispatcherKeeps, RenderKeeps, SendKeeps, RecordKeeps, CaughtKeeps, RejectsKeeps,
           MailClockKeeps DEF MailNext, SendNow, ProcessRow

THEOREM Invariance == MailSpec => []MailInv
  BY InitHolds, NextKeeps, PTL DEF MailSpec

(* Rows, batches and calls keep their types, and no row has more attempts  *)
(* than a message may have.  render.ts claimBatch, recordFailure.          *)
THEOREM MailTypeAlways == MailSpec => []MailTypeOK
<1>1. MailInv => MailTypeOK
  BY DEF MailInv, Types
<1> QED BY <1>1, Invariance, PTL

(* A recipient gets a message twice only after something went wrong, once  *)
(* for each time, however many dispatchers claim from the outbox.          *)
(* render.ts processRow, claimBatch, deliverOnce.                          *)
THEOREM NeverNeedlessDuplicate == MailSpec => []NoNeedlessDuplicate
<1>1. MailInv => NoNeedlessDuplicate
  <2> SUFFICES ASSUME MailInv, NEW m \in Messages \cup Recoveries
               PROVE  provider[m].accepted <= 1 + mailFaults
    BY DEF NoNeedlessDuplicate
  <2>1. provider[m].accepted \in Nat /\ mailFaults \in Nat
    BY NotificationsAssumption DEF MailInv, Types, MailTypeOK, Asking
  <2>2. CASE m \in Recoveries
    BY <2>1, <2>2 DEF MailInv, RecoveryBudget
  <2>3. CASE m \in Messages
    <3>1. Cardinality(Unsent(m)) \in Nat /\ MailOpen(m) \in {0, 1}
      BY <2>3, Numbers DEF MailInv
    <3>2. provider[m].accepted + Cardinality(Unsent(m)) + MailOpen(m) <= 1 + mailFaults
      BY <2>3 DEF MailInv, Budget
    <3> QED BY <2>1, <3>1, <3>2
  <2> QED BY <2>2, <2>3
<1> QED BY <1>1, Invariance, PTL

-----------------------------------------------------------------------------
(* The mailbox.                                                            *)
Letters == Messages \cup Recoveries

(* How a letter looks from outside.                                        *)
Seen(m) == IF m \in Messages
           THEN CASE outbox[m].status = "absent"  -> "none"
                  [] outbox[m].status = "PENDING" -> "queued"
                  [] outbox[m].status = "DONE"    -> "delivered"
                  [] OTHER                        -> "dropped"
           ELSE CASE recovery[m].step = "none"      -> "none"
                  [] recovery[m].step = "delivered" -> "delivered"
                  [] recovery[m].step = "refused"   -> "dropped"
                  [] OTHER                          -> "queued"

(* The provider was asked for m, and for nothing else.                     *)
AskedOnce(m) ==
    \E q : /\ provider' = [provider EXCEPT ![m] = q]
          /\ q.calls = provider[m].calls + 1
          /\ q.accepted \in {provider[m].accepted, provider[m].accepted + 1}

LEMMA SeenMessage ==
    ASSUME NEW m \in Messages
    PROVE  /\ outbox[m].status = "absent"  => Seen(m) = "none"
           /\ outbox[m].status = "PENDING" => Seen(m) = "queued"
           /\ outbox[m].status = "DONE"    => Seen(m) = "delivered"
           /\ outbox[m].status = "FAILED"  => Seen(m) = "dropped"
  BY DEF Seen

LEMMA SeenRecovery ==
    ASSUME NEW m \in Recoveries
    PROVE  /\ recovery[m].step = "none"      => Seen(m) = "none"
           /\ recovery[m].step = "delivered" => Seen(m) = "delivered"
           /\ recovery[m].step = "refused"   => Seen(m) = "dropped"
           /\ recovery[m].step \in {"send", "accepted", "failed"} => Seen(m) = "queued"
  BY Disjoint DEF Seen

LEMMA BoxHandsOver ==
    ASSUME NEW m \in Letters, Seen(m) = "none", Seen(m)' = "queued",
           \A n \in Letters : n # m => Seen(n)' = Seen(n), UNCHANGED provider
    PROVE  Box!Next
<1>1. Box!HandOver(m)
  BY DEF Box!HandOver, Seen, Letters
<1> QED BY <1>1 DEF Box!Next, Letters

LEMMA BoxCalls ==
    ASSUME Types, NEW m \in Letters, Seen(m) # "none", provider[m].calls < MaxAttempts,
           AskedOnce(m), \A n \in Letters : Seen(n)' = Seen(n)
    PROVE  Box!Next
<1>1. Box!Call(m)
  BY DEF Box!Call, Seen, Letters, AskedOnce, Types
<1> QED BY <1>1 DEF Box!Next, Letters

LEMMA BoxDelivers ==
    ASSUME NEW m \in Letters, Seen(m) = "queued", Seen(m)' = "delivered",
           provider[m].accepted > 0,
           \A n \in Letters : n # m => Seen(n)' = Seen(n), UNCHANGED provider
    PROVE  Box!Next
<1>1. Box!Deliver(m)
  BY DEF Box!Deliver, Seen, Letters
<1> QED BY <1>1 DEF Box!Next, Letters

LEMMA BoxDrops ==
    ASSUME NEW S \in SUBSET Letters, UNCHANGED provider,
           \A m \in S : Seen(m) = "queued" /\ Seen(m)' = "dropped",
           \A m \in Letters : m \notin S => Seen(m)' = Seen(m)
    PROVE  Box!Next
<1>1. Box!Drop(S)
  BY DEF Box!Drop, Seen, Letters
<1> QED BY <1>1 DEF Box!Next, Letters

LEMMA BoxStutters ==
    ASSUME UNCHANGED provider, \A m \in Letters : Seen(m)' = Seen(m)
    PROVE  UNCHANGED Box!vars
  BY DEF Box!vars, Seen, Letters

LEMMA SeenStays ==
    /\ \A m \in Messages : outbox'[m].status = outbox[m].status => Seen(m)' = Seen(m)
    /\ \A m \in Recoveries : recovery'[m] = recovery[m] => Seen(m)' = Seen(m)
  BY Disjoint DEF Seen

LEMMA BoxKeepsStill ==
    ASSUME UNCHANGED <<recovery, provider>>,
           \A m \in Messages : outbox'[m].status = outbox[m].status
    PROVE  UNCHANGED Box!vars
  BY SeenStays, BoxStutters DEF Letters

(* What was asked for a message, within its budget.                        *)
LEMMA AskedBox ==
    ASSUME Types, NEW m \in Letters, NEW answer \in Answers, Asked(m, answer)
    PROVE  AskedOnce(m)
<1> DEFINE n == IF answer \in {"accepted", "late"} THEN provider[m].accepted + 1
                ELSE provider[m].accepted
           k == provider[m].calls + 1
           q == [provider[m] EXCEPT !.calls = k, !.accepted = n]
<1>1. provider[m] \in Asking
  BY DEF Types, Letters
<1>2. provider' = [provider EXCEPT ![m] = q]
  BY DEF Asked
<1>3. n \in {provider[m].accepted, provider[m].accepted + 1}
  OBVIOUS
<1> HIDE DEF n, k
<1>4. q.calls = k /\ q.accepted = n
  BY <1>1 DEF Asking
<1> QED BY <1>2, <1>3, <1>4 DEF AskedOnce, k

LEMMA NotifyInBox == ASSUME MailInv, NEW m \in Messages, Notify(m) PROVE Box!Next
<1>1. NewRow(0).status = "PENDING"
  BY DEF NewRow, NoRow
<1>2. /\ outbox[m].status = "absent" /\ outbox'[m].status = "PENDING"
      /\ \A n \in Messages : n # m => outbox'[n] = outbox[n]
      /\ UNCHANGED <<recovery, provider>>
  BY <1>1 DEF Notify, MailInv, Types, MailTypeOK
<1>3. Seen(m) = "none" /\ Seen(m)' = "queued"
  BY <1>2 DEF Seen
<1>4. \A n \in Letters : n # m => Seen(n)' = Seen(n)
  BY <1>2, SeenStays DEF Letters
<1> QED BY <1>2, <1>3, <1>4, BoxHandsOver DEF Letters

LEMMA RecoverInBox == ASSUME MailInv, NEW m \in Recoveries, Recover(m) PROVE Box!Next
<1>1. /\ recovery[m].step = "none" /\ recovery'[m] = [step |-> "send", attempt |-> 1]
      /\ \A n \in Recoveries : n # m => recovery'[n] = recovery[n]
      /\ UNCHANGED <<outbox, provider>>
  BY DEF Recover, MailInv, Types, MailTypeOK
<1>2. recovery'[m].step = "send" /\ m \notin Messages
  BY <1>1, Disjoint
<1>3. Seen(m) = "none" /\ Seen(m)' = "queued"
  BY <1>1, <1>2 DEF Seen
<1>4. \A n \in Letters : n # m => Seen(n)' = Seen(n)
  BY <1>1, SeenStays DEF Letters
<1> QED BY <1>1, <1>3, <1>4, BoxHandsOver DEF Letters

LEMMA SendInBox ==
    ASSUME MailInv, NEW c \in mailing, NEW answer \in Answers, SendMail(c, answer)
    PROVE  Box!Next
<1>1. /\ c.row \in Messages /\ c.attempt \in Unsent(c.row)
      /\ UNCHANGED <<outbox, recovery>>
  BY DEF SendMail, MailInv, Types, MailTypeOK, Mailing, Unsent, UnsentOf
<1>2. AskedOnce(c.row)
  BY <1>1, AskedBox DEF SendMail, MailInv, Letters
<1>3. provider[c.row].calls < MaxAttempts
  <2>1. Cardinality(Unsent(c.row)) # 0
    BY <1>1, Numbers, FS_EmptySet DEF MailInv
  <2>2. /\ provider[c.row].calls + Cardinality(Unsent(c.row)) <= outbox[c.row].attempts
        /\ outbox[c.row].attempts <= MaxAttempts
    BY <1>1 DEF MailInv, Budget, Types, MailTypeOK
  <2>3. /\ provider[c.row].calls \in Nat /\ Cardinality(Unsent(c.row)) \in Nat
        /\ outbox[c.row].attempts \in Nat
    BY <1>1, Numbers DEF MailInv
  <2> QED BY <2>1, <2>2, <2>3, QueueAssumption
<1>4. Seen(c.row) # "none"
  BY <1>1 DEF MailInv, MailCalls, Made, Types, MailTypeOK, Row, Statuses, Seen
<1>5. \A n \in Letters : Seen(n)' = Seen(n)
  BY <1>1, SeenStays DEF Letters
<1> QED BY <1>1, <1>2, <1>3, <1>4, <1>5, BoxCalls DEF MailInv, Letters

LEMMA SendRecoveryInBox ==
    ASSUME MailInv, NEW m \in Recoveries, NEW answer \in Answers, SendRecovery(m, answer)
    PROVE  Box!Next
<1>1. /\ recovery[m].step = "send" /\ provider[m].calls < recovery[m].attempt
      /\ recovery[m].attempt \in 1 .. MaxAttempts /\ provider[m].calls \in Nat
  BY DEF SendRecovery, MailInv, RecoveryBudget, Types, Asking
<1>2. provider[m].calls < MaxAttempts
  BY <1>1, QueueAssumption
<1>3. AskedOnce(m)
  BY AskedBox DEF SendRecovery, MailInv, Letters
<1>4. /\ recovery'[m].step \in {"send", "accepted", "failed"}
      /\ \A n \in Recoveries : n # m => recovery'[n] = recovery[n]
      /\ UNCHANGED outbox
  BY <1>1, RecoveryGoes DEF SendRecovery, MailInv
<1>5. Seen(m) = "queued" /\ Seen(m)' = "queued"
  BY <1>1, <1>4, Disjoint DEF Seen
<1>6. \A n \in Letters : Seen(n)' = Seen(n)
  BY <1>4, <1>5, SeenStays DEF Letters
<1> QED BY <1>2, <1>3, <1>5, <1>6, BoxCalls DEF MailInv, Letters

LEMMA ClaimInBox == ASSUME MailInv, NEW w \in Dispatchers, ClaimBatch(w) PROVE Box!Next
<1> PICK page \in SUBSET Messages :
       LET runnable == page \ Exhausted(page)
       IN  /\ \A m \in page : Claimable(outbox[m])
           /\ outbox' = [m \in Messages |->
                 IF m \in runnable THEN Leased(outbox[m])
                 ELSE IF m \in page THEN Settled(outbox[m], "FAILED")
                 ELSE outbox[m]]
           /\ mailing' = mailing \cup {NewCall(w, m) : m \in runnable}
           /\ dispatch' \in [Dispatchers -> Dispatching] /\ AtRest'
  BY ClaimPage DEF MailInv, Types
<1> DEFINE S == page \cap Exhausted(page)
<1>1. \A m \in page : outbox[m].status = "PENDING"
  BY DEF Claimable
<1>2. \A m \in Messages : /\ Leased(outbox[m]).status = outbox[m].status
                          /\ Settled(outbox[m], "FAILED").status = "FAILED"
  BY LeasedRow, SettledRow DEF MailInv, Types, MailTypeOK, Statuses
<1>3. \A m \in Messages : IF m \in S THEN outbox'[m].status = "FAILED"
                          ELSE outbox'[m].status = outbox[m].status
  BY <1>2
<1>4. UNCHANGED <<recovery, provider>> /\ S \subseteq Messages
  BY DEF ClaimBatch
<1> HIDE DEF S
<1>5. \A m \in S : Seen(m) = "queued" /\ Seen(m)' = "dropped"
  <2> SUFFICES ASSUME NEW m \in S PROVE Seen(m) = "queued" /\ Seen(m)' = "dropped"
    OBVIOUS
  <2>1. m \in Messages /\ outbox[m].status = "PENDING" /\ outbox'[m].status = "FAILED"
    BY <1>1, <1>3, <1>4 DEF S
  <2> QED BY <2>1 DEF Seen
<1>6. \A m \in Letters : m \notin S => Seen(m)' = Seen(m)
  BY <1>3, <1>4, SeenStays DEF Letters
<1>7. S \in SUBSET Letters
  BY <1>4 DEF Letters
<1> QED BY <1>4, <1>5, <1>6, <1>7, BoxDrops

LEMMA RecordInBox ==
    ASSUME MailInv, NEW c \in mailing, RecordDelivered(c) \/ RecordFailure(c)
    PROVE  [Box!Next]_(Box!vars)
<1>1. /\ c.row \in Messages
      /\ \A m \in Messages : m # c.row \/ ~MayRecord(c) => outbox'[m] = outbox[m]
      /\ MayRecord(c) =>
            \/ RecordDelivered(c) /\ outbox'[c.row].status = "DONE"
            \/ outbox'[c.row].status \in {"FAILED", "PENDING"}
  BY Recorded DEF MailInv, Types
<1>2. UNCHANGED <<recovery, provider>>
  BY DEF RecordDelivered, RecordFailure
<1>3. MayRecord(c) => outbox[c.row].status = "PENDING"
  BY DEF MayRecord
<1>4. \A n \in Letters : n # c.row => Seen(n)' = Seen(n)
  BY <1>1, <1>2, SeenStays DEF Letters
<1>5. CASE MayRecord(c) /\ RecordDelivered(c) /\ outbox'[c.row].status = "DONE"
  <2>1. Seen(c.row) = "queued" /\ Seen(c.row)' = "delivered"
    BY <1>1, <1>3, <1>5 DEF Seen
  <2>2. provider[c.row].accepted > 0
    BY <1>5 DEF RecordDelivered, MailInv, MailCalls, Accepted
  <2> QED BY <1>1, <1>2, <1>4, <2>1, <2>2, BoxDelivers DEF Letters
<1>6. CASE MayRecord(c) /\ outbox'[c.row].status = "FAILED"
  <2>1. Seen(c.row) = "queued" /\ Seen(c.row)' = "dropped"
    BY <1>1, <1>3, <1>6 DEF Seen
  <2>2. {c.row} \in SUBSET Letters
    BY <1>1 DEF Letters
  <2> QED BY <1>2, <1>4, <2>1, <2>2, BoxDrops
<1>7. CASE ~MayRecord(c) \/ outbox'[c.row].status = "PENDING"
  <2>1. \A m \in Messages : outbox'[m].status = outbox[m].status
    BY <1>1, <1>3, <1>7
  <2> QED BY <1>2, <2>1, BoxKeepsStill
<1> QED BY <1>1, <1>5, <1>6, <1>7

LEMMA RequestInBox ==
    ASSUME MailInv, NEW m \in Recoveries, AnswerRequest(m) \/ RequestDies(m) PROVE Box!Next
<1>1. /\ \A n \in Recoveries : n # m => recovery'[n] = recovery[n]
      /\ recovery[m].step \in {"send", "accepted", "failed"}
      /\ \/ recovery[m].step = "accepted" /\ recovery'[m].step = "delivered"
         \/ recovery'[m].step = "refused"
      /\ UNCHANGED <<outbox, provider>>
  BY DEF AnswerRequest, RequestDies, MailInv, Types, MailTypeOK, Sending
<1>2. \A n \in Letters : n # m => Seen(n)' = Seen(n)
  BY <1>1, SeenStays DEF Letters
<1>3. Seen(m) = "queued"
  BY <1>1, Disjoint DEF Seen
<1>4. CASE recovery[m].step = "accepted" /\ recovery'[m].step = "delivered"
  <2>1. Seen(m)' = "delivered"
    BY <1>4, Disjoint DEF Seen
  <2>2. provider[m].accepted > 0
    BY <1>4 DEF MailInv, RecoveryBudget
  <2> QED BY <1>1, <1>2, <1>3, <2>1, <2>2, BoxDelivers DEF Letters
<1>5. CASE recovery'[m].step = "refused"
  <2>1. Seen(m)' = "dropped"
    BY <1>5, Disjoint DEF Seen
  <2>2. {m} \in SUBSET Letters
    BY DEF Letters
  <2> QED BY <1>1, <1>2, <1>3, <2>1, <2>2, BoxDrops
<1> QED BY <1>1, <1>4, <1>5

LEMMA ClockInBox == ASSUME MailInv, MailClock PROVE UNCHANGED Box!vars
<1>1. \A m \in Messages : outbox'[m].status = outbox[m].status
  BY LaterRow DEF MailClock, MailInv, Types, MailTypeOK
<1> QED BY <1>1, BoxKeepsStill DEF MailClock

LEMMA StepInBox == MailInv /\ [MailNext]_mailVars => [Box!Next]_(Box!vars)
<1> SUFFICES ASSUME MailInv, [MailNext]_mailVars PROVE [Box!Next]_(Box!vars)
  OBVIOUS
<1>1. ASSUME UNCHANGED <<outbox, recovery, provider>> PROVE UNCHANGED Box!vars
  BY <1>1, BoxKeepsStill
<1>2. CASE UNCHANGED mailVars
  BY <1>1, <1>2 DEF mailVars
<1>3. ASSUME NEW w \in Dispatchers, EndDispatch(w) \/ DispatcherDies(w)
      PROVE  UNCHANGED Box!vars
  BY <1>1, <1>3 DEF EndDispatch, DispatcherDies
<1>4. ASSUME NEW c \in mailing, NEW found \in BOOLEAN,
             RenderMail(c, found) \/ MailCaught(c) \/ MailRejects(c)
      PROVE  UNCHANGED Box!vars
  BY <1>1, <1>4 DEF RenderMail, MailCaught, MailRejects
<1> QED BY <1>2, <1>3, <1>4, NotifyInBox, RecoverInBox, SendInBox, SendRecoveryInBox, ClaimInBox,
           RecordInBox, RequestInBox, ClockInBox DEF MailNext, SendNow, ProcessRow

LEMMA InitInBox == MailInit => Box!Init
<1> SUFFICES ASSUME MailInit PROVE Box!Init
  OBVIOUS
<1>1. NoRow.status = "absent"
  BY DEF NoRow
<1>2. \A m \in Letters : Seen(m) = "none"
  BY <1>1 DEF MailInit, Seen, Letters
<1>3. \A m \in Letters : provider[m].calls = 0 /\ provider[m].accepted = 0
  BY DEF MailInit, Letters
<1> QED BY <1>2, <1>3 DEF Box!Init, Seen, Letters

(* The outbox, its dispatchers and the recovery messages implement the     *)
(* mailbox: whatever crashes, a message is delivered only after the        *)
(* provider has accepted it, is settled once and for good, and costs the   *)
(* provider at most MaxAttempts calls.  That it is settled in the end is   *)
(* left to the runs.  render.ts dispatcherFile, serviceFile.               *)
THEOREM KeepsMailboxSafe == MailSpec => Box!Safety
  BY InitInBox, StepInBox, Invariance, PTL DEF MailSpec, Box!Safety
=============================================================================
