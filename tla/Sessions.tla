------------------------------ MODULE Sessions ------------------------------
(***************************************************************************)
(* Browser sessions: Sessions.Issue, Authenticate with its sliding         *)
(* renewal, Revoke, RevokeByID and RevokeOthers, and the cookie that names *)
(* a session in the browser.                                               *)
(*                                                                         *)
(* Every statement is a transaction of its own. A guarded request reads    *)
(* its session, may write a later deadline computed from what it read,     *)
(* and then runs its handler: three steps, between which any other request *)
(* may take its own.                                                       *)
(*                                                                         *)
(* created_at is written by the database's clock, expires_at by the        *)
(* application's.                                                          *)
(***************************************************************************)
EXTENDS Integers

CONSTANTS
    Users,
    SessionIds,
    Requests,   \* requests that carry a session cookie
    NoOne,      \* no user, no session
    Idle,       \* SessionIdleWindow, in ticks
    Absolute,   \* SessionAbsoluteWindow
    Floor,      \* sessionRenewalFloor
    Skew,       \* the application's clock minus the database's
    MaxDelay,   \* the longest a request takes from its read to its renewal
    MaxTime     \* bound: the database clock stops here

ASSUME WindowsAssumption ==
    /\ Idle \in Nat /\ Absolute \in Nat /\ Floor \in Nat
    /\ Skew \in Int
    /\ Idle + Skew <= Absolute
ASSUME DelayAssumption == MaxDelay \in Nat /\ MaxDelay <= Floor
ASSUME MaxTimeAssumption == MaxTime \in Nat
ASSUME NoOneAssumption == NoOne \notin Users \cup SessionIds

VARIABLES
    now,       \* the database's clock
    sessions,  \* the rows
    issued,    \* every session there ever was
    owner,     \* user_id
    created,   \* created_at
    expires,   \* expires_at
    masked,    \* soft-deleted accounts
    cookie,    \* until when a session's browser keeps its cookie
    given,     \* sessions whose token a browser was given
    pc,        \* where each request stands
    ans,       \* what each request was answered
    sess,      \* the session the request's cookie names
    readAt,    \* the application's time when the request read its session
    late,      \* the session had been ended when the request arrived
    before,    \* the owner's sessions when the request was authenticated
    lastUse,   \* the last time a request was let in by the session
    lapsed,    \* sessions one of whose renewals failed
    ended      \* sessions a request has ended

rowVars == <<sessions, issued, owner, created, expires>>
browserVars == <<cookie, given>>
useVars == <<lastUse, lapsed, ended>>
requestVars == <<sess, readAt, late, before>>
vars == <<now, masked, pc, ans, browserVars, rowVars, useVars, requestVars>>

AnswerKinds == {"none", "ok", "othersGone", "unauthenticated", "notFound", "error"}

-----------------------------------------------------------------------------
(* The application's clock, s.now(). *)
AppNow == now + Skew

NewSessionExpiry(t) == t + Idle

IsExpired(s, t) == expires[s] <= t

(* Mutant: the absolute window is forgotten. *)
RenewedExpiryUnbounded(s, t) == t + Idle

(* The deadline a use at t moves the session to, the absolute window being *)
(* the ceiling.                                                            *)
RenewedExpiry(s, t) ==
    IF t + Idle > created[s] + Absolute THEN created[s] + Absolute ELSE t + Idle

(* Mutant: a deadline that could move by twice the floor is left alone. *)
NeedsRenewalRarely(s, t) == RenewedExpiry(s, t) - expires[s] > Floor + Floor

NeedsRenewal(s, t) == RenewedExpiry(s, t) - expires[s] > Floor

SessionsOf(u) == {s \in sessions : owner[s] = u}

-----------------------------------------------------------------------------
Init ==
    /\ now = 0
    /\ sessions = {}
    /\ issued = {}
    /\ owner = [s \in SessionIds |-> NoOne]
    /\ created = [s \in SessionIds |-> 0]
    /\ expires = [s \in SessionIds |-> 0]
    /\ masked = {}
    /\ cookie = [s \in SessionIds |-> 0]
    /\ given = {}
    /\ pc = [r \in Requests |-> "idle"]
    /\ ans = [r \in Requests |-> "none"]
    /\ sess = [r \in Requests |-> NoOne]
    /\ readAt = [r \in Requests |-> 0]
    /\ late = [r \in Requests |-> FALSE]
    /\ before = [r \in Requests |-> {}]
    /\ lastUse = [s \in SessionIds |-> 0]
    /\ lapsed = {}
    /\ ended = {}

-----------------------------------------------------------------------------
Answer(r, answer) ==
    /\ pc' = [pc EXCEPT ![r] = "done"]
    /\ ans' = [ans EXCEPT ![r] = answer]

(* The DELETE of some sessions. *)
End(gone) ==
    /\ sessions' = sessions \ gone
    /\ ended' = ended \cup (sessions \cap gone)

Goto(r, label) ==
    /\ pc' = [pc EXCEPT ![r] = label]
    /\ UNCHANGED ans

(* Mutant: the arguments of the INSERT are swapped. *)
IssueSwapped(s, u) ==
    /\ s \notin issued
    /\ sessions' = sessions \cup {u}
    /\ issued' = issued \cup {s}
    /\ UNCHANGED <<now, owner, created, expires, masked, browserVars, pc, ans, useVars,
                   requestVars>>

(* Sessions.Issue at the end of a login or a redemption, and the cookie    *)
(* set from the row it returns. The account may have been masked since it  *)
(* was read. An INSERT whose answer is lost leaves a row whose token       *)
(* nobody has; one that fails changes nothing.                             *)
Issue(s, u) ==
    /\ s \notin issued
    /\ sessions' = sessions \cup {s}
    /\ issued' = issued \cup {s}
    /\ owner' = [owner EXCEPT ![s] = u]
    /\ created' = [created EXCEPT ![s] = now]
    /\ expires' = [expires EXCEPT ![s] = NewSessionExpiry(AppNow)]
    /\ lastUse' = [lastUse EXCEPT ![s] = AppNow]
    /\ \/ /\ given' = given \cup {s}
          /\ cookie' = [cookie EXCEPT ![s] = NewSessionExpiry(AppNow)]
       \/ UNCHANGED browserVars
    /\ UNCHANGED <<now, masked, pc, ans, lapsed, ended, requestVars>>

(* RequireSession and Sessions.Authenticate up to its decision: one        *)
(* SELECT, joined with the live accounts, and the application's clock read *)
(* after it.                                                               *)
Authenticate(r, s) ==
    /\ pc[r] = "idle"
    /\ s \in given
    /\ sess' = [sess EXCEPT ![r] = s]
    /\ late' = [late EXCEPT ![r] = s \in ended]
    /\ \/ /\ s \notin sessions \/ owner[s] \in masked \/ IsExpired(s, AppNow)
          /\ Answer(r, "unauthenticated")
          /\ UNCHANGED <<readAt, before, lastUse>>
       \/ /\ Answer(r, "error")
          /\ UNCHANGED <<readAt, before, lastUse>>
       \/ /\ s \in sessions /\ owner[s] \notin masked /\ ~IsExpired(s, AppNow)
          /\ readAt' = [readAt EXCEPT ![r] = AppNow]
          /\ before' = [before EXCEPT ![r] = SessionsOf(owner[s])]
          /\ lastUse' = [lastUse EXCEPT ![s] = AppNow]
          /\ Goto(r, IF NeedsRenewal(s, AppNow) THEN "renew" ELSE "handle")
    /\ UNCHANGED <<now, masked, browserVars, rowVars, lapsed, ended>>

(* Mutant: the renewal writes the row whether or not it is still there. *)
TouchSessionUpsert(r) ==
    /\ pc[r] = "renew"
    /\ expires' = [expires EXCEPT ![sess[r]] = RenewedExpiry(sess[r], readAt[r])]
    /\ sessions' = sessions \cup {sess[r]}
    /\ Goto(r, "handle")
    /\ UNCHANGED <<now, issued, owner, created, masked, browserVars, useVars, requestVars>>

(* renew: the deadline computed from the row as it was read. A row that is *)
(* gone is not written, a write that fails does not stop the request.      *)
TouchSession(r) ==
    /\ pc[r] = "renew"
    /\ \/ /\ sess[r] \in sessions
          /\ expires' = [expires EXCEPT ![sess[r]] = RenewedExpiry(sess[r], readAt[r])]
          /\ UNCHANGED lapsed
       \/ /\ lapsed' = lapsed \cup {sess[r]}
          /\ UNCHANGED expires
    /\ Goto(r, "handle")
    /\ UNCHANGED <<now, sessions, issued, owner, created, masked, browserVars, lastUse, ended,
                   requestVars>>

(* A handler that reads: Me, ListSessions. *)
Read(r) ==
    /\ pc[r] = "handle"
    /\ Answer(r, "ok") \/ Answer(r, "error")
    /\ UNCHANGED <<now, masked, browserVars, rowVars, useVars, requestVars>>

(* Mutant: the DELETE names the session only. *)
RevokeByIDOfAnyone(r, t) ==
    /\ pc[r] = "handle"
    /\ t \in sessions
    /\ End({t})
    /\ Answer(r, "ok")
    /\ UNCHANGED <<now, issued, owner, created, expires, masked, browserVars, lastUse, lapsed,
                   requestVars>>

(* RevokeSession: one of the caller's own sessions, by id. Ending the      *)
(* session that asks also clears its cookie. The answer of the DELETE may  *)
(* be lost: the row is gone, the caller is told of an error.               *)
RevokeByID(r, t) ==
    /\ pc[r] = "handle"
    /\ LET mine == t \in SessionsOf(owner[sess[r]])
       IN  \/ /\ mine
              /\ End({t})
              /\ \/ /\ cookie' = [cookie EXCEPT ![t] = IF t = sess[r] THEN 0 ELSE @]
                    /\ Answer(r, "ok")
                 \/ Answer(r, "error") /\ UNCHANGED cookie
           \/ ~mine /\ Answer(r, "notFound") /\ UNCHANGED <<sessions, ended, cookie>>
           \/ Answer(r, "error") /\ UNCHANGED <<sessions, ended, cookie>>
    /\ UNCHANGED <<now, issued, owner, created, expires, masked, given, lastUse, lapsed,
                   requestVars>>

(* Mutant: one session too many is kept. *)
RevokeOthersButOne(r) ==
    /\ pc[r] = "handle"
    /\ \E kept \in SessionsOf(owner[sess[r]]) :
          End(SessionsOf(owner[sess[r]]) \ {sess[r], kept})
    /\ Answer(r, "othersGone")
    /\ UNCHANGED <<now, issued, owner, created, expires, masked, browserVars, lastUse, lapsed,
                   requestVars>>

(* RevokeOtherSessions: every session of the caller but the one that asks. *)
(* A lost answer is an error although they are gone.                       *)
RevokeOthers(r) ==
    /\ pc[r] = "handle"
    /\ \/ /\ End(SessionsOf(owner[sess[r]]) \ {sess[r]})
          /\ Answer(r, "othersGone") \/ Answer(r, "error")
       \/ Answer(r, "error") /\ UNCHANGED <<sessions, ended>>
    /\ UNCHANGED <<now, issued, owner, created, expires, masked, browserVars, lastUse, lapsed,
                   requestVars>>

(* Logout is not guarded: it deletes whatever the cookie names, and        *)
(* deleting nothing is a success too. After an error, the row gone or not, *)
(* the browser keeps its cookie.                                           *)
Revoke(r, s) ==
    /\ pc[r] = "idle"
    /\ s \in given
    /\ sess' = [sess EXCEPT ![r] = s]
    /\ \/ /\ End({s})
          /\ \/ /\ cookie' = [cookie EXCEPT ![s] = 0]
                /\ Answer(r, "ok")
             \/ Answer(r, "error") /\ UNCHANGED cookie
       \/ Answer(r, "error") /\ UNCHANGED <<sessions, ended, cookie>>
    /\ UNCHANGED <<now, issued, owner, created, expires, masked, given, lastUse, lapsed,
                   readAt, late, before>>

SoftDeleteUser(u) ==
    /\ u \notin masked
    /\ masked' = masked \cup {u}
    /\ UNCHANGED <<now, browserVars, pc, ans, rowVars, useVars, requestVars>>

(* Time passes, but no renewal stays on its way for longer than MaxDelay. *)
Tick ==
    /\ now < MaxTime
    /\ \A r \in Requests : pc[r] = "renew" => AppNow - readAt[r] < MaxDelay
    /\ now' = now + 1
    /\ UNCHANGED <<masked, browserVars, pc, ans, rowVars, useVars, requestVars>>

(* Every request was answered, or nobody has a token to present. *)
Terminated ==
    /\ \A r \in Requests : pc[r] = "done" \/ (pc[r] = "idle" /\ given = {})
    /\ UNCHANGED vars

Next ==
    \/ \E s \in SessionIds, u \in Users : Issue(s, u)
    \/ \E r \in Requests :
        \/ \E s \in SessionIds : Authenticate(r, s) \/ Revoke(r, s)
        \/ TouchSession(r)
        \/ Read(r)
        \/ \E t \in SessionIds : RevokeByID(r, t)
        \/ RevokeOthers(r)
    \/ \E u \in Users : SoftDeleteUser(u)
    \/ Tick
    \/ Terminated

Spec == Init /\ [][Next]_vars

-----------------------------------------------------------------------------
(* Every variable has its type. *)
TypeOK ==
    /\ now \in Nat
    /\ sessions \subseteq issued
    /\ issued \subseteq SessionIds
    /\ owner \in [SessionIds -> Users \cup {NoOne}]
    /\ created \in [SessionIds -> Nat]
    /\ expires \in [SessionIds -> Int]
    /\ masked \subseteq Users
    /\ cookie \in [SessionIds -> Int]
    /\ given \subseteq issued
    /\ pc \in [Requests -> {"idle", "renew", "handle", "done"}]
    /\ ans \in [Requests -> AnswerKinds]
    /\ sess \in [Requests -> SessionIds \cup {NoOne}]
    /\ readAt \in [Requests -> Int]
    /\ late \in [Requests -> BOOLEAN]
    /\ before \in [Requests -> SUBSET SessionIds]
    /\ lastUse \in [SessionIds -> Int]
    /\ lapsed \subseteq SessionIds
    /\ ended \subseteq SessionIds

(* IsExpired looks at the deadline alone because no renewal, however old   *)
(* the row it was computed from, moves a deadline past the absolute window.*)
AbsoluteCeiling == \A s \in sessions : expires[s] <= created[s] + Absolute

(* The deadline is at most the renewal floor earlier than the idle window  *)
(* since the last use promises (or than the absolute window), although     *)
(* renewals computed from an earlier read may land after later ones. A     *)
(* renewal still on its way, or one that failed, is the exception.         *)
IdlePromise ==
    \A s \in sessions \ lapsed :
        \/ \E r \in Requests : pc[r] = "renew" /\ sess[r] = s
        \/ expires[s] >= RenewedExpiry(s, lastUse[s]) - Floor

(* A request that arrives after its session was ended is not let in: no    *)
(* renewal under way brings a row back.                                    *)
EndedSessionRefused ==
    \A r \in Requests : late[r] =>
        pc[r] = "done" /\ ans[r] \in {"unauthenticated", "error"}

(* Once RevokeOthers has answered, none of the sessions the account had    *)
(* when the request was authenticated is left but the one that asked.      *)
OthersEnded ==
    \A r \in Requests : ans[r] = "othersGone" => before[r] \cap sessions \subseteq {sess[r]}

(* Of the endpoints that end sessions, none ends one that belongs to       *)
(* another account than the session its request carries (a password reset, *)
(* which carries none, is modelled in PasswordResets).                     *)
OwnSessionsOnly ==
    [][\A s \in sessions \ sessions' :
          \E r \in Requests :
              pc[r] # "done" /\ pc'[r] = "done" /\ owner[sess'[r]] = owner[s]]_vars

(* ADR-0005: sessions live "idle 14 days, absolute 90 days", extended as   *)
(* they are used. The browser of a session that is still usable still has  *)
(* its cookie. The cookie's own expiry is written once, at login.          *)
CookieKeepsUp ==
    \A s \in sessions \cap given : ~IsExpired(s, AppNow) => AppNow < cookie[s]
=============================================================================
