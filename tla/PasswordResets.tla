--------------------------- MODULE PasswordResets ---------------------------
(***************************************************************************)
(* Passwords, the links that replace them, and the sessions a password     *)
(* opens: PasswordResets.Request and Confirm, Credentials.Authenticate     *)
(* with its rehash, Sessions.Issue and Revoke.                             *)
(*                                                                         *)
(* As in Invitations, a request is a process, a SQL statement an action,   *)
(* and the database is PostgreSQL under READ COMMITTED: a statement reads  *)
(* what is committed when it starts, an UPDATE waits for the row's writer  *)
(* and re-evaluates its WHERE, now() is the start of the transaction, and  *)
(* a transaction's writes appear at its commit. The statements of a login  *)
(* are transactions of their own.                                          *)
(*                                                                         *)
(* A reset row is identified by the Request that inserts it, a session by  *)
(* the login that opens it.                                                *)
(***************************************************************************)
EXTENDS Integers

CONSTANTS
    Requesters,  \* the requests to POST /auth/password/reset
    Confirmers,  \* the requests to POST /auth/password/reset/confirm
    Logins,      \* the requests to POST /auth/login
    Users,       \* accounts, each with its own address
    Passwords,
    FirstPassword, \* every account's password at the start
    NoOne,       \* no account, no link or no request
    Window,      \* PasswordResetWindow, in ticks
    Skew,        \* the application's clock minus the database's
    MaxTime      \* bound: the database clock stops here

ASSUME WindowAssumption == Window \in Nat \ {0}
ASSUME SkewAssumption == Skew \in Int
ASSUME MaxTimeAssumption == MaxTime \in Nat
ASSUME RequestsAssumption ==
    /\ Requesters \cap Confirmers = {}
    /\ Requesters \cap Logins = {}
    /\ Confirmers \cap Logins = {}
ASSUME NoOneAssumption ==
    NoOne \notin Requesters \cup Confirmers \cup Logins \cup Users
ASSUME FirstPasswordAssumption == FirstPassword \in Passwords

VARIABLES
    now,        \* the database's clock
    pc,         \* where each request stands
    ans,        \* what each request was answered
    start,      \* when each request's transaction began: its now()
    held,       \* reset rows each open transaction has updated (row locks)
    account,    \* Request, login: the account the address belongs to
    secret,     \* Confirm, login: the password in the request
    todo,       \* Request: rows of the supersede scan still to be updated
    known,      \* Request: the account's reset rows committed at the scan
    tok,        \* Confirm: the reset row whose link was presented
    late,       \* Confirm: a newer link had committed when it began
    before,     \* Confirm: the account's sessions when it began
    doomed,     \* Confirm: the sessions its DELETE removed
    seenHash,   \* login: the hash it read and verified
    resets,     \* committed reset rows
    expires,    \* expires_at
    used,       \* committed rows with used_at set
    mailed,     \* reset rows whose link reached its inbox
    applied,    \* confirmations whose transaction committed
    hash,       \* users.password_hash
    masked,     \* soft-deleted accounts
    sessions    \* committed sessions

rowVars == <<resets, expires, used, mailed>>
userVars == <<hash, masked>>
requestVars == <<todo, known>>
confirmVars == <<tok, late, before, doomed>>
inputVars == <<account, secret>>
vars == <<now, pc, ans, start, held, seenHash, applied, sessions,
          rowVars, userVars, requestVars, confirmVars, inputVars>>

Requests == Requesters \cup Confirmers \cup Logins
TxPC == {"lookup", "scan", "expire", "read", "use", "password", "sessions", "commit"}
LoginPC == {"rehash", "issue"}
AnswerKinds == {"none", "ok", "invalid", "limited", "refused", "notUsable", "error"}

(* A stored hash: the password behind it, the cost it was made at, and a   *)
(* salt no other hash has, here the request that made it.                  *)
Hashes == [pw : Passwords, cost : {"old", "current"}, salt : Requests \cup {NoOne}]

HashPassword(p, pw) == [pw |-> pw, cost |-> "current", salt |-> p]

NeedsRehash(h) == h.cost = "old"

-----------------------------------------------------------------------------
(* The application's clock, s.now(). *)
AppNow == now + Skew

NewPasswordResetExpiry(t) == t + Window

(* PasswordReset.IsUsable: neither used nor expired at t. *)
IsUsable(r, t) == r \notin used /\ t < expires[r]

(* Mutant: the WHERE forgets used_at IS NULL. *)
StillOpenIgnoringUsed(r, t) == expires[r] > t

(* Mutant: the WHERE compares with >= instead of >. *)
StillOpenInclusive(r, t) == r \notin used /\ expires[r] >= t

(* used_at IS NULL AND expires_at > now(), with now() = t. *)
StillOpen(r, t) == r \notin used /\ expires[r] > t

LockedByOther(p, r) == \E q \in Requests \ {p} : r \in held[q]

(* The account a confirmation writes: the reset row's, never the           *)
(* request's.                                                              *)
ResetAccount(c) == account[tok[c]]

(* A confirmation has updated the account's users row and not ended. *)
UserLocked(u) ==
    \E c \in Confirmers : pc[c] \in {"sessions", "commit"} /\ ResetAccount(c) = u

(* A confirmation has deleted the session's row and not ended. *)
SessionLocked(s) == \E c \in Confirmers : pc[c] = "commit" /\ s \in doomed[c]

SessionsOf(u) == {s \in sessions : account[s] = u}

-----------------------------------------------------------------------------
Init ==
    /\ now = 0
    /\ pc = [p \in Requests |-> "idle"]
    /\ ans = [p \in Requests |-> "none"]
    /\ start = [p \in Requests |-> 0]
    /\ held = [p \in Requests |-> {}]
    /\ account = [p \in Requesters \cup Logins |-> NoOne]
    /\ secret = [p \in Confirmers \cup Logins |-> FirstPassword]
    /\ todo = [p \in Requesters |-> {}]
    /\ known = [p \in Requesters |-> {}]
    /\ tok = [c \in Confirmers |-> NoOne]
    /\ late = [c \in Confirmers |-> FALSE]
    /\ before = [c \in Confirmers |-> {}]
    /\ doomed = [c \in Confirmers |-> {}]
    /\ seenHash = [l \in Logins |-> HashPassword(NoOne, FirstPassword)]
    /\ resets = {}
    /\ expires = [p \in Requesters |-> 0]
    /\ used = {}
    /\ mailed = {}
    /\ applied = {}
    /\ hash \in [Users -> [pw : {FirstPassword}, cost : {"old", "current"}, salt : {NoOne}]]
    /\ masked = {}
    /\ sessions = {}

-----------------------------------------------------------------------------
Answer(p, answer) ==
    /\ pc' = [pc EXCEPT ![p] = "done"]
    /\ ans' = [ans EXCEPT ![p] = answer]

Goto(p, label) ==
    /\ pc' = [pc EXCEPT ![p] = label]
    /\ UNCHANGED ans

(* inTx's deferred Rollback, and the refusal that caused it. *)
Rollback(p, answer) ==
    /\ Answer(p, answer)
    /\ held' = [held EXCEPT ![p] = {}]

-----------------------------------------------------------------------------
(* PasswordResets.Request *)

(* normalizeEmail refuses the address, the per-account bucket is spent or  *)
(* out of reach, or no transaction can be opened.                          *)
RequestRefused(p) ==
    /\ pc[p] = "idle"
    /\ \E answer \in {"invalid", "limited", "error"} : Answer(p, answer)
    /\ UNCHANGED <<now, start, held, seenHash, applied, sessions,
                   rowVars, userVars, requestVars, confirmVars, inputVars>>

RequestBegin(p, u) ==
    /\ pc[p] = "idle"
    /\ account' = [account EXCEPT ![p] = u]
    /\ start' = [start EXCEPT ![p] = now]
    /\ Goto(p, "lookup")
    /\ UNCHANGED <<now, held, seenHash, applied, sessions,
                   rowVars, userVars, requestVars, confirmVars, secret>>

(* An address with no live account is answered as every other: nothing is  *)
(* recorded and nothing is sent.                                           *)
GetUserByEmail(p) ==
    /\ pc[p] = "lookup"
    /\ \/ account[p] \in masked /\ Answer(p, "ok")
       \/ account[p] \notin masked /\ Goto(p, "scan")
    /\ UNCHANGED <<now, start, held, seenHash, applied, sessions,
                   rowVars, userVars, requestVars, confirmVars, inputVars>>

(* The supersede UPDATE starts: it will visit the open rows committed now. *)
ExpireOpenPasswordResetsForUser(p) ==
    /\ pc[p] = "scan"
    /\ LET same == {r \in resets : account[r] = account[p]}
       IN  /\ known' = [known EXCEPT ![p] = same]
           /\ todo' = [todo EXCEPT ![p] = {r \in same : StillOpen(r, start[p])}]
    /\ Goto(p, "expire")
    /\ UNCHANGED <<now, start, held, seenHash, applied, sessions,
                   rowVars, userVars, confirmVars, inputVars>>

(* One row of it: wait for the row's writer, then re-evaluate the WHERE. *)
ExpireRow(p, r) ==
    /\ pc[p] = "expire"
    /\ r \in todo[p]
    /\ ~LockedByOther(p, r)
    /\ todo' = [todo EXCEPT ![p] = @ \ {r}]
    /\ held' = [held EXCEPT ![p] = @ \cup {x \in {r} : StillOpen(x, start[p])}]
    /\ UNCHANGED <<now, pc, ans, start, seenHash, applied, sessions,
                   rowVars, userVars, known, confirmVars, inputVars>>

CreatePasswordReset(p) ==
    /\ pc[p] = "expire"
    /\ todo[p] = {}
    /\ expires' = [expires EXCEPT ![p] = NewPasswordResetExpiry(AppNow)]
    /\ Goto(p, "commit")
    /\ UNCHANGED <<now, start, held, seenHash, applied, sessions, resets, used, mailed,
                   userVars, requestVars, confirmVars, inputVars>>

(* The commit's answer may be lost on the way back: then the row is there  *)
(* and its link is never sent.                                             *)
CommitRequest(p) ==
    /\ p \in Requesters
    /\ pc[p] = "commit"
    /\ resets' = resets \cup {p}
    /\ expires' = [r \in Requesters |-> IF r \in held[p] THEN start[p] ELSE expires[r]]
    /\ held' = [held EXCEPT ![p] = {}]
    /\ Goto(p, "send") \/ Answer(p, "error")
    /\ UNCHANGED <<now, start, seenHash, applied, sessions, used, mailed,
                   userVars, requestVars, confirmVars, inputVars>>

(* The send's failure is swallowed, and a send that failed may have        *)
(* delivered.                                                              *)
Send(p) ==
    /\ pc[p] = "send"
    /\ mailed' = mailed \cup {p} \/ UNCHANGED mailed
    /\ Answer(p, "ok")
    /\ UNCHANGED <<now, start, held, seenHash, applied, sessions, resets, expires, used,
                   userVars, requestVars, confirmVars, inputVars>>

-----------------------------------------------------------------------------
(* PasswordResets.Confirm *)

(* A malformed token, a password the rules refuse, a token no row carries, *)
(* or no transaction can be opened.                                        *)
ConfirmRefused(c) ==
    /\ pc[c] = "idle"
    /\ \E answer \in {"invalid", "notUsable", "error"} : Answer(c, answer)
    /\ UNCHANGED <<now, start, held, seenHash, applied, sessions,
                   rowVars, userVars, requestVars, confirmVars, inputVars>>

ConfirmBegin(c, t, w) ==
    /\ pc[c] = "idle"
    /\ t \in mailed
    /\ tok' = [tok EXCEPT ![c] = t]
    /\ secret' = [secret EXCEPT ![c] = w]
    /\ late' = [late EXCEPT ![c] = \E p \in resets : t \in known[p]]
    /\ before' = [before EXCEPT ![c] = SessionsOf(account[t])]
    /\ start' = [start EXCEPT ![c] = now]
    /\ Goto(c, "read")
    /\ UNCHANGED <<now, held, seenHash, applied, sessions,
                   rowVars, userVars, requestVars, doomed, account>>

GetPasswordResetByTokenHash(c) ==
    /\ pc[c] = "read"
    /\ \/ IsUsable(tok[c], AppNow) /\ Goto(c, "use")
       \/ ~IsUsable(tok[c], AppNow) /\ Answer(c, "notUsable")
    /\ UNCHANGED <<now, start, held, seenHash, applied, sessions,
                   rowVars, userVars, requestVars, confirmVars, inputVars>>

UsePasswordReset(c) ==
    /\ pc[c] = "use"
    /\ ~LockedByOther(c, tok[c])
    /\ \/ /\ StillOpen(tok[c], start[c])
          /\ held' = [held EXCEPT ![c] = {tok[c]}]
          /\ Goto(c, "password")
       \/ ~StillOpen(tok[c], start[c]) /\ Rollback(c, "notUsable")
    /\ UNCHANGED <<now, start, seenHash, applied, sessions,
                   rowVars, userVars, requestVars, confirmVars, inputVars>>

(* Mutant: the statement does not ask for a live account. *)
SetUserPasswordHashOfAnyone(c) ==
    /\ pc[c] = "password"
    /\ ~UserLocked(ResetAccount(c))
    /\ Goto(c, "sessions")
    /\ UNCHANGED <<now, start, held, seenHash, applied, sessions,
                   rowVars, userVars, requestVars, confirmVars, inputVars>>

(* The new hash waits for the users row and needs a live account; it is    *)
(* visible from the commit on.                                             *)
SetUserPasswordHash(c) ==
    /\ pc[c] = "password"
    /\ ~UserLocked(ResetAccount(c))
    /\ \/ ResetAccount(c) \in masked /\ Rollback(c, "notUsable")
       \/ ResetAccount(c) \notin masked /\ Goto(c, "sessions") /\ UNCHANGED held
    /\ UNCHANGED <<now, start, seenHash, applied, sessions,
                   rowVars, userVars, requestVars, confirmVars, inputVars>>

(* Mutant: the query that keeps one session is called instead. *)
DeleteOtherSessionsForUser(c) ==
    /\ pc[c] = "sessions"
    /\ \E kept \in Logins : doomed' = [doomed EXCEPT ![c] = SessionsOf(ResetAccount(c)) \ {kept}]
    /\ Goto(c, "commit")
    /\ UNCHANGED <<now, start, held, seenHash, applied, sessions,
                   rowVars, userVars, requestVars, tok, late, before, inputVars>>

(* The DELETE reaches the sessions committed when it starts. *)
DeleteAllSessionsForUser(c) ==
    /\ pc[c] = "sessions"
    /\ doomed' = [doomed EXCEPT ![c] = SessionsOf(ResetAccount(c))]
    /\ Goto(c, "commit")
    /\ UNCHANGED <<now, start, held, seenHash, applied, sessions,
                   rowVars, userVars, requestVars, tok, late, before, inputVars>>

CommitConfirm(c) ==
    /\ c \in Confirmers
    /\ pc[c] = "commit"
    /\ used' = used \cup held[c]
    /\ hash' = [hash EXCEPT ![ResetAccount(c)] = HashPassword(c, secret[c])]
    /\ sessions' = sessions \ doomed[c]
    /\ applied' = applied \cup {c}
    /\ held' = [held EXCEPT ![c] = {}]
    /\ Answer(c, "ok") \/ Answer(c, "error")
    /\ UNCHANGED <<now, start, seenHash, resets, expires, mailed, masked,
                   requestVars, confirmVars, inputVars>>

-----------------------------------------------------------------------------
(* Auth.Login: Credentials.Authenticate, then Sessions.Issue. The guard    *)
(* that limits failures is not part of this module.                        *)

(* Mutant: the password is kept where the verified hash is due. *)
AuthenticateKeepsPassword(l, u, w) ==
    /\ pc[l] = "idle"
    /\ u \notin masked /\ hash[u].pw = w
    /\ account' = [account EXCEPT ![l] = u]
    /\ secret' = [secret EXCEPT ![l] = w]
    /\ seenHash' = [seenHash EXCEPT ![l] = w]
    /\ Goto(l, "issue")
    /\ UNCHANGED <<now, start, held, applied, sessions,
                   rowVars, userVars, requestVars, confirmVars>>

(* GetUserByEmail, which may fail, and VerifyPassword on the hash it       *)
(* returned.                                                               *)
Authenticate(l, u, w) ==
    /\ pc[l] = "idle"
    /\ account' = [account EXCEPT ![l] = u]
    /\ secret' = [secret EXCEPT ![l] = w]
    /\ \/ /\ u \in masked \/ hash[u].pw # w
          /\ Answer(l, "refused")
          /\ UNCHANGED seenHash
       \/ Answer(l, "error") /\ UNCHANGED seenHash
       \/ /\ u \notin masked /\ hash[u].pw = w
          /\ seenHash' = [seenHash EXCEPT ![l] = hash[u]]
          /\ Goto(l, IF NeedsRehash(hash[u]) THEN "rehash" ELSE "issue")
    /\ UNCHANGED <<now, start, held, applied, sessions,
                   rowVars, userVars, requestVars, confirmVars>>

(* Mutant: the UPDATE matches the id only. *)
UpdateUserPasswordHashById(l) ==
    /\ pc[l] = "rehash"
    /\ ~UserLocked(account[l])
    /\ \/ /\ account[l] \notin masked
          /\ hash' = [hash EXCEPT ![account[l]] = HashPassword(l, secret[l])]
       \/ account[l] \in masked /\ UNCHANGED hash
    /\ Goto(l, "issue")
    /\ UNCHANGED <<now, start, held, seenHash, applied, sessions, masked,
                   rowVars, requestVars, confirmVars, inputVars>>

(* rehash: the stored hash is replaced only if it is still the one that    *)
(* was verified; losing, or failing, does not stop the login.              *)
UpdateUserPasswordHash(l) ==
    /\ pc[l] = "rehash"
    /\ \/ /\ ~UserLocked(account[l])
          /\ hash[account[l]] = seenHash[l]
          /\ account[l] \notin masked
          /\ hash' = [hash EXCEPT ![account[l]] = HashPassword(l, secret[l])]
       \/ UNCHANGED hash
    /\ Goto(l, "issue")
    /\ UNCHANGED <<now, start, held, seenHash, applied, sessions, masked,
                   rowVars, requestVars, confirmVars, inputVars>>

(* CreateSession does not wait for a confirmation: the foreign key's lock  *)
(* on the users row does not conflict with an update of its hash.          *)
Issue(l) ==
    /\ pc[l] = "issue"
    /\ \/ sessions' = sessions \cup {l} /\ Answer(l, "ok")
       \/ UNCHANGED sessions /\ Answer(l, "error")
    /\ UNCHANGED <<now, start, held, seenHash, applied,
                   rowVars, userVars, requestVars, confirmVars, inputVars>>

Revoke(l) ==
    /\ l \in sessions
    /\ ~SessionLocked(l)
    /\ sessions' = sessions \ {l}
    /\ UNCHANGED <<now, pc, ans, start, held, seenHash, applied,
                   rowVars, userVars, requestVars, confirmVars, inputVars>>

-----------------------------------------------------------------------------
(* A statement fails, the request is cancelled or the server dies inside   *)
(* the transaction: nothing of it is kept.                                 *)
Abort(p) ==
    /\ pc[p] \in TxPC
    /\ Rollback(p, "error")
    /\ UNCHANGED <<now, start, seenHash, applied, sessions,
                   rowVars, userVars, requestVars, confirmVars, inputVars>>

SoftDeleteUser(u) ==
    /\ u \notin masked
    /\ ~UserLocked(u)
    /\ masked' = masked \cup {u}
    /\ UNCHANGED <<now, pc, ans, start, held, seenHash, applied, sessions, hash,
                   rowVars, requestVars, confirmVars, inputVars>>

Tick ==
    /\ now < MaxTime
    /\ now' = now + 1
    /\ UNCHANGED <<pc, ans, start, held, seenHash, applied, sessions,
                   rowVars, userVars, requestVars, confirmVars, inputVars>>

Terminated ==
    /\ \A p \in Requests : pc[p] = "done"
    /\ UNCHANGED vars

RequestStep(p) ==
    \/ GetUserByEmail(p)
    \/ ExpireOpenPasswordResetsForUser(p)
    \/ \E r \in Requesters : ExpireRow(p, r)
    \/ CreatePasswordReset(p)
    \/ CommitRequest(p)
    \/ Send(p)

ConfirmStep(c) ==
    \/ GetPasswordResetByTokenHash(c)
    \/ UsePasswordReset(c)
    \/ SetUserPasswordHash(c)
    \/ DeleteAllSessionsForUser(c)
    \/ CommitConfirm(c)

LoginStep(l) ==
    \/ UpdateUserPasswordHash(l)
    \/ Issue(l)

Next ==
    \/ \E p \in Requesters :
        \/ RequestRefused(p)
        \/ \E u \in Users : RequestBegin(p, u)
        \/ RequestStep(p)
    \/ \E c \in Confirmers :
        \/ ConfirmRefused(c)
        \/ \E t \in Requesters, w \in Passwords : ConfirmBegin(c, t, w)
        \/ ConfirmStep(c)
    \/ \E l \in Logins :
        \/ \E u \in Users, w \in Passwords : Authenticate(l, u, w)
        \/ LoginStep(l)
        \/ Revoke(l)
    \/ \E p \in Requesters \cup Confirmers : Abort(p)
    \/ \E u \in Users : SoftDeleteUser(u)
    \/ Tick
    \/ Terminated

Spec == Init /\ [][Next]_vars

-----------------------------------------------------------------------------
(* Every variable has its type. *)
TypeOK ==
    /\ now \in Nat
    /\ pc \in [Requests -> TxPC \cup LoginPC \cup {"idle", "send", "done"}]
    /\ ans \in [Requests -> AnswerKinds]
    /\ start \in [Requests -> Nat]
    /\ held \in [Requests -> SUBSET Requesters]
    /\ account \in [Requesters \cup Logins -> Users \cup {NoOne}]
    /\ secret \in [Confirmers \cup Logins -> Passwords]
    /\ todo \in [Requesters -> SUBSET Requesters]
    /\ known \in [Requesters -> SUBSET Requesters]
    /\ tok \in [Confirmers -> Requesters \cup {NoOne}]
    /\ late \in [Confirmers -> BOOLEAN]
    /\ before \in [Confirmers -> SUBSET Logins]
    /\ doomed \in [Confirmers -> SUBSET Logins]
    /\ seenHash \in [Logins -> Hashes]
    /\ resets \subseteq Requesters
    /\ expires \in [Requesters -> Int]
    /\ used \subseteq Requesters
    /\ mailed \subseteq Requesters
    /\ applied \subseteq Confirmers
    /\ hash \in [Users -> Hashes]
    /\ masked \subseteq Users
    /\ sessions \subseteq Logins

(* One link replaces one password: a stamp without a confirmation or two   *)
(* confirmations of one link never exist, however they interleave with     *)
(* each other and with the Requests that supersede the link.               *)
OneConfirmationPerLink ==
    /\ used = {tok[c] : c \in applied}
    /\ \A c, d \in applied : tok[c] = tok[d] => c = d

(* A confirmation that begins after a newer link for the account has been  *)
(* committed changes no password, whatever the two clocks say of each      *)
(* other.                                                                  *)
SupersededLinkRefused == \A c \in applied : ~late[c]

(* Every session that was open when a confirmation began is gone once it   *)
(* has committed, and stays gone.                                          *)
ResetEndsEarlierSessions == \A c \in applied : before[c] \cap sessions = {}

(* The password behind a stored hash changes only in a step that spends a  *)
(* reset link of that account: a login's rehash, arriving late, never      *)
(* brings back a password that was replaced.                               *)
PasswordChangesOnlyByReset ==
    [][\A u \in Users : hash'[u].pw # hash[u].pw =>
          \E r \in used' \ used : account[r] = u]_vars

(* Once an account is masked its hash never changes again, not by a link   *)
(* mailed before nor by a login that had already verified.                 *)
MaskedAccountUntouched ==
    [][\A u \in masked : u \in masked' /\ hash'[u] = hash[u]]_vars

(* The promise of a link, with this module's state for its own: a          *)
(* transaction's commit is the step that publishes or redeems.             *)
Link == INSTANCE SingleUseLink WITH
    Links <- Requesters,
    Redeemers <- Confirmers,
    NoLink <- NoOne,
    published <- resets,
    superseded <- {r \in Requesters : \E p \in resets : r \in known[p]},
    presented <- tok,
    barred <- {c \in Confirmers : late[c]},
    spent <- used,
    redeemed <- applied

(* The service implements the link: every interleaving of the statements   *)
(* of Request and Confirm, clocks, locks and failures included, looks from *)
(* the committed rows like a sequence of whole publications and whole      *)
(* redemptions of links that were open and not superseded.                 *)
ImplementsLink == Link!Spec

(* passwordreset.go: Confirm "signs every device out", "every session      *)
(* goes": when a confirmation commits, the account has no session. The     *)
(* DELETE does not reach a session a login inserts before the commit.      *)
EverySessionGoes ==
    [][\A c \in applied' \ applied : \A s \in sessions' : account[s] # ResetAccount(c)]_vars
=============================================================================
