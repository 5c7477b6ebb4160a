---------------------------- MODULE Invitations ----------------------------
(***************************************************************************)
(* The invitation service: an owner creates an invitation and its link is  *)
(* mailed (Invitations.Create); whoever holds the link turns it into an    *)
(* account (Invitations.Accept).                                           *)
(*                                                                         *)
(* Every request is a process and every SQL statement of its transaction   *)
(* is one action, because PostgreSQL runs these transactions under READ    *)
(* COMMITTED:                                                              *)
(*   - a statement reads what is committed when the statement starts;      *)
(*   - an UPDATE waits for the row's writer and then re-evaluates its      *)
(*     WHERE on the newest committed version;                              *)
(*   - now() in SQL is the time the transaction began (start[p]).          *)
(* A transaction's writes are kept with the request (held, and the         *)
(* unpublished expires[p]) until it commits.                               *)
(*                                                                         *)
(* An invitation is identified by the Create request that inserts it, an   *)
(* account by the Accept request that inserts it.                          *)
(***************************************************************************)
EXTENDS Integers

CONSTANTS
    Creators,   \* the requests to POST /invitations
    Accepters,  \* the requests to POST /invitations/accept
    Emails,     \* normalised addresses
    NoEmail,    \* the address of a Create request that has not arrived
    NoToken,    \* the link of an Accept request that has not arrived
    Window,     \* InvitationWindow, in ticks
    Skew,       \* the application's clock minus the database's
    MaxTime     \* bound: the database clock stops here

ASSUME WindowAssumption == Window \in Nat \ {0}
ASSUME SkewAssumption == Skew \in Int
ASSUME MaxTimeAssumption == MaxTime \in Nat
ASSUME RequestsAssumption == Creators \cap Accepters = {}
ASSUME NoTokenAssumption == NoToken \notin Creators
ASSUME NoEmailAssumption == NoEmail \notin Emails

VARIABLES
    now,         \* the database's clock
    pc,          \* where each request stands
    ans,         \* what each request was answered
    start,       \* when each request's transaction began: its now()
    held,        \* invitation rows each open transaction has updated (row locks)
    addr,        \* Create: the address being invited
    todo,        \* Create: rows of the supersede scan still to be updated
    known,       \* Create: invitations to the address committed at the scan
    tok,         \* Accept: the invitation whose link was presented
    late,        \* Accept: a newer invitation had committed when it began
    invitations, \* committed rows
    expires,     \* expires_at
    accepted,    \* committed rows with accepted_at set
    mailed,      \* invitations whose link reached its inbox
    accounts,    \* committed users rows
    masked,      \* soft-deleted accounts
    signedIn     \* accounts whose Accept also issued a session

rowVars == <<invitations, expires, accepted>>
userVars == <<accounts, masked, signedIn>>
inputVars == <<addr, tok, late>>
scanVars == <<todo, known>>
vars == <<now, pc, ans, start, held, mailed, rowVars, userVars, inputVars, scanVars>>

Requests == Creators \cup Accepters
CreatePC == {"lookup", "scan", "expire", "commit"}
AcceptPC == {"read", "stamp", "user", "commit"}
AnswerKinds ==
    {"none", "ok", "forbidden", "invalid", "taken", "notUsable", "undelivered", "error"}

-----------------------------------------------------------------------------
(* The application's clock, s.now(). *)
AppNow == now + Skew

NewInvitationExpiry(t) == t + Window

(* Invitation.IsUsable: neither accepted nor expired at t. *)
IsUsable(r, t) == r \notin accepted /\ t < expires[r]

(* Mutant: the WHERE forgets accepted_at IS NULL. *)
StillOpenIgnoringAccepted(r, t) == expires[r] > t

(* Mutant: the WHERE compares with >= instead of >. *)
StillOpenInclusive(r, t) == r \notin accepted /\ expires[r] >= t

(* accepted_at IS NULL AND expires_at > now(), with now() = t. *)
StillOpen(r, t) == r \notin accepted /\ expires[r] > t

LockedByOther(p, r) == \E q \in Requests \ {p} : r \in held[q]

(* The address an account was created on: the invitation's, never the      *)
(* request's.                                                              *)
AccountEmail(a) == addr[tok[a]]

(* users_live: the address names a committed account that is not masked. *)
AddressTaken(e) == \E a \in accounts \ masked : AccountEmail(a) = e

(* Mutant: uniqueness is looked up instead of enforced by the index. *)
AddressNeverPending(a) == FALSE

(* Another transaction has inserted the address and not ended: the unique  *)
(* index users_email_key makes an insert of the same address wait for it.  *)
AddressPending(a) ==
    \E b \in Accepters \ {a} : pc[b] = "commit" /\ AccountEmail(b) = AccountEmail(a)

-----------------------------------------------------------------------------
Init ==
    /\ now = 0
    /\ pc = [p \in Requests |-> "idle"]
    /\ ans = [p \in Requests |-> "none"]
    /\ start = [p \in Requests |-> 0]
    /\ held = [p \in Requests |-> {}]
    /\ addr = [p \in Creators |-> NoEmail]
    /\ todo = [p \in Creators |-> {}]
    /\ known = [p \in Creators |-> {}]
    /\ tok = [a \in Accepters |-> NoToken]
    /\ late = [a \in Accepters |-> FALSE]
    /\ invitations = {}
    /\ expires = [p \in Creators |-> 0]
    /\ accepted = {}
    /\ mailed = {}
    /\ accounts = {}
    /\ masked = {}
    /\ signedIn = {}

-----------------------------------------------------------------------------
Answer(p, answer) ==
    /\ pc' = [pc EXCEPT ![p] = "done"]
    /\ ans' = [ans EXCEPT ![p] = answer]

(* Mutant: inTx returns without the deferred Rollback. *)
RollbackForgotten(p, answer) ==
    /\ Answer(p, answer)
    /\ UNCHANGED held

(* inTx's deferred Rollback: the transaction's writes and locks are gone   *)
(* and the request is answered.                                            *)
Rollback(p, answer) ==
    /\ Answer(p, answer)
    /\ held' = [held EXCEPT ![p] = {}]

Goto(p, label) ==
    /\ pc' = [pc EXCEPT ![p] = label]
    /\ UNCHANGED <<ans, held>>

(* Mutant: a lost commit is reported as an unusable link. *)
CommittedAsRefusal(p, label) ==
    /\ held' = [held EXCEPT ![p] = {}]
    /\ \/ pc' = [pc EXCEPT ![p] = label] /\ UNCHANGED ans
       \/ Answer(p, "notUsable")

(* A commit ends the transaction; its answer may be lost on the way back,  *)
(* in which case inTx returns an error although the writes are there.      *)
Committed(p, label) ==
    /\ held' = [held EXCEPT ![p] = {}]
    /\ \/ pc' = [pc EXCEPT ![p] = label] /\ UNCHANGED ans
       \/ Answer(p, "error")

-----------------------------------------------------------------------------
(* Invitations.Create *)

(* The caller is not the owner, the handler, normalizeEmail or             *)
(* checkInvitable refuses the input, or no transaction can be opened.      *)
CreateRefused(p) ==
    /\ pc[p] = "idle"
    /\ \E answer \in {"forbidden", "invalid", "error"} : Answer(p, answer)
    /\ UNCHANGED <<now, start, held, mailed, rowVars, userVars, inputVars, scanVars>>

CreateBegin(p, e) ==
    /\ pc[p] = "idle"
    /\ addr' = [addr EXCEPT ![p] = e]
    /\ start' = [start EXCEPT ![p] = now]
    /\ Goto(p, "lookup")
    /\ UNCHANGED <<now, mailed, rowVars, userVars, tok, late, scanVars>>

GetUserByEmail(p) ==
    /\ pc[p] = "lookup"
    /\ \/ AddressTaken(addr[p]) /\ Rollback(p, "taken")
       \/ ~AddressTaken(addr[p]) /\ Goto(p, "scan")
    /\ UNCHANGED <<now, start, mailed, rowVars, userVars, inputVars, scanVars>>

(* The supersede UPDATE starts: it will visit the open rows committed now. *)
ExpireOpenInvitationsForEmail(p) ==
    /\ pc[p] = "scan"
    /\ LET same == {r \in invitations : addr[r] = addr[p]}
       IN  /\ known' = [known EXCEPT ![p] = same]
           /\ todo' = [todo EXCEPT ![p] = {r \in same : StillOpen(r, start[p])}]
    /\ Goto(p, "expire")
    /\ UNCHANGED <<now, start, mailed, rowVars, userVars, inputVars>>

(* Mutant: the supersede skips a row another transaction has locked. *)
ExpireRowSkipLocked(p, r) ==
    /\ pc[p] = "expire"
    /\ r \in todo[p]
    /\ todo' = [todo EXCEPT ![p] = @ \ {r}]
    /\ held' = [held EXCEPT ![p] =
                   @ \cup {x \in {r} : StillOpen(x, start[p]) /\ ~LockedByOther(p, x)}]
    /\ UNCHANGED <<now, pc, ans, start, mailed, rowVars, userVars, inputVars, known>>

(* One row of it: wait for the row's writer, then re-evaluate the WHERE. *)
ExpireRow(p, r) ==
    /\ pc[p] = "expire"
    /\ r \in todo[p]
    /\ ~LockedByOther(p, r)
    /\ todo' = [todo EXCEPT ![p] = @ \ {r}]
    /\ held' = [held EXCEPT ![p] = @ \cup {x \in {r} : StillOpen(x, start[p])}]
    /\ UNCHANGED <<now, pc, ans, start, mailed, rowVars, userVars, inputVars, known>>

CreateInvitation(p) ==
    /\ pc[p] = "expire"
    /\ todo[p] = {}
    /\ expires' = [expires EXCEPT ![p] = NewInvitationExpiry(AppNow)]
    /\ Goto(p, "commit")
    /\ UNCHANGED <<now, start, mailed, invitations, accepted, userVars, inputVars, scanVars>>

CommitCreate(p) ==
    /\ pc[p] = "commit"
    /\ invitations' = invitations \cup {p}
    /\ expires' = [r \in Creators |-> IF r \in held[p] THEN start[p] ELSE expires[r]]
    /\ Committed(p, "send")
    /\ UNCHANGED <<now, start, mailed, accepted, userVars, inputVars, scanVars>>

(* The link is mailed after the commit. A send that reports failure may    *)
(* still have delivered: the SMTP sender reports an error that comes after *)
(* the server took the message. Without the token the row is inert.        *)
Send(p) ==
    /\ pc[p] = "send"
    /\ \/ mailed' = mailed \cup {p} /\ Answer(p, "ok")
       \/ mailed' = mailed \cup {p} /\ Answer(p, "undelivered")
       \/ UNCHANGED mailed /\ Answer(p, "undelivered")
    /\ UNCHANGED <<now, start, held, rowVars, userVars, inputVars, scanVars>>

-----------------------------------------------------------------------------
(* Invitations.Accept *)

(* A malformed token, a refused name or password, a token no row carries,  *)
(* or no transaction can be opened.                                        *)
AcceptRefused(a) ==
    /\ pc[a] = "idle"
    /\ \E answer \in {"invalid", "notUsable", "error"} : Answer(a, answer)
    /\ UNCHANGED <<now, start, held, mailed, rowVars, userVars, inputVars, scanVars>>

AcceptBegin(a, t) ==
    /\ pc[a] = "idle"
    /\ t \in mailed
    /\ tok' = [tok EXCEPT ![a] = t]
    /\ late' = [late EXCEPT ![a] = \E p \in invitations : t \in known[p]]
    /\ start' = [start EXCEPT ![a] = now]
    /\ Goto(a, "read")
    /\ UNCHANGED <<now, mailed, rowVars, userVars, addr, scanVars>>

GetInvitationByTokenHash(a) ==
    /\ pc[a] = "read"
    /\ \/ IsUsable(tok[a], AppNow) /\ Goto(a, "stamp")
       \/ ~IsUsable(tok[a], AppNow) /\ Rollback(a, "notUsable")
    /\ UNCHANGED <<now, start, mailed, rowVars, userVars, inputVars, scanVars>>

(* Mutant: the stamp names the row by id and checks nothing. *)
AcceptInvitationById(a) ==
    /\ pc[a] = "stamp"
    /\ ~LockedByOther(a, tok[a])
    /\ held' = [held EXCEPT ![a] = {tok[a]}]
    /\ pc' = [pc EXCEPT ![a] = "user"]
    /\ UNCHANGED <<now, ans, start, mailed, rowVars, userVars, inputVars, scanVars>>

AcceptInvitation(a) ==
    /\ pc[a] = "stamp"
    /\ ~LockedByOther(a, tok[a])
    /\ \/ /\ StillOpen(tok[a], start[a])
          /\ held' = [held EXCEPT ![a] = {tok[a]}]
          /\ pc' = [pc EXCEPT ![a] = "user"]
          /\ UNCHANGED ans
       \/ ~StillOpen(tok[a], start[a]) /\ Rollback(a, "notUsable")
    /\ UNCHANGED <<now, start, mailed, rowVars, userVars, inputVars, scanVars>>

CreateUser(a) ==
    /\ pc[a] = "user"
    /\ ~AddressPending(a)
    /\ \/ AddressTaken(AccountEmail(a)) /\ Rollback(a, "taken")
       \/ ~AddressTaken(AccountEmail(a)) /\ Goto(a, "commit")
    /\ UNCHANGED <<now, start, mailed, rowVars, userVars, inputVars, scanVars>>

(* Mutant: the stamp is given the new account's id instead of the          *)
(* invitation's.                                                           *)
CommitAcceptWrongId(a) ==
    /\ pc[a] = "commit"
    /\ accepted' = accepted \cup {a}
    /\ accounts' = accounts \cup {a}
    /\ Committed(a, "issue")
    /\ UNCHANGED <<now, start, mailed, invitations, expires, masked, signedIn, inputVars, scanVars>>

CommitAccept(a) ==
    /\ pc[a] = "commit"
    /\ accepted' = accepted \cup held[a]
    /\ accounts' = accounts \cup {a}
    /\ Committed(a, "issue")
    /\ UNCHANGED <<now, start, mailed, invitations, expires, masked, signedIn, inputVars, scanVars>>

(* The handler issues a session outside the transaction; when that fails   *)
(* the account exists all the same and the answer is a 500.                *)
IssueSession(a) ==
    /\ pc[a] = "issue"
    /\ \/ signedIn' = signedIn \cup {a} /\ Answer(a, "ok")
       \/ UNCHANGED signedIn /\ Answer(a, "error")
    /\ UNCHANGED <<now, start, held, mailed, rowVars, accounts, masked, inputVars, scanVars>>

-----------------------------------------------------------------------------
(* A statement fails, the request is cancelled or the server dies inside   *)
(* the transaction: nothing of it is kept.                                 *)
Abort(p) ==
    /\ pc[p] \in CreatePC \cup AcceptPC
    /\ Rollback(p, "error")
    /\ UNCHANGED <<now, start, mailed, rowVars, userVars, inputVars, scanVars>>

(* SoftDeleteUser masks an account and frees its address. *)
SoftDeleteUser(a) ==
    /\ a \in accounts \ masked
    /\ masked' = masked \cup {a}
    /\ UNCHANGED <<now, pc, ans, start, held, mailed, rowVars, accounts, signedIn,
                   inputVars, scanVars>>

Tick ==
    /\ now < MaxTime
    /\ now' = now + 1
    /\ UNCHANGED <<pc, ans, start, held, mailed, rowVars, userVars, inputVars, scanVars>>

Terminated ==
    /\ \A p \in Requests : pc[p] = "done"
    /\ UNCHANGED vars

(* What a Create request does once it has arrived; the steps the scheduler *)
(* owes it.                                                                *)
CreateStep(p) ==
    \/ GetUserByEmail(p)
    \/ ExpireOpenInvitationsForEmail(p)
    \/ \E r \in Creators : ExpireRow(p, r)
    \/ CreateInvitation(p)
    \/ CommitCreate(p)
    \/ Send(p)

AcceptStep(a) ==
    \/ GetInvitationByTokenHash(a)
    \/ AcceptInvitation(a)
    \/ CreateUser(a)
    \/ CommitAccept(a)
    \/ IssueSession(a)

Next ==
    \/ \E p \in Creators :
        \/ CreateRefused(p)
        \/ \E e \in Emails : CreateBegin(p, e)
        \/ CreateStep(p)
    \/ \E a \in Accepters :
        \/ AcceptRefused(a)
        \/ \E t \in Creators : AcceptBegin(a, t)
        \/ AcceptStep(a)
        \/ SoftDeleteUser(a)
    \/ \E p \in Requests : Abort(p)
    \/ Tick
    \/ Terminated

Spec == Init /\ [][Next]_vars

(* A request that has arrived keeps being scheduled. Nothing makes a       *)
(* request arrive, fail, or an account be masked.                          *)
Fairness ==
    /\ \A p \in Creators : WF_vars(CreateStep(p))
    /\ \A a \in Accepters : WF_vars(AcceptStep(a))

FairSpec == Spec /\ Fairness

-----------------------------------------------------------------------------
(* Every variable has its type. *)
TypeOK ==
    /\ now \in Nat
    /\ pc \in [Requests -> CreatePC \cup AcceptPC \cup {"idle", "send", "issue", "done"}]
    /\ ans \in [Requests -> AnswerKinds]
    /\ start \in [Requests -> Nat]
    /\ held \in [Requests -> SUBSET Creators]
    /\ addr \in [Creators -> Emails \cup {NoEmail}]
    /\ todo \in [Creators -> SUBSET Creators]
    /\ known \in [Creators -> SUBSET Creators]
    /\ tok \in [Accepters -> Creators \cup {NoToken}]
    /\ late \in [Accepters -> BOOLEAN]
    /\ invitations \subseteq Creators
    /\ expires \in [Creators -> Int]
    /\ accepted \subseteq Creators
    /\ mailed \subseteq Creators
    /\ accounts \subseteq Accepters
    /\ masked \subseteq Accepters
    /\ signedIn \subseteq Accepters

(* One link makes one account, and a stamp without an account or an        *)
(* account without a stamp never exists: Accept's stamp and its INSERT are *)
(* one transaction, and of two clicks arriving together only one updates   *)
(* the row, however their statements interleave and whichever of them      *)
(* fails.                                                                  *)
OneAccountPerLink ==
    /\ accepted = {tok[a] : a \in accounts}
    /\ \A a, b \in accounts : tok[a] = tok[b] => a = b

(* No address ever has two live accounts, although two invitations to it   *)
(* may be redeemed at the same time and Create's look-up saw neither.      *)
OneLiveAccountPerAddress ==
    \A a, b \in accounts \ masked : AccountEmail(a) = AccountEmail(b) => a = b

(* Once a Create has committed, every invitation to the address that was   *)
(* committed when it superseded them is accepted or past its deadline by   *)
(* the transaction's own clock, whoever held the row meanwhile.            *)
SupersededClosed ==
    \A p \in invitations : \A r \in known[p] :
        r \in accepted \/ expires[r] <= start[p]

(* A redemption that begins after a newer invitation to the address has    *)
(* committed makes no account, whatever the two clocks say of each other.  *)
SupersededLinkRefused == \A a \in accounts : ~late[a]

(* A redemption told that its link or its address cannot be used has made  *)
(* no account; one told it succeeded has an account and a session.         *)
RefusalCreatesNothing ==
    \A a \in Accepters :
        /\ ans[a] \in {"invalid", "taken", "notUsable"} => a \notin accounts
        /\ ans[a] = "ok" => a \in accounts /\ a \in signedIn

(* An accepted row is the record that an account was made from it: no      *)
(* later Create, not even one that saw it open, rewrites its deadline.     *)
AcceptedRowsKept ==
    [][\A r \in accepted : r \in accepted' /\ expires'[r] = expires[r]]_vars

(* Every request that begins a transaction is answered in the end: no      *)
(* order of row locks and address waits leaves one waiting. A request      *)
(* arrives once, so from some point on each has been answered or never     *)
(* came.                                                                   *)
RequestsAnswered == <>[](\A p \in Requests : pc[p] \in {"idle", "done"})

(* The promise of a link, with this module's state for its own: a          *)
(* transaction's commit is the step that publishes or redeems.             *)
Link == INSTANCE SingleUseLink WITH
    Links <- Creators,
    Redeemers <- Accepters,
    NoLink <- NoToken,
    published <- invitations,
    superseded <- {r \in Creators : \E p \in invitations : r \in known[p]},
    presented <- tok,
    barred <- {a \in Accepters : late[a]},
    spent <- accepted,
    redeemed <- accounts

(* The service implements the link: every interleaving of the statements   *)
(* of Create and Accept, clocks, locks and failures included, looks from   *)
(* the committed rows like a sequence of whole publications and whole      *)
(* redemptions of links that were open and not superseded.                 *)
ImplementsLink == Link!Spec

(* invitation.go: "so that one address never has two live invitations".    *)
(* The code supersedes only the rows its statement can see, so two         *)
(* invitations created at once both stay redeemable in the inbox.          *)
OneLiveInvitation ==
    \A p, q \in mailed :
        (/\ addr[p] = addr[q]
         /\ StillOpen(p, now) /\ IsUsable(p, AppNow)
         /\ StillOpen(q, now) /\ IsUsable(q, AppNow)) => p = q
=============================================================================
