------------------------------- MODULE Server -------------------------------
(***************************************************************************)
(* The life of the process: run() builds the parts of the server in order, *)
(* httpx.Serve serves until a signal or a failure of the listener, and the *)
(* deferred functions take the parts down in reverse. Requests are served  *)
(* meanwhile, each through the middleware chain, with a connection of the  *)
(* pool while it works on the database and a conversation with the mail    *)
(* server when it sends mail.                                              *)
(*                                                                         *)
(* Actors: the main goroutine (phase), the goroutine that accepts          *)
(* (serving), a goroutine per request (pc), the mail server, whoever sends *)
(* the signal, and the clock of the grace period.                          *)
(***************************************************************************)
EXTENDS Integers, FiniteSets, Config, Smtp

CONSTANTS
    Requests,   \* each request may also send one message
    Environs,   \* environments the process may be started in
    MaxConns,   \* cfg.DatabaseMaxConns
    MaxTurns    \* bound: how often a request takes a connection

ASSUME MailsAssumption == Mails = Requests
ASSUME MaxConnsAssumption == MaxConns \in Nat \ {0}
ASSUME MaxTurnsAssumption == MaxTurns \in Nat \ {0}

VARIABLES
    phase,      \* where run() stands
    cfg,        \* the configuration
    ret,        \* what run() is going to return
    signalled,  \* SIGTERM has come: ctx is done
    listener,   \* ln
    serving,    \* the goroutine around srv.Serve
    serveErr,   \* the channel of capacity one it reports on
    failed,     \* the listener failed by itself
    graceOver,  \* the grace period has passed
    pool,       \* the PostgreSQL pool
    held,       \* requests that hold one of its connections
    turns,      \* how often a request at work has held one
    pc,         \* where each request stands
    outcome,    \* what its handler did: the status it wrote, how it ended
    reply,      \* what its client got
    logged      \* the status in the request's log line

mainVars == <<phase, cfg, ret>>
serveVars == <<listener, serving, serveErr, failed>>
requestVars == <<held, turns, pc, outcome, reply, logged>>
vars == <<mainVars, signalled, serveVars, graceOver, pool, requestVars, smtpVars>>

InFlight == {r \in Requests : pc[r] \in {"handler", "query", "mail", "answer"}}

NoConfig == [env |-> "", scheme |-> "", credentials |-> FALSE]

(* Tied to APP_ENV and to nothing else. *)
AllowUnencrypted == cfg.env = "local"

-----------------------------------------------------------------------------
(* The middleware chain, as what it makes of a handler's outcome.          *)

(* A panic becomes a 500, unless a status is already out; net/http's own   *)
(* way of giving up goes on.                                               *)
Recover(o) ==
    IF o.ended = "panic"
    THEN [o EXCEPT !.status = IF @ = 0 THEN 500 ELSE @, !.ended = "returned"]
    ELSE o

(* A line per request that returns: a panic passes without one. A handler  *)
(* that wrote nothing has answered 200.                                    *)
LogRequests(o) ==
    IF o.ended # "returned" THEN o
    ELSE [o EXCEPT !.status = IF @ = 0 THEN 200 ELSE @,
                   !.line = IF o.status = 0 THEN 200 ELSE o.status]

(* Mutant: Recover is put outside the request log. *)
ChainRecoverOutside(o) == Recover(LogRequests(o))

(* The last one listed is the innermost. *)
Chain(o) == LogRequests(Recover(o))

-----------------------------------------------------------------------------
Init ==
    /\ phase = "load"
    /\ cfg = NoConfig
    /\ ret = "none"
    /\ signalled = FALSE
    /\ listener = "none"
    /\ serving = "none"
    /\ serveErr = "empty"
    /\ failed = FALSE
    /\ graceOver = FALSE
    /\ pool = "none"
    /\ held = {}
    /\ turns = [r \in Requests |-> 0]
    /\ pc = [r \in Requests |-> "none"]
    /\ outcome = [r \in Requests |-> [status |-> 0, ended |-> "returned", line |-> 0]]
    /\ reply = [r \in Requests |-> 0]
    /\ logged = [r \in Requests |-> 0]
    /\ SmtpInit

-----------------------------------------------------------------------------
(* run() *)

(* run() goes on to the next phase. *)
Goto(label) ==
    /\ phase' = label
    /\ UNCHANGED ret

(* run() returns; label is the first of its deferred functions to run. *)
Return(e, label) ==
    /\ phase' = label
    /\ ret' = e

LoadConfig ==
    /\ phase = "load"
    /\ \E environ \in Environs :
        \/ /\ problems(environ) = {}
           /\ cfg' = Load(environ)
           /\ Goto("pool")
        \/ /\ problems(environ) # {}
           /\ UNCHANGED cfg
           /\ Return("error", "exit")
    /\ UNCHANGED <<signalled, serveVars, graceOver, pool, requestVars, smtpVars>>

(* postgres.New: a database that does not answer stops the start. *)
NewPool ==
    /\ phase = "pool"
    /\ \/ pool' = "open" /\ Goto("redis")
       \/ UNCHANGED pool /\ Return("error", "exit")
    /\ UNCHANGED <<cfg, signalled, serveVars, graceOver, requestVars, smtpVars>>

(* redis.New contacts nothing, and the ping that follows is only reported; *)
(* a URL go-redis cannot parse stops the start.                            *)
NewRedis ==
    /\ phase = "redis"
    /\ Goto("smtp") \/ Return("error", "closePool")
    /\ UNCHANGED <<cfg, signalled, serveVars, graceOver, pool, requestVars, smtpVars>>

(* The sender, and the parts whose making can only fail. *)
NewSender ==
    /\ phase = "smtp"
    /\ \/ NewSMTP(cfg.credentials, AllowUnencrypted) /\ Goto("listen")
       \/ Return("error", "closeRedis")
    /\ UNCHANGED <<cfg, signalled, serveVars, graceOver, pool, requestVars, smtpVars>>

(* The listener is bound, and Serve starts the goroutine that accepts. *)
Listen ==
    /\ phase = "listen"
    /\ \/ listener' = "open" /\ serving' = "starting" /\ Goto("select")
       \/ UNCHANGED <<listener, serving>> /\ Return("error", "closeRedis")
    /\ UNCHANGED <<cfg, signalled, serveErr, failed, graceOver, pool, requestVars, smtpVars>>

(* Serve: the select, when the goroutine has reported. *)
ServeFailed ==
    /\ phase = "select"
    /\ serveErr # "empty"
    /\ serveErr' = "empty"
    /\ Return(serveErr, "closeRedis")
    /\ UNCHANGED <<cfg, signalled, listener, serving, failed, graceOver, pool,
                   requestVars, smtpVars>>

(* Serve: the select, when ctx is done. Shutdown begins by closing the     *)
(* listener, and the connections on which no request is read or answered.  *)
ShutDown ==
    /\ phase = "select"
    /\ signalled
    /\ listener' = "shut"
    /\ Goto("shutdown")
    /\ UNCHANGED <<cfg, signalled, serving, serveErr, failed, graceOver, pool,
                   requestVars, smtpVars>>

(* Mutant: Shutdown is given the context that is done. *)
ShutdownReturnsAtOnce ==
    /\ phase = "shutdown"
    /\ Return("error", "closeRedis")
    /\ UNCHANGED <<cfg, signalled, serveVars, graceOver, pool, requestVars, smtpVars>>

(* Shutdown waits for the requests in flight, up to the grace period. When *)
(* none is left it returns nil, or the error of closing the listener.      *)
ShutdownReturns ==
    /\ phase = "shutdown"
    /\ \/ InFlight = {} /\ (Goto("drain") \/ Return("error", "closeRedis"))
       \/ graceOver /\ Return("error", "closeRedis")
    /\ UNCHANGED <<cfg, signalled, serveVars, graceOver, pool, requestVars, smtpVars>>

(* return <-serveErr *)
Drain ==
    /\ phase = "drain"
    /\ serveErr # "empty"
    /\ serveErr' = "empty"
    /\ Return(serveErr, "closeRedis")
    /\ UNCHANGED <<cfg, signalled, listener, serving, failed, graceOver, pool,
                   requestVars, smtpVars>>

CloseRedis ==
    /\ phase = "closeRedis"
    /\ Goto("closePool")
    /\ UNCHANGED <<cfg, signalled, serveVars, graceOver, pool, requestVars, smtpVars>>

(* pool.Close hands out no more connections, and then waits for those that *)
(* are out.                                                                *)
ClosePool ==
    /\ phase = "closePool"
    /\ pool' = "closed"
    /\ Goto("poolClosing")
    /\ UNCHANGED <<cfg, signalled, serveVars, graceOver, requestVars, smtpVars>>

PoolClosed ==
    /\ phase = "poolClosing"
    /\ held = {}
    /\ Goto("exit")
    /\ UNCHANGED <<cfg, signalled, serveVars, graceOver, pool, requestVars, smtpVars>>

(* main returns, or exits with status 1: what is still in flight is cut. *)
Exit ==
    /\ phase = "exit"
    /\ Goto("exited")
    /\ pc' = [r \in Requests |-> IF r \in InFlight THEN "cut" ELSE pc[r]]
    /\ UNCHANGED <<cfg, signalled, serveVars, graceOver, pool, held, turns, outcome, reply, logged,
                   smtpVars>>

Main ==
    \/ LoadConfig
    \/ NewPool
    \/ NewRedis
    \/ NewSender
    \/ Listen
    \/ ServeFailed
    \/ ShutDown
    \/ ShutdownReturns
    \/ Drain
    \/ CloseRedis
    \/ ClosePool
    \/ PoolClosed
    \/ Exit

-----------------------------------------------------------------------------
(* The goroutine around srv.Serve *)

StartAccepting ==
    /\ serving = "starting"
    /\ listener = "open"
    /\ serving' = "accepting"
    /\ UNCHANGED <<mainVars, signalled, listener, serveErr, failed, graceOver, pool,
                   requestVars, smtpVars>>

(* Mutant: nothing is sent when the server was shut down. *)
AcceptReturnsSilently ==
    /\ serving \in {"starting", "accepting"}
    /\ listener = "shut"
    /\ serving' = "returned"
    /\ UNCHANGED <<mainVars, signalled, listener, serveErr, failed, graceOver, pool,
                   requestVars, smtpVars>>

(* Shutdown has closed the listener, maybe before Serve was called: it     *)
(* returns ErrServerClosed, which is no error.                             *)
AcceptReturns ==
    /\ serving \in {"starting", "accepting"}
    /\ listener = "shut"
    /\ serving' = "returned"
    /\ serveErr' = "nil"
    /\ UNCHANGED <<mainVars, signalled, listener, failed, graceOver, pool,
                   requestVars, smtpVars>>

(* The listener fails while nobody is shutting it down. *)
AcceptFails ==
    /\ serving = "accepting"
    /\ listener = "open"
    /\ listener' = "closed"
    /\ serving' = "returned"
    /\ serveErr' = "error"
    /\ failed' = TRUE
    /\ UNCHANGED <<mainVars, signalled, graceOver, pool, requestVars, smtpVars>>

-----------------------------------------------------------------------------
(* A request *)

(* The handler is done: the status it wrote, 0 for none, and how it ended. *)
(* None writes a second one, which the recorder would log and net/http     *)
(* would ignore.                                                           *)
Handled(r, status, ended) ==
    /\ pc' = [pc EXCEPT ![r] = "answer"]
    /\ outcome' = [outcome EXCEPT ![r] = [status |-> status, ended |-> ended, line |-> 0]]
    /\ turns' = [turns EXCEPT ![r] = 0]
    /\ UNCHANGED <<reply, logged>>

(* The request goes on. *)
Continue(r, stage) ==
    /\ pc' = [pc EXCEPT ![r] = stage]
    /\ UNCHANGED <<outcome, reply, logged>>

(* On a new connection; on one that outlives a listener that failed, which *)
(* nobody closes before the process ends; or, while Shutdown is still      *)
(* waiting, on one that was accepted before and was not idle.              *)
Arrive(r) ==
    /\ pc[r] = "none"
    /\ \/ serving = "accepting" /\ listener = "open"
       \/ serving = "returned" /\ listener = "closed"
       \/ serving # "starting" /\ phase = "shutdown"
    /\ Continue(r, "handler")
    /\ UNCHANGED <<mainVars, signalled, serveVars, graceOver, pool, held, turns, smtpVars>>

(* An answer that needs no database: a refusal, or /healthz. 200 stands    *)
(* for every status but 500.                                               *)
Respond(r) ==
    /\ pc[r] = "handler"
    /\ \E status \in {0, 200} : Handled(r, status, "returned")
    /\ UNCHANGED <<mainVars, signalled, serveVars, graceOver, pool, held, smtpVars>>

(* A connection, waited for while the pool is exhausted, refused once the  *)
(* pool is closed. RequireSession takes one, and the handler takes others, *)
(* each when the one before was given back.                                *)
Acquire(r) ==
    /\ pc[r] = "handler"
    /\ \/ /\ pool = "open"
          /\ Cardinality(held) < MaxConns
          /\ turns[r] < MaxTurns
          /\ held' = held \cup {r}
          /\ turns' = [turns EXCEPT ![r] = @ + 1]
          /\ Continue(r, "query")
       \/ /\ pool = "closed"
          /\ UNCHANGED held
          /\ Handled(r, 500, "returned")
    /\ UNCHANGED <<mainVars, signalled, serveVars, graceOver, pool, smtpVars>>

(* The statement or the transaction ends, one way or the other, and the    *)
(* request is answered or goes on; one that sends mail does so without a   *)
(* connection.                                                             *)
Release(r) ==
    /\ pc[r] = "query"
    /\ held' = held \ {r}
    /\ \/ \E status \in {200, 500} : Handled(r, status, "returned")
       \/ \E stage \in {"handler", "mail"} : Continue(r, stage) /\ UNCHANGED turns
    /\ UNCHANGED <<mainVars, signalled, serveVars, graceOver, pool, smtpVars>>

(* mail.SMTP.Send, inside the handler. *)
Mail(r) ==
    /\ pc[r] = "mail"
    /\ \/ Send(r)
       \/ Dial(r)
       \/ deliver(r, cfg.credentials, AllowUnencrypted)
    /\ UNCHANGED <<mainVars, signalled, serveVars, graceOver, pool, requestVars>>

(* A reset is answered alike whether its message went or not. *)
Mailed(r) ==
    /\ pc[r] = "mail"
    /\ conv[r] = "done"
    /\ \E status \in {200} \cup {s \in {500} : sent[r] # "nil"} : Handled(r, status, "returned")
    /\ UNCHANGED <<mainVars, signalled, serveVars, graceOver, pool, held, smtpVars>>

(* A handler panics, before or after it wrote a status; inTx's deferred    *)
(* Rollback gives the connection back, Send's deferred Close ends the      *)
(* conversation, and nobody hears what became of the message.              *)
Panic(r) ==
    /\ pc[r] \in {"handler", "query", "mail"}
    /\ held' = held \ {r}
    /\ \/ pc[r] # "mail" /\ UNCHANGED smtpVars
       \/ pc[r] = "mail" /\ Returns(r, "none") /\ UNCHANGED <<accepted, clear>>
    /\ \E status \in {0, 200}, ended \in {"panic", "abort"} : Handled(r, status, ended)
    /\ UNCHANGED <<mainVars, signalled, serveVars, graceOver, pool>>

(* The chain returns, and the client has its answer; or the panic goes on, *)
(* and net/http drops the connection.                                      *)
Answer(r) ==
    /\ pc[r] = "answer"
    /\ LET o == Chain(outcome[r])
       IN  /\ reply' = [reply EXCEPT ![r] = IF o.ended = "returned" THEN o.status ELSE 0]
           /\ logged' = [logged EXCEPT ![r] = o.line]
    /\ pc' = [pc EXCEPT ![r] = "done"]
    /\ UNCHANGED <<mainVars, signalled, serveVars, graceOver, pool, held, turns, outcome,
                   smtpVars>>

Serve(r) ==
    \/ Respond(r)
    \/ Acquire(r)
    \/ Release(r)
    \/ Mail(r)
    \/ Mailed(r)
    \/ Answer(r)

-----------------------------------------------------------------------------
(* SIGTERM, or an interrupt. *)
Signal ==
    /\ ~signalled
    /\ signalled' = TRUE
    /\ UNCHANGED <<mainVars, serveVars, graceOver, pool, requestVars, smtpVars>>

GracePasses ==
    /\ phase = "shutdown"
    /\ ~graceOver
    /\ graceOver' = TRUE
    /\ UNCHANGED <<mainVars, signalled, serveVars, pool, requestVars, smtpVars>>

Terminated ==
    /\ phase = "exited"
    /\ UNCHANGED vars

Running == phase # "exited"

Next ==
    \/ Running /\ Main
    \/ Running /\ StartAccepting
    \/ Running /\ AcceptReturns
    \/ Running /\ AcceptFails
    \/ Running /\ \E r \in Requests : Arrive(r) \/ Serve(r) \/ Panic(r)
    \/ Running /\ Signal
    \/ Running /\ GracePasses
    \/ Terminated

(* The goroutines are scheduled, and a handler is bounded: statements by   *)
(* statement_timeout, a delivery by sendTimeout. The grace period passes.  *)
(* Nobody owes a signal, a request, a panic or a failing listener.         *)
Fairness ==
    /\ WF_vars(Running /\ Main)
    /\ WF_vars(Running /\ (StartAccepting \/ AcceptReturns))
    /\ WF_vars(Running /\ GracePasses)
    /\ \A r \in Requests : WF_vars(Running /\ Serve(r))

Spec == Init /\ [][Next]_vars /\ Fairness

-----------------------------------------------------------------------------
Configs ==
    [env : {"", "local", "production"}, scheme : {"", "http", "https"}, credentials : BOOLEAN]
Stages == {"none", "handler", "query", "mail", "answer", "done", "cut"}
Statuses == {0, 200, 500}
Outcomes == [status : Statuses, ended : {"returned", "panic", "abort"}, line : {0}]

(* Every variable has its type. *)
TypeOK ==
    /\ phase \in {"load", "pool", "redis", "smtp", "listen", "select", "shutdown", "drain",
                  "closeRedis", "closePool", "poolClosing", "exit", "exited"}
    /\ cfg \in Configs
    /\ ret \in {"none", "nil", "error"}
    /\ signalled \in BOOLEAN
    /\ listener \in {"none", "open", "closed", "shut"}
    /\ serving \in {"none", "starting", "accepting", "returned"}
    /\ serveErr \in {"empty", "nil", "error"}
    /\ failed \in BOOLEAN
    /\ graceOver \in BOOLEAN
    /\ pool \in {"none", "open", "closed"}
    /\ held \subseteq Requests
    /\ turns \in [Requests -> Nat]
    /\ pc \in [Requests -> Stages]
    /\ outcome \in [Requests -> Outcomes]
    /\ reply \in [Requests -> Statuses]
    /\ logged \in [Requests -> Statuses]
    /\ SmtpTypeOK

(* A request is cut only after the grace period, or when the listener      *)
(* failed by itself; and a process that ends without an error was told to, *)
(* has answered every request it took, and its listener did not fail, not  *)
(* even at the moment of the signal.                                       *)
GracefulExit ==
    /\ \A r \in Requests : pc[r] = "cut" => graceOver \/ failed
    /\ phase = "exited" /\ ret = "nil" =>
           signalled /\ ~failed /\ \A r \in Requests : pc[r] \in {"none", "done"}

(* In production nothing is ever said to a mail server in the clear, and   *)
(* credentials nowhere; a server that got as far as listening there has    *)
(* credentials to say and https links to send. The rules are spread over   *)
(* Load, NewSMTP and secure.                                               *)
NothingInTheClear ==
    /\ clear # {} => cfg.env = "local" /\ clear = {"message"}
    /\ listener = "open" /\ cfg.env = "production" => cfg.credentials /\ cfg.scheme = "https"

(* Every answer a client gets is in the log with the same status, a panic  *)
(* included; and a Send that returns nil has been accepted by the server.  *)
AnswersHonest ==
    \A r \in Requests :
        /\ pc[r] = "done" => logged[r] = reply[r]
        /\ pc[r] = "done" /\ outcome[r].ended # "abort" => reply[r] # 0
        /\ sent[r] = "nil" => r \in accepted

(* A process that is told to stop does: no request, connection, channel or *)
(* late failure keeps it.                                                  *)
ExitsWhenTold == <>[](signalled => phase = "exited")
=============================================================================
