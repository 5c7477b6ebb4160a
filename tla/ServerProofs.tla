---------------------------- MODULE ServerProofs ----------------------------
(* Proofs about Server, for any number of requests and of connections, and *)
(* for any environment the process is started in.                          *)
EXTENDS Server, TLAPS

Starting == {"load", "pool", "redis", "smtp", "listen"}
Closing == {"closeRedis", "closePool", "poolClosing", "exit", "exited"}

(* The listener, the goroutine that accepts and the main goroutine: what   *)
(* each has seen of the others, and that a failure is reported as one.     *)
ListenInv ==
    /\ phase \in Starting => listener = "none"
    /\ phase = "select" => listener = "open" \/ failed
    /\ phase \in {"shutdown", "drain"} => listener = "shut" /\ signalled
    /\ phase \in Closing => listener # "open"
    /\ listener = "none" => serving = "none"
    /\ failed => serving = "returned" /\ listener \in {"closed", "shut"}
    /\ listener = "closed" => failed
    /\ serving # "returned" => serveErr = "empty"
    /\ serveErr = "nil" => ~failed /\ listener = "shut"
    /\ serveErr = "error" => failed

(* Requests are there only once somebody listened; and when run() has left *)
(* Serve, those that are left have had their time, or lost their listener. *)
FlightInv ==
    /\ listener = "none" => \A r \in Requests : pc[r] = "none"
    /\ phase = "drain" => InFlight = {}
    /\ phase \in Closing => InFlight = {} \/ graceOver \/ failed
    /\ \A r \in Requests : pc[r] = "cut" => phase = "exited" /\ (graceOver \/ failed)

(* What run() is going to return, and what a nil stands for. *)
RetInv ==
    /\ ret = "none" <=> phase \notin Closing
    /\ ret = "nil" => signalled /\ ~failed /\ InFlight = {}
                      /\ \A r \in Requests : pc[r] # "cut"

(* A configuration in use has passed Load, and then NewSMTP. *)
ConfigInv ==
    /\ cfg.env = "production" => cfg.credentials /\ cfg.scheme = "https"
    /\ phase = "listen" \/ listener # "none" => ~(cfg.credentials /\ cfg.env = "local")

(* A conversation belongs to a request; what it says past secure is said   *)
(* in the clear on a developer's machine only.                             *)
MailInv ==
    /\ \A m \in Mails : conv[m] # "idle" => pc[m] # "none"
    /\ \A m \in Mails : conv[m] \in {"auth", "envelope", "body", "quit"} /\ channel[m] = "clear" =>
           cfg.env = "local"
    /\ clear # {} => listener # "none" /\ cfg.env = "local" /\ clear = {"message"}
    /\ \A m \in Mails : conv[m] = "quit" \/ sent[m] = "nil" => m \in accepted

(* What the client was told is what the log says. *)
AnswerInv ==
    \A r \in Requests : pc[r] = "done" =>
        /\ logged[r] = reply[r]
        /\ outcome[r].ended # "abort" => reply[r] # 0

IInv ==
    /\ TypeOK
    /\ ListenInv
    /\ FlightInv
    /\ RetInv
    /\ ConfigInv
    /\ MailInv
    /\ AnswerInv
-----------------------------------------------------------------------------
(* The state the process starts in. *)
LEMMA InitInv == Init => IInv
<1> SUFFICES ASSUME Init PROVE IInv
  OBVIOUS
<1> USE MailsAssumption DEF Init, SmtpInit, NoConfig
<1>1. TypeOK
  <2>1. cfg \in Configs
    BY Zenon DEF Configs
  <2>2. signalled \in BOOLEAN /\ failed \in BOOLEAN /\ graceOver \in BOOLEAN
    BY Zenon
  <2>3. outcome \in [Requests -> Outcomes] /\ reply \in [Requests -> Statuses]
        /\ logged \in [Requests -> Statuses]
    BY DEF Outcomes, Statuses
  <2>4. QED
    BY <2>1, <2>2, <2>3 DEF TypeOK, SmtpTypeOK, Stages
<1>2. ListenInv /\ FlightInv /\ RetInv
  BY DEF ListenInv, FlightInv, RetInv, InFlight, Starting, Closing
<1>3. ConfigInv /\ MailInv /\ AnswerInv
  BY DEF ConfigInv, MailInv, AnswerInv
<1>4. QED
  BY <1>1, <1>2, <1>3 DEF IInv

(* A configuration that Load lets through: in production it has            *)
(* credentials and an https origin.                                        *)
LEMMA LoadGood ==
  ASSUME NEW environ, problems(environ) = {}
  PROVE  /\ Load(environ) \in Configs
         /\ Load(environ).env = "production" =>
                Load(environ).credentials /\ Load(environ).scheme = "https"
<1>1. parseBaseURL(value(environ, "APP_BASE_URL", ""), Env(environ))
  BY DEF problems
<1>2. environ["APP_BASE_URL"] \in {"http", "https"}
      /\ (Env(environ) = "production" => environ["APP_BASE_URL"] = "https")
  BY <1>1 DEF parseBaseURL, value
<1>3. "SMTP_USERNAME" \notin loadSMTP(environ, Env(environ))
  BY DEF problems
<1>4. Env(environ) = "production" => environ["SMTP_USERNAME"] # ""
  BY <1>3 DEF loadSMTP, value
<1>5. Env(environ) \in {"", "local", "production"}
  BY DEF Env
<1>6. (environ["SMTP_USERNAME"] # "") \in BOOLEAN
  BY Zenon
<1>7. QED
  BY <1>2, <1>4, <1>5, <1>6 DEF Load, Configs

(* What a handler may have done, and what the chain makes of it. *)
LEMMA ChainTypes ==
  ASSUME NEW o \in Outcomes
  PROVE  /\ (IF Chain(o).ended = "returned" THEN Chain(o).status ELSE 0) \in Statuses
         /\ Chain(o).line \in Statuses
         /\ Chain(o).line = (IF Chain(o).ended = "returned" THEN Chain(o).status ELSE 0)
         /\ o.ended # "abort" => Chain(o).line # 0
BY DEF Outcomes, Statuses, Chain, LogRequests, Recover

LEMMA OutcomeTypes ==
  ASSUME NEW status \in Statuses, NEW ended \in {"returned", "panic", "abort"}
  PROVE  [status |-> status, ended |-> ended, line |-> 0] \in Outcomes
BY DEF Outcomes, Statuses

(* Every action keeps every variable in its type. *)
LEMMA TypeStep ==
  ASSUME TypeOK, AnswerInv, [Next]_vars
  PROVE  TypeOK'
<1> USE MailsAssumption DEF TypeOK, SmtpTypeOK, Goto, Return, mainVars, serveVars, requestVars, smtpVars
<1>1. ASSUME LoadConfig PROVE TypeOK'
  <2>1. cfg' \in Configs
    BY <1>1, LoadGood DEF LoadConfig
  <2>2. QED
    BY <1>1, <2>1 DEF LoadConfig
<1>2. ASSUME NewPool PROVE TypeOK'
  BY <1>2 DEF NewPool
<1>3. ASSUME NewRedis PROVE TypeOK'
  BY <1>3 DEF NewRedis
<1>4. ASSUME NewSender PROVE TypeOK'
  BY <1>4 DEF NewSender
<1>5. ASSUME Listen PROVE TypeOK'
  BY <1>5 DEF Listen
<1>6. ASSUME ServeFailed PROVE TypeOK'
  BY <1>6 DEF ServeFailed
<1>7. ASSUME ShutDown PROVE TypeOK'
  BY <1>7 DEF ShutDown
<1>8. ASSUME ShutdownReturns PROVE TypeOK'
  BY <1>8 DEF ShutdownReturns
<1>9. ASSUME Drain PROVE TypeOK'
  BY <1>9 DEF Drain
<1>10. ASSUME CloseRedis PROVE TypeOK'
  BY <1>10 DEF CloseRedis
<1>11. ASSUME ClosePool PROVE TypeOK'
  BY <1>11 DEF ClosePool
<1>12. ASSUME PoolClosed PROVE TypeOK'
  BY <1>12 DEF PoolClosed
<1>13. ASSUME Exit PROVE TypeOK'
  BY <1>13 DEF Exit, Stages
<1>14. ASSUME StartAccepting PROVE TypeOK'
  BY <1>14 DEF StartAccepting
<1>15. ASSUME AcceptReturns PROVE TypeOK'
  BY <1>15 DEF AcceptReturns
<1>16. ASSUME AcceptFails PROVE TypeOK'
  BY <1>16 DEF AcceptFails
<1>17. ASSUME NEW r \in Requests, Arrive(r) PROVE TypeOK'
  BY <1>17 DEF Arrive, Continue, Stages
<1>18. ASSUME NEW r \in Requests, Respond(r) PROVE TypeOK'
  BY <1>18, OutcomeTypes DEF Respond, Handled, Continue, Stages, Statuses
<1>19. ASSUME NEW r \in Requests, Acquire(r) PROVE TypeOK'
  BY <1>19, OutcomeTypes DEF Acquire, Handled, Continue, Stages, Statuses
<1>20. ASSUME NEW r \in Requests, Release(r) PROVE TypeOK'
  BY <1>20, OutcomeTypes DEF Release, Handled, Continue, Stages, Statuses
<1>21. ASSUME NEW r \in Requests, Mail(r) PROVE TypeOK'
  <2>1. SmtpTypeOK'
    <3>1. CASE Send(r)
      BY <3>1 DEF Send, Says, Returns
    <3>2. CASE Dial(r)
      BY <3>2 DEF Dial, Says, Returns
    <3>3. CASE secure(r, AllowUnencrypted)
      BY <3>3 DEF secure, Says, Returns
    <3>4. CASE Auth(r, cfg.credentials)
      <4>1. clear' \in SUBSET {"credentials", "message"}
        BY <3>4 DEF Auth, Overheard
      <4>2. QED
        BY <3>4, <4>1 DEF Auth, Says, Returns
    <3>5. CASE Envelope(r)
      <4>1. clear' \in SUBSET {"credentials", "message"}
        BY <3>5 DEF Envelope, Overheard
      <4>2. QED
        BY <3>5, <4>1 DEF Envelope, Says, Returns
    <3>6. CASE Body(r)
      BY <3>6 DEF Body, Says, Returns
    <3>7. CASE Quit(r)
      BY <3>7 DEF Quit, Says, Returns
    <3>8. QED
      BY <1>21, <3>1, <3>2, <3>3, <3>4, <3>5, <3>6, <3>7 DEF Mail, deliver
  <2>2. QED
    BY <1>21, <2>1 DEF Mail
<1>22. ASSUME NEW r \in Requests, Mailed(r) PROVE TypeOK'
  BY <1>22, OutcomeTypes DEF Mailed, Handled, Continue, Stages, Statuses
<1>23. ASSUME NEW r \in Requests, Answer(r) PROVE TypeOK'
  BY <1>23, ChainTypes DEF Answer, Stages
<1>24. ASSUME NEW r \in Requests, Panic(r) PROVE TypeOK'
  <2>1. SmtpTypeOK'
    <3>1. CASE UNCHANGED smtpVars
      BY <3>1
    <3>2. CASE Returns(r, "none") /\ UNCHANGED <<accepted, clear>>
      BY <3>2 DEF Returns
    <3>3. QED
      BY <1>24, <3>1, <3>2 DEF Panic
  <2>2. pc' \in [Requests -> Stages] /\ turns' \in [Requests -> Nat] /\ held' \subseteq Requests
        /\ reply' = reply /\ logged' = logged
    BY <1>24 DEF Panic, Handled, Stages
  <2>3. outcome' \in [Requests -> Outcomes]
    <3>1. PICK status \in {0, 200}, ended \in {"panic", "abort"} : Handled(r, status, ended)
      BY <1>24 DEF Panic
    <3>2. [status |-> status, ended |-> ended, line |-> 0] \in Outcomes
      BY OutcomeTypes DEF Statuses
    <3>3. QED
      BY <3>1, <3>2 DEF Handled
  <2>4. QED
    BY <1>24, <2>1, <2>2, <2>3 DEF Panic
<1>25. ASSUME Signal PROVE TypeOK'
  BY <1>25 DEF Signal
<1>26. ASSUME GracePasses PROVE TypeOK'
  BY <1>26 DEF GracePasses
<1>27. CASE UNCHANGED vars
  BY <1>27 DEF vars, mainVars, serveVars, requestVars, smtpVars
<1>28. QED
  BY <1>1, <1>2, <1>3, <1>4, <1>5, <1>6, <1>7, <1>8, <1>9, <1>10, <1>11, <1>12, <1>13,
     <1>14, <1>15, <1>16, <1>17, <1>18, <1>19, <1>20, <1>21, <1>22, <1>23, <1>24, <1>25,
     <1>26, <1>27
     DEF Next, Main, Terminated, Serve

(* A request that is in flight changes nothing of what the other           *)
(* goroutines share, and stays in flight or is answered.                   *)
LEMMA RequestFrame ==
  ASSUME TypeOK, NEW r \in Requests, Serve(r) \/ Panic(r)
  PROVE  /\ UNCHANGED <<phase, cfg, ret, signalled, listener, serving, serveErr, failed, graceOver>>
         /\ InFlight' \subseteq InFlight
         /\ \A q \in Requests : (pc'[q] = "none" <=> pc[q] = "none")
                                /\ (pc'[q] = "cut" <=> pc[q] = "cut")
<1> USE DEF TypeOK, Handled, Continue, mainVars, serveVars, requestVars, InFlight
<1>1. CASE Respond(r)
  BY <1>1 DEF Respond
<1>2. CASE Acquire(r)
  BY <1>2 DEF Acquire
<1>3. CASE Release(r)
  BY <1>3 DEF Release
<1>4. CASE Mail(r)
  BY <1>4 DEF Mail
<1>5. CASE Mailed(r)
  BY <1>5 DEF Mailed
<1>6. CASE Answer(r)
  BY <1>6 DEF Answer
<1>7. CASE Panic(r)
  BY <1>7 DEF Panic
<1>8. QED
  BY <1>1, <1>2, <1>3, <1>4, <1>5, <1>6, <1>7 DEF Serve

(* A failure of the listener reaches run() as an error, whatever the signal *)
(* is doing at the time.                                                   *)
LEMMA ListenStep ==
  ASSUME TypeOK, ListenInv, [Next]_vars
  PROVE  ListenInv'
<1> USE DEF TypeOK, Goto, Return, mainVars, serveVars, requestVars, Starting, Closing, ListenInv
<1>1. ASSUME LoadConfig PROVE ListenInv'
  BY <1>1 DEF LoadConfig
<1>2. ASSUME NewPool PROVE ListenInv'
  BY <1>2 DEF NewPool
<1>3. ASSUME NewRedis PROVE ListenInv'
  BY <1>3 DEF NewRedis
<1>4. ASSUME NewSender PROVE ListenInv'
  BY <1>4 DEF NewSender
<1>5. ASSUME Listen PROVE ListenInv'
  BY <1>5 DEF Listen
<1>6. ASSUME ServeFailed PROVE ListenInv'
  BY <1>6 DEF ServeFailed
<1>7. ASSUME ShutDown PROVE ListenInv'
  BY <1>7 DEF ShutDown
<1>8. ASSUME ShutdownReturns PROVE ListenInv'
  BY <1>8 DEF ShutdownReturns
<1>9. ASSUME Drain PROVE ListenInv'
  BY <1>9 DEF Drain
<1>10. ASSUME CloseRedis PROVE ListenInv'
  BY <1>10 DEF CloseRedis
<1>11. ASSUME ClosePool PROVE ListenInv'
  BY <1>11 DEF ClosePool
<1>12. ASSUME PoolClosed PROVE ListenInv'
  BY <1>12 DEF PoolClosed
<1>13. ASSUME Exit PROVE ListenInv'
  BY <1>13 DEF Exit
<1>14. ASSUME StartAccepting PROVE ListenInv'
  BY <1>14 DEF StartAccepting
<1>15. ASSUME AcceptReturns PROVE ListenInv'
  BY <1>15 DEF AcceptReturns
<1>16. ASSUME AcceptFails PROVE ListenInv'
  BY <1>16 DEF AcceptFails
<1>17. ASSUME NEW r \in Requests, Arrive(r) PROVE ListenInv'
  BY <1>17 DEF Arrive, Continue
<1>18. ASSUME Signal PROVE ListenInv'
  BY <1>18 DEF Signal
<1>19. ASSUME GracePasses PROVE ListenInv'
  BY <1>19 DEF GracePasses
<1>20. ASSUME NEW r \in Requests, Serve(r) \/ Panic(r) PROVE ListenInv'
  BY <1>20, RequestFrame
<1>21. CASE UNCHANGED vars
  BY <1>21 DEF vars, mainVars, serveVars, requestVars, smtpVars
<1>22. QED
  BY <1>1, <1>2, <1>3, <1>4, <1>5, <1>6, <1>7, <1>8, <1>9, <1>10, <1>11, <1>12, <1>13,
     <1>14, <1>15, <1>16, <1>17, <1>18, <1>19, <1>20, <1>21
     DEF Next, Main, Terminated

(* Nobody arrives once Shutdown has returned, and run() leaves Serve only  *)
(* as it may.                                                              *)
LEMMA FlightStep ==
  ASSUME TypeOK, ListenInv, FlightInv, [Next]_vars
  PROVE  FlightInv'
<1> USE DEF TypeOK, Goto, Return, mainVars, serveVars, requestVars, Starting, Closing, ListenInv, FlightInv, InFlight
<1>1. ASSUME LoadConfig PROVE FlightInv'
  BY <1>1 DEF LoadConfig
<1>2. ASSUME NewPool PROVE FlightInv'
  BY <1>2 DEF NewPool
<1>3. ASSUME NewRedis PROVE FlightInv'
  BY <1>3 DEF NewRedis
<1>4. ASSUME NewSender PROVE FlightInv'
  BY <1>4 DEF NewSender
<1>5. ASSUME Listen PROVE FlightInv'
  BY <1>5 DEF Listen
<1>6. ASSUME ServeFailed PROVE FlightInv'
  BY <1>6 DEF ServeFailed
<1>7. ASSUME ShutDown PROVE FlightInv'
  BY <1>7 DEF ShutDown
<1>8. ASSUME ShutdownReturns PROVE FlightInv'
  BY <1>8 DEF ShutdownReturns
<1>9. ASSUME Drain PROVE FlightInv'
  BY <1>9 DEF Drain
<1>10. ASSUME CloseRedis PROVE FlightInv'
  BY <1>10 DEF CloseRedis
<1>11. ASSUME ClosePool PROVE FlightInv'
  BY <1>11 DEF ClosePool
<1>12. ASSUME PoolClosed PROVE FlightInv'
  BY <1>12 DEF PoolClosed
<1>13. ASSUME Exit PROVE FlightInv'
  BY <1>13 DEF Exit
<1>14. ASSUME StartAccepting PROVE FlightInv'
  BY <1>14 DEF StartAccepting
<1>15. ASSUME AcceptReturns PROVE FlightInv'
  BY <1>15 DEF AcceptReturns
<1>16. ASSUME AcceptFails PROVE FlightInv'
  BY <1>16 DEF AcceptFails
<1>17. ASSUME NEW r \in Requests, Arrive(r) PROVE FlightInv'
  BY <1>17 DEF Arrive, Continue
<1>18. ASSUME Signal PROVE FlightInv'
  BY <1>18 DEF Signal
<1>19. ASSUME GracePasses PROVE FlightInv'
  BY <1>19 DEF GracePasses
<1>20. ASSUME NEW r \in Requests, Serve(r) \/ Panic(r) PROVE FlightInv'
  BY <1>20, RequestFrame
<1>21. CASE UNCHANGED vars
  BY <1>21 DEF vars, mainVars, serveVars, requestVars, smtpVars
<1>22. QED
  BY <1>1, <1>2, <1>3, <1>4, <1>5, <1>6, <1>7, <1>8, <1>9, <1>10, <1>11, <1>12, <1>13,
     <1>14, <1>15, <1>16, <1>17, <1>18, <1>19, <1>20, <1>21
     DEF Next, Main, Terminated

(* run() makes up its mind once. *)
LEMMA RetStep ==
  ASSUME TypeOK, ListenInv, FlightInv, RetInv, [Next]_vars
  PROVE  RetInv'
<1> USE DEF TypeOK, Goto, Return, mainVars, serveVars, requestVars, Starting, Closing, ListenInv, FlightInv, RetInv, InFlight
<1>1. ASSUME LoadConfig PROVE RetInv'
  BY <1>1 DEF LoadConfig
<1>2. ASSUME NewPool PROVE RetInv'
  BY <1>2 DEF NewPool
<1>3. ASSUME NewRedis PROVE RetInv'
  BY <1>3 DEF NewRedis
<1>4. ASSUME NewSender PROVE RetInv'
  BY <1>4 DEF NewSender
<1>5. ASSUME Listen PROVE RetInv'
  BY <1>5 DEF Listen
<1>6. ASSUME ServeFailed PROVE RetInv'
  BY <1>6 DEF ServeFailed
<1>7. ASSUME ShutDown PROVE RetInv'
  BY <1>7 DEF ShutDown
<1>8. ASSUME ShutdownReturns PROVE RetInv'
  BY <1>8 DEF ShutdownReturns
<1>9. ASSUME Drain PROVE RetInv'
  BY <1>9 DEF Drain
<1>10. ASSUME CloseRedis PROVE RetInv'
  BY <1>10 DEF CloseRedis
<1>11. ASSUME ClosePool PROVE RetInv'
  BY <1>11 DEF ClosePool
<1>12. ASSUME PoolClosed PROVE RetInv'
  BY <1>12 DEF PoolClosed
<1>13. ASSUME Exit PROVE RetInv'
  BY <1>13 DEF Exit
<1>14. ASSUME StartAccepting PROVE RetInv'
  BY <1>14 DEF StartAccepting
<1>15. ASSUME AcceptReturns PROVE RetInv'
  BY <1>15 DEF AcceptReturns
<1>16. ASSUME AcceptFails PROVE RetInv'
  BY <1>16 DEF AcceptFails
<1>17. ASSUME NEW r \in Requests, Arrive(r) PROVE RetInv'
  BY <1>17 DEF Arrive, Continue
<1>18. ASSUME Signal PROVE RetInv'
  BY <1>18 DEF Signal
<1>19. ASSUME GracePasses PROVE RetInv'
  BY <1>19 DEF GracePasses
<1>20. ASSUME NEW r \in Requests, Serve(r) \/ Panic(r) PROVE RetInv'
  BY <1>20, RequestFrame
<1>21. CASE UNCHANGED vars
  BY <1>21 DEF vars, mainVars, serveVars, requestVars, smtpVars
<1>22. QED
  BY <1>1, <1>2, <1>3, <1>4, <1>5, <1>6, <1>7, <1>8, <1>9, <1>10, <1>11, <1>12, <1>13,
     <1>14, <1>15, <1>16, <1>17, <1>18, <1>19, <1>20, <1>21
     DEF Next, Main, Terminated

(* The configuration is loaded once, and nobody listens with one that      *)
(* NewSMTP has refused.                                                    *)
LEMMA ConfigStep ==
  ASSUME TypeOK, ListenInv, ConfigInv, [Next]_vars
  PROVE  ConfigInv'
<1> USE DEF TypeOK, Goto, Return, mainVars, serveVars, requestVars, Starting, Closing, ListenInv, ConfigInv
<1>1. ASSUME LoadConfig PROVE ConfigInv'
  BY <1>1, LoadGood DEF LoadConfig
<1>2. ASSUME NewPool PROVE ConfigInv'
  BY <1>2 DEF NewPool
<1>3. ASSUME NewRedis PROVE ConfigInv'
  BY <1>3 DEF NewRedis
<1>4. ASSUME NewSender PROVE ConfigInv'
  BY <1>4 DEF NewSender, NewSMTP, AllowUnencrypted
<1>5. ASSUME Listen PROVE ConfigInv'
  BY <1>5 DEF Listen
<1>6. ASSUME ServeFailed PROVE ConfigInv'
  BY <1>6 DEF ServeFailed
<1>7. ASSUME ShutDown PROVE ConfigInv'
  BY <1>7 DEF ShutDown
<1>8. ASSUME ShutdownReturns PROVE ConfigInv'
  BY <1>8 DEF ShutdownReturns
<1>9. ASSUME Drain PROVE ConfigInv'
  BY <1>9 DEF Drain
<1>10. ASSUME CloseRedis PROVE ConfigInv'
  BY <1>10 DEF CloseRedis
<1>11. ASSUME ClosePool PROVE ConfigInv'
  BY <1>11 DEF ClosePool
<1>12. ASSUME PoolClosed PROVE ConfigInv'
  BY <1>12 DEF PoolClosed
<1>13. ASSUME Exit PROVE ConfigInv'
  BY <1>13 DEF Exit
<1>14. ASSUME StartAccepting PROVE ConfigInv'
  BY <1>14 DEF StartAccepting
<1>15. ASSUME AcceptReturns PROVE ConfigInv'
  BY <1>15 DEF AcceptReturns
<1>16. ASSUME AcceptFails PROVE ConfigInv'
  BY <1>16 DEF AcceptFails
<1>17. ASSUME NEW r \in Requests, Arrive(r) PROVE ConfigInv'
  BY <1>17 DEF Arrive, Continue
<1>18. ASSUME Signal PROVE ConfigInv'
  BY <1>18 DEF Signal
<1>19. ASSUME GracePasses PROVE ConfigInv'
  BY <1>19 DEF GracePasses
<1>20. ASSUME NEW r \in Requests, Serve(r) \/ Panic(r) PROVE ConfigInv'
  BY <1>20, RequestFrame
<1>21. CASE UNCHANGED vars
  BY <1>21 DEF vars, mainVars, serveVars, requestVars, smtpVars
<1>22. QED
  BY <1>1, <1>2, <1>3, <1>4, <1>5, <1>6, <1>7, <1>8, <1>9, <1>10, <1>11, <1>12, <1>13,
     <1>14, <1>15, <1>16, <1>17, <1>18, <1>19, <1>20, <1>21
     DEF Next, Main, Terminated

(* Nothing is said in the clear that must not be, and an accepted message  *)
(* stays accepted.                                                         *)
LEMMA MailStep ==
  ASSUME TypeOK, ListenInv, FlightInv, ConfigInv, MailInv, [Next]_vars
  PROVE  MailInv'
<1> USE MailsAssumption
    DEF TypeOK, SmtpTypeOK, Goto, Return, mainVars, serveVars, requestVars, smtpVars, Starting,
        ListenInv, FlightInv, MailInv
<1>1. ASSUME LoadConfig PROVE MailInv'
  BY <1>1 DEF LoadConfig
<1>2. ASSUME NewPool PROVE MailInv'
  BY <1>2 DEF NewPool
<1>3. ASSUME NewRedis PROVE MailInv'
  BY <1>3 DEF NewRedis
<1>4. ASSUME NewSender PROVE MailInv'
  BY <1>4 DEF NewSender
<1>5. ASSUME Listen PROVE MailInv'
  BY <1>5 DEF Listen
<1>6. ASSUME ServeFailed PROVE MailInv'
  BY <1>6 DEF ServeFailed
<1>7. ASSUME ShutDown PROVE MailInv'
  BY <1>7 DEF ShutDown
<1>8. ASSUME ShutdownReturns PROVE MailInv'
  BY <1>8 DEF ShutdownReturns
<1>9. ASSUME Drain PROVE MailInv'
  BY <1>9 DEF Drain
<1>10. ASSUME CloseRedis PROVE MailInv'
  BY <1>10 DEF CloseRedis
<1>11. ASSUME ClosePool PROVE MailInv'
  BY <1>11 DEF ClosePool
<1>12. ASSUME PoolClosed PROVE MailInv'
  BY <1>12 DEF PoolClosed
<1>13. ASSUME Exit PROVE MailInv'
  BY <1>13 DEF Exit
<1>14. ASSUME StartAccepting PROVE MailInv'
  BY <1>14 DEF StartAccepting
<1>15. ASSUME AcceptReturns PROVE MailInv'
  BY <1>15 DEF AcceptReturns
<1>16. ASSUME AcceptFails PROVE MailInv'
  BY <1>16 DEF AcceptFails
<1>17. ASSUME NEW r \in Requests, Arrive(r) PROVE MailInv'
  BY <1>17 DEF Arrive, Continue
<1>18. ASSUME NEW r \in Requests, Respond(r) PROVE MailInv'
  BY <1>18 DEF Respond, Handled
<1>19. ASSUME NEW r \in Requests, Acquire(r) PROVE MailInv'
  BY <1>19 DEF Acquire, Handled, Continue
<1>20. ASSUME NEW r \in Requests, Release(r) PROVE MailInv'
  BY <1>20 DEF Release, Handled, Continue
<1>21. ASSUME NEW r \in Requests, Mail(r) PROVE MailInv'
  <2> USE <1>21 DEF Mail, Says, Returns
  <2>1. CASE Send(r)
    BY <2>1 DEF Send
  <2>2. CASE Dial(r)
    BY <2>2 DEF Dial
  <2>3. CASE secure(r, AllowUnencrypted)
    BY <2>3 DEF secure, AllowUnencrypted
  <2>4. CASE Auth(r, cfg.credentials)
    BY <2>4 DEF Auth, Overheard, ConfigInv
  <2>5. CASE Envelope(r)
    BY <2>5 DEF Envelope, Overheard
  <2>6. CASE Body(r)
    BY <2>6 DEF Body
  <2>7. CASE Quit(r)
    BY <2>7 DEF Quit
  <2>8. QED
    BY <2>1, <2>2, <2>3, <2>4, <2>5, <2>6, <2>7 DEF deliver
<1>22. ASSUME NEW r \in Requests, Mailed(r) PROVE MailInv'
  BY <1>22 DEF Mailed, Handled
<1>23. ASSUME NEW r \in Requests, Answer(r) PROVE MailInv'
  BY <1>23 DEF Answer
<1>24. ASSUME NEW r \in Requests, Panic(r) PROVE MailInv'
  BY <1>24 DEF Panic, Handled, Returns
<1>25. ASSUME Signal PROVE MailInv'
  BY <1>25 DEF Signal
<1>26. ASSUME GracePasses PROVE MailInv'
  BY <1>26 DEF GracePasses
<1>27. CASE UNCHANGED vars
  BY <1>27 DEF vars, mainVars, serveVars, requestVars, smtpVars
<1>28. QED
  BY <1>1, <1>2, <1>3, <1>4, <1>5, <1>6, <1>7, <1>8, <1>9, <1>10, <1>11, <1>12, <1>13,
     <1>14, <1>15, <1>16, <1>17, <1>18, <1>19, <1>20, <1>21, <1>22, <1>23, <1>24, <1>25,
     <1>26, <1>27
     DEF Next, Main, Terminated, Serve

(* The chain answers and logs alike, whatever the handler did. *)
LEMMA AnswerStep ==
  ASSUME TypeOK, AnswerInv, [Next]_vars
  PROVE  AnswerInv'
<1> USE DEF TypeOK, Goto, Return, mainVars, serveVars, requestVars, AnswerInv, InFlight
<1>1. ASSUME LoadConfig PROVE AnswerInv'
  BY <1>1 DEF LoadConfig
<1>2. ASSUME NewPool PROVE AnswerInv'
  BY <1>2 DEF NewPool
<1>3. ASSUME NewRedis PROVE AnswerInv'
  BY <1>3 DEF NewRedis
<1>4. ASSUME NewSender PROVE AnswerInv'
  BY <1>4 DEF NewSender
<1>5. ASSUME Listen PROVE AnswerInv'
  BY <1>5 DEF Listen
<1>6. ASSUME ServeFailed PROVE AnswerInv'
  BY <1>6 DEF ServeFailed
<1>7. ASSUME ShutDown PROVE AnswerInv'
  BY <1>7 DEF ShutDown
<1>8. ASSUME ShutdownReturns PROVE AnswerInv'
  BY <1>8 DEF ShutdownReturns
<1>9. ASSUME Drain PROVE AnswerInv'
  BY <1>9 DEF Drain
<1>10. ASSUME CloseRedis PROVE AnswerInv'
  BY <1>10 DEF CloseRedis
<1>11. ASSUME ClosePool PROVE AnswerInv'
  BY <1>11 DEF ClosePool
<1>12. ASSUME PoolClosed PROVE AnswerInv'
  BY <1>12 DEF PoolClosed
<1>13. ASSUME Exit PROVE AnswerInv'
  BY <1>13 DEF Exit
<1>14. ASSUME StartAccepting PROVE AnswerInv'
  BY <1>14 DEF StartAccepting
<1>15. ASSUME AcceptReturns PROVE AnswerInv'
  BY <1>15 DEF AcceptReturns
<1>16. ASSUME AcceptFails PROVE AnswerInv'
  BY <1>16 DEF AcceptFails
<1>17. ASSUME NEW r \in Requests, Arrive(r) PROVE AnswerInv'
  BY <1>17 DEF Arrive, Continue
<1>18. ASSUME NEW r \in Requests, Respond(r) PROVE AnswerInv'
  BY <1>18 DEF Respond, Handled
<1>19. ASSUME NEW r \in Requests, Acquire(r) PROVE AnswerInv'
  BY <1>19 DEF Acquire, Handled, Continue
<1>20. ASSUME NEW r \in Requests, Release(r) PROVE AnswerInv'
  BY <1>20 DEF Release, Handled, Continue
<1>21. ASSUME NEW r \in Requests, Mail(r) PROVE AnswerInv'
  BY <1>21 DEF Mail, Send, Dial, deliver, secure, Auth, Envelope, Body, Quit, Says, Returns, Overheard
<1>22. ASSUME NEW r \in Requests, Mailed(r) PROVE AnswerInv'
  BY <1>22 DEF Mailed, Handled
<1>23. ASSUME NEW r \in Requests, Answer(r) PROVE AnswerInv'
  BY <1>23, ChainTypes DEF Answer
<1>24. ASSUME NEW r \in Requests, Panic(r) PROVE AnswerInv'
  BY <1>24 DEF Panic, Handled, Returns
<1>25. ASSUME Signal PROVE AnswerInv'
  BY <1>25 DEF Signal
<1>26. ASSUME GracePasses PROVE AnswerInv'
  BY <1>26 DEF GracePasses
<1>27. CASE UNCHANGED vars
  BY <1>27 DEF vars, mainVars, serveVars, requestVars, smtpVars
<1>28. QED
  BY <1>1, <1>2, <1>3, <1>4, <1>5, <1>6, <1>7, <1>8, <1>9, <1>10, <1>11, <1>12, <1>13,
     <1>14, <1>15, <1>16, <1>17, <1>18, <1>19, <1>20, <1>21, <1>22, <1>23, <1>24, <1>25,
     <1>26, <1>27
     DEF Next, Main, Terminated, Serve

(* IInv is inductive. *)
THEOREM Inductive == Spec => []IInv
<1>1. IInv /\ [Next]_vars => IInv'
  BY TypeStep, ListenStep, FlightStep, RetStep, ConfigStep, MailStep, AnswerStep DEF IInv
<1>2. QED
  BY <1>1, InitInv, PTL DEF Spec

(* Every variable of the process has its type in every reachable state. *)
THEOREM TypeCorrect == Spec => []TypeOK
<1>1. IInv => TypeOK
  BY DEF IInv
<1>2. QED
  BY <1>1, Inductive, PTL

(* run() and Serve never cut a request short of the grace period unless    *)
(* the listener failed, and never hide that failure behind a clean exit.   *)
THEOREM ShutdownIsGraceful == Spec => []GracefulExit
<1>1. IInv => GracefulExit
  BY DEF IInv, TypeOK, Stages, FlightInv, RetInv, GracefulExit, InFlight, Closing
<1>2. QED
  BY <1>1, Inductive, PTL

(* Load, NewSMTP and secure together keep credentials, and in production   *)
(* everything, off a connection in the clear.                              *)
THEOREM MailIsPrivate == Spec => []NothingInTheClear
<1>1. IInv => NothingInTheClear
  BY DEF IInv, ConfigInv, MailInv, NothingInTheClear
<1>2. QED
  BY <1>1, Inductive, PTL

(* LogRequests and Recover, in the order of apiHandler, log every answer   *)
(* as it was given; and Send reports success only of accepted messages.    *)
THEOREM LogIsHonest == Spec => []AnswersHonest
<1>1. IInv => AnswersHonest
  BY MailsAssumption DEF IInv, AnswerInv, MailInv, AnswersHonest
<1>2. QED
  BY <1>1, Inductive, PTL
=============================================================================
