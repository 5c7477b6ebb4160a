-------------------------------- MODULE Smtp --------------------------------
(***************************************************************************)
(* mail.SMTP: one delivery after another, each a conversation with the     *)
(* mail server on a connection of its own. Whatever breaks it (a refusal,  *)
(* a broken connection, the send timeout, a caller who gives up) closes    *)
(* the connection and is reported; the server may have taken the message   *)
(* by then.                                                                *)
(***************************************************************************)
CONSTANT Mails  \* messages, named after the requests that send them

VARIABLES
    conv,      \* conv[m]: where the conversation about m stands
    channel,   \* channel[m]: its connection
    sent,      \* sent[m]: what Send returned
    accepted,  \* messages the server has taken
    clear      \* what has crossed the network in the clear

smtpVars == <<conv, channel, sent, accepted, clear>>

SmtpInit ==
    /\ conv = [m \in Mails |-> "idle"]
    /\ channel = [m \in Mails |-> "none"]
    /\ sent = [m \in Mails |-> "none"]
    /\ accepted = {}
    /\ clear = {}

(* The refusal to build a sender out of options that loaded: credentials   *)
(* are not for a connection nobody promised to encrypt.                    *)
NewSMTP(credentials, allowUnencrypted) == ~(credentials /\ allowUnencrypted)

-----------------------------------------------------------------------------
(* Send returns: the deferred Close has run. *)
Returns(m, result) ==
    /\ conv' = [conv EXCEPT ![m] = "done"]
    /\ channel' = [channel EXCEPT ![m] = "none"]
    /\ sent' = [sent EXCEPT ![m] = result]

Says(m, next) ==
    /\ conv' = [conv EXCEPT ![m] = next]
    /\ UNCHANGED sent

(* What is said on a connection that is not encrypted, everybody hears. *)
Overheard(m, what) ==
    clear' = clear \cup {w \in {what} : channel[m] = "clear"}

(* Rendering comes before anything is dialed. *)
Send(m) ==
    /\ conv[m] = "idle"
    /\ \/ Says(m, "dial") /\ UNCHANGED channel
       \/ Returns(m, "invalid")
    /\ UNCHANGED <<accepted, clear>>

(* The dial and the server's greeting. *)
Dial(m) ==
    /\ conv[m] = "dial"
    /\ \/ Says(m, "secure") /\ channel' = [channel EXCEPT ![m] = "clear"]
       \/ Returns(m, "undelivered")
    /\ UNCHANGED <<accepted, clear>>

(* Mutant: STARTTLS is used when it is offered. *)
secureIfOffered(m, allowUnencrypted) ==
    /\ conv[m] = "secure"
    /\ Says(m, "auth")
    /\ \/ channel' = [channel EXCEPT ![m] = "tls"]
       \/ UNCHANGED channel
    /\ UNCHANGED <<accepted, clear>>

(* STARTTLS; a server that does not offer it, or whose handshake fails, is *)
(* left, unless the deployment allows a connection in the clear to one     *)
(* that does not offer it.                                                 *)
secure(m, allowUnencrypted) ==
    /\ conv[m] = "secure"
    /\ \/ Says(m, "auth") /\ channel' = [channel EXCEPT ![m] = "tls"]
       \/ allowUnencrypted /\ Says(m, "auth") /\ UNCHANGED channel
       \/ Returns(m, "undelivered")
    /\ UNCHANGED <<accepted, clear>>

(* net/smtp has a rule of its own about credentials in the clear; it is    *)
(* not relied on here.                                                     *)
Auth(m, credentials) ==
    /\ conv[m] = "auth"
    /\ IF credentials THEN Overheard(m, "credentials") ELSE UNCHANGED clear
    /\ \/ Says(m, "envelope") /\ UNCHANGED channel
       \/ credentials /\ Returns(m, "undelivered")
    /\ UNCHANGED accepted

(* MAIL, RCPT and DATA. *)
Envelope(m) ==
    /\ conv[m] = "envelope"
    /\ Overheard(m, "message")
    /\ \/ Says(m, "body") /\ UNCHANGED channel
       \/ Returns(m, "undelivered")
    /\ UNCHANGED accepted

(* The body, the terminating dot and the server's verdict, which may be    *)
(* lost on the way back.                                                   *)
Body(m) ==
    /\ conv[m] = "body"
    /\ \/ /\ accepted' = accepted \cup {m}
          /\ Says(m, "quit")
          /\ UNCHANGED channel
       \/ accepted' = accepted \cup {m} /\ Returns(m, "undelivered")
       \/ UNCHANGED accepted /\ Returns(m, "undelivered")
    /\ UNCHANGED clear

(* QUIT. Its failure is reported as the message's. *)
Quit(m) ==
    /\ conv[m] = "quit"
    /\ Returns(m, "nil") \/ Returns(m, "undelivered")
    /\ UNCHANGED <<accepted, clear>>

deliver(m, credentials, allowUnencrypted) ==
    \/ secure(m, allowUnencrypted)
    \/ Auth(m, credentials)
    \/ Envelope(m)
    \/ Body(m)
    \/ Quit(m)

-----------------------------------------------------------------------------
(* Every variable has its type. *)
SmtpTypeOK ==
    /\ conv \in [Mails -> {"idle", "dial", "secure", "auth", "envelope", "body", "quit", "done"}]
    /\ channel \in [Mails -> {"none", "clear", "tls"}]
    /\ sent \in [Mails -> {"none", "nil", "invalid", "undelivered"}]
    /\ accepted \subseteq Mails
    /\ clear \subseteq {"credentials", "message"}
=============================================================================
