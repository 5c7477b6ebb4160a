------------------------------- MODULE Config -------------------------------
(***************************************************************************)
(* config.Load: from the environment of the process to a configuration, or *)
(* to the list of everything that is wrong with it.                        *)
(*                                                                         *)
(* The environment is a function from variable names to values. A value    *)
(* stands for every text Load treats alike: "" is a variable that is not   *)
(* set or blank, "malformed" one that cannot be parsed, "outOfRange" a     *)
(* number Load refuses; the others say what is in them.                    *)
(***************************************************************************)

(* The values worth telling apart, per variable. *)
Values ==
    [APP_ENV            |-> {"", "local", "production", "malformed"},
     APP_BASE_URL       |-> {"", "malformed", "relative", "withPath", "http", "https"},
     LOG_LEVEL          |-> {"", "level", "malformed"},
     MAX_REQUEST_BYTES  |-> {"", "number", "malformed", "outOfRange"},
     DATABASE_URL       |-> {"", "malformed", "otherScheme", "noHost", "postgres"},
     REDIS_URL          |-> {"", "malformed", "otherScheme", "noHost", "redis"},
     SMTP_HOST          |-> {"", "host"},
     SMTP_PORT          |-> {"", "number", "malformed", "outOfRange"},
     SMTP_FROM          |-> {"", "malformed", "address"},
     SMTP_USERNAME      |-> {"", "name"},
     SMTP_PASSWORD      |-> {"", "secret"},
     TRUSTED_PROXIES    |-> {"", "ranges", "addresses", "malformed"},
     DATABASE_MAX_CONNS |-> {"", "number", "malformed", "outOfRange"}]

Variables == DOMAIN Values

(* A variable that is not set, or blank, has its default. *)
value(environ, key, fallback) == IF environ[key] = "" THEN fallback ELSE environ[key]

(* cfg.Env, which stays empty when APP_ENV is refused. *)
Env(environ) ==
    LET raw == value(environ, "APP_ENV", "")
    IN  IF raw \in {"local", "production"} THEN raw ELSE ""

(* An origin, and over https in production: a Secure cookie is not sent    *)
(* over anything else.                                                     *)
parseBaseURL(raw, env) ==
    /\ raw \in {"http", "https"}
    /\ env = "production" => raw = "https"

validateDatabaseURL(raw) == raw = "postgres"

validateRedisURL(raw) == raw = "redis"

parseTrustedProxies(raw) == raw \in {"", "ranges", "addresses"}

(* What is wrong with the mail settings. A name without a password, or the *)
(* reverse, is wrong everywhere; neither of them only in production.       *)
loadSMTP(environ, env) ==
    LET name == value(environ, "SMTP_USERNAME", "")
        secret == value(environ, "SMTP_PASSWORD", "")
    IN  {k \in {"SMTP_HOST"} : value(environ, k, "") = ""}
        \cup {k \in {"SMTP_PORT"} : value(environ, k, "number") # "number"}
        \cup {k \in {"SMTP_FROM"} : value(environ, k, "") # "address"}
        \cup {k \in {"SMTP_USERNAME", "SMTP_PASSWORD"} :
                 \/ (name = "") # (secret = "")
                 \/ name = "" /\ env = "production"}

(* Everything Load reports, at once. *)
problems(environ) ==
    {k \in {"APP_ENV"} : Env(environ) = ""}
    \cup {k \in {"APP_BASE_URL"} : ~parseBaseURL(value(environ, k, ""), Env(environ))}
    \cup {k \in {"LOG_LEVEL"} : value(environ, k, "level") # "level"}
    \cup {k \in {"MAX_REQUEST_BYTES", "DATABASE_MAX_CONNS"} :
             value(environ, k, "number") # "number"}
    \cup {k \in {"DATABASE_URL"} : ~validateDatabaseURL(value(environ, k, ""))}
    \cup {k \in {"REDIS_URL"} : ~validateRedisURL(value(environ, k, ""))}
    \cup {k \in {"TRUSTED_PROXIES"} : ~parseTrustedProxies(value(environ, k, ""))}
    \cup loadSMTP(environ, Env(environ))

(* What the rest of the program reads of a configuration that loaded. *)
Load(environ) ==
    [env |-> Env(environ),
     scheme |-> environ["APP_BASE_URL"],
     credentials |-> environ["SMTP_USERNAME"] # ""]
=============================================================================
