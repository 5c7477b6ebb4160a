------------------------------ MODULE MCServer ------------------------------
(* A small instance of Server for TLC. *)
EXTENDS Server

CONSTANTS r1, r2

(* An installation on somebody's machine, and one that people use. *)
Local ==
    [k \in Variables |->
        CASE k = "APP_ENV" -> "local"
          [] k = "APP_BASE_URL" -> "http"
          [] k = "DATABASE_URL" -> "postgres"
          [] k = "REDIS_URL" -> "redis"
          [] k = "SMTP_HOST" -> "host"
          [] k = "SMTP_FROM" -> "address"
          [] OTHER -> ""]

Production ==
    [Local EXCEPT !["APP_ENV"] = "production",
                  !["APP_BASE_URL"] = "https",
                  !["SMTP_USERNAME"] = "name",
                  !["SMTP_PASSWORD"] = "secret"]

(* Both, with any one or two of the variables set to something else. A     *)
(* local installation on https runs like the one on http.                  *)
NearlyRight ==
    {e \in UNION {{[[base EXCEPT ![j] = v] EXCEPT ![k] = w] : v \in Values[j], w \in Values[k]} :
                     base \in {Local, Production}, j \in Variables, k \in Variables} :
        e["APP_ENV"] = "local" => e["APP_BASE_URL"] # "https"}
=============================================================================
