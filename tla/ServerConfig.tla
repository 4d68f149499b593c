----------------------------- MODULE ServerConfig -----------------------------
(* What the environment makes of every process before it starts anything            *)
(* (config.ts). A value that is only required to be there is TRUE or FALSE; of the   *)
(* others only what the code looks at is kept, "absent" standing for a value that is *)
(* missing or blank.                                                                 *)
EXTENDS FiniteSets

Keys == {"absent", "notBase64", "wrongLength", "good"}
Origins == {"absent", "notUrl", "paper", "other"}

Required == [SEC_USER_AGENT : {"absent", "anonymous", "mailed"}, DATABASE_URL : {"absent", "other", "postgresql"},
             REDIS_URL : {"absent", "other", "redis"}, INTERNAL_SERVICE_TOKEN : {"absent", "short", "long"}]

Optional == [keyId : BOOLEAN, secretKey : BOOLEAN, finnhub : BOOLEAN, fred : BOOLEAN,
             trading : {"absent", "true", "false", "other"}, origin : Origins, signingKey : Keys,
             vapidPublic : BOOLEAN, vapidPrivate : BOOLEAN, subject : {"absent", "notUri", "good"},
             encryptionKey : Keys]

\* The schema: what no process starts without, and what must have its form if it is there.
environmentSchema(r, o) ==
  /\ r.SEC_USER_AGENT # "absent" /\ r.DATABASE_URL = "postgresql"
  /\ r.REDIS_URL = "redis" /\ r.INTERNAL_SERVICE_TOKEN = "long"
  /\ o.trading # "other" /\ o.origin # "notUrl"

Enabled(o) == o.trading = "true"
Credentials(o) == o.keyId /\ o.secretKey
Decodable(key) == key \notin {"notBase64", "wrongLength"}
PushValues(o) == <<o.vapidPublic, o.vapidPrivate, o.subject # "absent", o.encryptionKey # "absent">>
AllPush(o) == PushValues(o) = <<TRUE, TRUE, TRUE, TRUE>>
NoPush(o) == PushValues(o) = <<FALSE, FALSE, FALSE, FALSE>>

\* Every check throws, in this order, and a process that throws here does not start.
Refusal(r, o) ==
  CASE ~environmentSchema(r, o)                        -> "schema"
    [] r.SEC_USER_AGENT = "anonymous"                  -> "userAgent"
    [] Enabled(o) /\ o.origin \notin {"absent", "paper"} -> "origin"
    [] Enabled(o) /\ ~Credentials(o)                   -> "credentials"
    [] ~Decodable(o.signingKey)                        -> "signingKey"
    [] Enabled(o) /\ o.signingKey = "absent"           -> "signingKeyRequired"
    [] ~AllPush(o) /\ ~NoPush(o)                       -> "push"
    [] o.subject = "notUri"                            -> "subject"
    [] ~Decodable(o.encryptionKey)                     -> "encryptionKey"
    [] OTHER                                           -> ""

\* The base URL is the paper origin whatever the environment says: the setting is only
\* compared with it.
loadServerConfig(o) ==
  [paperTrading  |-> [enabled |-> Enabled(o), configured |-> Credentials(o), baseUrl |-> "paper"],
   providers     |-> [alpaca |-> Credentials(o), sec |-> TRUE, finnhub |-> o.finnhub, fred |-> o.fred],
   notifications |-> AllPush(o),
   secrets       |-> {s \in {"alpaca", "finnhub", "fred", "push", "paperTrading"} :
                        CASE s = "alpaca" -> Credentials(o) [] s = "finnhub" -> o.finnhub
                          [] s = "fred" -> o.fred [] s = "push" -> AllPush(o)
                          [] OTHER -> o.signingKey = "good"}]

publicStatus(config) ==
  [providers |-> config.providers, notifications |-> config.notifications,
   paperTrading |-> [enabled |-> config.paperTrading.enabled, configured |-> config.paperTrading.configured]]

-----------------------------------------------------------------------------
Given == [SEC_USER_AGENT |-> "mailed", DATABASE_URL |-> "postgresql",
          REDIS_URL |-> "redis", INTERNAL_SERVICE_TOKEN |-> "long"]
Bare == [keyId |-> FALSE, secretKey |-> FALSE, finnhub |-> FALSE, fred |-> FALSE,
         trading |-> "absent", origin |-> "absent", signingKey |-> "absent", vapidPublic |-> FALSE,
         vapidPrivate |-> FALSE, subject |-> "absent", encryptionKey |-> "absent"]
Accepted == {o \in Optional : Refusal(Given, o) = ""}

\* A process that starts with trading enabled has credentials, a signing key for its
\* previews and the paper origin; with or without it no accepted environment leads to
\* another origin (loadServerConfig).
ASSUME TradingIsOnPaperOnly ==
  \A o \in Accepted :
    LET config == loadServerConfig(o) IN
    /\ config.paperTrading.baseUrl = "paper"
    /\ config.paperTrading.enabled =>
         config.paperTrading.configured /\ {"alpaca", "paperTrading"} \subseteq config.secrets
           /\ o.origin \in {"absent", "paper"}

\* Push is configured with all of its four values or with none of them, and what the
\* public status calls configured has its secret (publicStatus).
ASSUME StatusMatchesTheSecrets ==
  \A o \in Accepted :
    LET config == loadServerConfig(o)
        status == publicStatus(config) IN
    /\ status.notifications <=> "push" \in config.secrets
    /\ status.notifications \/ NoPush(o)
    /\ status.providers.alpaca <=> "alpaca" \in config.secrets
    /\ status.providers.fred <=> "fred" \in config.secrets

\* Nothing starts without each of the required values, everything starts with them alone,
\* and a provider's missing key never keeps a process from starting.
ASSUME OnlyRequiredValuesAreRequired ==
  /\ \A r \in Required : Refusal(r, Bare) = "" <=> r = Given
  /\ \A o \in Optional : \A f, g \in BOOLEAN :
       Refusal(Given, [o EXCEPT !.finnhub = f, !.fred = g]) = Refusal(Given, o)
=============================================================================
