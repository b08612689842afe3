----------------------------- MODULE OtlpExport -----------------------------
(***************************************************************************)
(* Exports through an OTLP exporter (opentelemetry-otlp/src/exporter/http, *)
(* exporter/tonic, retry.rs and retry_classification.rs), with the retry   *)
(* features on.  Calls of export run at the same time, as the processors   *)
(* with a runtime and the concurrent ones make them; each attempt takes    *)
(* the client out of its mutex, sends, and waits between attempts.  Any    *)
(* of these may meet a shutdown.                                           *)
(*                                                                         *)
(* The collector is external: it stores a batch, or refuses it, and its    *)
(* answer may be lost after it stored the batch.  Time is the sum of an    *)
(* export's delays, in the unit of the policy.                             *)
(*                                                                         *)
(* A definition marked as a slip is not part of the model: it is a wrong   *)
(* form of the definition after it, which the properties must reject.      *)
(***************************************************************************)
EXTENDS Integers, FiniteSets, FiniteSetsExt

CONSTANTS
    Exports,                                     \* bound: calls of export
    MaxRetries, InitialDelay, MaxDelay, JitterMax, \* RetryPolicy
    ServerDelays,                                \* delays the collector may ask for
    DelayCap,                                    \* the ten minutes it may ask for at most
    NoHint                                       \* no Retry-After, no RetryInfo

ASSUME RetryAssumption ==
    /\ {MaxRetries, InitialDelay, MaxDelay, JitterMax, DelayCap} \subseteq Nat
    /\ ServerDelays \subseteq Nat /\ InitialDelay <= MaxDelay

VARIABLES
    transport,                \* "http" or "grpc"
    clientThere,              \* the client has not been taken by shutdown
    xPc, attempt, delay,      \* an export: its step, and retry_with_backoff's locals
    failure,                  \* the error of the latest attempt
    answer,                   \* what export returned
    waited, throttles,        \* history: sum of the delays, how many the server set
    stored,                   \* history: how often the collector stored the batch
    lostAnswers               \* history: stores whose answer was lost

retryVars == <<attempt, delay, failure, waited, throttles>>
otlpVars == <<transport, clientThere, xPc, retryVars, answer, stored, lostAnswers>>

Error(code, hint) == [code |-> code, hint |-> hint]
NoError == Error("none", NoHint)
(* A hint is read with these only. *)
Throttling == {"429", "ResourceExhausted"}
Hints(code) == {NoHint} \cup (IF code \in Throttling THEN ServerDelays ELSE {})

(* Error kinds: one HTTP status or gRPC code stands for its class. *)
Codes == [http |-> {"Network", "429", "4xx", "5xx"},
          grpc |-> {"ResourceExhausted", "Unavailable", "Internal"}]
(* Without an answer the batch may have been stored. *)
AnswerMayBeLost(code) == code \in {"Network", "Unavailable"}
(* An attempt after shutdown: status 500, or FailedPrecondition. *)
AlreadyShutDown == Error(IF transport = "http" THEN "5xx" ELSE "Internal", NoHint)

Capped(hint) == Min({hint, DelayCap})

(* classify_http_error, classify_grpc_error *)
Classify(e) ==
    CASE e.code \in Throttling /\ e.hint # NoHint -> "Throttled"
      [] e.code \in {"Network", "429", "5xx", "Unavailable"}        -> "Retryable"
      [] OTHER                                                      -> "NonRetryable"

OtlpInit ==
    /\ transport \in {"http", "grpc"} /\ clientThere = TRUE
    /\ xPc = [x \in Exports |-> "new"] /\ attempt = [x \in Exports |-> 0]
    /\ delay = [x \in Exports |-> InitialDelay] /\ failure = [x \in Exports |-> NoError]
    /\ answer = [x \in Exports |-> "none"] /\ waited = [x \in Exports |-> 0]
    /\ throttles = [x \in Exports |-> 0] /\ stored = [x \in Exports |-> 0]
    /\ lostAnswers = [x \in Exports |-> 0]

(* The body is built once, before the first attempt; for HTTP that may fail. *)
BuildBody(x) ==
    /\ xPc[x] = "new"
    /\ \/ xPc' = [xPc EXCEPT ![x] = "attempt"] /\ UNCHANGED <<failure, answer>>
       \/ /\ transport = "http"
          /\ xPc' = [xPc EXCEPT ![x] = "done"]
          /\ answer' = [answer EXCEPT ![x] = "Err"]
          /\ failure' = [failure EXCEPT ![x] = Error("4xx", NoHint)]
    /\ UNCHANGED <<transport, clientThere, attempt, delay, waited, throttles, stored, lostAnswers>>

(* An attempt clones the client, or finds that it is gone.  What fails then  *)
(* before it is sent, the request or its interceptor, is among Fail.        *)
TakeClient(x) ==
    /\ xPc[x] = "attempt"
    /\ xPc' = [xPc EXCEPT ![x] = IF clientThere THEN "sent" ELSE "failed"]
    /\ failure' = [failure EXCEPT ![x] = IF clientThere THEN @ ELSE AlreadyShutDown]
    /\ UNCHANGED <<transport, clientThere, attempt, delay, waited, throttles, answer, stored,
                   lostAnswers>>

(* The collector stores the batch and the exporter gets to know. *)
Succeed(x) ==
    /\ xPc[x] = "sent"
    /\ stored' = [stored EXCEPT ![x] = @ + 1]
    /\ xPc' = [xPc EXCEPT ![x] = "done"]
    /\ answer' = [answer EXCEPT ![x] = "Ok"]
    /\ UNCHANGED <<transport, clientThere, retryVars, lostAnswers>>

Fail(x, e) ==
    /\ xPc[x] = "sent"
    /\ xPc' = [xPc EXCEPT ![x] = "failed"]
    /\ failure' = [failure EXCEPT ![x] = e]
    /\ \E lost \in IF AnswerMayBeLost(e.code) THEN {0, 1} ELSE {0} :
          /\ stored' = [stored EXCEPT ![x] = @ + lost]
          /\ lostAnswers' = [lostAnswers EXCEPT ![x] = @ + lost]
    /\ UNCHANGED <<transport, clientThere, attempt, delay, waited, throttles, answer>>

(* Slip: one retry too many. *)
OneRetryMore(x) == attempt[x] <= MaxRetries
RetriesLeft(x) == attempt[x] < MaxRetries

(* retry_with_backoff: the delay before the next attempt. *)
Delay(x) ==
    /\ xPc[x] = "failed" /\ RetriesLeft(x)
    /\ attempt' = [attempt EXCEPT ![x] = @ + 1]
    /\ \/ /\ Classify(failure[x]) = "Retryable"
          /\ \E jitter \in 0..JitterMax :
                waited' = [waited EXCEPT ![x] = @ + Min({delay[x] + jitter, MaxDelay})]
          /\ delay' = [delay EXCEPT ![x] = Min({2 * @, MaxDelay})]
          /\ UNCHANGED throttles
       \/ /\ Classify(failure[x]) = "Throttled"
          /\ waited' = [waited EXCEPT ![x] = @ + Capped(failure[x].hint)]
          /\ throttles' = [throttles EXCEPT ![x] = @ + 1]
          /\ UNCHANGED delay
    /\ xPc' = [xPc EXCEPT ![x] = "attempt"]
    /\ UNCHANGED <<transport, clientThere, failure, answer, stored, lostAnswers>>

GiveUp(x) ==
    /\ xPc[x] = "failed"
    /\ Classify(failure[x]) = "NonRetryable" \/ ~RetriesLeft(x)
    /\ xPc' = [xPc EXCEPT ![x] = "done"]
    /\ answer' = [answer EXCEPT ![x] = "Err"]
    /\ UNCHANGED <<transport, clientThere, retryVars, stored, lostAnswers>>

ShutdownClient ==
    /\ clientThere /\ clientThere' = FALSE
    /\ UNCHANGED <<transport, xPc, retryVars, answer, stored, lostAnswers>>

OtlpNext ==
    \/ \E x \in Exports :
          \/ BuildBody(x) \/ TakeClient(x) \/ Succeed(x) \/ Delay(x) \/ GiveUp(x)
          \/ \E code \in Codes[transport] : \E hint \in Hints(code) : Fail(x, Error(code, hint))
    \/ ShutdownClient

OtlpSpec == OtlpInit /\ [][OtlpNext]_otlpVars

-----------------------------------------------------------------------------
(* What an export returns is what became of its batch, with any number of   *)
(* attempts, lost answers and a shutdown in between: Ok means it was stored *)
(* and known to be, an error that the last attempt could not be repeated or *)
(* was the last of MaxRetries + 1; a batch is stored again only for a lost  *)
(* answer; and the delays are at most those of the policy and of the cap    *)
(* ("Maximum delay in milliseconds between retries", "Cap at 10 minutes").  *)
ExportOutcome ==
    \A x \in Exports :
        /\ stored[x] = lostAnswers[x] + (IF answer[x] = "Ok" THEN 1 ELSE 0)
        /\ answer[x] = "Err" =>
              Classify(failure[x]) = "NonRetryable" \/ attempt[x] = MaxRetries
        /\ stored[x] <= MaxRetries + 1
        /\ waited[x] <= (attempt[x] - throttles[x]) * MaxDelay + throttles[x] * DelayCap
=============================================================================
