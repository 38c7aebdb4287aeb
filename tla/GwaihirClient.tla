----------------------------- MODULE GwaihirClient -----------------------------
(***************************************************************************)
(* One call of SendWoL: internal/client/gwaihir/client.go and types.go.    *)
(* The request is retried after a failure of the network and after an      *)
(* answer that is neither a success nor a refusal, with a delay between    *)
(* the attempts; the context is that of the wake.                          *)
(*                                                                         *)
(* Time is in ticks.  GwInit, GwNext and so on have a prefix, as           *)
(* RequestPath extends this module.                                        *)
(***************************************************************************)
EXTENDS Integers, FiniteSetsExt

CONSTANTS
    MaxAttempts,  \* RetryConfig.MaxAttempts
    BaseDelay,    \* RetryConfig.BaseDelay
    MaxDelay,     \* maxBackoffDelay
    GwTimeout,    \* ClientConfig.Timeout, of one attempt
    Statuses      \* the status codes Gwaihir answers with

\* RetryConfig.Validate, validate, and what an HTTP status is.
ASSUME GwaihirAssumption ==
    /\ MaxAttempts \in Nat \ {0}
    /\ BaseDelay \in Nat \ {0}
    /\ MaxDelay \in Nat \ {0}
    /\ GwTimeout \in Nat \ {0}
    /\ Statuses \subseteq 200..599

VARIABLES
    call,        \* where sendWithRetry is
    attempt,     \* its loop variable
    statusCode,  \* its variable statusCode
    timer,       \* ticks left of the attempt, or of the backoff
    ctxDone,     \* the context of the wake is done
    sendResult,  \* what SendWoL returned
    sent,        \* history: the attempts that have ended
    answer       \* history: what became of the latest of them

gwVars == <<call, attempt, statusCode, timer, ctxDone, sendResult, sent, answer>>

\* A status, 0 when no answer arrived; whether its body did; and whether Gwaihir
\* has sent the magic packet.
Answers == [status : Statuses \cup {0}, read : BOOLEAN, woken : BOOLEAN]

Success(s)      == s \in 200..299
NonRetryable(s) == s \in 400..499

\* Gwaihir sends the packet with a success and not with a refusal; of an error of
\* its own, or an answer that is lost, nobody knows.
Woken(s) ==
    IF Success(s) THEN {TRUE} ELSE IF NonRetryable(s) THEN {FALSE} ELSE BOOLEAN

GwTypeOK ==
    /\ call \in {"idle", "sending", "backoff", "done"}
    /\ attempt \in 0..MaxAttempts
    /\ statusCode \in Statuses \cup {0}
    /\ timer \in Nat
    /\ ctxDone \in BOOLEAN
    /\ sendResult \in {"none", "nil", "authentication_failed", "machine_not_found",
                       "request_failed", "network_error", "interrupted"}
    /\ sent \in 0..MaxAttempts
    /\ answer \in Answers

GwInit ==
    /\ call = "idle"
    /\ attempt = 0
    /\ statusCode = 0
    /\ timer = 0
    /\ ctxDone = FALSE
    /\ sendResult = "none"
    /\ sent = 0
    /\ answer = [status |-> 0, read |-> FALSE, woken |-> FALSE]

\* RetryConfig.Backoff without its jitter: the delay doubles before each retry
\* but the first.
Delay[retry \in Nat] ==
    IF retry <= 1 THEN BaseDelay ELSE Min({2 * Delay[retry - 1], MaxDelay})

\* Mutant: the cap is forgotten.
BackoffUncapped(retry) == BaseDelay * 2 ^ (retry - 1) + MaxDelay

\* The cap holds for the first delay too.
Backoff(retry) == Min({Delay[retry], MaxDelay})

\* ... plus up to 10 % random jitter.
Jittered(d) == d..(d + d \div 10)

\* handleWoLResponse
HandleWoLResponse(s) ==
    CASE s = 401    -> "authentication_failed"
      [] s = 404    -> "machine_not_found"
      [] Success(s) -> "nil"
      [] OTHER      -> "request_failed"

\* SendWoL: the first attempt.
SendWoL ==
    /\ call = "idle"
    /\ call' = "sending"
    /\ attempt' = 1
    /\ timer' = GwTimeout
    /\ UNCHANGED <<statusCode, ctxDone, sendResult, sent, answer>>

Return(res) ==
    /\ call' = "done"
    /\ sendResult' = res
    /\ timer' = 0

\* Mutant: one attempt too many.
NextAttemptLate(s) ==
    /\ statusCode' = s
    /\ IF attempt <= MaxAttempts
       THEN /\ call' = "backoff"
            /\ \E d \in Jittered(Backoff(attempt)) : timer' = d
            /\ UNCHANGED sendResult
       ELSE Return(IF s = 0 THEN "network_error" ELSE HandleWoLResponse(s))

\* Mutant: the status of the attempt before decides.
NextAttemptStale(s) ==
    /\ statusCode' = s
    /\ IF attempt < MaxAttempts
       THEN /\ call' = "backoff"
            /\ \E d \in Jittered(Backoff(attempt)) : timer' = d
            /\ UNCHANGED sendResult
       ELSE Return(IF s = 0 THEN "network_error" ELSE HandleWoLResponse(statusCode))

\* The loop goes on; after its last attempt the status of that attempt decides.
NextAttempt(s) ==
    /\ statusCode' = s
    /\ IF attempt < MaxAttempts
       THEN /\ call' = "backoff"
            /\ \E d \in Jittered(Backoff(attempt)) : timer' = d
            /\ UNCHANGED sendResult
       ELSE Return(IF s = 0 THEN "network_error" ELSE HandleWoLResponse(s))

Answer(s, read) ==
    /\ call = "sending"
    /\ \E woken \in Woken(s) : answer' = [status |-> s, read |-> read, woken |-> woken]
    /\ sent' = sent + 1
    /\ UNCHANGED <<attempt, ctxDone>>

\* Mutant: only a success is final.
AnswerReadRetryAll(s) ==
    /\ ~ctxDone
    /\ Answer(s, TRUE)
    /\ IF Success(s)
       THEN Return(HandleWoLResponse(s)) /\ statusCode' = s
       ELSE NextAttempt(s)

\* An answer arrives with its body.
AnswerRead(s) ==
    /\ ~ctxDone
    /\ Answer(s, TRUE)
    /\ IF Success(s) \/ NonRetryable(s)
       THEN Return(HandleWoLResponse(s)) /\ statusCode' = s
       ELSE NextAttempt(s)

\* An answer whose body cannot be read: an error, but with the status.
AnswerCut(s) ==
    /\ Answer(s, FALSE)
    /\ NextAttempt(s)

\* No answer: Gwaihir does not listen, or the attempt times out, or the context
\* is done.  The command may have been executed all the same.
AnswerLost ==
    /\ Answer(0, FALSE)
    /\ NextAttempt(0)

\* sleepWithContext: the timer fires, ...
BackoffOver ==
    /\ call = "backoff"
    /\ timer = 0
    /\ call' = "sending"
    /\ attempt' = attempt + 1
    /\ timer' = GwTimeout
    /\ UNCHANGED <<statusCode, ctxDone, sendResult, sent, answer>>

\* ... or the context is done.
BackoffInterrupted ==
    /\ call = "backoff"
    /\ ctxDone
    /\ Return("interrupted")
    /\ UNCHANGED <<attempt, statusCode, ctxDone, sent, answer>>

GwStep ==
    \/ \E s \in Statuses : AnswerRead(s) \/ AnswerCut(s)
    \/ AnswerLost \/ BackoffOver \/ BackoffInterrupted

\* The wake's context ends (its timeout).
ContextEnds ==
    /\ ~ctxDone
    /\ ctxDone' = TRUE
    /\ UNCHANGED <<call, attempt, statusCode, timer, sendResult, sent, answer>>

\* The call has something to do before time passes.
GwDue == call \in {"sending", "backoff"} /\ (timer = 0 \/ ctxDone)

GwTick ==
    /\ ~GwDue
    /\ timer' = IF timer > 0 THEN timer - 1 ELSE 0
    /\ UNCHANGED <<call, attempt, statusCode, ctxDone, sendResult, sent, answer>>

GwNext == SendWoL \/ GwStep \/ ContextEnds \/ GwTick

GwSpec == GwInit /\ [][GwNext]_gwVars

--------------------------------------------------------------------------------
(* Properties *)

Pow2[k \in Nat] == IF k = 0 THEN 1 ELSE 2 * Pow2[k - 1]

\* The delay before a retry as types.go:69 describes it, by powers of two and one cap.
CappedDelay(retry) == Min({BaseDelay * Pow2[retry - 1], MaxDelay})

\* The first n delays together, with all the jitter they may have.
Slept[n \in Nat] ==
    IF n = 0 THEN 0 ELSE Slept[n - 1] + CappedDelay(n) + CappedDelay(n) \div 10

\* What the caller logs and counts as a sent command was one: SendWoL returns nil
\* exactly when the answer to the last attempt was a success, and any other result
\* but "interrupted" tells that answer (client.go:229-242, handleWoLResponse).
ResultTellsTheAnswer ==
    /\ sendResult = "nil" => Success(answer.status) /\ answer.woken
    /\ sendResult = "authentication_failed" => answer.status = 401
    /\ sendResult = "machine_not_found" => answer.status = 404
    /\ sendResult = "request_failed" =>
         answer.status # 0 /\ ~Success(answer.status) /\ answer.status \notin {401, 404}
    /\ sendResult = "network_error" => answer.status = 0
    /\ sendResult = "interrupted" => ctxDone

Definite(a) == a.read /\ (Success(a.status) \/ NonRetryable(a.status))

\* "Permanent errors (4xx) are never retried" (client.go:144), nor is a success:
\* no attempt follows a definite answer, unless its body could not be read.
DefiniteAnswersEnd == [][attempt > 0 /\ attempt' > attempt => ~Definite(answer)]_gwVars

\* One attempt after the other, at most the configured number, and the result comes
\* after the last: no attempt is under way when SendWoL has returned.
AttemptsAreCounted ==
    /\ attempt <= MaxAttempts
    /\ sent = IF call = "sending" THEN attempt - 1 ELSE attempt
    /\ call = "idle" <=> attempt = 0
    /\ call # "done" <=> sendResult = "none"
    /\ call = "backoff" => attempt < MaxAttempts
================================================================================
