------------------------------ MODULE Provider ------------------------------
(***************************************************************************)
(* The model provider (harness/models/llamacpp.py, wire.py) and what the   *)
(* retry policy (harness/agent/retry.py) makes of its failures.  Pure      *)
(* operators, no state.                                                    *)
(*                                                                         *)
(* Abstracted: the payload, usage and timings, streaming (the loop does    *)
(* not stream), the texts of errors beyond what the markers find in them.  *)
(***************************************************************************)
EXTENDS Naturals

\* A request ends without an answer of the server, or with a status and a
\* body.  Of an error the body says what the markers recognise; of a success
\* it is a message, a JSON object without one, or no JSON object.
NoAnswer == {"connect_timeout", "timeout", "unreachable"}

Answers ==
  [status : {0}, says : NoAnswer]
  \union [status : {200}, says : {"message", "nothing", "garbage"}]
  \union [status : {400, 413, 500, 503},
          says   : {"overflow", "loading", "other"}]

\* generate, for a request that was not answered.
Unanswered(says) == IF says = "timeout" THEN "timeout" ELSE "unavailable"

\* Defect: a status of 500 and more is taken for a server that is down.
ClassifyByStatus(answer) ==
  IF answer.status >= 500 THEN "unavailable"
  ELSE IF answer.status = 413 \/ answer.says = "overflow" THEN "overflow"
  ELSE "rejected"

\* classify_error: what the body says comes before the status.
ClassifyError(answer) ==
  IF answer.status = 413 \/ answer.says = "overflow" THEN "overflow"
  ELSE IF answer.status >= 500 THEN "unavailable"
  ELSE "rejected"

\* generate: the error it raises, or "none".
ErrorOf(answer) ==
  CASE answer.status = 0   -> Unanswered(answer.says)
    [] answer.status = 200 -> IF answer.says = "garbage" THEN "rejected"
                                                         ELSE "none"
    [] OTHER               -> ClassifyError(answer)

\* RetryPolicy.for_provider_error: only a timeout is worth another attempt.
WorthRetrying(error) == error = "timeout"
=============================================================================
