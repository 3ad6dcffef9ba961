----------------------------- MODULE ModelReplies -----------------------------
(***************************************************************************)
(* What a provider's answer is read as: the response of one HTTP request,  *)
(* the body in the provider's own wire format, and the reply's text, which *)
(* must be exactly one JSON object of the required shape.                  *)
(***************************************************************************)
EXTENDS Integers

CONSTANTS
  MaxAttempts    \* TransportPolicy.max_attempts: requests one call may make

ASSUME RepliesAssumption == MaxAttempts \in Nat \ {0}

\* A choice of no listed control.
Null == -1

RetryableStatuses == {408, 429, 500, 502, 503, 504}

\* Reading a reply stops once it passes the size limit.
Arrived(response) == response.kind = "status" /\ response.status \in 200..299

Retryable(response) ==
  \/ response.kind \in {"timeout", "connection"}
  \/ response.kind = "status" /\ response.status \in RetryableStatuses

\* Whether a request that failed is made again: a pause the provider asks for
\* that is longer than the longest configured one ends the call.
MayRetry(response, attempt) ==
  Retryable(response) /\ attempt < MaxAttempts /\ response.retryAfter # "long"

-----------------------------------------------------------------------------
(* The wire formats.  A body that is no JSON object, or lacks the field     *)
(* that holds the message, is malformed; a reply that was filtered or       *)
(* refused is withheld, and one that reached the token limit is cut off.    *)

Malformed == [completion |-> "malformed", text |-> "none", tokens |-> FALSE]

Decoded(body, completion) ==
  [completion |-> completion, text |-> body.text, tokens |-> body.tokens]

Ended(body) == Decoded(body, IF body.finish = "limit" THEN "cut_off" ELSE "complete")

Withheld(body) == Decoded(body, "withheld")

\* Only a candidate that stopped by itself or at the limit is an answer.
GeminiDecode(body) ==
  IF ~body.object THEN Malformed
  ELSE IF body.refused THEN Withheld(body)
  ELSE IF ~body.message THEN Malformed
  ELSE IF body.finish \notin {"stop", "limit"} THEN Withheld(body)
  ELSE Ended(body)

OpenAIDecode(body) ==
  IF ~body.object \/ ~body.message THEN Malformed
  ELSE IF body.refused \/ body.finish = "filter" THEN Withheld(body)
  ELSE Ended(body)

OllamaDecode(body) ==
  IF ~body.object \/ ~body.message THEN Malformed ELSE Ended(body)

Decode(provider, body) ==
  CASE provider = "gemini" -> GeminiDecode(body)
    [] provider = "openai_compatible" -> OpenAIDecode(body)
    [] provider = "ollama" -> OllamaDecode(body)

-----------------------------------------------------------------------------
(* The text.                                                               *)

\* What is wrong with a text, or "none".
ParseChoice(text) ==
  IF text.objects = 0 /\ ~text.prose THEN "empty"
  ELSE IF text.objects # 1 \/ text.prose THEN "not_one_object"
  ELSE IF ~text.fields THEN "fields"
  ELSE IF ~text.integer THEN "choice"
  ELSE IF ~text.confidence THEN "confidence"
  ELSE IF ~text.reason THEN "reason"
  ELSE "none"

\* A problem the provider reports takes precedence over parsing.
Problem(decoded) ==
  IF decoded.completion = "complete" THEN ParseChoice(decoded.text) ELSE decoded.completion

OnTheList(choice, shown) == choice \in 1..shown
=============================================================================
