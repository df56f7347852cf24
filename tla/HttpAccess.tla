------------------------------ MODULE HttpAccess ------------------------------
(***************************************************************************)
(* The two ways in which a page is fetched over HTTP.  "capture" is the    *)
(* foundation's (captureHttpArtifacts under executeWithAccessRetry): it    *)
(* retries under a policy, with one timeout for the response and another   *)
(* for its body.  "provider" is the SDK's (executeHttpProvider): it        *)
(* follows redirects itself, under one timeout for all of them.            *)
(*                                                                         *)
(* An aborted request is over; one that is only given up runs on.          *)
(***************************************************************************)
EXTENDS Integers, FiniteSets, Sequences

CONSTANTS RetryAttempts,  \* maxAttempts of the plan, which is its retry policy's
          BaseDelay, MaxDelay,
          MaxRedirects

ASSUME HttpAssumption ==
    /\ RetryAttempts \in Nat \ {0} /\ MaxRedirects \in Nat
    /\ BaseDelay \in Nat \ {0} /\ MaxDelay \in Nat /\ BaseDelay <= MaxDelay

VARIABLES client,     \* "capture" or "provider", or "idle" before the call
          fetchAt,    \* "fetch", "body", "delay", "answered"
          sent,       \* requests sent, numbered from 1
          open,       \* the requests that have not ended, with what they wait for
          redirects,  \* redirectCount
          verdicts,  \* delays of the retries that were decided
          reply       \* "none", "page", "failure" or "exhausted"

httpVars == <<client, fetchAt, sent, open, redirects, verdicts, reply>>

HttpInit ==
    /\ client = "idle" /\ fetchAt = "fetch"
    /\ sent = 0 /\ open = {} /\ redirects = 0
    /\ verdicts = <<>> /\ reply = "none"

-----------------------------------------------------------------------------
Send ==
    /\ sent' = sent + 1
    /\ open' = open \cup {[request |-> sent + 1, part |-> "response"]}

CallHttp(who) ==
    /\ client = "idle"
    /\ client' = who
    /\ Send
    /\ UNCHANGED <<fetchAt, redirects, verdicts, reply>>

Calling(part) ==
    fetchAt = (IF part = "response" THEN "fetch" ELSE "body") /\ client # "idle"

Current(part) == [request |-> sent, part |-> part]

AnswerHttp(what) == fetchAt' = "answered" /\ reply' = what

\* min(maxDelayMs, baseDelayMs * 2^(attempt - 1))
DelayAfter(attempt) ==
    LET delay == BaseDelay * 2 ^ (attempt - 1) IN IF delay < MaxDelay THEN delay ELSE MaxDelay

\* A failure of an attempt: another one after a delay, unless it was the last.  The
\* provider does not retry.
AttemptFails ==
    IF client = "provider" THEN AnswerHttp("failure") /\ UNCHANGED verdicts
    ELSE IF Len(verdicts) + 1 >= RetryAttempts
    THEN AnswerHttp("exhausted") /\ UNCHANGED verdicts
    ELSE /\ verdicts' = Append(verdicts, DelayAfter(Len(verdicts) + 1))
         /\ fetchAt' = "delay" /\ UNCHANGED reply

Delayed ==
    /\ fetchAt = "delay"
    /\ fetchAt' = "fetch"
    /\ Send
    /\ UNCHANGED <<client, redirects, verdicts, reply>>

\* The capture's fetch follows redirects itself, so every response is one with a body.
Respond ==
    /\ Calling("response")
    /\ fetchAt' = "body"
    /\ open' = (open \ {Current("response")}) \cup {Current("body")}
    /\ UNCHANGED <<client, sent, redirects, verdicts, reply>>

\* The provider's response may be a redirect: to a next url if it names one and there
\* are hops left.  Its body is not read.
Redirect(located) ==
    /\ client = "provider" /\ Calling("response")
    /\ redirects' = IF redirects < MaxRedirects THEN redirects + 1 ELSE redirects
    /\ IF located /\ redirects < MaxRedirects
       THEN /\ sent' = sent + 1
            /\ open' = {[request |-> sent + 1, part |-> "response"]}
            /\ UNCHANGED <<fetchAt, reply>>
       ELSE AnswerHttp("failure") /\ open' = {} /\ UNCHANGED sent
    /\ UNCHANGED <<client, verdicts>>

\* A bad status without a wall fails the provider's access, but not a capture.
BodyRead(accepted) ==
    /\ Calling("body")
    /\ open' = open \ {Current("body")}
    /\ AnswerHttp(IF accepted \/ client = "capture" THEN "page" ELSE "failure")
    /\ UNCHANGED <<client, sent, redirects, verdicts>>

RequestFails(part) ==
    /\ Calling(part)
    /\ open' = open \ {Current(part)}
    /\ AttemptFails
    /\ UNCHANGED <<client, sent, redirects>>

\* A bug for the checks to find: a timeout ends the wait, but not the request.
GiveUpOnly(part) ==
    /\ Calling(part)
    /\ UNCHANGED open
    /\ AttemptFails
    /\ UNCHANGED <<client, sent, redirects>>

\* The timeout aborts the request, except for the body of a capture, whose read has no
\* signal: it is only given up, and the retry sends the next request beside it.
TimeoutHttp(part) ==
    /\ Calling(part)
    /\ open' = IF client = "capture" /\ part = "body" THEN open ELSE open \ {Current(part)}
    /\ AttemptFails
    /\ UNCHANGED <<client, sent, redirects>>

\* A body that was given up ends at last.
AbandonedBodyEnds ==
    /\ \E r \in open :
          /\ r.part = "body" /\ (r # Current("body") \/ fetchAt # "body")
          /\ open' = open \ {r}
    /\ UNCHANGED <<client, fetchAt, sent, redirects, verdicts, reply>>

HttpNext ==
    \/ \E who \in {"capture", "provider"} : CallHttp(who)
    \/ Delayed \/ Respond
    \/ \E flag \in BOOLEAN : Redirect(flag) \/ BodyRead(flag)
    \/ \E part \in {"response", "body"} : RequestFails(part) \/ TimeoutHttp(part)
    \/ AbandonedBodyEnds

-----------------------------------------------------------------------------
\* A retry never races the attempt it replaces: at most one request waits for its
\* response, and once the provider has answered, by a page, a failure or its timeout,
\* nothing of it runs on.  Only bodies a capture gave up may be open beside, one for
\* each retry that it decided or the last attempt.
OneRequestAtATime ==
    /\ Cardinality({r \in open : r.part = "response"}) <= 1
    /\ client = "provider" /\ fetchAt = "answered" => open = {}
    /\ \A r \in open : r.part = "response" => r.request = sent /\ fetchAt = "fetch"
    /\ Cardinality(open) <= Len(verdicts) + 1
=============================================================================
