------------------------------ MODULE Failover ------------------------------
(***************************************************************************)
(* The scheduling loop of handleProxy: pick a provider, call it, retry it  *)
(* or fail over to another one, answer the client.  The settings that      *)
(* bound the loop can change at every step (LoadProxySettings), and so can *)
(* the providers the router would offer: health checks, cooldowns, reloads *)
(* and other requests decide on them.                                      *)
(*                                                                         *)
(* A call is abstracted to what ShouldFailover and the loop make of it.    *)
(* ForwardSmart never sets Truncated, so that the branch of the loop that  *)
(* raises max_tokens is never taken and has no action here.                *)
(***************************************************************************)
EXTENDS Integers

CONSTANTS
  Providers,
  Requests,
  None,             \* no provider
  ProviderRetries,  \* ProviderRetries[p]: max_retries of provider p
  MaxFailover,      \* bound: the setting max_failover never exceeds it
  MaxRetryCount     \* bound: the setting max_retry_count never exceeds it

ASSUME FailoverAssumption ==
  /\ None \notin Providers
  /\ ProviderRetries \in [Providers -> Nat]
  /\ MaxFailover \in Nat /\ MaxRetryCount \in Nat

VARIABLES
  setting,  \* the settings max_failover and max_retry_count
  offered,  \* the providers SelectProvider finds, exclusions apart
  req       \* req[r]: the progress of request r

vars == <<setting, offered, req>>

Setting == [failover : 0..MaxFailover, retry : 0..MaxRetryCount]

-----------------------------------------------------------------------------
(***************************************************************************)
(* Results of an upstream call.  "spent": quota used up; "refused": 401 or *)
(* 403; "limited": a rate limit of more than a minute; "brief": a shorter  *)
(* one or a timeout the upstream reports; "broken": any other failure;     *)
(* "cut": a well-formed answer with finish_reason length.                  *)
(***************************************************************************)

Good == {"ok", "cut"}

\* An upstream can report anything but a refusal in the body of a 200.
Result ==
  [kind : Good, code : {200}]
    \cup [kind : {"spent", "limited", "brief", "broken"}, code : {200, 500}]
    \cup [kind : {"refused"}, code : {401}]

ShouldFailover(result) == result.kind \notin Good
ShouldRetrySame(result) == result.kind = "brief"

Phase == {"idle", "choosing", "calling", "retrying", "recalling", "streaming", "done"}
Answer == {"none", "served", "rejected", "unavailable", "failed"}

\* excluded, provider, retry, and last, the status of lastResult (0: none), are
\* variables of the handler; preferred is dropped once the first call is made.
\* calls, sent, heard, records count what it did: upstream calls, calls per
\* provider, successful calls, and calls of RecordRequest.
Idle ==
  [phase |-> "idle", stream |-> FALSE, preferred |-> None, attempt |-> 0,
   excluded |-> {}, provider |-> None, retry |-> 0, last |-> 0,
   answer |-> "none", code |-> 0,
   calls |-> 0, sent |-> [p \in Providers |-> 0], heard |-> {}, records |-> 0]

Init ==
  /\ setting \in Setting
  /\ offered \in SUBSET Providers
  /\ req = [r \in Requests |-> Idle]

-----------------------------------------------------------------------------
At(r, phase) == req[r].phase = phase

Become(r, q) == req' = [req EXCEPT ![r] = q] /\ UNCHANGED <<setting, offered>>

\* cost_optimal may have chosen a provider already, of those on offer then.
Arrive(r) ==
  /\ At(r, "idle")
  /\ \E p \in offered \cup {None}, s \in BOOLEAN :
       Become(r, [Idle EXCEPT !.phase = "choosing", !.stream = s, !.preferred = p])

InLoop(r) == At(r, "choosing") /\ req[r].attempt <= setting.failover

\* At first the preselected provider, or one the router selects instead: one
\* that speaks the protocol of a request with tools.
Picks(r) ==
  (offered \ req[r].excluded) \cup ({req[r].preferred} \ {None})

Called(q, p) == [q EXCEPT !.calls = @ + 1, !.sent[p] = @ + 1]

Forward(r, p) ==
  /\ InLoop(r) /\ p \in Picks(r)
  /\ Become(r, [Called(req[r], p) EXCEPT !.phase = "calling", !.provider = p, !.preferred = None])

Answered(q, answer, code, recorded) ==
  [q EXCEPT !.phase = "done", !.answer = answer, !.code = code, !.records = @ + recorded]

\* SanitizeRequest finds the request unfit for the provider.
Reject(r) ==
  /\ InLoop(r) /\ Picks(r) # {}
  /\ Become(r, Answered(req[r], "rejected", 400, 0))

\* An exit of the loop that leaves no record.
UnavailableUnrecorded(r) ==
  /\ InLoop(r) /\ Picks(r) = {}
  /\ Become(r, Answered(req[r], "unavailable", 503, 0))

\* A handler that waits until a provider is on offer again.
UnavailableWaits(r) == InLoop(r) /\ Picks(r) = {} /\ Become(r, req[r])

\* No provider left: 503, and a record of the last failure if there was one.
Unavailable(r) ==
  /\ InLoop(r) /\ Picks(r) = {}
  /\ Become(r, Answered(req[r], "unavailable", 503, IF req[r].last = 0 THEN 0 ELSE 1))

\* The loop has run out: the client gets the status of the last failure.
AllFailed(r) ==
  /\ At(r, "choosing") /\ ~InLoop(r) /\ req[r].last # 0
  /\ Become(r, Answered(req[r], "failed", req[r].last, 1))

Served(q, result) ==
  [Answered(q, "served", result.code, 1) EXCEPT !.heard = {result.kind}]

\* The call succeeds: recorded, then written or streamed to the client.
Succeed(r) ==
  /\ At(r, "calling")
  /\ \E result \in Result :
       /\ ~ShouldFailover(result)
       /\ Become(r, IF req[r].stream
                      THEN [Served(req[r], result) EXCEPT !.phase = "streaming"]
                      ELSE Served(req[r], result))

\* A stream that breaks off or that reports its usage is recorded again.
StreamEnds(r) ==
  /\ At(r, "streaming")
  /\ \E again \in {0, 1} :
       Become(r, [req[r] EXCEPT !.phase = "done", !.records = @ + again])

NextProvider(q) == [q EXCEPT !.phase = "choosing", !.attempt = @ + 1, !.retry = 0]

\* A failure that does not exclude the provider.
FailForgets(r) ==
  /\ At(r, "calling")
  /\ \E result \in Result :
       /\ ShouldFailover(result)
       /\ LET q == [req[r] EXCEPT !.last = result.code] IN
          Become(r, IF ShouldRetrySame(result) THEN [q EXCEPT !.phase = "retrying"]
                    ELSE NextProvider(q))

\* The call fails: the provider is excluded, and retried when that may help.
Fail(r) ==
  /\ At(r, "calling")
  /\ \E result \in Result :
       /\ ShouldFailover(result)
       /\ LET q == [req[r] EXCEPT !.last = result.code, !.excluded = @ \cup {req[r].provider}] IN
          Become(r, IF ShouldRetrySame(result)
                      THEN [q EXCEPT !.phase = "retrying"]
                      ELSE NextProvider(q))

\* Retries that only the provider's max_retries limits.
MayRetryUnset(r) == req[r].retry < ProviderRetries[req[r].provider]

MayRetry(r) ==
  req[r].retry < ProviderRetries[req[r].provider] /\ req[r].retry < setting.retry

Retry(r) ==
  /\ At(r, "retrying") /\ MayRetry(r)
  /\ Become(r, [Called(req[r], req[r].provider) EXCEPT !.phase = "recalling"])

GiveUp(r) ==
  /\ At(r, "retrying") /\ ~MayRetry(r)
  /\ Become(r, NextProvider(req[r]))

\* A retry whose success does not end the handler.
RetrySucceedsUnnoticed(r) ==
  /\ At(r, "recalling")
  /\ \E result \in Result :
       /\ ~ShouldFailover(result)
       /\ Become(r, NextProvider([req[r] EXCEPT !.heard = {result.kind}]))

\* A retry that succeeds is recorded once, streamed or not.
RetrySucceeds(r) ==
  /\ At(r, "recalling")
  /\ \E result \in Result :
       ~ShouldFailover(result) /\ Become(r, Served(req[r], result))

\* Retries counted down.
RetryFailsCountsDown(r) ==
  /\ At(r, "recalling")
  /\ Become(r, [req[r] EXCEPT !.phase = "retrying", !.retry = @ - 1])

\* Whatever way a retry fails, the loop of retries goes on.
RetryFails(r) ==
  /\ At(r, "recalling")
  /\ Become(r, [req[r] EXCEPT !.phase = "retrying", !.retry = @ + 1])

Handle(r) ==
  \/ \E p \in Providers : Forward(r, p)
  \/ Reject(r)
  \/ Unavailable(r)
  \/ AllFailed(r)
  \/ Succeed(r)
  \/ StreamEnds(r)
  \/ Fail(r)
  \/ Retry(r)
  \/ GiveUp(r)
  \/ RetrySucceeds(r)
  \/ RetryFails(r)

\* The rest of the gateway: new settings, other providers on offer.
Change ==
  /\ \/ setting' \in Setting /\ UNCHANGED offered
     \/ \E p \in Providers : offered' \in {offered \cup {p}, offered \ {p}} /\ UNCHANGED setting
  /\ UNCHANGED req

Next == Change \/ \E r \in Requests : Arrive(r) \/ Handle(r)

Spec == Init /\ [][Next]_vars

\* The handler runs on, and the client timeout ends every upstream call.
FairSpec == Spec /\ \A r \in Requests : WF_vars(Handle(r))

-----------------------------------------------------------------------------
(***************************************************************************)
(* Properties                                                              *)
(***************************************************************************)

Request ==
  [phase : Phase, stream : BOOLEAN, preferred : Providers \cup {None}, attempt : Nat,
   excluded : SUBSET Providers, provider : Providers \cup {None}, retry : Nat,
   last : Nat, answer : Answer, code : Nat,
   calls : Nat, sent : [Providers -> Nat], heard : SUBSET Good, records : Nat]

\* Types of the state of the handler.
TypeOK ==
  /\ setting \in Setting
  /\ offered \in SUBSET Providers
  /\ req \in [Requests -> Request]

\* One request costs the upstreams a bounded number of calls, however the
\* settings and the providers on offer change while it is under way.
CallsBounded ==
  \A r \in Requests : req[r].calls <= (MaxFailover + 1) * (MaxRetryCount + 1)

\* A provider that failed a request is never chosen for it again: it is called
\* at most once and as often again as its own max_retries allows.
ProviderSpared ==
  \A r \in Requests, p \in Providers : req[r].sent[p] <= 1 + ProviderRetries[p]

\* The client gets an upstream's answer exactly when one came: a success is
\* neither dropped for another provider nor made up.
SuccessIsDelivered ==
  \A r \in Requests :
    /\ req[r].answer = "served" => req[r].heard # {}
    /\ req[r].heard # {} => req[r].answer = "served"

\* RecordRequest is called exactly once for a request that is not streamed and
\* made upstream calls, on whichever of its exits the handler leaves; the 400
\* of SanitizeRequest after a failed call is the exception.
RecordedOnce ==
  \A r \in Requests :
    req[r].phase = "done" /\ req[r].calls > 0 /\ req[r].answer # "rejected"
      => IF req[r].stream THEN req[r].records \in 1..2 ELSE req[r].records = 1

\* Every request is answered, even when the settings never stop changing.
EveryRequestAnswered ==
  \A r \in Requests : req[r].phase = "choosing" ~> req[r].phase = "done"

\* docs/01-entry-handlers.md: "所有降级都失败 → 返回最后一个错误" (when every
\* fallback failed, the last error is returned): what the client gets then is
\* an error status.
FailureIsAnError ==
  \A r \in Requests : req[r].answer = "failed" => req[r].code >= 400

\* docs/00-overview.md: "截断 → 同Provider增大max_tokens重试": an answer cut off by
\* its length is not delivered before the provider was called a second time.
CutIsRetried ==
  \A r \in Requests :
    "cut" \in req[r].heard => req[r].sent[req[r].provider] > 1

=============================================================================
