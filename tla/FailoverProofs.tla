--------------------------- MODULE FailoverProofs ---------------------------
(***************************************************************************)
(* Proofs about the scheduling loop, for any providers, settings and       *)
(* requests.  The argument is about one request: Sound holds of its state  *)
(* when it arrives and is kept by each step of its handler, whatever the   *)
(* settings and the providers on offer have become in between.             *)
(***************************************************************************)
EXTENDS Failover, TLAPS

\* The most upstream calls that n providers can cost.
Budget(n) == n * (MaxRetryCount + 1)

\* What each phase can have cost so far.
CallInv(q) ==
  /\ q.phase = "idle" => q.calls = 0
  /\ q.phase = "choosing" =>
       q.retry = 0 /\ q.attempt <= MaxFailover + 1 /\ q.calls <= Budget(q.attempt)
  /\ q.phase = "calling" =>
       q.retry = 0 /\ q.attempt <= MaxFailover /\ q.calls <= Budget(q.attempt) + 1
  /\ q.phase = "retrying" =>
       /\ q.retry <= MaxRetryCount /\ q.attempt <= MaxFailover
       /\ q.calls <= Budget(q.attempt) + 1 + q.retry
  /\ q.phase = "recalling" =>
       /\ q.retry < MaxRetryCount /\ q.attempt <= MaxFailover
       /\ q.calls <= Budget(q.attempt) + 2 + q.retry
  /\ q.calls <= Budget(MaxFailover + 1)

\* A provider was called only if it is excluded or being called now.
SentInv(q) ==
  /\ \A p \in Providers : q.sent[p] <= 1 + ProviderRetries[p]
  /\ q.phase \in {"idle", "choosing"} =>
       \A p \in Providers : p \notin q.excluded => q.sent[p] = 0
  /\ q.phase \in {"idle", "choosing"} => q.preferred \notin q.excluded
  /\ q.phase = "calling" =>
       /\ q.provider \in Providers \ q.excluded
       /\ q.sent[q.provider] = 1 /\ q.preferred = None
       /\ \A p \in Providers : p \notin q.excluded \cup {q.provider} => q.sent[p] = 0
  /\ q.phase \in {"retrying", "recalling"} =>
       /\ q.provider \in Providers /\ q.provider \in q.excluded /\ q.preferred = None
       /\ \A p \in Providers : p \notin q.excluded => q.sent[p] = 0
  /\ q.phase = "retrying" => q.sent[q.provider] = 1 + q.retry
  /\ q.phase = "recalling" =>
       q.sent[q.provider] = 2 + q.retry /\ q.retry < ProviderRetries[q.provider]

Open == {"idle", "choosing", "calling", "retrying", "recalling"}

\* An open request has no answer and no record; one whose calls have all come
\* back and are not in vain has the status of a failed call to report.
AnswerInv(q) ==
  /\ q.phase \in Open => q.answer = "none" /\ q.heard = {} /\ q.records = 0
  /\ q.phase = "choosing" => (q.last = 0 => q.calls = 0)
  /\ q.phase \in {"retrying", "recalling"} => q.last # 0
  /\ q.phase = "streaming" => q.stream /\ q.records = 1
  /\ q.heard # {} <=> q.answer = "served"
  /\ q.phase = "done" /\ q.calls > 0 /\ q.answer # "rejected" =>
       IF q.stream THEN q.records \in 1..2 ELSE q.records = 1

Sound(q) == q \in Request /\ CallInv(q) /\ SentInv(q) /\ AnswerInv(q)

IInv == TypeOK /\ \A r \in Requests : Sound(req[r])

-----------------------------------------------------------------------------
\* Budget grows by one provider's calls at a time and never shrinks.
LEMMA BudgetFacts ==
  ASSUME NEW n \in Nat
  PROVE  /\ Budget(n) \in Nat
         /\ Budget(n + 1) = Budget(n) + MaxRetryCount + 1
         /\ Budget(0) = 0
         /\ n <= MaxFailover => Budget(n) + MaxRetryCount + 1 <= Budget(MaxFailover + 1)
<1>1. MaxRetryCount \in Nat /\ MaxFailover \in Nat
  BY FailoverAssumption
<1>2. Budget(n) \in Nat /\ Budget(n + 1) = Budget(n) + MaxRetryCount + 1 /\ Budget(0) = 0
  BY <1>1 DEF Budget
<1>3. ASSUME n <= MaxFailover
      PROVE  Budget(n) + MaxRetryCount + 1 <= Budget(MaxFailover + 1)
  <2> DEFINE d == MaxFailover - n
             k == MaxRetryCount + 1
  <2>1. d \in Nat /\ k \in Nat /\ MaxFailover + 1 = n + 1 + d
    BY <1>1, <1>3
  <2>2. d * k >= 0
    BY <2>1
  <2>3. (n + 1 + d) * k = n * k + k + d * k
    BY <2>1
  <2>4. Budget(MaxFailover + 1) = n * k + k + d * k
    BY <2>1, <2>3 DEF Budget
  <2>5. Budget(n) = n * k /\ n * k \in Nat /\ d * k \in Nat
    BY <2>1 DEF Budget
  <2> HIDE DEF d
  <2> QED
    BY <1>1, <2>2, <2>4, <2>5
<1> QED
  BY <1>2, <1>3

\* A new request.
LEMMA ArriveSound ==
  ASSUME NEW p \in Providers \cup {None}, NEW s \in BOOLEAN
  PROVE  /\ Sound(Idle)
         /\ Sound([Idle EXCEPT !.phase = "choosing", !.stream = s, !.preferred = p])
<1> USE FailoverAssumption
<1>1. Budget(0) = 0 /\ Budget(MaxFailover + 1) \in Nat
  BY BudgetFacts
<1> DEFINE new == [Idle EXCEPT !.phase = "choosing", !.stream = s, !.preferred = p]
<1>2. Idle \in Request /\ new \in Request
  BY DEF Idle, Request, Phase, Answer
<1>3. CallInv(Idle) /\ CallInv(new)
  BY <1>1 DEF Idle, CallInv
<1>4. SentInv(Idle) /\ SentInv(new)
  BY DEF Idle, SentInv
<1>5. AnswerInv(Idle) /\ AnswerInv(new)
  BY DEF Idle, AnswerInv, Open
<1> QED
  BY <1>2, <1>3, <1>4, <1>5 DEF Sound

\* The codes of failed calls are not 0, the mark of no failure.
LEMMA ResultFacts ==
  ASSUME NEW result \in Result
  PROVE  /\ result.code \in Nat /\ result.code # 0
         /\ ~ShouldFailover(result) => result.kind \in Good
BY DEF Result, Good, ShouldFailover

\* What counting a call changes.
LEMMA CalledFacts ==
  ASSUME NEW q \in Request, NEW p \in Providers
  PROVE  /\ Called(q, p) \in Request
         /\ Called(q, p).calls = q.calls + 1
         /\ \A x \in Providers :
              Called(q, p).sent[x] = IF x = p THEN q.sent[x] + 1 ELSE q.sent[x]
         /\ \A f \in {"phase", "attempt", "retry", "excluded", "last", "answer",
                       "heard", "records", "preferred", "provider"} :
              Called(q, p)[f] = q[f]
<1>1. q.calls + 1 \in Nat /\ [q.sent EXCEPT ![p] = q.sent[p] + 1] \in [Providers -> Nat]
  <2>1. q.calls \in Nat /\ q.sent \in [Providers -> Nat]
    BY DEF Request
  <2> QED
    BY <2>1
<1>2. Called(q, p) = [[q EXCEPT !.calls = q.calls + 1] EXCEPT !.sent = [q.sent EXCEPT ![p] = q.sent[p] + 1]]
  BY DEF Called
<1>3. Called(q, p) \in Request
  <2>1. [q EXCEPT !.calls = q.calls + 1] \in Request
    BY <1>1, Zenon DEF Request
  <2> QED
    BY <1>1, <1>2, <2>1, Zenon DEF Request
<1>4. Called(q, p).calls = q.calls + 1
  BY DEF Called, Request
<1>5. Called(q, p).sent = [q.sent EXCEPT ![p] = q.sent[p] + 1] /\ q.sent \in [Providers -> Nat]
  BY DEF Called, Request
<1>6. \A f \in {"phase", "attempt", "retry", "excluded", "last", "answer",
               "heard", "records", "preferred", "provider"} : Called(q, p)[f] = q[f]
  BY DEF Called, Request
<1>7. ASSUME NEW x \in Providers
      PROVE  Called(q, p).sent[x] = IF x = p THEN q.sent[x] + 1 ELSE q.sent[x]
  BY <1>5
<1> QED
  BY <1>3, <1>4, <1>6, <1>7

\* A call to a provider that has not failed the request.
LEMMA ForwardSound ==
  ASSUME NEW q, Sound(q), q.phase = "choosing", q.attempt <= MaxFailover,
         NEW p \in Providers, p \notin q.excluded
  PROVE  Sound([Called(q, p) EXCEPT !.phase = "calling", !.provider = p, !.preferred = None])
<1> DEFINE new == [Called(q, p) EXCEPT !.phase = "calling", !.provider = p, !.preferred = None]
<1> USE FailoverAssumption
<1>1. q \in Request /\ CallInv(q) /\ SentInv(q) /\ AnswerInv(q)
  BY DEF Sound
<1>2. new \in Request
  <2>1. /\ q.calls + 1 \in Nat /\ [q.sent EXCEPT ![p] = @ + 1] \in [Providers -> Nat]
        /\ "calling" \in Phase /\ p \in Providers \cup {None} /\ None \in Providers \cup {None}
    <3>1. q.calls \in Nat /\ q.sent \in [Providers -> Nat]
      BY <1>1 DEF Request
    <3> QED
      BY <3>1 DEF Phase
  <2> QED
    BY <1>1, <2>1, Zenon DEF Request, Called
<1>3. CallInv(new)
  <2>1. /\ q.attempt \in Nat /\ q.calls \in Nat /\ q.retry = 0 /\ q.calls <= Budget(q.attempt)
        /\ new.calls = q.calls + 1 /\ new.phase = "calling"
        /\ new.attempt = q.attempt /\ new.retry = q.retry
    BY <1>1 DEF Request, Called, CallInv
  <2>2. /\ Budget(q.attempt) \in Nat /\ Budget(MaxFailover + 1) \in Nat
        /\ Budget(q.attempt) + MaxRetryCount + 1 <= Budget(MaxFailover + 1)
    BY <2>1, BudgetFacts
  <2> HIDE DEF new
  <2> QED
    BY <2>1, <2>2 DEF CallInv
<1>4. SentInv(new)
  <2>1. /\ new.sent = [q.sent EXCEPT ![p] = @ + 1] /\ q.sent \in [Providers -> Nat]
        /\ new.provider = p /\ new.preferred = None /\ new.phase = "calling"
        /\ new.excluded = q.excluded
    BY <1>1, Zenon DEF Request, Called
  <2>2. \A x \in Providers :
          q.sent[x] <= 1 + ProviderRetries[x] /\ (x \notin q.excluded => q.sent[x] = 0)
    BY <1>1 DEF SentInv
  <2>3. ASSUME NEW x \in Providers
        PROVE  new.sent[x] = IF x = p THEN 1 ELSE q.sent[x]
    <3> HIDE DEF new
    <3> QED
      BY <2>1, <2>2
  <2> HIDE DEF new
  <2> QED
    BY <2>1, <2>2, <2>3 DEF SentInv
<1>5. AnswerInv(new)
  <2>1. /\ q.answer = "none" /\ q.heard = {} /\ q.records = 0
        /\ new.answer = q.answer /\ new.heard = q.heard /\ new.records = q.records
        /\ new.phase = "calling"
    BY <1>1 DEF Request, Called, AnswerInv, Open
  <2> HIDE DEF new
  <2> QED
    BY <2>1 DEF AnswerInv, Open
<1> QED
  BY <1>2, <1>3, <1>4, <1>5 DEF Sound

\* An answer other than an upstream's: each is recorded as its exit records it.
LEMMA AnsweredSound ==
  ASSUME NEW q, Sound(q), q.phase = "choosing",
         NEW answer \in {"rejected", "unavailable", "failed"}, NEW code \in Nat,
         NEW recorded \in {0, 1},
         answer = "rejected" \/ recorded = (IF q.last = 0 THEN 0 ELSE 1)
  PROVE  Sound(Answered(q, answer, code, recorded))
<1> DEFINE new == Answered(q, answer, code, recorded)
<1> USE FailoverAssumption
<1>1. q \in Request /\ CallInv(q) /\ SentInv(q) /\ AnswerInv(q)
  BY DEF Sound
<1>2. new \in Request
  <2>1. q.records + recorded \in Nat /\ answer \in Answer /\ "done" \in Phase
    BY <1>1 DEF Request, Answer, Phase
  <2> QED
    BY <1>1, <2>1, Zenon DEF Request, Answered
<1>3. /\ new.phase = "done" /\ new.answer = answer /\ new.records = q.records + recorded
      /\ new.calls = q.calls /\ new.sent = q.sent /\ new.heard = q.heard
      /\ new.stream = q.stream
  BY <1>1 DEF Request, Answered
<1>4. q.heard = {} /\ q.records = 0 /\ (q.last = 0 => q.calls = 0) /\ q.calls \in Nat
  BY <1>1 DEF AnswerInv, Open, Request
<1> HIDE DEF new
<1>5. CallInv(new)
  BY <1>1, <1>3 DEF CallInv
<1>6. SentInv(new)
  BY <1>1, <1>3 DEF SentInv
<1>7. AnswerInv(new)
  BY <1>3, <1>4 DEF AnswerInv, Open
<1> QED
  BY <1>2, <1>5, <1>6, <1>7 DEF Sound, new

\* An upstream's answer, to a first call or to a retry; a first call may be
\* streamed on.
LEMMA ServedSound ==
  ASSUME NEW q, Sound(q), q.phase \in {"calling", "recalling"},
         NEW result \in Result, ~ShouldFailover(result)
  PROVE  /\ Sound(Served(q, result))
         /\ q.stream => Sound([Served(q, result) EXCEPT !.phase = "streaming"])
<1> DEFINE new == Served(q, result)
           flowing == [Served(q, result) EXCEPT !.phase = "streaming"]
<1> USE FailoverAssumption
<1>1. q \in Request /\ CallInv(q) /\ SentInv(q) /\ AnswerInv(q)
  BY DEF Sound
<1>2. new \in Request /\ flowing \in Request
  <2>1. /\ q.records + 1 \in Nat /\ "served" \in Answer /\ {"done", "streaming"} \subseteq Phase
        /\ result.code \in Nat /\ {result.kind} \in SUBSET Good
    BY <1>1, ResultFacts DEF Request, Answer, Phase
  <2> QED
    BY <1>1, <2>1, Zenon DEF Request, Served, Answered
<1>3. /\ new.phase = "done" /\ new.answer = "served" /\ new.records = q.records + 1
      /\ new.calls = q.calls /\ new.sent = q.sent /\ new.heard = {result.kind}
      /\ new.stream = q.stream
  BY <1>1 DEF Request, Served, Answered
<1>4. /\ flowing.phase = "streaming" /\ flowing.answer = "served"
      /\ flowing.records = q.records + 1 /\ flowing.calls = q.calls
      /\ flowing.sent = q.sent /\ flowing.heard = {result.kind} /\ flowing.stream = q.stream
  BY <1>1 DEF Request, Served, Answered
<1>5. q.heard = {} /\ q.records = 0
  BY <1>1 DEF AnswerInv, Open
<1> HIDE DEF new, flowing
<1>6. CallInv(new) /\ CallInv(flowing)
  BY <1>1, <1>3, <1>4 DEF CallInv
<1>7. SentInv(new) /\ SentInv(flowing)
  BY <1>1, <1>3, <1>4 DEF SentInv
<1>8. AnswerInv(new) /\ (q.stream => AnswerInv(flowing))
  BY <1>3, <1>4, <1>5 DEF AnswerInv, Open
<1> QED
  BY <1>2, <1>6, <1>7, <1>8 DEF Sound, new, flowing

\* The end of a stream, recorded again or not.
LEMMA StreamEndsSound ==
  ASSUME NEW q, Sound(q), q.phase = "streaming", NEW again \in {0, 1}
  PROVE  Sound([q EXCEPT !.phase = "done", !.records = @ + again])
<1> DEFINE new == [q EXCEPT !.phase = "done", !.records = @ + again]
<1> USE FailoverAssumption
<1>1. q \in Request /\ CallInv(q) /\ SentInv(q) /\ AnswerInv(q)
  BY DEF Sound
<1>2. new \in Request
  <2>1. q.records + again \in Nat /\ "done" \in Phase
    BY <1>1 DEF Request, Phase
  <2> QED
    BY <1>1, <2>1, Zenon DEF Request
<1>3. /\ new.phase = "done" /\ new.answer = q.answer /\ new.records = q.records + again
      /\ new.calls = q.calls /\ new.sent = q.sent /\ new.heard = q.heard
      /\ new.stream = q.stream
  BY <1>1 DEF Request
<1>4. q.stream /\ q.records = 1
  BY <1>1 DEF AnswerInv
<1> HIDE DEF new
<1>5. CallInv(new)
  BY <1>1, <1>3 DEF CallInv
<1>6. SentInv(new)
  BY <1>1, <1>3 DEF SentInv
<1>7. AnswerInv(new)
  BY <1>1, <1>3, <1>4 DEF AnswerInv, Open
<1> QED
  BY <1>2, <1>5, <1>6, <1>7 DEF Sound, new

\* A failed call: the provider is excluded, and given up or retried.
LEMMA FailSound ==
  ASSUME NEW q, Sound(q), q.phase = "calling", NEW result \in Result
  PROVE  LET f == [q EXCEPT !.last = result.code, !.excluded = @ \cup {q.provider}]
         IN  Sound(NextProvider(f)) /\ Sound([f EXCEPT !.phase = "retrying"])
<1> DEFINE f == [q EXCEPT !.last = result.code, !.excluded = @ \cup {q.provider}]
           next == NextProvider(f)
           again == [f EXCEPT !.phase = "retrying"]
<1> USE FailoverAssumption
<1>1. q \in Request /\ CallInv(q) /\ SentInv(q) /\ AnswerInv(q)
  BY DEF Sound
<1>2. next \in Request /\ again \in Request
  <2>1. /\ q.attempt + 1 \in Nat /\ 0 \in Nat /\ {"choosing", "retrying"} \subseteq Phase
        /\ result.code \in Nat /\ q.excluded \cup {q.provider} \in SUBSET Providers
    <3>1. q.provider \in Providers /\ q.excluded \in SUBSET Providers /\ q.attempt \in Nat
      BY <1>1 DEF Request, SentInv
    <3> QED
      BY <3>1, ResultFacts DEF Phase
  <2>2. f \in Request
    BY <1>1, <2>1, Zenon DEF Request
  <2>3. f.attempt + 1 \in Nat
    <3>1. f.attempt = q.attempt
      BY <1>1 DEF Request
    <3> QED
      BY <2>1, <3>1
  <2> HIDE DEF f
  <2>4. again \in Request
    BY <2>1, <2>2, Zenon DEF Request
  <2>5. next \in Request
    BY <2>1, <2>2, <2>3, Zenon DEF Request, NextProvider
  <2> QED
    BY <2>4, <2>5
<1>3. /\ next.phase = "choosing" /\ next.attempt = q.attempt + 1 /\ next.retry = 0
      /\ next.excluded = q.excluded \cup {q.provider} /\ next.preferred = q.preferred
      /\ next.last = result.code /\ next.answer = q.answer /\ next.calls = q.calls
      /\ next.sent = q.sent /\ next.heard = q.heard /\ next.records = q.records
  BY <1>1 DEF Request, NextProvider
<1>4. /\ again.phase = "retrying" /\ again.attempt = q.attempt /\ again.retry = q.retry
      /\ again.excluded = q.excluded \cup {q.provider} /\ again.preferred = q.preferred
      /\ again.provider = q.provider
      /\ again.last = result.code /\ again.answer = q.answer /\ again.calls = q.calls
      /\ again.sent = q.sent /\ again.heard = q.heard /\ again.records = q.records
  BY <1>1 DEF Request
<1> HIDE DEF next, again
<1>5. CallInv(next) /\ CallInv(again)
  <2>1. /\ q.attempt \in Nat /\ q.calls \in Nat /\ q.retry = 0 /\ q.attempt <= MaxFailover
        /\ q.calls <= Budget(q.attempt) + 1 /\ q.calls <= Budget(MaxFailover + 1)
    BY <1>1 DEF CallInv, Request
  <2>2. /\ Budget(q.attempt) \in Nat /\ Budget(MaxFailover + 1) \in Nat
        /\ Budget(q.attempt + 1) = Budget(q.attempt) + MaxRetryCount + 1
    BY <2>1, BudgetFacts
  <2>3. CallInv(next)
    BY <1>3, <2>1, <2>2 DEF CallInv
  <2>4. CallInv(again)
    BY <1>4, <2>1, <2>2 DEF CallInv
  <2> QED
    BY <2>3, <2>4
<1>6. SentInv(next) /\ SentInv(again)
  <2>1. /\ q.provider \in Providers /\ q.sent[q.provider] = 1 /\ q.retry = 0
        /\ q.preferred = None
        /\ \A p \in Providers : q.sent[p] <= 1 + ProviderRetries[p]
        /\ \A p \in Providers : p \notin q.excluded \cup {q.provider} => q.sent[p] = 0
    BY <1>1 DEF SentInv, CallInv
  <2>2. None \notin q.excluded \cup {q.provider}
    BY <1>1, <2>1 DEF Request
  <2>3. SentInv(next)
    BY <1>3, <2>1, <2>2 DEF SentInv
  <2>4. SentInv(again)
    BY <1>4, <2>1, <2>2 DEF SentInv
  <2> QED
    BY <2>3, <2>4
<1>7. AnswerInv(next) /\ AnswerInv(again)
  <2>1. q.answer = "none" /\ q.heard = {} /\ q.records = 0 /\ result.code # 0
    BY <1>1, ResultFacts DEF AnswerInv, Open
  <2> QED
    BY <1>3, <1>4, <2>1 DEF AnswerInv, Open
<1> QED
  BY <1>2, <1>5, <1>6, <1>7 DEF Sound, next, again

\* A retry of the excluded provider, within both limits.
LEMMA RetrySound ==
  ASSUME NEW q, Sound(q), q.phase = "retrying",
         q.retry < ProviderRetries[q.provider], q.retry < MaxRetryCount
  PROVE  Sound([Called(q, q.provider) EXCEPT !.phase = "recalling"])
<1> DEFINE c == Called(q, q.provider)
           new == [c EXCEPT !.phase = "recalling"]
<1> USE FailoverAssumption
<1>1. q \in Request /\ CallInv(q) /\ SentInv(q) /\ AnswerInv(q) /\ q.provider \in Providers
  BY DEF Sound, SentInv
<1>2. c \in Request /\ c.calls = q.calls + 1 /\ c.attempt = q.attempt /\ c.retry = q.retry
      /\ c.excluded = q.excluded /\ c.last = q.last /\ c.answer = q.answer
      /\ c.heard = q.heard /\ c.records = q.records /\ c.preferred = q.preferred
      /\ c.provider = q.provider
  BY <1>1, CalledFacts
<1>3. \A x \in Providers : c.sent[x] = IF x = q.provider THEN q.sent[x] + 1 ELSE q.sent[x]
  BY <1>1, CalledFacts
<1> HIDE DEF c
<1>4. new \in Request
  <2>1. "recalling" \in Phase
    BY DEF Phase
  <2> QED
    BY <1>2, <2>1, Zenon DEF Request
<1>5. /\ new.phase = "recalling" /\ new.calls = q.calls + 1 /\ new.attempt = q.attempt
      /\ new.retry = q.retry /\ new.excluded = q.excluded /\ new.last = q.last
      /\ new.answer = q.answer /\ new.heard = q.heard /\ new.records = q.records
      /\ new.preferred = q.preferred /\ new.provider = q.provider /\ new.sent = c.sent
  BY <1>2 DEF Request
<1> HIDE DEF new
<1>6. CallInv(new)
  <2>1. /\ q.attempt \in Nat /\ q.calls \in Nat /\ q.retry \in Nat /\ q.attempt <= MaxFailover
        /\ q.calls <= Budget(q.attempt) + 1 + q.retry
    BY <1>1 DEF CallInv, Request
  <2>2. /\ Budget(q.attempt) \in Nat /\ Budget(MaxFailover + 1) \in Nat
        /\ Budget(q.attempt) + MaxRetryCount + 1 <= Budget(MaxFailover + 1)
    BY <2>1, BudgetFacts
  <2> QED
    BY <1>5, <2>1, <2>2 DEF CallInv
<1>7. SentInv(new)
  <2>1. /\ q.provider \in q.excluded /\ q.sent[q.provider] = 1 + q.retry
        /\ q.preferred = None /\ q.retry \in Nat
        /\ ProviderRetries[q.provider] \in Nat
        /\ \A p \in Providers : q.sent[p] <= 1 + ProviderRetries[p]
        /\ \A p \in Providers : p \notin q.excluded => q.sent[p] = 0
    BY <1>1 DEF SentInv, Request
  <2>2. new.sent[q.provider] = 2 + q.retry
    BY <1>1, <1>3, <1>5, <2>1
  <2>3. ASSUME NEW p \in Providers
        PROVE  /\ new.sent[p] <= 1 + ProviderRetries[p]
               /\ p \notin q.excluded => new.sent[p] = 0
    BY <1>3, <1>5, <2>1, <2>2
  <2> QED
    BY <1>1, <1>5, <2>1, <2>2, <2>3 DEF SentInv
<1>8. AnswerInv(new)
  BY <1>1, <1>5 DEF AnswerInv, Open
<1> QED
  BY <1>4, <1>6, <1>7, <1>8 DEF Sound, new, c

\* After a retry that failed; and after the last one, on to the next provider.
LEMMA RetryFailsSound ==
  ASSUME NEW q, Sound(q), q.phase = "recalling"
  PROVE  Sound([q EXCEPT !.phase = "retrying", !.retry = @ + 1])
<1> DEFINE new == [q EXCEPT !.phase = "retrying", !.retry = @ + 1]
<1> USE FailoverAssumption
<1>1. q \in Request /\ CallInv(q) /\ SentInv(q) /\ AnswerInv(q)
  BY DEF Sound
<1>2. new \in Request
  <2>1. q.retry + 1 \in Nat /\ "retrying" \in Phase
    BY <1>1 DEF Request, Phase
  <2> QED
    BY <1>1, <2>1, Zenon DEF Request
<1>3. /\ new.phase = "retrying" /\ new.calls = q.calls /\ new.attempt = q.attempt
      /\ new.retry = q.retry + 1 /\ new.excluded = q.excluded /\ new.last = q.last
      /\ new.answer = q.answer /\ new.heard = q.heard /\ new.records = q.records
      /\ new.preferred = q.preferred /\ new.provider = q.provider /\ new.sent = q.sent
  BY <1>1 DEF Request
<1>4. q.retry \in Nat /\ q.calls \in Nat /\ q.attempt \in Nat /\ Budget(q.attempt) \in Nat
  BY <1>1, BudgetFacts DEF Request
<1> HIDE DEF new
<1>5. CallInv(new)
  BY <1>1, <1>3, <1>4 DEF CallInv
<1>6. SentInv(new)
  BY <1>1, <1>3, <1>4 DEF SentInv
<1>7. AnswerInv(new)
  BY <1>1, <1>3 DEF AnswerInv, Open
<1> QED
  BY <1>2, <1>5, <1>6, <1>7 DEF Sound, new

LEMMA GiveUpSound ==
  ASSUME NEW q, Sound(q), q.phase = "retrying"
  PROVE  Sound(NextProvider(q))
<1> DEFINE new == NextProvider(q)
<1> USE FailoverAssumption
<1>1. q \in Request /\ CallInv(q) /\ SentInv(q) /\ AnswerInv(q)
  BY DEF Sound
<1>2. new \in Request
  <2>1. q.attempt + 1 \in Nat /\ 0 \in Nat /\ "choosing" \in Phase
    BY <1>1 DEF Request, Phase
  <2> QED
    BY <1>1, <2>1, Zenon DEF Request, NextProvider
<1>3. /\ new.phase = "choosing" /\ new.calls = q.calls /\ new.attempt = q.attempt + 1
      /\ new.retry = 0 /\ new.excluded = q.excluded /\ new.last = q.last
      /\ new.answer = q.answer /\ new.heard = q.heard /\ new.records = q.records
      /\ new.preferred = q.preferred /\ new.sent = q.sent
  BY <1>1 DEF Request, NextProvider
<1> HIDE DEF new
<1>4. CallInv(new)
  <2>1. /\ q.attempt \in Nat /\ q.calls \in Nat /\ q.retry \in Nat /\ q.attempt <= MaxFailover
        /\ q.retry <= MaxRetryCount /\ q.calls <= Budget(q.attempt) + 1 + q.retry
        /\ q.calls <= Budget(MaxFailover + 1)
    BY <1>1 DEF CallInv, Request
  <2>2. Budget(q.attempt) \in Nat /\ Budget(q.attempt + 1) = Budget(q.attempt) + MaxRetryCount + 1
    BY <2>1, BudgetFacts
  <2> QED
    BY <1>3, <2>1, <2>2 DEF CallInv
<1>5. SentInv(new)
  <2>1. None \notin q.excluded
    BY <1>1 DEF Request
  <2> QED
    BY <1>1, <1>3, <2>1 DEF SentInv
<1>6. AnswerInv(new)
  BY <1>1, <1>3 DEF AnswerInv, Open
<1> QED
  BY <1>2, <1>4, <1>5, <1>6 DEF Sound, new

-----------------------------------------------------------------------------
\* A step of one request replaces its state and nothing else.
LEMMA BecomeKeeps ==
  ASSUME IInv, NEW r \in Requests, NEW q, Sound(q), Become(r, q)
  PROVE  IInv'
<1>1. req \in [Requests -> Request] /\ q \in Request
  BY DEF IInv, TypeOK, Sound
<1>2. req' = [req EXCEPT ![r] = q] /\ setting' = setting /\ offered' = offered
  BY DEF Become
<1>3. TypeOK'
  BY <1>1, <1>2 DEF IInv, TypeOK
<1>4. ASSUME NEW x \in Requests
      PROVE  Sound(req[x])'
  <2>1. req'[x] = IF x = r THEN q ELSE req[x]
    BY <1>1, <1>2
  <2>2. Sound(req'[x])
    BY <2>1 DEF IInv
  <2> QED
    BY <2>2 DEF Sound, CallInv, SentInv, AnswerInv, Budget
<1> QED
  BY <1>3, <1>4 DEF IInv

LEMMA InitEstablishes == Init => IInv
<1> SUFFICES ASSUME Init PROVE IInv
  OBVIOUS
<1>1. Sound(Idle)
  BY ArriveSound
<1>2. \A r \in Requests : req[r] = Idle
  BY DEF Init
<1>3. TypeOK
  BY <1>1 DEF Init, TypeOK, Sound
<1> QED
  BY <1>1, <1>2, <1>3 DEF IInv

\* A handler keeps the invariant, whatever the settings and offers are.
LEMMA HandleKeeps ==
  ASSUME IInv, NEW r \in Requests, Handle(r)
  PROVE  IInv'
<1> USE FailoverAssumption
<1> DEFINE q == req[r]
<1>1. Sound(q) /\ q \in Request /\ setting \in Setting /\ offered \in SUBSET Providers
  BY DEF IInv, Sound, TypeOK
<1>2. InLoop(r) => q.phase = "choosing" /\ q.attempt <= MaxFailover
  BY <1>1 DEF InLoop, At, Setting, Request
<1>3. CASE \E p \in Providers : Forward(r, p)
  <2> PICK p \in Providers : Forward(r, p)
    BY <1>3
  <2>1. q.phase = "choosing" => q.preferred \notin q.excluded
    BY <1>1 DEF Sound, SentInv
  <2>2. q.phase = "choosing" /\ q.attempt <= MaxFailover /\ p \notin q.excluded
    BY <1>2, <2>1 DEF Forward, Picks
  <2> DEFINE new == [Called(q, p) EXCEPT !.phase = "calling", !.provider = p, !.preferred = None]
  <2>3. Sound(new) /\ Become(r, new)
    BY <1>1, <2>2, ForwardSound DEF Forward
  <2> QED
    BY <2>3, BecomeKeeps
<1>4. CASE Reject(r)
  <2>1. Sound(Answered(q, "rejected", 400, 0))
    BY <1>1, <1>2, <1>4, AnsweredSound DEF Reject
  <2> QED
    BY <1>4, <2>1, BecomeKeeps DEF Reject
<1>5. CASE Unavailable(r)
  <2>1. Sound(Answered(q, "unavailable", 503, IF q.last = 0 THEN 0 ELSE 1))
    BY <1>1, <1>2, <1>5, AnsweredSound DEF Unavailable
  <2> QED
    BY <1>5, <2>1, BecomeKeeps DEF Unavailable
<1>6. CASE AllFailed(r)
  <2>1. q.phase = "choosing" /\ q.last # 0 /\ q.last \in Nat
    BY <1>1, <1>6 DEF AllFailed, At, Request
  <2>2. Sound(Answered(q, "failed", q.last, 1))
    BY <1>1, <2>1, AnsweredSound
  <2> QED
    BY <1>6, <2>2, BecomeKeeps DEF AllFailed
<1>7. CASE Succeed(r)
  <2> PICK result \in Result :
        /\ ~ShouldFailover(result)
        /\ Become(r, IF q.stream THEN [Served(q, result) EXCEPT !.phase = "streaming"]
                     ELSE Served(q, result))
    BY <1>7 DEF Succeed
  <2>1. /\ Sound(Served(q, result))
        /\ q.stream => Sound([Served(q, result) EXCEPT !.phase = "streaming"])
    BY <1>1, <1>7, ServedSound DEF Succeed, At
  <2>2. CASE q.stream
    BY <2>1, <2>2, BecomeKeeps
  <2>3. CASE ~q.stream
    BY <2>1, <2>3, BecomeKeeps
  <2> QED
    BY <2>2, <2>3
<1>8. CASE StreamEnds(r)
  <2> PICK again \in {0, 1} : Become(r, [q EXCEPT !.phase = "done", !.records = @ + again])
    BY <1>8 DEF StreamEnds
  <2>1. Sound([q EXCEPT !.phase = "done", !.records = @ + again])
    BY <1>1, <1>8, StreamEndsSound DEF StreamEnds, At
  <2> QED
    BY <2>1, BecomeKeeps
<1>9. CASE Fail(r)
  <2> PICK result \in Result :
        LET f == [q EXCEPT !.last = result.code, !.excluded = @ \cup {q.provider}] IN
        Become(r, IF ShouldRetrySame(result) THEN [f EXCEPT !.phase = "retrying"]
                  ELSE NextProvider(f))
    BY <1>9 DEF Fail
  <2> DEFINE f == [q EXCEPT !.last = result.code, !.excluded = @ \cup {q.provider}]
  <2>1. Sound(NextProvider(f)) /\ Sound([f EXCEPT !.phase = "retrying"])
    BY <1>1, <1>9, FailSound DEF Fail, At
  <2> HIDE DEF q
  <2>2. CASE ShouldRetrySame(result)
    BY <2>1, <2>2, BecomeKeeps
  <2>3. CASE ~ShouldRetrySame(result)
    BY <2>1, <2>3, BecomeKeeps
  <2> QED
    BY <2>2, <2>3
<1>10. CASE Retry(r)
  <2>1. q.phase = "retrying" /\ q.retry < ProviderRetries[q.provider] /\ q.retry < MaxRetryCount
    <3>1. q.retry \in Nat /\ setting.retry \in 0..MaxRetryCount
      BY <1>1 DEF Request, Setting
    <3> QED
      BY <1>10, <3>1 DEF Retry, MayRetry, At
  <2>2. Sound([Called(q, q.provider) EXCEPT !.phase = "recalling"])
    BY <1>1, <2>1, RetrySound
  <2> QED
    BY <1>10, <2>2, BecomeKeeps DEF Retry
<1>11. CASE GiveUp(r)
  <2>1. Sound(NextProvider(q))
    BY <1>1, <1>11, GiveUpSound DEF GiveUp, At
  <2> QED
    BY <1>11, <2>1, BecomeKeeps DEF GiveUp
<1>12. CASE RetrySucceeds(r)
  <2> PICK result \in Result : ~ShouldFailover(result) /\ Become(r, Served(q, result))
    BY <1>12 DEF RetrySucceeds
  <2>1. Sound(Served(q, result))
    BY <1>1, <1>12, ServedSound DEF RetrySucceeds, At
  <2> QED
    BY <2>1, BecomeKeeps
<1>13. CASE RetryFails(r)
  <2>1. Sound([q EXCEPT !.phase = "retrying", !.retry = @ + 1])
    BY <1>1, <1>13, RetryFailsSound DEF RetryFails, At
  <2> QED
    BY <1>13, <2>1, BecomeKeeps DEF RetryFails
<1> QED
  BY <1>3, <1>4, <1>5, <1>6, <1>7, <1>8, <1>9, <1>10, <1>11, <1>12, <1>13 DEF Handle

LEMMA NextKeeps == IInv /\ [Next]_vars => IInv'
<1> SUFFICES ASSUME IInv, [Next]_vars PROVE IInv'
  OBVIOUS
<1>1. CASE Change
  <2>1. req' = req /\ setting' \in Setting /\ offered' \in SUBSET Providers
    BY <1>1 DEF Change, IInv, TypeOK
  <2> QED
    BY <2>1 DEF IInv, TypeOK, Sound, CallInv, SentInv, AnswerInv, Budget
<1>2. ASSUME NEW r \in Requests, Arrive(r)
      PROVE  IInv'
  <2> PICK p \in offered \cup {None}, s \in BOOLEAN :
        Become(r, [Idle EXCEPT !.phase = "choosing", !.stream = s, !.preferred = p])
    BY <1>2 DEF Arrive
  <2>1. p \in Providers \cup {None}
    BY DEF IInv, TypeOK
  <2>2. Sound([Idle EXCEPT !.phase = "choosing", !.stream = s, !.preferred = p])
    BY <2>1, ArriveSound
  <2> QED
    BY <2>2, BecomeKeeps
<1>3. CASE UNCHANGED vars
  <2>1. req' = req /\ setting' = setting /\ offered' = offered
    BY <1>3 DEF vars
  <2> QED
    BY <2>1 DEF IInv, TypeOK, Sound, CallInv, SentInv, AnswerInv, Budget
<1> QED
  BY <1>1, <1>2, <1>3, HandleKeeps DEF Next

\* The invariant holds throughout.
THEOREM Invariance == Spec => []IInv
BY InitEstablishes, NextKeeps, PTL DEF Spec

\* The handler's state keeps its types.
THEOREM TypeCorrect == Spec => []TypeOK
<1>1. IInv => TypeOK
  BY DEF IInv
<1> QED
  BY <1>1, Invariance, PTL

\* handleProxy makes at most (max_failover + 1) * (max_retry_count + 1) calls for
\* one request, for the largest values the settings ever have.
THEOREM BoundedCalls == Spec => []CallsBounded
<1>1. IInv => CallsBounded
  BY DEF IInv, Sound, CallInv, CallsBounded, Budget
<1> QED
  BY <1>1, Invariance, PTL

\* A failed provider is not chosen again, and retried within its max_retries.
THEOREM SparedProviders == Spec => []ProviderSpared
<1>1. IInv => ProviderSpared
  BY DEF IInv, Sound, SentInv, ProviderSpared
<1> QED
  BY <1>1, Invariance, PTL

\* An upstream's answer reaches the client, and nothing else passes for one.
THEOREM DeliveredSuccess == Spec => []SuccessIsDelivered
<1>1. IInv => SuccessIsDelivered
  BY DEF IInv, Sound, AnswerInv, SuccessIsDelivered
<1> QED
  BY <1>1, Invariance, PTL

\* Every exit but the one of SanitizeRequest records the request once.
THEOREM RecordedRequests == Spec => []RecordedOnce
<1>1. IInv => RecordedOnce
  BY DEF IInv, Sound, AnswerInv, RecordedOnce
<1> QED
  BY <1>1, Invariance, PTL

=============================================================================
