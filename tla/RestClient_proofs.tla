------------------------- MODULE RestClient_proofs -------------------------
(***************************************************************************)
(* What a call of the REST client tells, and when it asks again, for every *)
(* deadline, longest wait, page size, collection and number of replays.    *)
(***************************************************************************)
EXTENDS RestClient, TLAPS

Told == [code : Codes, delay : Nat, stop : BOOLEAN, items : Nat, truncated : BOOLEAN]

-----------------------------------------------------------------------------
(* What is told.                                                           *)

LEMMA ErrorTold ==
    ASSUME NEW code \in Codes
    PROVE  /\ Error(code) \in Told /\ Error(code).code = code /\ Error(code).delay = 0
           /\ Error(code).items = 0 /\ ~Error(code).stop /\ ~Error(code).truncated
  <1>1. "none" \in Codes
    BY DEF Codes
  <1>2. /\ Untold \in Told
        /\ Untold.delay = 0 /\ ~Untold.stop /\ Untold.items = 0 /\ ~Untold.truncated
    BY <1>1 DEF Untold, Told
  <1> QED
    BY <1>2 DEF Error, Told

(* Every answer has a body of a length.                                    *)
LEMMA BodyLength ==
    ASSUME NEW k \in Reads \cup Writes, NEW a \in Answers(k), ClientAssumption
    PROVE  a.body.items \in Nat /\ a.wait \in Nat
  <1>1. \A b \in Bodies \cup {NoBody} : b.items \in Nat
    BY DEF Bodies, NoBody, ClientAssumption
  <1>2. a.body \in Bodies \cup {NoBody}
    BY DEF Answers
  <1>3. a.wait \in Waits \cup {0}
    BY DEF Answers
  <1> QED
    BY <1>1, <1>2, <1>3 DEF Waits, ClientAssumption

(* A page is cut where the caller wants it and says so exactly when more   *)
(* was there.                                                              *)
LEMMA PageTruncated ==
    ASSUME NEW body, body.items \in Nat, top \in Nat
    PROVE  /\ Page(body) \in Told
           /\ Page(body).code = "ok"
           /\ Page(body).truncated <=> body.items > Page(body).items
  <1> DEFINE got == IF body.items < SentinelLength THEN body.items ELSE SentinelLength
             items == IF got > top THEN top ELSE got
             more == got > top
  <1>1. "ok" \in Codes
    BY DEF Codes
  <1>2. items \in Nat /\ more \in BOOLEAN /\ (more <=> body.items > items)
    BY DEF SentinelLength
  <1>3. Page(body) = [Error("ok") EXCEPT !.items = items, !.truncated = more]
    BY DEF Page
  <1> HIDE DEF items, more
  <1>4. Error("ok") \in Told /\ Error("ok").code = "ok"
    BY <1>1, ErrorTold
  <1>5. Page(body) \in Told /\ Page(body).code = "ok" /\ Page(body).items = items /\ (Page(body).truncated <=> more)
    BY <1>2, <1>3, <1>4 DEF Told
  <1> QED
    BY <1>2, <1>5

(* What a body that was read says of a call.                               *)
LEMMA BodyTold ==
    ASSUME kind \in Reads, top \in Nat, NEW body, body.items \in Nat
    PROVE  /\ readBody(body) \in Told
           /\ readBody(body).code \notin Retryable
           /\ kind = "page" /\ readBody(body).code = "ok" =>
                 (readBody(body).truncated <=> body.items > readBody(body).items)
  <1>1. {"LOWER_LIMIT", "TOO_LARGE", "ok", "INTERNAL"} \subseteq Codes \ Retryable
    BY DEF Codes, Retryable
  <1>2. \A code \in {"LOWER_LIMIT", "TOO_LARGE", "ok", "INTERNAL"} :
           Error(code) \in Told /\ Error(code).code = code
    BY <1>1, ErrorTold
  <1>3. CASE body.is = "long"
    <2>1. readBody(body) \in {Error("LOWER_LIMIT"), Error("TOO_LARGE")}
      BY <1>3 DEF readBody
    <2> QED
      BY <1>1, <1>2, <2>1
  <1>4. CASE body.is # "long" /\ kind = "page"
    <2>1. readBody(body) = PageRead(body)
      BY <1>4 DEF readBody
    <2>2. CASE body.is = "list"
      BY <1>1, <2>1, <2>2, PageTruncated DEF PageRead
    <2>3. CASE body.is # "list"
      BY <1>1, <1>2, <2>1, <2>3 DEF PageRead
    <2> QED
      BY <2>2, <2>3
  <1>5. CASE body.is # "long" /\ kind # "page"
    <2>1. readBody(body) \in {Error("ok"), Error("INTERNAL")}
      BY <1>5 DEF readBody, ExactRead, commentDeleteTarget, Reads
    <2> QED
      BY <1>1, <1>2, <1>5, <2>1
  <1> QED
    BY <1>3, <1>4, <1>5

(* What an answer to a read says of a call.                                *)
LEMMA AnswerTold ==
    ASSUME ClientAssumption, kind \in Reads, top \in Nat, NEW a \in Answers(kind)
    PROVE  LET v == handleReadResponse(a) IN
           /\ v.told \in Told /\ v.delay \in Nat
           /\ a.status = "busy" => /\ v.told.stop \/ v.told.delay = a.wait
                                   /\ v.retry => v.delay = a.wait
           /\ v.told.code \in Retryable => a.status \in {"busy", "error"}
           /\ kind = "page" /\ v.told.code = "ok" => (v.told.truncated <=> a.body.items > v.told.items)
  <1> DEFINE v == handleReadResponse(a)
  <1>1. a.body.items \in Nat /\ a.wait \in Nat
    BY BodyLength
  <1>2. {"AUTH", "PERMISSION", "NOT_FOUND", "INTERNAL"} \subseteq Codes \ Retryable
    BY DEF Codes, Retryable
  <1>3. \A code \in Codes : Error(code) \in Told /\ Error(code).code = code
    BY ErrorTold
  <1>4. CASE a.status = "ok"
    <2>1. v = Final(readBody(a.body))
      BY <1>4 DEF handleReadResponse
    <2> QED
      BY <1>1, <1>4, <2>1, BodyTold DEF Final
  <1>5. CASE a.status = "busy"
    <2> DEFINE after == parseRetryAfter(a.wait)
    <2>1. /\ v.told = [Error("RATE_LIMITED") EXCEPT !.delay = IF after.retry THEN after.delay ELSE 0,
                                                   !.stop  = ~after.retry]
          /\ v.delay = after.delay /\ (v.retry => after.retry)
      BY <1>5 DEF handleReadResponse
    <2>2. /\ after.retry \in BOOLEAN /\ after.delay \in Nat
          /\ after.retry => after.delay = a.wait
      BY <1>1, ClientAssumption DEF parseRetryAfter, ClientAssumption
    <2>3. "RATE_LIMITED" \in Codes
      BY DEF Codes, Retryable
    <2> DEFINE stop == ~after.retry
               delay == IF after.retry THEN after.delay ELSE 0
    <2>4. stop \in BOOLEAN /\ delay \in Nat /\ (stop \/ delay = a.wait)
      BY <2>2
    <2>5. v.told = [Error("RATE_LIMITED") EXCEPT !.delay = delay, !.stop = stop]
      BY <2>1
    <2>6. Error("RATE_LIMITED") \in Told /\ Error("RATE_LIMITED").code = "RATE_LIMITED"
      BY <2>3, ErrorTold
    <2> HIDE DEF v, after, stop, delay
    <2>7. v.told \in Told /\ (v.told.stop \/ v.told.delay = a.wait) /\ v.told.code = "RATE_LIMITED"
      BY <2>4, <2>5, <2>6 DEF Told
    <2>8. v.delay \in Nat /\ (v.retry => v.delay = a.wait)
      BY <2>1, <2>2
    <2> QED
      BY <1>5, <2>7, <2>8 DEF v
  <1>6. CASE a.status = "error"
    <2>1. v = [told |-> Error("SERVER_ERROR"), delay |-> 0, retry |-> TRUE]
      BY <1>6 DEF handleReadResponse
    <2>2. "SERVER_ERROR" \in Codes
      BY DEF Codes, Retryable
    <2>3. v.told = Error("SERVER_ERROR") /\ v.delay = 0 /\ v.retry
      BY <2>1
    <2>4. v.told \in Told /\ v.told.code = "SERVER_ERROR"
      BY <1>3, <2>2, <2>3
    <2> QED
      BY <1>6, <2>3, <2>4
  <1>7. CASE a.status \notin {"ok", "busy", "error"}
    <2>1. v \in {Final(Error("AUTH")), Final(Error("PERMISSION")), Final(Error("NOT_FOUND")), Final(Error("INTERNAL"))}
      BY <1>7 DEF handleReadResponse
    <2>2. PICK code \in {"AUTH", "PERMISSION", "NOT_FOUND", "INTERNAL"} : v = Final(Error(code))
      BY <2>1
    <2>3. v.told = Error(code) /\ v.delay = 0 /\ ~v.retry
      BY <2>2 DEF Final
    <2> QED
      BY <1>2, <1>3, <1>7, <2>3
  <1> QED
    BY <1>4, <1>5, <1>6, <1>7

(* What a write is told of an answer agrees with every effect the answer   *)
(* can stand for.                                                          *)
LEMMA WriteTold ==
    ASSUME kind \in Writes, NEW a \in Answers(kind), NEW n \in Effects(kind, a)
    PROVE  /\ WriteCode(a) \in Codes \ Retryable
           /\ WriteCode(a) = "ok" => n = 1
           /\ WriteCode(a) \notin {"ok", "UNKNOWN"} => n = 0
  <1>1. {"ok", "USAGE", "AUTH", "PERMISSION", "CONFLICT", "UNKNOWN"} \subseteq Codes \ Retryable
    BY DEF Codes, Retryable
  <1>2. kind \notin Reads
    BY DEF Reads, Writes
  <1>3. CASE a.status \in {"ok", "no content"}
    <2>1. n = 1
      BY <1>2, <1>3 DEF Effects, Refusals
    <2>2. WriteCode(a) \in {"ok", "UNKNOWN"}
      BY <1>3 DEF WriteCode, translateWriteStatus, Writes
    <2> QED
      BY <1>1, <2>1, <2>2
  <1>4. CASE a.status \in Refusals
    <2>1. n = 0
      BY <1>4 DEF Effects
    <2>2. WriteCode(a) = translateWriteStatus(a.status)
      BY <1>4 DEF WriteCode, Refusals
    <2>3. translateWriteStatus(a.status) \in {"USAGE", "AUTH", "PERMISSION", "CONFLICT", "UNKNOWN"}
      BY DEF translateWriteStatus
    <2> QED
      BY <1>1, <2>1, <2>2, <2>3
  <1>5. CASE a.status \notin Refusals \cup {"ok", "no content"}
    <2>1. WriteCode(a) = "UNKNOWN"
      BY <1>5 DEF WriteCode, translateWriteStatus, Refusals
    <2> QED
      BY <1>1, <2>1
  <1> QED
    BY <1>3, <1>4, <1>5

-----------------------------------------------------------------------------
(* The invariant.                                                          *)

LEMMA Numbers ==
    ASSUME TypeOK, ClientAssumption
    PROVE  top \in Nat /\ deadline \in Nat /\ now \in Nat /\ attempt \in Nat /\ reached \in Nat
  BY DEF TypeOK, ClientAssumption, maxReadAttempts

LEMMA CallInit == ASSUME ClientAssumption, Init PROVE CallToldTruly
  <1>1. "none" \in Codes /\ "none" \notin Retryable
    BY DEF Codes, Retryable
  <1>2. top \in Nat /\ deadline \in Nat
    BY DEF Init, ClientAssumption
  <1>3. TypeOK
    <2>1. Untold \in Told
      BY <1>1 DEF Untold, Told
    <2>2. answer = NoAnswer /\ told = Untold /\ MaxReplays \in Nat /\ maxReadAttempts = 3
      BY ClientAssumption DEF Init, maxReadAttempts
    <2>3. /\ kind \in Reads \cup Writes /\ top \in Tops /\ deadline \in Deadlines
          /\ pc = "ready" /\ attempt = 0 /\ now = 0 /\ wake = 0 /\ wished = 0 /\ interrupted = FALSE
          /\ reached = 0 /\ replays = 0 /\ performed = 0
      BY DEF Init
    <2>4. reached \in 0..maxReadAttempts + MaxReplays /\ attempt \in 0..maxReadAttempts
      BY <2>2, <2>3
    <2>5. now \in 0..deadline /\ replays \in 0..MaxReplays
      BY <1>2, <2>2, <2>3
    <2>6. interrupted \in BOOLEAN
      BY <2>3, Zenon
    <2> QED
      BY <2>1, <2>2, <2>3, <2>4, <2>5, <2>6 DEF TypeOK, Told
  <1>4. kind \in Writes => WriteReachesOnce /\ WriteToldTruly
    BY DEF Init, WriteReachesOnce, WriteToldTruly
  <1> QED
    BY <1>1, <1>2, <1>3, <1>4 DEF Init, CallToldTruly, WriteReachesOnce, WriteToldTruly, AdviceHonorsWish,
       TruncatedTruly, RequestsCounted, EffectsAnswered, SleepsBounded, Untold, maxReadAttempts, Codes, Retryable


(* The call returns with something that is true of what was done.          *)
LEMMA Returned ==
    ASSUME ClientAssumption, CallToldTruly, NEW t \in Told,
           pc # "done", pc' = "done", told' = t, answer' \in {answer, NoAnswer},
           wake' \in Nat, wished' \in Nat,
           UNCHANGED <<call, attempt, now, interrupted, reached, replays, performed>>,
           kind \in Writes => /\ t.code = "ok" => performed = 1
                              /\ t.code \notin {"ok", "UNKNOWN"} => performed = 0
                              /\ t.code \notin Retryable,
           t.code \in Retryable \ {"CANCELED"} => now + t.delay >= wished' \/ t.stop,
           kind = "page" /\ t.code = "ok" => (t.truncated <=> answer'.body.items > t.items)
    PROVE  CallToldTruly'
  <1>1. TypeOK'
    BY DEF CallToldTruly, TypeOK, Told, call
  <1>2. RequestsCounted' /\ EffectsAnswered' /\ SleepsBounded'
    <2>1. reached \in Nat /\ attempt \in Nat /\ replays \in Nat
      BY ClientAssumption DEF CallToldTruly, TypeOK, ClientAssumption, maxReadAttempts
    <2> QED
      BY <2>1 DEF CallToldTruly, RequestsCounted, EffectsAnswered, SleepsBounded, call
  <1>3. WriteReachesOnce' /\ WriteToldTruly' /\ TruncatedTruly'
    BY DEF CallToldTruly, WriteReachesOnce, WriteToldTruly, TruncatedTruly, call
  <1>4. AdviceHonorsWish'
    BY DEF AdviceHonorsWish, CallToldTruly
  <1> QED
    BY <1>1, <1>2, <1>3, <1>4 DEF CallToldTruly

(* A read sleeps as long as the server wishes, and not too long.           *)
LEMMA Slept ==
    ASSUME ClientAssumption, CallToldTruly, NEW delay \in Nat, kind \in Reads,
           pc \in {"sent", "served"}, pc' = "asleep", attempt < maxReadAttempts,
           wake' = now + delay, deadline - now > delay, wished' \in Nat, wished' <= wake',
           UNCHANGED <<call, attempt, now, interrupted, world, told>>
    PROVE  CallToldTruly'
  <1>1. deadline \in Nat /\ now \in Nat /\ reached \in Nat /\ attempt \in Nat /\ replays \in Nat
    BY ClientAssumption DEF CallToldTruly, TypeOK, ClientAssumption, maxReadAttempts
  <1>2. kind \notin Writes /\ told = Untold
    BY DEF Reads, Writes, CallToldTruly, SleepsBounded
  <1>3. Untold.code = "none" /\ "none" \notin Retryable
    BY DEF Untold, Retryable
  <1>4. TypeOK'
    BY <1>1 DEF CallToldTruly, TypeOK, call, world
  <1>5. SleepsBounded'
    BY <1>1, <1>2 DEF SleepsBounded, call
  <1>6. RequestsCounted' /\ EffectsAnswered'
    BY <1>1, <1>2 DEF CallToldTruly, RequestsCounted, EffectsAnswered, call, world
  <1> QED
    BY <1>2, <1>3, <1>4, <1>5, <1>6 DEF CallToldTruly, WriteReachesOnce, WriteToldTruly, AdviceHonorsWish,
       TruncatedTruly, call, world

(* A read that failed is told or slept off.                                *)
LEMMA FailedStep ==
    ASSUME ClientAssumption, CallToldTruly, NEW v, kind \in Reads, Failed(v),
           pc \in {"sent", "served"}, wished' \in Nat,
           UNCHANGED <<call, attempt, now, interrupted, world>>,
           v.told \in Told, v.delay \in Nat,
           v.retry => now + v.delay >= wished',
           v.told.code \in Retryable \ {"CANCELED"} => now + v.told.delay >= wished' \/ v.told.stop,
           kind = "page" /\ v.told.code = "ok" => (v.told.truncated <=> answer.body.items > v.told.items)
    PROVE  CallToldTruly'
  <1> DEFINE delay == IF v.delay = 0 THEN retryBackoff(attempt) ELSE v.delay
  <1>1. attempt \in Nat /\ now \in Nat /\ wake \in Nat
    BY Numbers DEF CallToldTruly, TypeOK
  <1>2. delay \in Nat /\ (v.retry => now + delay >= wished')
    BY <1>1 DEF retryBackoff
  <1>3. kind \notin Writes
    BY DEF Reads, Writes
  <1>4. CASE v.retry /\ attempt < maxReadAttempts /\ retryDelayFitsContext(delay)
    <2>1. pc' = "asleep" /\ wake' = now + delay /\ told' = told /\ deadline - now > delay
      BY <1>4 DEF Failed, retryDelayFitsContext
    <2> HIDE DEF delay
    <2>2. wished' <= wake'
      BY <1>1, <1>2, <1>4, <2>1
    <2> QED
      BY <1>2, <1>4, <2>1, <2>2, Slept
  <1>5. CASE ~(v.retry /\ attempt < maxReadAttempts /\ retryDelayFitsContext(delay))
    <2>1. pc' = "done" /\ told' = v.told /\ wake' = wake
      BY <1>5 DEF Failed, Tell
    <2> QED
      BY <1>1, <1>3, <2>1, Returned DEF world
  <1> QED
    BY <1>4, <1>5

-----------------------------------------------------------------------------
(* The steps.                                                              *)

(* Errors that the client makes up itself.                                 *)
LEMMA OwnErrors ==
    /\ \A code \in {"UNKNOWN", "CANCELED", "TIMEOUT", "NETWORK"} :
          Error(code) \in Told /\ Error(code).code = code /\ Error(code).delay = 0
    /\ "UNKNOWN" \notin Retryable
  <1>1. {"UNKNOWN", "CANCELED", "TIMEOUT", "NETWORK"} \subseteq Codes
    BY DEF Codes, Retryable
  <1> QED
    BY <1>1, ErrorTold DEF Retryable

LEMMA SendStep == ASSUME ClientAssumption, CallToldTruly, Send PROVE CallToldTruly'
  <1>1. now \in Nat /\ deadline \in Nat /\ attempt \in Nat /\ reached \in Nat /\ replays \in Nat /\ wished \in Nat
    BY Numbers, ClientAssumption DEF CallToldTruly, TypeOK, ClientAssumption
  <1>2. now >= wished /\ told = Untold /\ Untold.code = "none" /\ "none" \notin Retryable
    BY DEF Send, CallToldTruly, SleepsBounded, Untold, Retryable
  <1>3. CASE ContextDone
    <2> DEFINE t == IF kind \in Reads THEN Translate ELSE Error("UNKNOWN")
    <2>1. t \in Told /\ t.code \in {"UNKNOWN", "CANCELED", "TIMEOUT"} /\ t.delay = 0
      BY OwnErrors DEF Translate
    <2>2. kind \in Writes => t.code = "UNKNOWN" /\ t.code \notin Retryable
      BY OwnErrors DEF Reads, Writes
    <2>3. pc # "done" /\ pc' = "done" /\ told' = t /\ attempt' = attempt
      BY <1>3 DEF Send, Tell
    <2> HIDE DEF t
    <2> QED
      BY <1>1, <1>2, <2>1, <2>2, <2>3, Returned DEF Send
  <1>4. CASE ~ContextDone
    <2>1. attempt < maxReadAttempts
      BY DEF Send, CallToldTruly, RequestsCounted
    <2>2. TypeOK'
      BY <1>1, <1>4, <2>1 DEF Send, CallToldTruly, TypeOK, call, maxReadAttempts
    <2>3. RequestsCounted'
      BY <1>1, <1>4 DEF Send, CallToldTruly, RequestsCounted, call
    <2>4. SleepsBounded' /\ EffectsAnswered'
      BY <1>2, <1>4 DEF Send, CallToldTruly, SleepsBounded, EffectsAnswered, call
    <2> QED
      BY <1>2, <1>4, <2>2, <2>3, <2>4 DEF Send, CallToldTruly, WriteReachesOnce, WriteToldTruly,
         AdviceHonorsWish, TruncatedTruly, call
  <1> QED
    BY <1>3, <1>4

LEMMA ServeStep == ASSUME ClientAssumption, CallToldTruly, Serve PROVE CallToldTruly'
  <1>1. attempt \in Nat /\ reached \in Nat /\ replays \in Nat /\ MaxReplays \in Nat /\ performed \in Nat
    BY Numbers, ClientAssumption DEF CallToldTruly, TypeOK, ClientAssumption
  <1>2. told = Untold /\ Untold.code = "none" /\ "none" \notin Retryable
    BY DEF Serve, CallToldTruly, SleepsBounded, Untold, Retryable
  <1>3. PICK a \in Answers(kind) : \E n \in Effects(kind, a) : answer' = a /\ performed' = performed + n
    BY DEF Serve
  <1>4. PICK n \in Effects(kind, a) : performed' = performed + n
    BY <1>3
  <1>5. n \in {0, 1}
    BY DEF Effects
  <1>6. reached' = reached + 1 /\ reached + 1 <= attempt + replays
    BY <1>1 DEF Serve, CallToldTruly, RequestsCounted
  <1>7. TypeOK'
    <2>1. attempt <= maxReadAttempts /\ replays <= MaxReplays
      BY DEF CallToldTruly, TypeOK, maxReadAttempts
    <2>2. reached' \in 0..maxReadAttempts + MaxReplays
      BY <1>1, <1>6, <2>1 DEF maxReadAttempts
    <2> QED
      BY <1>1, <1>3, <1>4, <1>5, <2>2 DEF Serve, CallToldTruly, TypeOK, call
  <1>8. RequestsCounted' /\ SleepsBounded'
    BY <1>1, <1>6 DEF Serve, CallToldTruly, RequestsCounted, SleepsBounded, call
  <1>9. EffectsAnswered'
    BY <1>1, <1>3, <1>4, <1>5 DEF Serve, CallToldTruly, EffectsAnswered, call
  <1>10. WriteReachesOnce'
    BY <1>1, <1>6 DEF Serve, CallToldTruly, RequestsCounted, WriteReachesOnce, call
  <1> QED
    BY <1>2, <1>7, <1>8, <1>9, <1>10 DEF Serve, CallToldTruly, WriteToldTruly, AdviceHonorsWish, TruncatedTruly, call

LEMMA ReplayStep == ASSUME ClientAssumption, CallToldTruly, Replay PROVE CallToldTruly'
  <1>1. attempt \in Nat /\ reached \in Nat /\ replays \in Nat /\ MaxReplays \in Nat
    BY Numbers, ClientAssumption DEF CallToldTruly, TypeOK, ClientAssumption
  <1>2. told = Untold /\ Untold.code = "none" /\ "none" \notin Retryable
    BY DEF Replay, CallToldTruly, SleepsBounded, Untold, Retryable
  <1>3. kind \notin Writes
    BY DEF Replay, Replayable, Reads, Writes
  <1>4. TypeOK'
    BY <1>1 DEF Replay, CallToldTruly, TypeOK, call
  <1>5. RequestsCounted' /\ SleepsBounded' /\ EffectsAnswered'
    BY <1>1, <1>3 DEF Replay, CallToldTruly, RequestsCounted, SleepsBounded, EffectsAnswered, call
  <1> QED
    BY <1>2, <1>3, <1>4, <1>5 DEF Replay, CallToldTruly, WriteReachesOnce, WriteToldTruly, AdviceHonorsWish,
       TruncatedTruly, call

LEMMA BreakStep == ASSUME ClientAssumption, CallToldTruly, Break PROVE CallToldTruly'
  <1>1. now \in Nat /\ wished \in Nat /\ wake \in Nat /\ now >= wished /\ pc # "done" /\ pc \in {"sent", "served"}
    BY Numbers DEF Break, CallToldTruly, TypeOK, SleepsBounded
  <1>2. CASE kind \in Writes
    BY <1>1, <1>2, OwnErrors, Returned DEF Break, Broken, Tell, world
  <1>3. CASE kind \notin Writes /\ ContextDone
    <2>1. Translate \in Told /\ Translate.code \in {"CANCELED", "TIMEOUT"} /\ Translate.delay = 0
      BY OwnErrors DEF Translate
    <2> QED
      BY <1>1, <1>3, <2>1, Returned DEF Break, Broken, Tell, world
  <1>4. CASE kind \notin Writes /\ ~ContextDone
    <2> DEFINE v == [told |-> Error("NETWORK"), delay |-> 0, retry |-> TRUE]
    <2>1. Failed(v) /\ kind \in Reads
      BY <1>4 DEF Break, Broken, CallToldTruly, TypeOK
    <2>2. v.told \in Told /\ v.told.code = "NETWORK" /\ v.told.delay = 0 /\ v.delay = 0
      BY OwnErrors
    <2> HIDE DEF v
    <2> QED
      BY <1>1, <2>1, <2>2, FailedStep DEF Break
  <1> QED
    BY <1>2, <1>3, <1>4

LEMMA AnswerStep == ASSUME ClientAssumption, CallToldTruly, Answer PROVE CallToldTruly'
  <1>1. now \in Nat /\ wished \in Nat /\ wake \in Nat /\ now >= wished /\ pc = "served" /\ top \in Nat
    BY Numbers DEF Answer, CallToldTruly, TypeOK, SleepsBounded
  <1>2. answer \in Answers(kind) /\ kind \in Reads \cup Writes
    BY <1>1 DEF CallToldTruly, TypeOK, EffectsAnswered
  <1>3. answer.wait \in Nat
    BY <1>2, BodyLength
  <1>4. wished' \in Nat /\ (answer.status # "busy" => wished' = wished) /\ (answer.status = "busy" => wished' = now + answer.wait)
    BY <1>1, <1>3 DEF Answer
  <1>5. CASE kind \in Reads
    <2> DEFINE v == handleReadResponse(answer)
    <2>1. Failed(v)
      BY <1>5 DEF Answer
    <2>2. /\ v.told \in Told /\ v.delay \in Nat
          /\ answer.status = "busy" => (v.told.stop \/ v.told.delay = answer.wait) /\ (v.retry => v.delay = answer.wait)
          /\ v.told.code \in Retryable => answer.status \in {"busy", "error"}
          /\ kind = "page" /\ v.told.code = "ok" => (v.told.truncated <=> answer.body.items > v.told.items)
      BY <1>1, <1>2, <1>5, AnswerTold
    <2> HIDE DEF v
    <2>3. v.told.delay \in Nat
      BY <2>2 DEF Told
    <2>4. v.retry => now + v.delay >= wished'
      BY <1>1, <1>3, <1>4, <2>2
    <2>5. v.told.code \in Retryable \ {"CANCELED"} => now + v.told.delay >= wished' \/ v.told.stop
      BY <1>1, <1>3, <1>4, <2>2, <2>3
    <2> QED
      BY <1>1, <1>4, <1>5, <2>1, <2>2, <2>4, <2>5, FailedStep DEF Answer
  <1>6. CASE kind \notin Reads
    <2>1. kind \in Writes /\ performed \in Effects(kind, answer)
      BY <1>1, <1>2, <1>6 DEF CallToldTruly, EffectsAnswered
    <2>2. /\ WriteCode(answer) \in Codes \ Retryable
          /\ WriteCode(answer) = "ok" => performed = 1
          /\ WriteCode(answer) \notin {"ok", "UNKNOWN"} => performed = 0
      BY <1>2, <2>1, WriteTold
    <2>3. Error(WriteCode(answer)) \in Told /\ Error(WriteCode(answer)).code = WriteCode(answer)
      BY <2>2, ErrorTold
    <2>4. pc' = "done" /\ told' = Error(WriteCode(answer)) /\ wake' = wake
      BY <1>6 DEF Answer, Tell
    <2>5. kind # "page"
      BY <2>1 DEF Writes
    <2> QED
      BY <1>1, <1>4, <2>1, <2>2, <2>3, <2>4, <2>5, Returned DEF Answer, world
  <1> QED
    BY <1>5, <1>6

LEMMA SleepStep == ASSUME ClientAssumption, CallToldTruly, sleepContext PROVE CallToldTruly'
  <1>1. /\ now \in Nat /\ wake \in Nat /\ wished \in Nat /\ deadline \in Nat
        /\ pc = "asleep" /\ now <= wake /\ wished <= wake /\ wake < deadline
    BY Numbers DEF sleepContext, CallToldTruly, TypeOK, SleepsBounded
  <1>2. kind \notin Writes
    BY <1>1 DEF CallToldTruly, RequestsCounted
  <1>3. CASE ContextDone
    <2>1. interrupted
      BY <1>1, <1>3 DEF ContextDone
    <2>2. pc' = "done" /\ told' = Error("CANCELED")
      BY <1>3, <2>1 DEF sleepContext, Tell, Translate
    <2> QED
      BY <1>1, <1>2, <2>2, OwnErrors, Returned DEF sleepContext, world
  <1>4. CASE ~ContextDone
    <2>1. now >= wished
      BY <1>1, <1>4 DEF sleepContext
    <2>2. TypeOK'
      BY <1>4 DEF sleepContext, CallToldTruly, TypeOK, call, world
    <2>3. RequestsCounted' /\ SleepsBounded' /\ EffectsAnswered'
      BY <1>1, <1>2, <1>4, <2>1 DEF sleepContext, CallToldTruly, RequestsCounted, SleepsBounded, EffectsAnswered, call, world
    <2> QED
      BY <1>2, <1>4, <2>2, <2>3 DEF sleepContext, CallToldTruly, WriteReachesOnce, WriteToldTruly,
         AdviceHonorsWish, TruncatedTruly, call, world
  <1> QED
    BY <1>3, <1>4

LEMMA InterruptStep == ASSUME CallToldTruly, Interrupt PROVE CallToldTruly'
  BY DEF Interrupt, CallToldTruly, TypeOK, WriteReachesOnce, WriteToldTruly, AdviceHonorsWish, TruncatedTruly,
     RequestsCounted, EffectsAnswered, SleepsBounded, call, world

LEMMA TickStep == ASSUME ClientAssumption, CallToldTruly, Tick PROVE CallToldTruly'
  <1>1. now \in Nat /\ deadline \in Nat /\ wake \in Nat /\ wished \in Nat
    BY Numbers DEF CallToldTruly, TypeOK
  <1>2. told = Untold /\ Untold.code = "none" /\ "none" \notin Retryable
    BY DEF Tick, CallToldTruly, SleepsBounded, Untold, Retryable
  <1>3. now' \in 0..deadline
    BY <1>1 DEF Tick
  <1>4. TypeOK'
    BY <1>3 DEF Tick, CallToldTruly, TypeOK, call, world
  <1>5. SleepsBounded'
    BY <1>1 DEF Tick, CallToldTruly, SleepsBounded, call
  <1> QED
    BY <1>2, <1>4, <1>5 DEF Tick, CallToldTruly, WriteReachesOnce, WriteToldTruly, AdviceHonorsWish,
       TruncatedTruly, RequestsCounted, EffectsAnswered, call, world

-----------------------------------------------------------------------------
(* The theorems.                                                           *)

LEMMA CallStep == ASSUME ClientAssumption, CallToldTruly, [Next]_vars PROVE CallToldTruly'
  <1>1. CASE Code
    BY <1>1, SendStep, BreakStep, AnswerStep, SleepStep DEF Code
  <1>2. CASE Serve \/ Replay \/ Interrupt \/ Tick
    BY <1>2, ServeStep, ReplayStep, InterruptStep, TickStep
  <1>3. CASE UNCHANGED vars
    BY <1>3 DEF CallToldTruly, TypeOK, WriteReachesOnce, WriteToldTruly, AdviceHonorsWish, TruncatedTruly,
       RequestsCounted, EffectsAnswered, SleepsBounded, vars, call, world
  <1> QED
    BY <1>1, <1>2, <1>3 DEF Next

(* A write reaches the server once and its outcome is told as it is; the   *)
(* advice to come back agrees with the server's Retry-After; a page says   *)
(* that it is truncated exactly when more was there.                       *)
THEOREM ToldTruly == Spec => []CallToldTruly
  <1>1. Init => CallToldTruly
    BY CallInit, ClientAssumption
  <1>2. CallToldTruly /\ [Next]_vars => CallToldTruly'
    BY CallStep, ClientAssumption
  <1> QED
    BY <1>1, <1>2, PTL DEF Spec

(* No request reaches a server before the end of its Retry-After, and a    *)
(* sleep ends in another request unless a person interrupts it.            *)
THEOREM RetriesWorthIt == Spec => RetriesPay
  <1>1. CallToldTruly /\ [Next]_vars => [WishHonored /\ SleepPays]_vars
    <2> SUFFICES ASSUME CallToldTruly, Next PROVE WishHonored /\ SleepPays
      OBVIOUS
    <2>1. reached \in Nat /\ now \in Nat /\ wake \in Nat /\ deadline \in Nat
      BY Numbers, ClientAssumption DEF CallToldTruly, TypeOK
    <2>2. WishHonored
      <3>1. reached' = reached \/ pc = "sent"
        BY DEF Next, Code, Send, Break, Answer, sleepContext, Serve, Replay, Interrupt, Tick, world
      <3> QED
        BY <2>1, <3>1 DEF WishHonored, CallToldTruly, SleepsBounded
    <2>3. SleepPays
      <3> SUFFICES ASSUME pc = "asleep", ~interrupted PROVE pc' # "done"
        BY DEF SleepPays
      <3>1. ~ContextDone
        BY <2>1 DEF CallToldTruly, SleepsBounded, ContextDone
      <3> QED
        BY <3>1 DEF Next, Code, Send, Break, Answer, sleepContext, Serve, Replay, Interrupt, Tick
    <2> QED
      BY <2>2, <2>3
  <1> QED
    BY <1>1, ToldTruly, PTL DEF Spec, RetriesPay
=============================================================================
