----------------------------- MODULE RestClient -----------------------------
(***************************************************************************)
(* One call of the REST client (internal/youtrack): a read, which is       *)
(* repeated after a transient failure, or a write, which is sent once.     *)
(*                                                                         *)
(* The server may be slow, answer with any status and body, do what was    *)
(* asked and lose the answer, or ask to be left alone for a while.  Below  *)
(* the client, net/http sends a request again by itself when a kept        *)
(* connection breaks and the request can be replayed.  Time passes only    *)
(* while a request is out or the client sleeps, in units of the shortest   *)
(* backoff, and ends with the context's deadline.                          *)
(***************************************************************************)
EXTENDS Naturals

CONSTANTS
    Deadlines,           \* when the contexts of the calls end
    maxRetryAfterDelay,  \* the longest wait a server can ask for and get
    Tops,                \* the page sizes callers ask for
    MaxItems,            \* the longest collection on the server
    MaxReplays           \* requests that net/http repeats by itself

maxReadAttempts == 3

ASSUME ClientAssumption ==
    /\ Deadlines \subseteq Nat \ {0} /\ Tops \subseteq Nat \ {0}
    /\ maxRetryAfterDelay \in Nat /\ MaxItems \in Nat /\ MaxReplays \in Nat

Reads == {"exact", "preflight", "page"}
Writes == {"change", "delete"}

VARIABLES
    kind,         \* what the call does
    top,          \* the page size of a "page"
    deadline,     \* when the context ends
    pc,           \* "ready", "sent", "served" by the server, "asleep", "done"
    attempt,      \* how often send was called
    now,
    wake,         \* when the sleep is over
    interrupted,  \* the context was canceled
    reached,      \* how often a request reached the server
    replays,      \* how often net/http repeated one
    performed,    \* how often the server did what a write asks for
    answer,       \* what the server answered the last request
    wished,       \* until when the server asked, and was heard, to be left alone
    told          \* what the caller was told

call == <<kind, top, deadline>>
world == <<reached, replays, performed, answer>>
vars == <<call, pc, attempt, now, wake, interrupted, world, wished, told>>

-----------------------------------------------------------------------------
(* What a server may answer.  A body has a length where that matters.      *)
Refusals == {"bad", "unauthorized", "forbidden", "gone", "conflict", "large"}
Bodies ==
    [is : {"asked", "other", "deleted", "attached", "invalid", "long", "unreadable", "empty"}, items : {0}]
    \cup [is : {"list"}, items : 0..MaxItems]
NoBody == [is |-> "empty", items |-> 0]
Waits == 0..maxRetryAfterDelay + 1

Answers(k) ==
    [status : {"ok"}, body : {b \in Bodies : b.is = "list" => k = "page"}, wait : {0}]
    \cup [status : {"no content"}, body : {b \in Bodies : b.is \in {"asked", "empty"}}, wait : {0}]
    \cup [status : Refusals \cup {"error", "redirect", "odd"}, body : {NoBody}, wait : {0}]
    \cup [status : {"busy"}, body : {NoBody}, wait : Waits]

(* What doing that means on the server.  A write is done when the answer   *)
(* is a success, not done when it is a refusal, and else perhaps.  A page  *)
(* holds what there is, up to what was asked for.                          *)
Effects(k, a) ==
    IF k \in Reads \/ a.status \in Refusals THEN {0}
    ELSE IF a.status \in {"ok", "no content"} THEN {1} ELSE {0, 1}

NoAnswer == [status |-> "none", body |-> NoBody, wait |-> 0]
Untold == [code |-> "none", delay |-> 0, stop |-> FALSE, items |-> 0, truncated |-> FALSE]
Error(code) == [Untold EXCEPT !.code = code]

Retryable == {"NETWORK", "RATE_LIMITED", "SERVER_ERROR", "TIMEOUT", "CANCELED"}

-----------------------------------------------------------------------------
(* A Retry-After: how long to wait, and whether to do so.                  *)
parseRetryAfter(wait) ==
    IF wait > maxRetryAfterDelay THEN [delay |-> maxRetryAfterDelay, retry |-> FALSE]
    ELSE [delay |-> wait, retry |-> TRUE]

retryBackoff(n) == n

(* One more than the caller wants, so that the answer shows what is left.  *)
SentinelLength == top + 1

Page(body) ==
    LET got == IF body.items < SentinelLength THEN body.items ELSE SentinelLength IN
    [Error("ok") EXCEPT !.items = IF got > top THEN top ELSE got, !.truncated = got > top]

PageRead(body) == IF body.is = "list" THEN Page(body) ELSE Error("INTERNAL")

(* A comment that is gone or carries a file is answered, not deleted.      *)
ExactRead(body) == Error(IF body.is \in {"asked", "deleted", "attached"} THEN "ok" ELSE "INTERNAL")

commentDeleteTarget(body) == Error(IF body.is = "asked" THEN "ok" ELSE "INTERNAL")

(* A body too long to be read is refused, with advice if a shorter page    *)
(* could help.                                                             *)
readBody(body) ==
    CASE body.is = "long" -> Error(IF kind = "page" /\ top > 1 THEN "LOWER_LIMIT" ELSE "TOO_LARGE")
      [] kind = "page" /\ body.is # "long" -> PageRead(body)
      [] kind = "exact" /\ body.is # "long" -> ExactRead(body)
      [] kind = "preflight" /\ body.is # "long" -> commentDeleteTarget(body)

Final(t) == [told |-> t, delay |-> 0, retry |-> FALSE]

handleReadResponse(a) ==
    CASE a.status = "ok" -> Final(readBody(a.body))
      [] a.status = "unauthorized" -> Final(Error("AUTH"))
      [] a.status = "forbidden" -> Final(Error("PERMISSION"))
      [] a.status = "gone" -> Final(Error("NOT_FOUND"))
      [] a.status = "busy" ->
           LET after == parseRetryAfter(a.wait) IN
           [told  |-> [Error("RATE_LIMITED") EXCEPT !.delay = IF after.retry THEN after.delay ELSE 0,
                                                   !.stop  = ~after.retry],
            delay |-> after.delay, retry |-> after.retry]
      [] a.status = "error" -> [told |-> Error("SERVER_ERROR"), delay |-> 0, retry |-> TRUE]
      [] OTHER -> Final(Error("INTERNAL"))

translateWriteStatus(status) ==
    CASE status \in {"bad", "large"} -> "USAGE" [] status = "unauthorized" -> "AUTH"
      [] status = "forbidden" -> "PERMISSION" [] status \in {"gone", "conflict"} -> "CONFLICT"
      [] OTHER -> "UNKNOWN"

(* A change is done when the answer shows it, a deletion when the answer   *)
(* is an empty success.                                                    *)
WriteCode(a) ==
    CASE kind = "change" /\ a.status = "ok" -> IF a.body.is = "asked" THEN "ok" ELSE "UNKNOWN"
      [] kind = "delete" /\ a.status \in {"ok", "no content"} -> IF a.body.is = "empty" THEN "ok" ELSE "UNKNOWN"
      [] OTHER -> translateWriteStatus(a.status)

-----------------------------------------------------------------------------
Tell(t) == pc' = "done" /\ told' = t

(* Broken variant: the request is built without its deadline.              *)
OnlyInterrupts == interrupted

ContextDone == interrupted \/ now >= deadline

Translate == Error(IF interrupted THEN "CANCELED" ELSE "TIMEOUT")

(* Broken variant: every delay fits.                                       *)
AnyDelayFits(delay) == TRUE

retryDelayFitsContext(delay) == deadline - now > delay

(* A failure of the read: told, or slept off.                              *)
Failed(v) ==
    LET delay == IF v.delay = 0 THEN retryBackoff(attempt) ELSE v.delay IN
    IF v.retry /\ attempt < maxReadAttempts /\ retryDelayFitsContext(delay)
    THEN pc' = "asleep" /\ wake' = now + delay /\ UNCHANGED told
    ELSE Tell(v.told) /\ UNCHANGED wake

Send ==
    /\ pc = "ready"
    /\ IF ContextDone
       THEN Tell(IF kind \in Reads THEN Translate ELSE Error("UNKNOWN")) /\ UNCHANGED attempt
       ELSE pc' = "sent" /\ attempt' = attempt + 1 /\ UNCHANGED told
    /\ answer' = NoAnswer /\ wake' = 0
    /\ UNCHANGED <<call, now, interrupted, reached, replays, performed, wished>>

(* The server gets the request and answers it.  What was deleted is gone.  *)
Serve ==
    /\ pc = "sent"
    /\ \E a \in Answers(kind) : \E n \in Effects(kind, a) :
         /\ kind = "delete" /\ performed > 0 => a.status = "gone"
         /\ answer' = a
         /\ performed' = performed + n
    /\ pc' = "served"
    /\ reached' = reached + 1
    /\ UNCHANGED <<call, attempt, now, wake, interrupted, replays, wished, told>>

(* Broken variant: a write's body is as good as a read's for sending it    *)
(* again.                                                                  *)
AnyReplayable(k) == TRUE

Replayable(k) == k \in Reads

(* The kept connection breaks, and net/http takes another one.             *)
Replay ==
    /\ pc \in {"sent", "served"} /\ replays < MaxReplays /\ ~ContextDone
    /\ Replayable(kind)
    /\ pc' = "sent"
    /\ replays' = replays + 1
    /\ answer' = NoAnswer
    /\ UNCHANGED <<call, attempt, now, wake, interrupted, reached, performed, wished, told>>

(* No answer: the context ended, or the network failed.                    *)
Broken ==
    IF kind \in Writes THEN Tell(Error("UNKNOWN")) /\ UNCHANGED wake
    ELSE IF ContextDone THEN Tell(Translate) /\ UNCHANGED wake
    ELSE Failed([told |-> Error("NETWORK"), delay |-> 0, retry |-> TRUE])

Break ==
    /\ pc \in {"sent", "served"}
    /\ Broken
    /\ UNCHANGED <<call, attempt, now, interrupted, world, wished>>

Answer ==
    /\ pc = "served"
    /\ IF kind \in Reads THEN Failed(handleReadResponse(answer)) ELSE Tell(Error(WriteCode(answer))) /\ UNCHANGED wake
    /\ wished' = IF answer.status = "busy" THEN now + answer.wait ELSE wished
    /\ UNCHANGED <<call, attempt, now, interrupted, world>>

sleepContext ==
    /\ pc = "asleep"
    /\ IF ContextDone THEN Tell(Translate)
       ELSE now >= wake /\ pc' = "ready" /\ UNCHANGED told
    /\ UNCHANGED <<call, attempt, now, wake, interrupted, world, wished>>

Interrupt ==
    /\ pc # "done" /\ ~interrupted
    /\ interrupted' = TRUE
    /\ UNCHANGED <<call, pc, attempt, now, wake, world, wished, told>>

(* A timer fires when it is due.                                           *)
Tick ==
    /\ pc \in {"sent", "served", "asleep"} /\ now < deadline
    /\ pc = "asleep" => now < wake
    /\ now' = now + 1
    /\ UNCHANGED <<call, pc, attempt, wake, interrupted, world, wished, told>>

-----------------------------------------------------------------------------
Init ==
    /\ kind \in Reads \cup Writes /\ deadline \in Deadlines
    /\ top \in Tops /\ (kind # "page" => \A t \in Tops : top <= t)
    /\ pc = "ready" /\ attempt = 0 /\ now = 0 /\ wake = 0 /\ interrupted = FALSE
    /\ reached = 0 /\ replays = 0 /\ performed = 0 /\ answer = NoAnswer
    /\ wished = 0 /\ told = Untold

Code == Send \/ Break \/ Answer \/ sleepContext

Next == Code \/ Serve \/ Replay \/ Interrupt \/ Tick

Spec == Init /\ [][Next]_vars

(* The program runs and time passes.  A request whose context has ended    *)
(* comes back; nothing is asked of the server and the network.             *)
FairSpec ==
    /\ Spec
    /\ WF_vars(Send) /\ WF_vars(sleepContext) /\ WF_vars(Tick)
    /\ WF_vars(ContextDone /\ Break)

-----------------------------------------------------------------------------
Codes ==
    Retryable \cup {"none", "ok", "AUTH", "PERMISSION", "NOT_FOUND", "INTERNAL", "LOWER_LIMIT",
                    "TOO_LARGE", "USAGE", "CONFLICT", "UNKNOWN"}

TypeOK ==
    /\ kind \in Reads \cup Writes /\ top \in Tops /\ deadline \in Deadlines
    /\ pc \in {"ready", "sent", "served", "asleep", "done"}
    /\ attempt \in 0..maxReadAttempts /\ now \in 0..deadline
    /\ wake \in Nat /\ wished \in Nat /\ interrupted \in BOOLEAN
    /\ reached \in 0..maxReadAttempts + MaxReplays /\ replays \in 0..MaxReplays /\ performed \in Nat
    /\ answer \in Answers(kind) \cup {NoAnswer}
    /\ told \in [code : Codes, delay : Nat, stop : BOOLEAN, items : Nat, truncated : BOOLEAN]

(* A write reaches the server at most once, although net/http repeats what *)
(* it can: the body's reader is one it cannot rewind.                      *)
WriteReachesOnce == kind \in Writes => reached <= 1

(* What is told of a write is true: a success was performed, a refusal was *)
(* not, and nobody is invited to try again, not even after an interrupt.   *)
WriteToldTruly ==
    kind \in Writes /\ pc = "done" =>
        /\ told.code = "ok" => performed = 1
        /\ told.code \notin {"ok", "UNKNOWN"} => performed = 0
        /\ told.code \notin Retryable

(* A server that asked to be left alone and was heard is left alone, by    *)
(* this call and, unless a person interrupted it, by a caller that obeys   *)
(* what it was told.                                                       *)
WishHonored == reached' > reached => now >= wished

AdviceHonorsWish ==
    told.code \in Retryable \ {"CANCELED"} => now + told.delay >= wished \/ told.stop

(* A read sleeps only when it can ask once more: its caller's time is not  *)
(* slept away to end in a timeout that hides what the server said.         *)
SleepPays == pc = "asleep" /\ ~interrupted => pc' # "done"

(* A page says that it is truncated exactly when more was there.           *)
TruncatedTruly ==
    kind = "page" /\ told.code = "ok" =>
        (told.truncated <=> answer.body.items > told.items)

(* Why these hold: every request is an attempt or a replay, and a write is *)
(* attempted once; what a write did is what its answer says; and a sleep   *)
(* reaches to the end of the server's wish and not to the deadline.        *)
RequestsCounted ==
    /\ reached + (IF pc = "sent" THEN 1 ELSE 0) <= attempt + replays
    /\ pc \in {"ready", "asleep"} => attempt < maxReadAttempts
    /\ kind \in Writes => attempt <= 1 /\ replays = 0 /\ (pc = "ready" => attempt = 0) /\ pc # "asleep"

EffectsAnswered ==
    /\ pc = "served" => answer \in Answers(kind)
    /\ kind \in Writes => /\ pc \in {"ready", "sent"} => performed = 0
                          /\ pc = "served" => performed \in Effects(kind, answer)

SleepsBounded ==
    /\ pc # "done" => told = Untold
    /\ pc \in {"ready", "sent", "served"} => now >= wished
    /\ pc = "asleep" => now <= wake /\ wished <= wake /\ wake < deadline

(* Writes and reads are told truly, and the advice to come back is one to  *)
(* follow.                                                                 *)
CallToldTruly ==
    /\ TypeOK /\ WriteReachesOnce /\ WriteToldTruly /\ AdviceHonorsWish /\ TruncatedTruly
    /\ RequestsCounted /\ EffectsAnswered /\ SleepsBounded

(* When a call asks again, and when it sleeps.                             *)
RetriesPay == [][WishHonored /\ SleepPays]_vars

(* Every call returns, whatever the server does.                           *)
CallReturns == <>(pc = "done")
=============================================================================
