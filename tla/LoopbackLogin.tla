--------------------------- MODULE LoopbackLogin ----------------------------
(***************************************************************************)
(* The browser login (internal/application/oauth_login.go, internal/oauth):*)
(* each login listens on the loopback port of the redirect URI, opens the  *)
(* authorization page, waits for one redirect with its own state value,    *)
(* presents the code to the token endpoint and checks the account.         *)
(*                                                                         *)
(* A login is one process: the command, the server's handlers, one per     *)
(* request, and a goroutine that closes the server when the context ends.  *)
(* Redirects may be repeated, late, of another login, or be no redirects   *)
(* at all.  State values and codes are unguessable: they are whose they    *)
(* are.  Publishing the credential is CredentialTransaction's.             *)
(***************************************************************************)
EXTENDS Naturals, Sequences, FiniteSets

CONSTANTS
    Logins, None,
    MaxRequests   \* requests that reach a listening port

Accounts == {"expected", "other"}
Exits == {"failed", "cancelled", "denied", "broken", "retryable", "auth", "logged_in"}

ASSUME LoginAssumption == MaxRequests \in Nat /\ None \notin Logins \cup Accounts \cup Exits

(* What the query of a request says: redirects of a session, or whatever a *)
(* local program or a page sends.                                          *)
Requests ==
    [state : Logins, says : {"code", "denied", "malformed"}]
    \cup [state : {None}, says : {"code", "denied"}]

VARIABLES
    main,       \* where LoginOAuth of each login is
    cancelled,  \* its context is done
    listening,  \* its listener is open
    once,       \* callback.once was used
    result,     \* callback.result, a channel of one element
    handlers,   \* the results its running handlers have parsed and not sent
    closing,    \* callback.closeOnce: "none" yet, "not" used, "done", "shut", "over"
    received,   \* what Wait returned
    approved,   \* of each session, who approved it in the browser
    presented,  \* of each code, the logins that presented it
    reached,    \* the answer that the token endpoint gave and the client got
    exit,       \* how the command ended
    requests    \* how many requests arrived

callback == <<once, result, handlers>>
server == <<approved, presented>>
vars == <<main, cancelled, listening, callback, closing, received, server, reached, exit, requests>>

-----------------------------------------------------------------------------
Started(l) == main[l] # "idle"

(* The command returns, and the deferred Close runs first.                 *)
Return(l, how) ==
    /\ main' = [main EXCEPT ![l] = "close"]
    /\ exit' = [exit EXCEPT ![l] = how]

Start(l) ==
    /\ main[l] = "idle"
    /\ IF \E k \in Logins : listening[k]
       THEN /\ main' = [main EXCEPT ![l] = "returned"]
            /\ exit' = [exit EXCEPT ![l] = "failed"]
            /\ UNCHANGED <<listening, closing>>
       ELSE /\ main' = [main EXCEPT ![l] = "open"]
            /\ listening' = [listening EXCEPT ![l] = TRUE]
            /\ closing' = [closing EXCEPT ![l] = "not"]
            /\ UNCHANGED exit
    /\ UNCHANGED <<cancelled, callback, received, server, reached, requests>>

OpenBrowser(l) ==
    /\ main[l] = "open"
    /\ \/ main' = [main EXCEPT ![l] = "wait"] /\ UNCHANGED exit
       \/ Return(l, "failed")
    /\ UNCHANGED <<cancelled, listening, callback, closing, received, server, reached, requests>>

(* The person approves in the browser, as whoever is signed in there.      *)
Approve(l) ==
    /\ main[l] \in {"wait", "returned"} /\ approved[l] = None
    /\ \E a \in Accounts : approved' = [approved EXCEPT ![l] = a]
    /\ UNCHANGED <<main, cancelled, listening, callback, closing, received, presented, reached, exit, requests>>

-----------------------------------------------------------------------------
(* Broken variant: the state value is not compared.                        *)
AnyState(l, r) == IF r.says = "malformed" THEN "invalid" ELSE r.says

ParseCallback(l, r) ==
    IF r.says = "malformed" \/ r.state # l THEN "invalid" ELSE r.says

Ends(verdict) == verdict \in {"code", "denied"}

(* A handler, up to callback.once.  One that has nothing to send replies.  *)
Arrive(l) ==
    /\ listening[l] /\ requests < MaxRequests
    /\ \E r \in Requests :
         LET verdict == ParseCallback(l, r) IN
         /\ r.says = "code" /\ r.state # None => approved[r.state] # None
         /\ handlers' = IF Ends(verdict)
                        THEN [handlers EXCEPT ![l] = @ \cup {[verdict |-> verdict, state |-> r.state]}]
                        ELSE handlers
    /\ requests' = requests + 1
    /\ UNCHANGED <<main, cancelled, listening, once, result, closing, received, server, reached, exit>>

SendOnce(l, value) ==
    IF once[l] THEN UNCHANGED <<once, result>>
    ELSE /\ Len(result[l]) < 1
         /\ once' = [once EXCEPT ![l] = TRUE]
         /\ result' = [result EXCEPT ![l] = Append(@, value)]

Send(l) ==
    /\ \E value \in handlers[l] :
         /\ SendOnce(l, value)
         /\ handlers' = [handlers EXCEPT ![l] = @ \ {value}]
    /\ UNCHANGED <<main, cancelled, listening, closing, received, server, reached, exit, requests>>

ServeFails(l) ==
    /\ listening[l] /\ closing[l] = "not"
    /\ SendOnce(l, [verdict |-> "broken", state |-> None])
    /\ listening' = [listening EXCEPT ![l] = FALSE]
    /\ UNCHANGED <<main, cancelled, handlers, closing, received, server, reached, exit, requests>>

-----------------------------------------------------------------------------
(* Broken variant: a result is waited for, and nothing else.               *)
WaitForResult(l) ==
    /\ main[l] = "wait" /\ result[l] # <<>>
    /\ received' = [received EXCEPT ![l] = Head(result[l])]
    /\ result' = [result EXCEPT ![l] = <<>>]
    /\ IF Head(result[l]).verdict = "code"
       THEN main' = [main EXCEPT ![l] = "exchange"] /\ UNCHANGED exit
       ELSE Return(l, Head(result[l]).verdict)
    /\ UNCHANGED <<cancelled, listening, once, handlers, closing, server, reached, requests>>

Wait(l) ==
    /\ main[l] = "wait"
    /\ \/ /\ cancelled[l]
          /\ Return(l, "cancelled")
          /\ UNCHANGED <<received, result>>
       \/ /\ result[l] # <<>>
          /\ received' = [received EXCEPT ![l] = Head(result[l])]
          /\ result' = [result EXCEPT ![l] = <<>>]
          /\ IF Head(result[l]).verdict = "code"
             THEN main' = [main EXCEPT ![l] = "exchange"] /\ UNCHANGED exit
             ELSE Return(l, Head(result[l]).verdict)
    /\ UNCHANGED <<cancelled, listening, once, handlers, closing, server, reached, requests>>

Cancel(l) ==
    /\ main[l] \notin {"idle", "returned"} /\ ~cancelled[l]
    /\ cancelled' = [cancelled EXCEPT ![l] = TRUE]
    /\ UNCHANGED <<main, listening, callback, closing, received, server, reached, exit, requests>>

(* Close: the first caller closes done, then the listener, and waits for   *)
(* the handlers or for a second; others wait for the first to be through.  *)
CloseFirst(l) ==
    /\ closing[l] = "not"
    /\ main[l] = "close" \/ cancelled[l]
    /\ closing' = [closing EXCEPT ![l] = "done"]
    /\ UNCHANGED <<main, cancelled, listening, callback, received, server, reached, exit, requests>>

Shutdown(l) ==
    /\ \/ closing[l] = "done" /\ closing' = [closing EXCEPT ![l] = "shut"]
       \/ closing[l] = "shut" /\ closing' = [closing EXCEPT ![l] = "over"]
    /\ listening' = [listening EXCEPT ![l] = FALSE]
    /\ UNCHANGED <<main, cancelled, callback, received, server, reached, exit, requests>>

CloseReturns(l) == closing[l] = "over"

CloseEnds(l) ==
    /\ main[l] = "close" /\ CloseReturns(l)
    /\ main' = [main EXCEPT ![l] = "returned"]
    /\ UNCHANGED <<cancelled, listening, callback, closing, received, server, reached, exit, requests>>

-----------------------------------------------------------------------------
(* The token endpoint grants a code once, to the session it is of.  What   *)
(* the client gets: nothing, a status of a class, or a 200 answer whole,   *)
(* malformed or cut off.                                                   *)
Answers == {"nothing", "interrupted", "untrusted", "busy", "refused", "redirect", "other"}

Granted == {"whole", "malformed", "cut"}

Present(l) ==
    /\ main[l] = "exchange"
    /\ LET code == received[l].state IN
       IF cancelled[l]
       THEN Return(l, "cancelled") /\ UNCHANGED <<presented, reached>>
       ELSE /\ presented' = [presented EXCEPT ![code] = Append(@, l)]
            /\ \E a \in Answers \cup (IF presented[code] = <<>> /\ code = l THEN Granted ELSE {}) :
                 reached' = [reached EXCEPT ![l] = a]
            /\ main' = [main EXCEPT ![l] = "answer"]
            /\ UNCHANGED exit
    /\ UNCHANGED <<cancelled, listening, callback, closing, received, approved, requests>>

TokenFailure(answer) ==
    CASE answer \in {"nothing", "busy"} -> "unavailable" [] answer \in {"interrupted", "cut"} -> "interrupted"
      [] answer = "untrusted" -> "transport" [] answer = "refused" -> "rejected"
      [] answer = "redirect" -> "redirect" [] OTHER -> "invalid"

(* The exit code of the catalog.                                           *)
Exit(category) == IF category = "unavailable" THEN "retryable" ELSE "auth"

Answer(l) ==
    /\ main[l] = "answer"
    /\ IF reached[l] = "whole" THEN main' = [main EXCEPT ![l] = "verify"] /\ UNCHANGED exit
       ELSE Return(l, Exit(TokenFailure(reached[l])))
    /\ UNCHANGED <<cancelled, listening, callback, closing, received, server, reached, requests>>

verifyAccount(account) == account = "expected"

Verify(l) ==
    /\ main[l] = "verify"
    /\ \/ Return(l, IF verifyAccount(approved[received[l].state]) THEN "logged_in" ELSE "auth")
       \/ Return(l, "failed")
    /\ UNCHANGED <<cancelled, listening, callback, closing, received, server, reached, requests>>

-----------------------------------------------------------------------------
Main(l) == Start(l) \/ OpenBrowser(l) \/ Wait(l) \/ Present(l) \/ Answer(l) \/ Verify(l) \/ CloseEnds(l)
Closing(l) == CloseFirst(l) \/ Shutdown(l)

Init ==
    /\ main = [l \in Logins |-> "idle"]
    /\ cancelled = [l \in Logins |-> FALSE] /\ listening = [l \in Logins |-> FALSE]
    /\ once = [l \in Logins |-> FALSE] /\ result = [l \in Logins |-> <<>>]
    /\ handlers = [l \in Logins |-> {}] /\ closing = [l \in Logins |-> "none"]
    /\ received = [l \in Logins |-> None] /\ approved = [l \in Logins |-> None]
    /\ presented = [c \in Logins \cup {None} |-> <<>>] /\ reached = [l \in Logins |-> None]
    /\ exit = [l \in Logins |-> None] /\ requests = 0

Next == \E l \in Logins :
    \/ Main(l) \/ Send(l) \/ Closing(l)
    \/ Cancel(l) \/ Approve(l) \/ Arrive(l) \/ ServeFails(l)

Spec == Init /\ [][Next]_vars

(* The goroutines run, and --timeout, always positive, ends every context. *)
FairSpec ==
    /\ Spec
    /\ \A l \in Logins :
         /\ WF_vars(Main(l)) /\ WF_vars(Send(l)) /\ WF_vars(Closing(l))
         /\ WF_vars(Cancel(l))

-----------------------------------------------------------------------------
(* What a handler and Serve may send.                                      *)
Redirected(l) == [verdict : {"code", "denied"}, state : {l}]
Results(l) == Redirected(l) \cup [verdict : {"broken"}, state : {None}]
AllResults == [verdict : {"code", "denied", "broken"}, state : Logins \cup {None}]

TypeOK ==
    /\ main \in [Logins -> {"idle", "open", "wait", "exchange", "answer", "verify", "close", "returned"}]
    /\ cancelled \in [Logins -> BOOLEAN] /\ listening \in [Logins -> BOOLEAN] /\ once \in [Logins -> BOOLEAN]
    /\ result \in [Logins -> Seq(AllResults)] /\ handlers \in [Logins -> SUBSET AllResults]
    /\ received \in [Logins -> AllResults \cup {None}]
    /\ closing \in [Logins -> {"none", "not", "done", "shut", "over"}]
    /\ approved \in [Logins -> Accounts \cup {None}]
    /\ presented \in [Logins \cup {None} -> Seq(Logins)]
    /\ reached \in [Logins -> Answers \cup Granted \cup {None}]
    /\ exit \in [Logins -> Exits \cup {None}]
    /\ requests \in 0..MaxRequests

(* A login succeeds only on the approval of its own session by the account *)
(* of the profile, with a code that nobody else has presented.             *)
OwnApproval ==
    \A l \in Logins : exit[l] = "logged_in" =>
        approved[l] = "expected" /\ received[l].state = l /\ presented[l] = <<l>>

(* No code is presented twice, by however many logins and redirects.       *)
PresentedOnce == \A l \in Logins : Len(presented[l]) <= 1

(* What is not a redirect of this very session ends no login, whether it   *)
(* says code, denied or anything else: the wait goes on.                   *)
StrangersIgnored ==
    \A l \in Logins : received[l] # None /\ received[l].verdict # "broken" => received[l].state = l

(* A caller is told to try again only when no 200 answer came: after one,  *)
(* even an unreadable one, the code may have been spent.                   *)
NoRetryAfterGrant == \A l \in Logins : exit[l] = "retryable" => reached[l] \notin Granted

(* When the command returns its port is free, so the next login can use    *)
(* it, whichever of its goroutines closed the server.                      *)
PortFreed == \A l \in Logins : main[l] = "returned" => ~listening[l]

(* Why these hold: what handlers parsed, the channel holds and Wait got is *)
(* of the login's own session; it presents its code on one way only, and   *)
(* returns last; and a listener is open no longer than nobody closed it.   *)
ResultsOwn ==
    \A l \in Logins :
        /\ handlers[l] \subseteq Redirected(l)
        /\ result[l] \in Seq(Results(l)) /\ Len(result[l]) <= 1
        /\ received[l] \in Results(l) \cup {None}
        /\ main[l] \in {"exchange", "answer", "verify"} =>
              received[l] \in Redirected(l) /\ received[l].verdict = "code"

CodePresentedLate ==
    \A l \in Logins :
        /\ presented[l] \in {<<>>, <<l>>}
        /\ main[l] \in {"idle", "open", "wait", "exchange"} => presented[l] = <<>>
        /\ main[l] \in {"answer", "verify"} => presented[l] = <<l>>

ExitsLast == \A l \in Logins : exit[l] # None => main[l] \in {"close", "returned"}

PortsClosed ==
    \A l \in Logins :
        /\ main[l] = "idle" => closing[l] = "none"
        /\ main[l] = "returned" => closing[l] \in {"none", "over"}
        /\ closing[l] \in {"none", "shut", "over"} => ~listening[l]

(* A login takes the approval of its own session, once, and leaves no port *)
(* behind.                                                                 *)
LoginInv ==
    /\ TypeOK /\ OwnApproval /\ PresentedOnce /\ StrangersIgnored /\ NoRetryAfterGrant /\ PortFreed
    /\ ResultsOwn /\ CodePresentedLate /\ ExitsLast /\ PortsClosed

(* A login that started comes back, though the browser may never call.     *)
LoginReturns == \A l \in Logins : Started(l) ~> main[l] = "returned"

(* No handler is left waiting for somebody to take its result.             *)
HandlersEnd == \A l \in Logins : []<>(handlers[l] = {})
=============================================================================
