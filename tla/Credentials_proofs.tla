------------------------- MODULE Credentials_proofs -------------------------
(***************************************************************************)
(* The safety of browser logins, for every number of logins and requests,  *)
(* of the Keychain item, whatever is done to it and how often, and of the  *)
(* credential in it, for every list of scopes.                             *)
(***************************************************************************)
EXTENDS MCCredentials, SequenceTheorems, WellFoundedInduction, TLAPS

-----------------------------------------------------------------------------
(* The invariant, seen from one login.                                     *)

Own(l) ==
    /\ exit[l] = "logged_in" => approved[l] = "expected" /\ received[l].state = l /\ presented[l] = <<l>>
    /\ exit[l] = "retryable" => reached[l] \notin Granted
    /\ exit[l] # None => main[l] \in {"close", "returned"}
    /\ handlers[l] \subseteq Redirected(l)
    /\ result[l] \in Seq(Results(l)) /\ Len(result[l]) <= 1
    /\ received[l] \in Results(l) \cup {None}
    /\ main[l] \in {"exchange", "answer", "verify"} =>
          received[l] \in Redirected(l) /\ received[l].verdict = "code"
    /\ presented[l] \in {<<>>, <<l>>}
    /\ main[l] \in {"idle", "open", "wait", "exchange"} => presented[l] = <<>>
    /\ main[l] \in {"answer", "verify"} => presented[l] = <<l>>
    /\ main[l] = "idle" => closing[l] = "none"
    /\ main[l] = "returned" => closing[l] \in {"none", "over"}
    /\ closing[l] \in {"none", "shut", "over"} => ~listening[l]

(* The invariant is that of each login: what it lets a session or a port   *)
(* do follows.                                                             *)
LEMMA OwnParts == LoginInv <=> TypeOK /\ \A l \in Logins : Own(l)
  <1>1. LoginInv => TypeOK /\ \A l \in Logins : Own(l)
    BY DEF LoginInv, OwnApproval, NoRetryAfterGrant, ResultsOwn, CodePresentedLate, ExitsLast, PortsClosed, Own
  <1>2. ASSUME TypeOK, \A l \in Logins : Own(l) PROVE LoginInv
    <2>1. OwnApproval /\ NoRetryAfterGrant /\ ResultsOwn /\ CodePresentedLate /\ ExitsLast /\ PortsClosed
      BY <1>2 DEF OwnApproval, NoRetryAfterGrant, ResultsOwn, CodePresentedLate, ExitsLast, PortsClosed, Own
    <2>2. PresentedOnce
      <3> SUFFICES ASSUME NEW l \in Logins PROVE Len(presented[l]) <= 1
        BY DEF PresentedOnce
      <3>1. presented[l] = <<>> \/ presented[l] = <<l>>
        BY <1>2 DEF Own
      <3>2. CASE presented[l] = <<>>
        BY <3>2
      <3>3. CASE presented[l] = <<l>>
        BY <3>3
      <3> QED
        BY <3>1, <3>2, <3>3
    <2>3. StrangersIgnored
      BY <1>2 DEF StrangersIgnored, Own, Results, Redirected
    <2>4. PortFreed
      BY <1>2 DEF PortFreed, Own
    <2> QED
      BY <1>2, <2>1, <2>2, <2>3, <2>4 DEF LoginInv
  <1> QED
    BY <1>1, <1>2

(* The half of it that the steps below need, of the state after a step.    *)
LEMMA OwnAfter == ASSUME TypeOK', \A l \in Logins : Own(l)' PROVE LoginInv'
  <1>1. (OwnApproval /\ NoRetryAfterGrant /\ ResultsOwn /\ CodePresentedLate /\ ExitsLast /\ PortsClosed)'
    BY DEF OwnApproval, NoRetryAfterGrant, ResultsOwn, CodePresentedLate, ExitsLast, PortsClosed, Own
  <1>2. PresentedOnce'
    <2> SUFFICES ASSUME NEW l \in Logins PROVE Len(presented'[l]) <= 1
      BY DEF PresentedOnce
    <2>1. presented'[l] = <<>> \/ presented'[l] = <<l>>
      BY DEF Own
    <2>2. CASE presented'[l] = <<>>
      BY <2>2
    <2>3. CASE presented'[l] = <<l>>
      BY <2>3
    <2> QED
      BY <2>1, <2>2, <2>3
  <1>3. StrangersIgnored'
    BY DEF StrangersIgnored, Own, Results, Redirected
  <1>4. PortFreed'
    BY DEF PortFreed, Own
  <1> QED
    BY <1>1, <1>2, <1>3, <1>4 DEF LoginInv

(* What a step of one login leaves to the others.                          *)
Same(k) ==
    /\ main'[k] = main[k] /\ listening'[k] = listening[k] /\ result'[k] = result[k]
    /\ handlers'[k] = handlers[k] /\ closing'[k] = closing[k] /\ received'[k] = received[k]
    /\ approved'[k] = approved[k] /\ presented'[k] = presented[k] /\ reached'[k] = reached[k]
    /\ exit'[k] = exit[k]

LEMMA OwnStep ==
    ASSUME LoginInv, NEW l \in Logins, \A k \in Logins \ {l} : Same(k), TypeOK', Own(l)'
    PROVE  LoginInv'
  <1>1. ASSUME NEW k \in Logins \ {l} PROVE Own(k)'
    <2>1. Own(k) /\ Same(k)
      BY <1>1, OwnParts
    <2> QED
      BY <2>1 DEF Own, Same
  <1>2. \A k \in Logins : Own(k)'
    BY <1>1
  <1> QED
    BY <1>2, OwnAfter

(* One more in an empty sequence, and the one that is in it.               *)
LEMMA OneAppended ==
    ASSUME NEW S, NEW q \in Seq(S), NEW v \in S, q = <<>> \/ Len(q) < 1
    PROVE  Append(q, v) = <<v>> /\ Append(q, v) \in Seq(S) /\ Len(Append(q, v)) = 1
  <1>1. q = <<>>
    BY EmptySeq
  <1> QED
    BY <1>1, AppendProperties

LEMMA OneTaken ==
    ASSUME NEW S, NEW q \in Seq(S), q # <<>>
    PROVE  Head(q) \in S
  BY HeadTailProperties

(* The step of a login changes what is its own.                            *)
LEMMA Returning ==
    ASSUME TypeOK, NEW l \in Logins, NEW how \in Exits, Return(l, how)
    PROVE  /\ main'[l] = "close" /\ exit'[l] = how
           /\ \A k \in Logins \ {l} : main'[k] = main[k] /\ exit'[k] = exit[k]
           /\ main' \in [Logins -> {"idle", "open", "wait", "exchange", "answer", "verify", "close", "returned"}]
           /\ exit' \in [Logins -> Exits \cup {None}]
  BY DEF TypeOK, Return

-----------------------------------------------------------------------------
(* The command.                                                            *)

LEMMA StartStep == ASSUME LoginInv, NEW l \in Logins, Start(l) PROVE LoginInv'
  <1>1. TypeOK /\ Own(l)
    BY OwnParts
  <1>2. /\ main[l] = "idle" /\ closing[l] = "none" /\ ~listening[l] /\ exit[l] = None
        /\ UNCHANGED <<cancelled, once, result, handlers, received, approved, presented, reached, requests>>
    BY <1>1, LoginAssumption DEF Start, Own, callback, server, TypeOK
  <1>3. CASE \E k \in Logins : listening[k]
    <2>1. /\ main' = [main EXCEPT ![l] = "returned"] /\ exit' = [exit EXCEPT ![l] = "failed"]
          /\ UNCHANGED <<listening, closing>>
      BY <1>3 DEF Start
    <2>2. TypeOK'
      BY <1>1, <1>2, <2>1 DEF TypeOK, Exits
    <2>3. Own(l)'
      BY <1>1, <1>2, <2>1 DEF Own, TypeOK
    <2> QED
      BY <1>1, <1>2, <2>1, <2>2, <2>3, OwnStep DEF Same, TypeOK
  <1>4. CASE ~\E k \in Logins : listening[k]
    <2>1. /\ main' = [main EXCEPT ![l] = "open"] /\ listening' = [listening EXCEPT ![l] = TRUE]
          /\ closing' = [closing EXCEPT ![l] = "not"] /\ exit' = exit
      BY <1>4 DEF Start
    <2>2. TypeOK'
      BY <1>1, <1>2, <2>1 DEF TypeOK
    <2>3. Own(l)'
      BY <1>1, <1>2, <2>1 DEF Own, TypeOK
    <2> QED
      BY <1>1, <1>2, <2>1, <2>2, <2>3, OwnStep DEF Same, TypeOK
  <1> QED
    BY <1>3, <1>4

LEMMA OpenStep == ASSUME LoginInv, NEW l \in Logins, OpenBrowser(l) PROVE LoginInv'
  <1>1. TypeOK /\ Own(l)
    BY OwnParts
  <1>2. /\ main[l] = "open"
        /\ UNCHANGED <<cancelled, listening, once, result, handlers, closing, received, approved, presented, reached, requests>>
    BY DEF OpenBrowser, callback, server
  <1>3. CASE main' = [main EXCEPT ![l] = "wait"] /\ UNCHANGED exit
    <2>1. TypeOK' /\ Own(l)'
      BY <1>1, <1>2, <1>3 DEF Own, TypeOK
    <2> QED
      BY <1>1, <1>2, <1>3, <2>1, OwnStep DEF Same, TypeOK
  <1>4. CASE Return(l, "failed")
    <2>1. "failed" \in Exits
      BY DEF Exits
    <2>2. TypeOK' /\ Own(l)'
      BY <1>1, <1>2, <1>4, <2>1, Returning DEF Own, TypeOK
    <2> QED
      BY <1>1, <1>2, <1>4, <2>1, <2>2, Returning, OwnStep DEF Same
  <1> QED
    BY <1>3, <1>4 DEF OpenBrowser

LEMMA WaitStep == ASSUME LoginInv, NEW l \in Logins, Wait(l) PROVE LoginInv'
  <1>1. TypeOK /\ Own(l)
    BY OwnParts
  <1>2. /\ main[l] = "wait" /\ exit[l] = None
        /\ UNCHANGED <<cancelled, listening, once, handlers, closing, approved, presented, reached, requests>>
    BY <1>1 DEF Wait, server, Own, TypeOK
  <1>3. CASE Return(l, "cancelled") /\ UNCHANGED <<received, result>>
    <2>1. "cancelled" \in Exits
      BY DEF Exits
    <2>2. TypeOK' /\ Own(l)'
      BY <1>1, <1>2, <1>3, <2>1, Returning DEF Own, TypeOK
    <2> QED
      BY <1>1, <1>2, <1>3, <2>1, <2>2, Returning, OwnStep DEF Same
  <1>4. CASE ~(Return(l, "cancelled") /\ UNCHANGED <<received, result>>)
    <2> DEFINE got == Head(result[l])
    <2>1. /\ result[l] # <<>> /\ received' = [received EXCEPT ![l] = got]
          /\ result' = [result EXCEPT ![l] = <<>>]
          /\ \/ got.verdict = "code" /\ main' = [main EXCEPT ![l] = "exchange"] /\ UNCHANGED exit
             \/ got.verdict # "code" /\ Return(l, got.verdict)
      BY <1>4 DEF Wait
    <2>2. got \in Results(l)
      BY <1>1, <2>1, OneTaken DEF Own
    <2> HIDE DEF got
    <2>3. got \in AllResults /\ (got.verdict # "code" => got.verdict \in {"denied", "broken"})
          /\ (got.verdict = "code" => got \in Redirected(l))
      BY <2>2 DEF Results, AllResults, Redirected
    <2>4. /\ received' \in [Logins -> AllResults \cup {None}] /\ result' \in [Logins -> Seq(AllResults)]
          /\ received'[l] = got /\ result'[l] = <<>>
          /\ \A k \in Logins \ {l} : received'[k] = received[k] /\ result'[k] = result[k]
      BY <1>1, <2>1, <2>3 DEF TypeOK
    <2>5. CASE got.verdict = "code"
      <3>1. main' = [main EXCEPT ![l] = "exchange"] /\ UNCHANGED exit
        BY <2>1, <2>5
      <3>2. result'[l] \in Seq(Results(l)) /\ Len(result'[l]) <= 1
        BY <2>4
      <3>3. main'[l] = "exchange" /\ exit'[l] = None /\ presented'[l] = <<>>
        BY <1>1, <1>2, <3>1 DEF Own, TypeOK
      <3>4. TypeOK'
        BY <1>1, <1>2, <2>4, <3>1 DEF TypeOK
      <3>5. Own(l)'
        BY <1>1, <1>2, <2>2, <2>3, <2>4, <2>5, <3>2, <3>3, LoginAssumption DEF Own, Exits
      <3>6. TypeOK' /\ Own(l)'
        BY <3>4, <3>5
      <3> QED
        BY <1>1, <1>2, <2>1, <2>4, <2>5, <3>6, OwnStep DEF Same, TypeOK
    <2>6. CASE got.verdict # "code"
      <3>1. got.verdict \in Exits /\ Return(l, got.verdict) /\ got.verdict \notin {"logged_in", "retryable"}
        BY <2>1, <2>3, <2>6 DEF Exits
      <3>2. TypeOK'
        BY <1>1, <1>2, <2>4, <3>1, Returning DEF TypeOK
      <3>3. result'[l] \in Seq(Results(l)) /\ Len(result'[l]) <= 1
        BY <2>4
      <3>4. received'[l] \in Results(l) \cup {None}
        BY <2>2, <2>4
      <3>5. /\ main'[l] = "close" /\ exit'[l] = got.verdict
            /\ exit'[l] # "logged_in" /\ exit'[l] # "retryable"
        BY <1>1, <3>1, Returning
      <3>6. Own(l)'
        BY <1>1, <1>2, <3>3, <3>4, <3>5 DEF Own
      <3> QED
        BY <1>1, <1>2, <2>4, <3>1, <3>2, <3>6, Returning, OwnStep DEF Same
    <2> QED
      BY <2>5, <2>6
  <1> QED
    BY <1>3, <1>4

(* The code is that of the login's own session, and it is the first time.  *)
LEMMA PresentStep == ASSUME LoginInv, NEW l \in Logins, Present(l) PROVE LoginInv'
  <1>1. TypeOK /\ Own(l)
    BY OwnParts
  <1>2. /\ main[l] = "exchange" /\ exit[l] = None /\ received[l].state = l /\ presented[l] = <<>>
        /\ UNCHANGED <<cancelled, listening, once, result, handlers, closing, received, approved, requests>>
    BY <1>1 DEF Present, callback, Own, TypeOK, Redirected
  <1>3. CASE cancelled[l]
    <2>1. Return(l, "cancelled") /\ UNCHANGED <<presented, reached>> /\ "cancelled" \in Exits
      BY <1>3 DEF Present, Exits
    <2>2. TypeOK' /\ Own(l)'
      BY <1>1, <1>2, <2>1, Returning DEF Own, TypeOK
    <2> QED
      BY <1>1, <1>2, <2>1, <2>2, Returning, OwnStep DEF Same
  <1>4. CASE ~cancelled[l]
    <2>1. PICK a \in Answers \cup Granted : reached' = [reached EXCEPT ![l] = a]
      BY <1>2, <1>4 DEF Present
    <2>2. /\ presented' = [presented EXCEPT ![l] = Append(presented[l], l)]
          /\ main' = [main EXCEPT ![l] = "answer"] /\ UNCHANGED exit
      BY <1>2, <1>4 DEF Present
    <2>3. /\ presented'[l] = <<l>> /\ presented' \in [Logins \cup {None} -> Seq(Logins)]
          /\ \A k \in Logins \ {l} : presented'[k] = presented[k]
      <3>1. presented[l] \in Seq(Logins)
        BY <1>1 DEF TypeOK
      <3>2. Append(presented[l], l) = <<l>> /\ Append(presented[l], l) \in Seq(Logins)
        BY <1>2, <3>1, OneAppended
      <3> QED
        BY <1>1, <2>2, <3>2 DEF TypeOK
    <2>4. TypeOK'
      BY <1>1, <1>2, <2>1, <2>2, <2>3 DEF TypeOK
    <2>5. Own(l)'
      BY <1>1, <1>2, <2>1, <2>2, <2>3, LoginAssumption DEF Own, TypeOK, Exits
    <2> QED
      BY <1>1, <1>2, <2>1, <2>2, <2>3, <2>4, <2>5, OwnStep DEF Same, TypeOK
  <1> QED
    BY <1>3, <1>4

LEMMA AnswerStep == ASSUME LoginInv, NEW l \in Logins, Answer(l) PROVE LoginInv'
  <1>1. TypeOK /\ Own(l)
    BY OwnParts
  <1>2. /\ main[l] = "answer" /\ exit[l] = None
        /\ UNCHANGED <<cancelled, listening, once, result, handlers, closing, received, approved, presented, reached, requests>>
    BY <1>1 DEF Answer, callback, server, Own, TypeOK
  <1>3. CASE reached[l] = "whole"
    <2>1. main' = [main EXCEPT ![l] = "verify"] /\ UNCHANGED exit
      BY <1>3 DEF Answer
    <2>2. TypeOK' /\ Own(l)'
      BY <1>1, <1>2, <2>1 DEF Own, TypeOK
    <2> QED
      BY <1>1, <1>2, <2>1, <2>2, OwnStep DEF Same, TypeOK
  <1>4. CASE reached[l] # "whole"
    <2> DEFINE how == Exit(TokenFailure(reached[l]))
    <2>1. Return(l, how)
      BY <1>4 DEF Answer
    <2>2. how \in {"retryable", "auth"} /\ how \in Exits
      BY DEF Exit, Exits
    <2>3. how = "retryable" => reached[l] \notin Granted
      BY DEF Exit, TokenFailure, Granted
    <2> HIDE DEF how
    <2>4. TypeOK' /\ Own(l)'
      BY <1>1, <1>2, <2>1, <2>2, <2>3, Returning DEF Own, TypeOK
    <2> QED
      BY <1>1, <1>2, <2>1, <2>2, <2>4, Returning, OwnStep DEF Same
  <1> QED
    BY <1>3, <1>4

LEMMA VerifyStep == ASSUME LoginInv, NEW l \in Logins, Verify(l) PROVE LoginInv'
  <1>1. TypeOK /\ Own(l)
    BY OwnParts
  <1>2. /\ main[l] = "verify" /\ received[l].state = l /\ presented[l] = <<l>>
        /\ UNCHANGED <<cancelled, listening, once, result, handlers, closing, received, approved, presented, reached, requests>>
    BY <1>1 DEF Verify, callback, server, Own, Redirected
  <1>3. PICK how \in {"logged_in", "auth", "failed"} :
           Return(l, how) /\ (how = "logged_in" => approved[l] = "expected")
    BY <1>2 DEF Verify, verifyAccount
  <1>4. how \in Exits /\ how # "retryable"
    BY DEF Exits
  <1>5. TypeOK' /\ Own(l)'
    BY <1>1, <1>2, <1>3, <1>4, Returning DEF Own, TypeOK
  <1> QED
    BY <1>1, <1>2, <1>3, <1>4, <1>5, Returning, OwnStep DEF Same

LEMMA CloseEndsStep == ASSUME LoginInv, NEW l \in Logins, CloseEnds(l) PROVE LoginInv'
  <1>1. TypeOK /\ Own(l)
    BY OwnParts
  <1>2. /\ main[l] = "close" /\ closing[l] = "over" /\ main' = [main EXCEPT ![l] = "returned"]
        /\ UNCHANGED <<cancelled, listening, once, result, handlers, closing, received, approved, presented, reached, exit, requests>>
    BY DEF CloseEnds, CloseReturns, callback, server
  <1>3. TypeOK' /\ Own(l)'
    BY <1>1, <1>2 DEF Own, TypeOK
  <1> QED
    BY <1>1, <1>2, <1>3, OwnStep DEF Same, TypeOK

-----------------------------------------------------------------------------
(* The callback server and the browser.                                    *)

LEMMA ClosingStep == ASSUME LoginInv, NEW l \in Logins, Closing(l) PROVE LoginInv'
  <1>1. TypeOK /\ Own(l)
    BY OwnParts
  <1>2. UNCHANGED <<main, cancelled, once, result, handlers, received, approved, presented, reached, exit, requests>>
    BY DEF Closing, CloseFirst, Shutdown, callback, server
  <1>3. PICK to \in {"done", "shut", "over"} :
           /\ closing' = [closing EXCEPT ![l] = to]
           /\ closing[l] \notin {"none", "over"}
           /\ IF to = "done" THEN UNCHANGED listening ELSE listening' = [listening EXCEPT ![l] = FALSE]
    BY DEF Closing, CloseFirst, Shutdown
  <1>4. TypeOK'
    BY <1>1, <1>2, <1>3 DEF TypeOK
  <1>5. Own(l)'
    BY <1>1, <1>2, <1>3 DEF Own, TypeOK
  <1>6. \A k \in Logins \ {l} : listening'[k] = listening[k] /\ closing'[k] = closing[k]
    BY <1>1, <1>3 DEF TypeOK
  <1>7. \A k \in Logins \ {l} : Same(k)
    BY <1>2, <1>6 DEF Same
  <1> QED
    BY <1>4, <1>5, <1>7, OwnStep

LEMMA CancelStep == ASSUME LoginInv, NEW l \in Logins, Cancel(l) PROVE LoginInv'
  <1>1. TypeOK /\ Own(l)
    BY OwnParts
  <1>2. cancelled' = [cancelled EXCEPT ![l] = TRUE]
        /\ UNCHANGED <<main, listening, once, result, handlers, closing, received, approved, presented, reached, exit, requests>>
    BY DEF Cancel, callback, server
  <1>3. TypeOK' /\ Own(l)'
    BY <1>1, <1>2 DEF Own, TypeOK
  <1>4. \A k \in Logins \ {l} : Same(k)
    BY <1>2 DEF Same
  <1> QED
    BY <1>3, <1>4, OwnStep

LEMMA ApproveStep == ASSUME LoginInv, NEW l \in Logins, Approve(l) PROVE LoginInv'
  <1>1. TypeOK /\ Own(l)
    BY OwnParts
  <1>2. PICK a \in Accounts : approved' = [approved EXCEPT ![l] = a]
    BY DEF Approve
  <1>3. approved[l] = None
        /\ UNCHANGED <<main, cancelled, listening, once, result, handlers, closing, received, presented, reached, exit, requests>>
    BY DEF Approve, callback
  <1>4. approved[l] # "expected"
    BY <1>3, LoginAssumption DEF Accounts
  <1>5. TypeOK' /\ Own(l)'
    BY <1>1, <1>2, <1>3, <1>4 DEF Own, TypeOK
  <1> QED
    BY <1>1, <1>2, <1>3, <1>5, OwnStep DEF Same, TypeOK

(* Only a redirect of the login's own session is handed on.                *)
LEMMA ArriveStep == ASSUME LoginInv, NEW l \in Logins, Arrive(l) PROVE LoginInv'
  <1>1. TypeOK /\ Own(l)
    BY OwnParts
  <1>2. UNCHANGED <<main, cancelled, listening, once, result, closing, received, approved, presented, reached, exit>>
        /\ requests < MaxRequests /\ requests' = requests + 1
    BY DEF Arrive, server
  <1>3. PICK r \in Requests :
           LET verdict == ParseCallback(l, r) IN
           handlers' = IF Ends(verdict)
                       THEN [handlers EXCEPT ![l] = @ \cup {[verdict |-> verdict, state |-> r.state]}]
                       ELSE handlers
    BY DEF Arrive
  <1> DEFINE value == [verdict |-> ParseCallback(l, r), state |-> r.state]
  <1>4. Ends(ParseCallback(l, r)) => value \in Redirected(l) /\ value \in AllResults
    BY DEF Ends, ParseCallback, Redirected, AllResults
  <1>5. handlers' = IF Ends(ParseCallback(l, r)) THEN [handlers EXCEPT ![l] = @ \cup {value}] ELSE handlers
    BY <1>3
  <1> HIDE DEF value
  <1>6. /\ handlers' \in [Logins -> SUBSET AllResults] /\ handlers'[l] \subseteq Redirected(l)
        /\ \A k \in Logins \ {l} : handlers'[k] = handlers[k]
    BY <1>1, <1>4, <1>5 DEF TypeOK, Own
  <1>7. requests' \in 0..MaxRequests
    BY <1>1, <1>2, LoginAssumption DEF TypeOK
  <1>8. TypeOK' /\ Own(l)'
    BY <1>1, <1>2, <1>6, <1>7 DEF Own, TypeOK
  <1> QED
    BY <1>2, <1>6, <1>8, OwnStep DEF Same

(* What is sent is one value, into an empty channel.                       *)
LEMMA SentOnce ==
    ASSUME TypeOK, NEW l \in Logins, Own(l), NEW v \in AllResults, v \in Results(l), SendOnce(l, v)
    PROVE  /\ once' \in [Logins -> BOOLEAN] /\ result' \in [Logins -> Seq(AllResults)]
           /\ result'[l] \in Seq(Results(l)) /\ Len(result'[l]) <= 1
           /\ \A k \in Logins \ {l} : result'[k] = result[k]
  <1>1. CASE once[l]
    BY <1>1 DEF SendOnce, TypeOK, Own
  <1>2. CASE ~once[l]
    <2>1. Len(result[l]) < 1 /\ once' = [once EXCEPT ![l] = TRUE] /\ result' = [result EXCEPT ![l] = Append(result[l], v)]
      BY <1>2 DEF SendOnce
    <2>2. /\ Append(result[l], v) \in Seq(Results(l)) /\ Len(Append(result[l], v)) = 1
      BY <2>1, OneAppended DEF Own
    <2>3. Append(result[l], v) \in Seq(AllResults)
      <3>1. result[l] \in Seq(AllResults)
        BY DEF TypeOK
      <3> QED
        BY <2>1, <3>1, OneAppended
    <2> QED
      BY <2>1, <2>2, <2>3 DEF TypeOK
  <1> QED
    BY <1>1, <1>2

LEMMA SendStep == ASSUME LoginInv, NEW l \in Logins, Send(l) PROVE LoginInv'
  <1>1. TypeOK /\ Own(l)
    BY OwnParts
  <1>2. UNCHANGED <<main, cancelled, listening, closing, received, approved, presented, reached, exit, requests>>
    BY DEF Send, server
  <1>3. PICK v \in handlers[l] : SendOnce(l, v) /\ handlers' = [handlers EXCEPT ![l] = @ \ {v}]
    BY DEF Send
  <1>4. v \in Results(l) /\ v \in AllResults
    BY <1>1 DEF Own, TypeOK, Results
  <1>5. /\ handlers' \in [Logins -> SUBSET AllResults] /\ handlers'[l] \subseteq handlers[l]
        /\ \A k \in Logins \ {l} : handlers'[k] = handlers[k]
    BY <1>1, <1>3 DEF TypeOK
  <1>6. /\ once' \in [Logins -> BOOLEAN] /\ result' \in [Logins -> Seq(AllResults)]
        /\ result'[l] \in Seq(Results(l)) /\ Len(result'[l]) <= 1
        /\ \A k \in Logins \ {l} : result'[k] = result[k]
    BY <1>1, <1>3, <1>4, SentOnce
  <1>7. TypeOK' /\ Own(l)'
    BY <1>1, <1>2, <1>5, <1>6 DEF Own, TypeOK
  <1> QED
    BY <1>2, <1>5, <1>6, <1>7, OwnStep DEF Same

LEMMA ServeFailsStep == ASSUME LoginInv, NEW l \in Logins, ServeFails(l) PROVE LoginInv'
  <1>1. TypeOK /\ Own(l)
    BY OwnParts
  <1>2. /\ UNCHANGED <<main, cancelled, handlers, closing, received, approved, presented, reached, exit, requests>>
        /\ listening' = [listening EXCEPT ![l] = FALSE]
    BY DEF ServeFails, server
  <1> DEFINE v == [verdict |-> "broken", state |-> None]
  <1>3. SendOnce(l, v) /\ v \in Results(l) /\ v \in AllResults
    BY DEF ServeFails, Results, AllResults
  <1> HIDE DEF v
  <1>4. /\ once' \in [Logins -> BOOLEAN] /\ result' \in [Logins -> Seq(AllResults)]
        /\ result'[l] \in Seq(Results(l)) /\ Len(result'[l]) <= 1
        /\ \A k \in Logins \ {l} : result'[k] = result[k]
    BY <1>1, <1>3, SentOnce
  <1>5. TypeOK' /\ Own(l)'
    BY <1>1, <1>2, <1>4 DEF Own, TypeOK
  <1> QED
    BY <1>1, <1>2, <1>4, <1>5, OwnStep DEF Same, TypeOK

-----------------------------------------------------------------------------
(* The theorem.                                                            *)

LEMMA LoginInit == Init => LoginInv
  <1> SUFFICES ASSUME Init PROVE LoginInv
    OBVIOUS
  <1>1. TypeOK
    BY LoginAssumption DEF Init, TypeOK
  <1>2. ASSUME NEW l \in Logins PROVE Own(l)
    BY LoginAssumption DEF Init, Own, Exits
  <1> QED
    BY <1>1, <1>2, OwnParts

LEMMA LoginStep == LoginInv /\ [Next]_vars => LoginInv'
  <1> SUFFICES ASSUME LoginInv, [Next]_vars PROVE LoginInv'
    OBVIOUS
  <1>1. CASE UNCHANGED vars
    <2>1. TypeOK' /\ \A l \in Logins : Own(l)'
      BY <1>1, OwnParts DEF vars, callback, server, TypeOK, Own
    <2> QED
      BY <2>1, OwnAfter
  <1>2. ASSUME NEW l \in Logins, Main(l) PROVE LoginInv'
    BY <1>2, StartStep, OpenStep, WaitStep, PresentStep, AnswerStep, VerifyStep, CloseEndsStep DEF Main
  <1> QED
    BY <1>1, <1>2, SendStep, ClosingStep, CancelStep, ApproveStep, ArriveStep, ServeFailsStep DEF Next

(* A login succeeds on the approval of its own session by the account of   *)
(* the profile, presents its code once, is ended by no stranger, advises a *)
(* retry only when no grant came, and leaves no port open                  *)
(* (oauth_login.go, oauth.go).                                             *)
THEOREM LoginSafe == Spec => []LoginInv
  BY LoginInit, LoginStep, PTL DEF Spec

-----------------------------------------------------------------------------
(* The access of an item.                                                  *)
LEMMA Normalized ==
    ASSUME NEW acl \in Keychain!ACLs, installed \in Keychain!Builds, ~Keychain!Ambiguous(acl)
    PROVE  /\ Keychain!normalizeCurrentApplicationACL(acl) \in Keychain!ACLs
           /\ Keychain!Exclusive(Keychain!normalizeCurrentApplicationACL(acl))
           /\ Keychain!normalizeCurrentApplicationACL(acl).other = acl.other
  <1>1. acl \in [count : {1}, listed : BOOLEAN, applications : SUBSET {1, 2}, passphrase : BOOLEAN, other : BOOLEAN]
    BY DEF Keychain!ACLs, Keychain!NoACL, Keychain!Builds, Keychain!Ambiguous
  <1> QED
    BY <1>1 DEF Keychain!normalizeCurrentApplicationACL, Keychain!Exclusive, Keychain!ACLs, Keychain!Builds

LEMMA FoundExclusive ==
    ASSUME NEW acl, ~Keychain!Ambiguous(acl), ~Keychain!Changed(acl)
    PROVE  Keychain!Exclusive(acl)
  BY DEF Keychain!Ambiguous, Keychain!Changed, Keychain!applicationListIsCurrent, Keychain!Exclusive

LEMMA NoItemIs == Keychain!NoItem \in Keychain!Items /\ Keychain!NoItem.id = 0 /\ Keychain!NoItem.secret = "none" /\ Keychain!NoItem.acl = Keychain!NoACL
  BY DEF Keychain!NoItem, Keychain!Items, Keychain!ACLs, Keychain!NoACL

LEMMA ItemInit == Keychain!Init => Keychain!ItemInv
  <1> SUFFICES ASSUME Keychain!Init PROVE Keychain!ItemInv
    OBVIOUS
  <1>1. Keychain!NoACL \in Keychain!ACLs
    BY DEF Keychain!ACLs
  <1>a. touched \in BOOLEAN /\ settled \in BOOLEAN
    BY Zenon DEF Keychain!Init
  <1>2. Keychain!TypeOK
    BY <1>1, <1>a, NoItemIs DEF Keychain!Init, Keychain!TypeOK, Keychain!Builds, Keychain!Commands
  <1> QED
    BY <1>2 DEF Keychain!Init, Keychain!ItemInv, Keychain!SettledWorks, Keychain!LoadedExclusive, Keychain!WorksOnResolved

LEMMA BeginStep == ASSUME Keychain!ItemInv, NEW what \in Keychain!Commands, Keychain!Begin(what) PROVE Keychain!ItemInv'
  <1>1. /\ pc = "idle" /\ command' = what /\ pc' \in {"exists", "resolve"} /\ attempt' = 1 /\ ref' = 0
        /\ access' = Keychain!NoACL /\ vouched' = 0 /\ touched' = FALSE /\ UNCHANGED <<ended, installed, settled>>
    BY DEF Keychain!Begin, Keychain!Goto
  <1>2. item \in Keychain!Items /\ (item.id = 0 <=> item = Keychain!NoItem)
    BY DEF Keychain!ItemInv, Keychain!TypeOK
  <1>3. item' \in Keychain!Items /\ item'.id = item.id /\ item'.acl = item.acl /\ (item'.id = 0 <=> item' = Keychain!NoItem)
    <2>1. CASE item.secret = "new"
      <3>1. item.id # 0
        BY <1>2, <2>1, NoItemIs
      <3> QED
        BY <1>2, <2>1, <3>1, NoItemIs DEF Keychain!Begin, Keychain!Items
    <2> QED
      BY <1>2, <2>1 DEF Keychain!Begin
  <1>4. Keychain!NoACL \in Keychain!ACLs
    BY DEF Keychain!ACLs
  <1>a. touched' \in BOOLEAN /\ settled' \in BOOLEAN
    <2>1. touched' \in BOOLEAN
      BY <1>1, Zenon
    <2> QED
      BY <1>1, <2>1 DEF Keychain!ItemInv, Keychain!TypeOK
  <1>5. Keychain!TypeOK'
    BY <1>1, <1>3, <1>4, <1>a DEF Keychain!ItemInv, Keychain!TypeOK
  <1> QED
    BY <1>1, <1>3, <1>5 DEF Keychain!ItemInv, Keychain!SettledWorks, Keychain!LoadedExclusive, Keychain!WorksOnResolved, Keychain!Exclusive

(* What only looks.                                                        *)
LEMMA LookStep ==
    ASSUME Keychain!ItemInv, Keychain!Exists \/ Keychain!Resolve \/ Keychain!Load \/ Keychain!Fail
    PROVE  Keychain!ItemInv'
  <1>1. UNCHANGED <<item, installed, command, attempt, access, vouched, touched, settled>>
    BY DEF Keychain!Exists, Keychain!Resolve, Keychain!Load, Keychain!Fail
  <1>2. CASE Keychain!Exists
    <2>1. Keychain!TypeOK'
      BY <1>1, <1>2 DEF Keychain!ItemInv, Keychain!TypeOK, Keychain!Exists, Keychain!Goto, Keychain!Return
    <2>2. (pc' = "resolve" \/ (pc' = "idle" /\ ended' = "not found")) /\ UNCHANGED ref
      BY <1>2 DEF Keychain!Exists, Keychain!Goto, Keychain!Return
    <2> QED
      BY <1>1, <2>1, <2>2 DEF Keychain!ItemInv, Keychain!SettledWorks, Keychain!LoadedExclusive, Keychain!WorksOnResolved, Keychain!Exclusive
  <1>3. CASE Keychain!Resolve
    <2>1. ref' \in 0 .. 2
      BY <1>3 DEF Keychain!ItemInv, Keychain!TypeOK, Keychain!Resolve, Keychain!Items
    <2>2. Keychain!TypeOK'
      BY <1>1, <1>3, <2>1 DEF Keychain!ItemInv, Keychain!TypeOK, Keychain!Resolve, Keychain!Goto, Keychain!Return
    <2>3. \/ pc' = "add" /\ command = "save"
          \/ pc' = "idle" /\ command = "delete"
          \/ pc' = "idle" /\ ended' = "not found"
          \/ pc' = "check" /\ command \in {"load", "save"}
          \/ pc' = "delete" /\ command = "delete"
          \/ pc' = "copy" /\ command = "migrate"
      <3>1. command \in Keychain!Commands
        BY DEF Keychain!ItemInv, Keychain!TypeOK
      <3>2. CASE item.id = 0
        BY <1>3, <3>1, <3>2 DEF Keychain!Resolve, Keychain!Goto, Keychain!Return, Keychain!Commands
      <3>3. CASE item.id # 0
        BY <1>3, <3>1, <3>3 DEF Keychain!Resolve, Keychain!Goto, Keychain!Commands
      <3> QED
        BY <3>2, <3>3
    <2> QED
      BY <1>1, <2>2, <2>3 DEF Keychain!ItemInv, Keychain!SettledWorks, Keychain!LoadedExclusive, Keychain!WorksOnResolved, Keychain!Exclusive
  <1>4. CASE Keychain!Load
    <2>1. Keychain!TypeOK'
      BY <1>1, <1>4 DEF Keychain!ItemInv, Keychain!TypeOK, Keychain!Load, Keychain!Return
    <2>2. pc = "work" /\ pc' = "idle" /\ UNCHANGED ref
      BY <1>4 DEF Keychain!Load, Keychain!Return
    <2> QED
      BY <1>1, <2>1, <2>2 DEF Keychain!ItemInv, Keychain!SettledWorks, Keychain!LoadedExclusive, Keychain!WorksOnResolved, Keychain!Exclusive
  <1>5. CASE Keychain!Fail
    <2>1. Keychain!TypeOK'
      BY <1>1, <1>5 DEF Keychain!ItemInv, Keychain!TypeOK, Keychain!Fail, Keychain!Return
    <2> QED
      BY <1>1, <1>5, <2>1 DEF Keychain!ItemInv, Keychain!Fail, Keychain!Return, Keychain!SettledWorks, Keychain!LoadedExclusive, Keychain!WorksOnResolved, Keychain!Exclusive
  <1> QED
    BY <1>2, <1>3, <1>4, <1>5

LEMMA CheckStep == ASSUME Keychain!ItemInv, Keychain!Check PROVE Keychain!ItemInv'
  <1>1. pc = "check" /\ UNCHANGED <<item, installed, command, attempt, ref, access, touched, settled>>
    BY DEF Keychain!Check
  <1>2. \/ pc' = "work" /\ UNCHANGED ended /\ ~Keychain!Gone /\ Keychain!Exclusive(item.acl) /\ vouched' = ref
        \/ pc' = "idle" /\ ended' # "ok" /\ vouched' \in {ref, vouched}
    BY FoundExclusive DEF Keychain!Check, Keychain!runCompatibleKeychainOperation, Keychain!Goto, Keychain!Return
  <1>3. Keychain!TypeOK'
    BY <1>1, <1>2 DEF Keychain!ItemInv, Keychain!TypeOK
  <1> QED
    BY <1>1, <1>2, <1>3 DEF Keychain!ItemInv, Keychain!Gone, Keychain!SettledWorks, Keychain!LoadedExclusive, Keychain!WorksOnResolved, Keychain!Exclusive

LEMMA UpdateStep == ASSUME Keychain!ItemInv, Keychain!Update PROVE Keychain!ItemInv'
  <1>1. /\ pc = "work" /\ command = "save" /\ pc' = "idle"
        /\ UNCHANGED <<installed, command, attempt, ref, access, vouched, touched>>
    BY DEF Keychain!Update, Keychain!UpdateItem, Keychain!Return
  <1>2. item \in Keychain!Items /\ (item.id = 0 <=> item = Keychain!NoItem)
    BY DEF Keychain!ItemInv, Keychain!TypeOK
  <1>3. CASE Keychain!Gone
    <2>1. UNCHANGED <<item, settled>>
      BY <1>3 DEF Keychain!Update, Keychain!UpdateItem
    <2>2. Keychain!TypeOK'
      BY <1>1, <2>1 DEF Keychain!ItemInv, Keychain!TypeOK
    <2> QED
      BY <1>1, <2>1, <2>2 DEF Keychain!ItemInv, Keychain!SettledWorks, Keychain!LoadedExclusive, Keychain!WorksOnResolved, Keychain!Exclusive
  <1>4. CASE ~Keychain!Gone
    <2>1. item' = [item EXCEPT !.secret = "new"] /\ settled' = ~touched
      BY <1>4 DEF Keychain!Update, Keychain!UpdateItem
    <2>2. item' \in Keychain!Items /\ item'.id = item.id /\ item'.acl = item.acl /\ item.id # 0
      BY <1>2, <1>4, <2>1 DEF Keychain!Items, Keychain!Gone
    <2>3. Keychain!TypeOK'
      BY <1>1, <2>1, <2>2, NoItemIs DEF Keychain!ItemInv, Keychain!TypeOK
    <2> QED
      BY <1>1, <2>1, <2>2, <2>3 DEF Keychain!ItemInv, Keychain!SettledWorks, Keychain!LoadedExclusive, Keychain!WorksOnResolved, Keychain!Exclusive
  <1> QED
    BY <1>3, <1>4

LEMMA AddStep == ASSUME Keychain!ItemInv, Keychain!Add PROVE Keychain!ItemInv'
  <1>1. pc = "add" /\ command = "save" /\ UNCHANGED <<installed, command, ref, access, touched>>
    BY DEF Keychain!Add, Keychain!ItemInv, Keychain!WorksOnResolved
  <1>2. PICK acl \in Keychain!Creatable :
         IF Keychain!Ambiguous(acl)
         THEN Keychain!Return("ambiguous") /\ UNCHANGED <<item, attempt, vouched, settled>>
         ELSE IF item.id = 0
         THEN /\ item' = [id |-> IF ref = 1 THEN 2 ELSE 1, secret |-> "new", acl |-> Keychain!NewAccess(acl)]
              /\ Keychain!Return("ok")
              /\ vouched' = item'.id /\ settled' = TRUE
              /\ UNCHANGED attempt
         ELSE Keychain!Duplicate /\ UNCHANGED <<item, vouched, settled>>
    BY DEF Keychain!Add
  <1>3. CASE ~Keychain!Ambiguous(acl) /\ item.id = 0
    <2> DEFINE new == Keychain!NewAccess(acl)
    <2>1. new \in Keychain!ACLs /\ Keychain!Exclusive(new)
      BY <1>3, Normalized DEF Keychain!NewAccess, Keychain!Creatable, Keychain!ItemInv, Keychain!TypeOK
    <2> HIDE DEF new
    <2>2. /\ item' = [id |-> IF ref = 1 THEN 2 ELSE 1, secret |-> "new", acl |-> new]
          /\ pc' = "idle" /\ vouched' = item'.id /\ settled' = TRUE /\ UNCHANGED attempt
      BY <1>2, <1>3 DEF Keychain!Return, new
    <2>3. item' \in Keychain!Items /\ item'.id \in 1 .. 2 /\ item'.acl = new
      BY <2>1, <2>2 DEF Keychain!Items
    <2>4. Keychain!Exclusive(item.acl)'
      BY <1>1, <2>1, <2>3 DEF Keychain!Exclusive
    <2>5. Keychain!TypeOK'
      BY <1>1, <2>2, <2>3, NoItemIs DEF Keychain!ItemInv, Keychain!TypeOK
    <2> QED
      BY <1>1, <2>2, <2>3, <2>4, <2>5 DEF Keychain!ItemInv, Keychain!SettledWorks, Keychain!LoadedExclusive, Keychain!WorksOnResolved
  <1>4. CASE Keychain!Ambiguous(acl) \/ item.id # 0
    <2>1. UNCHANGED <<item, vouched, settled>> /\ attempt' \in 1 .. 2 /\ pc' \in {"idle", "resolve"}
      BY <1>2, <1>4 DEF Keychain!Duplicate, Keychain!Goto, Keychain!Return, Keychain!ItemInv, Keychain!TypeOK
    <2>2. Keychain!TypeOK'
      BY <1>1, <2>1 DEF Keychain!ItemInv, Keychain!TypeOK
    <2> QED
      BY <1>1, <2>1, <2>2 DEF Keychain!ItemInv, Keychain!SettledWorks, Keychain!LoadedExclusive, Keychain!WorksOnResolved, Keychain!Exclusive
  <1> QED
    BY <1>3, <1>4

LEMMA DeleteStep == ASSUME Keychain!ItemInv, Keychain!Delete PROVE Keychain!ItemInv'
  <1>1. /\ pc = "delete" /\ command = "delete" /\ pc' = "idle"
        /\ UNCHANGED <<installed, command, attempt, ref, access, vouched, touched>>
        /\ UNCHANGED <<item, settled>> \/ (item' = Keychain!NoItem /\ settled' = FALSE)
    BY DEF Keychain!Delete, Keychain!DeleteItem, Keychain!Return, Keychain!ItemInv, Keychain!WorksOnResolved
  <1>2. Keychain!TypeOK'
    BY <1>1, NoItemIs DEF Keychain!ItemInv, Keychain!TypeOK
  <1> QED
    BY <1>1, <1>2 DEF Keychain!ItemInv, Keychain!SettledWorks, Keychain!LoadedExclusive, Keychain!WorksOnResolved, Keychain!Exclusive

LEMMA CopyStep == ASSUME Keychain!ItemInv, Keychain!CopyAccess PROVE Keychain!ItemInv'
  <1>1. /\ pc = "copy" /\ command = "migrate"
        /\ UNCHANGED <<item, installed, command, attempt, ref, vouched, touched>>
    BY DEF Keychain!CopyAccess, Keychain!ItemInv, Keychain!WorksOnResolved
  <1>2. item \in Keychain!Items /\ item.acl \in Keychain!ACLs /\ installed \in Keychain!Builds
    BY DEF Keychain!ItemInv, Keychain!TypeOK, Keychain!Items
  <1>3. CASE pc' = "set"
    <2> DEFINE new == Keychain!normalizeCurrentApplicationACL(item.acl)
    <2>1. ~Keychain!Gone /\ ~Keychain!Ambiguous(item.acl) /\ access' = new /\ UNCHANGED settled
      BY <1>3 DEF Keychain!CopyAccess, Keychain!Return
    <2>2. new \in Keychain!ACLs /\ Keychain!Exclusive(new) /\ new.other = item.acl.other
      BY <1>2, <2>1, Normalized
    <2> HIDE DEF new
    <2>3. Keychain!TypeOK'
      BY <1>1, <1>3, <2>1, <2>2 DEF Keychain!ItemInv, Keychain!TypeOK
    <2>4. Keychain!Exclusive(access)'
      BY <1>1, <2>1, <2>2 DEF Keychain!Exclusive
    <2> QED
      BY <1>1, <1>3, <2>1, <2>2, <2>3, <2>4 DEF Keychain!ItemInv, Keychain!SettledWorks, Keychain!LoadedExclusive, Keychain!WorksOnResolved, Keychain!Exclusive, Keychain!Gone
  <1>4. CASE pc' # "set"
    <2>1. /\ pc' = "idle" /\ UNCHANGED access
          /\ UNCHANGED settled \/ (settled' = TRUE /\ ~Keychain!Gone /\ Keychain!Exclusive(item.acl))
      BY <1>4, FoundExclusive DEF Keychain!CopyAccess, Keychain!Return, Keychain!Goto
    <2>2. Keychain!TypeOK'
      BY <1>1, <2>1 DEF Keychain!ItemInv, Keychain!TypeOK
    <2> QED
      BY <1>1, <2>1, <2>2 DEF Keychain!ItemInv, Keychain!SettledWorks, Keychain!LoadedExclusive, Keychain!WorksOnResolved, Keychain!Exclusive, Keychain!Gone
  <1> QED
    BY <1>3, <1>4

LEMMA SetStep == ASSUME Keychain!ItemInv, Keychain!SetAccess PROVE Keychain!ItemInv'
  <1>1. /\ pc = "set" /\ command = "migrate" /\ pc' = "idle"
        /\ UNCHANGED <<installed, command, attempt, ref, access, vouched, touched>>
    BY DEF Keychain!SetAccess, Keychain!Return, Keychain!ItemInv, Keychain!WorksOnResolved
  <1>2. CASE UNCHANGED <<item, settled>>
    <2>1. Keychain!TypeOK'
      BY <1>1, <1>2 DEF Keychain!ItemInv, Keychain!TypeOK
    <2> QED
      BY <1>1, <1>2, <2>1 DEF Keychain!ItemInv, Keychain!SettledWorks, Keychain!LoadedExclusive, Keychain!WorksOnResolved, Keychain!Exclusive
  <1>3. CASE ~Keychain!Gone /\ item' = [item EXCEPT !.acl = access] /\ settled' = TRUE
    <2>1. item' \in Keychain!Items /\ item'.id = item.id /\ item'.acl = access /\ item.id # 0
      BY <1>3 DEF Keychain!Gone, Keychain!ItemInv, Keychain!TypeOK, Keychain!Items
    <2>2. Keychain!TypeOK'
      BY <1>1, <1>3, <2>1, NoItemIs DEF Keychain!ItemInv, Keychain!TypeOK
    <2>3. Keychain!Exclusive(item.acl)'
      BY <1>1, <2>1 DEF Keychain!ItemInv, Keychain!WorksOnResolved, Keychain!Exclusive
    <2> QED
      BY <1>1, <1>3, <2>1, <2>2, <2>3 DEF Keychain!ItemInv, Keychain!SettledWorks, Keychain!LoadedExclusive, Keychain!WorksOnResolved
  <1> QED
    BY <1>2, <1>3 DEF Keychain!SetAccess

(* Somebody else's work on the item is remembered.                         *)
LEMMA SomebodyStep == ASSUME Keychain!ItemInv, Keychain!Somebody PROVE Keychain!ItemInv'
  <1>1. /\ touched' = TRUE /\ settled' = FALSE
        /\ UNCHANGED <<installed, command, pc, attempt, ref, access, ended, vouched>>
    BY DEF Keychain!Somebody, Keychain!Remove, Keychain!Put, Keychain!Rewrite, Keychain!Touch, Keychain!local
  <1>2. item' \in Keychain!Items /\ (item'.id = 0 <=> item' = Keychain!NoItem)
    <2>1. item \in Keychain!Items
      BY DEF Keychain!ItemInv, Keychain!TypeOK
    <2>2. CASE Keychain!Remove
      BY <2>2, NoItemIs DEF Keychain!Remove
    <2>3. ASSUME NEW acl \in Keychain!ACLs, Keychain!Put(acl) PROVE item' \in Keychain!Items /\ item'.id # 0
      BY <2>3 DEF Keychain!Put, Keychain!Items
    <2>4. ASSUME NEW acl \in Keychain!ACLs, NEW secret \in {item.secret, "theirs"}, Keychain!Rewrite(secret, acl)
          PROVE  item' \in Keychain!Items /\ item'.id # 0
      BY <2>1, <2>4 DEF Keychain!Rewrite, Keychain!Items
    <2> QED
      BY <2>2, <2>3, <2>4, NoItemIs DEF Keychain!Somebody
  <1>3. Keychain!TypeOK'
    BY <1>1, <1>2 DEF Keychain!ItemInv, Keychain!TypeOK
  <1> QED
    BY <1>1, <1>3 DEF Keychain!ItemInv, Keychain!SettledWorks, Keychain!LoadedExclusive, Keychain!WorksOnResolved, Keychain!Exclusive

LEMMA UpgradeStep == ASSUME Keychain!ItemInv, Keychain!Upgrade PROVE Keychain!ItemInv'
  <1>1. /\ pc = "idle" /\ installed' = 3 - installed /\ settled' = FALSE
        /\ UNCHANGED <<item, command, pc, attempt, ref, access, ended, vouched, touched>>
    BY DEF Keychain!Upgrade, Keychain!local
  <1>a. settled' \in BOOLEAN
    BY <1>1, Zenon
  <1>2. Keychain!TypeOK'
    BY <1>1, <1>a DEF Keychain!ItemInv, Keychain!TypeOK, Keychain!Builds
  <1> QED
    BY <1>1, <1>2 DEF Keychain!ItemInv, Keychain!SettledWorks, Keychain!LoadedExclusive, Keychain!WorksOnResolved

LEMMA ItemStep == Keychain!ItemInv /\ [Keychain!Next]_(Keychain!vars) => Keychain!ItemInv'
  <1> SUFFICES ASSUME Keychain!ItemInv, [Keychain!Next]_(Keychain!vars) PROVE Keychain!ItemInv'
    OBVIOUS
  <1>1. CASE UNCHANGED Keychain!vars
    BY <1>1 DEF Keychain!vars, Keychain!local, Keychain!ItemInv, Keychain!TypeOK, Keychain!SettledWorks, Keychain!LoadedExclusive, Keychain!WorksOnResolved, Keychain!Exclusive
  <1> QED
    BY <1>1, BeginStep, LookStep, CheckStep, UpdateStep, AddStep, DeleteStep, CopyStep, SetStep, SomebodyStep, UpgradeStep
       DEF Keychain!Next, Keychain!Program

(* What this program wrote or migrated and nobody touched, it alone reads  *)
(* without a question, and what it loads undisturbed is such an item       *)
(* (keychain_darwin.go).                                                   *)
THEOREM ItemSafe == Keychain!Spec => []ItemSound
  <1>1. Keychain!ItemInv => ItemSound
    BY DEF ItemSound
  <1> QED
    BY <1>1, ItemInit, ItemStep, PTL DEF Keychain!Spec

(* What a step does to the item.                                           *)
Properly == Keychain!WrittenWhereVouched /\ Keychain!OnlyItsOwn /\ Keychain!MigrationNarrows

LEMMA ItemKept ==
    ASSUME UNCHANGED <<item, installed>>, pc # "set" \/ pc' = "set" \/ ended' # "ok"
    PROVE  Properly
  BY DEF Properly, Keychain!WrittenWhereVouched, Keychain!OnlyItsOwn, Keychain!MigrationNarrows

LEMMA ProperLook ==
    ASSUME Keychain!ItemInv, Keychain!Exists \/ Keychain!Resolve \/ Keychain!Check \/ Keychain!Load \/ Keychain!CopyAccess \/ Keychain!Fail PROVE Properly
  <1>1. UNCHANGED <<item, installed>>
    BY DEF Keychain!Exists, Keychain!Resolve, Keychain!Check, Keychain!Load, Keychain!CopyAccess, Keychain!Fail
  <1>2. pc # "set" \/ ended' # "ok"
    BY DEF Keychain!Exists, Keychain!Resolve, Keychain!Check, Keychain!Load, Keychain!CopyAccess, Keychain!Fail, Keychain!Return
  <1> QED
    BY <1>1, <1>2, ItemKept

LEMMA ProperBegin == ASSUME Keychain!ItemInv, NEW what \in Keychain!Commands, Keychain!Begin(what) PROVE Properly
  <1>1. pc = "idle"
    BY DEF Keychain!Begin
  <1>2. item'.secret # "new" \/ item.secret = "new"
    BY DEF Keychain!Begin
  <1> QED
    BY <1>1, <1>2 DEF Properly, Keychain!WrittenWhereVouched, Keychain!OnlyItsOwn, Keychain!MigrationNarrows

LEMMA ProperUpdate == ASSUME Keychain!ItemInv, Keychain!Update PROVE Properly
  <1>1. pc = "work" /\ command = "save" /\ UNCHANGED vouched /\ vouched = ref
    BY DEF Keychain!Update, Keychain!ItemInv, Keychain!WorksOnResolved
  <1>2. UNCHANGED item \/ (~Keychain!Gone /\ item' = [item EXCEPT !.secret = "new"])
    BY DEF Keychain!Update, Keychain!UpdateItem
  <1>3. item'.id = item.id /\ item'.acl = item.acl /\ (UNCHANGED item \/ item.id = ref)
    BY <1>2 DEF Keychain!ItemInv, Keychain!TypeOK, Keychain!Items, Keychain!Gone
  <1> QED
    BY <1>1, <1>3 DEF Properly, Keychain!WrittenWhereVouched, Keychain!OnlyItsOwn, Keychain!MigrationNarrows

LEMMA ProperAdd == ASSUME Keychain!ItemInv, Keychain!Add PROVE Properly
  <1>1. pc = "add"
    BY DEF Keychain!Add
  <1>2. UNCHANGED item \/ (item.id = 0 /\ vouched' = item'.id)
    BY DEF Keychain!Add
  <1> QED
    BY <1>1, <1>2 DEF Properly, Keychain!WrittenWhereVouched, Keychain!OnlyItsOwn, Keychain!MigrationNarrows

LEMMA ProperDelete == ASSUME Keychain!ItemInv, Keychain!Delete PROVE Properly
  <1>1. pc = "delete" /\ command = "delete"
    BY DEF Keychain!Delete, Keychain!ItemInv, Keychain!WorksOnResolved
  <1>2. UNCHANGED item \/ (~Keychain!Gone /\ item' = Keychain!NoItem)
    BY DEF Keychain!Delete, Keychain!DeleteItem
  <1> QED
    BY <1>1, <1>2, NoItemIs DEF Properly, Keychain!WrittenWhereVouched, Keychain!OnlyItsOwn, Keychain!MigrationNarrows, Keychain!Gone

(* The access that a migration writes is that of the item it resolved.     *)
LEMMA ProperSet == ASSUME Keychain!ItemInv, Keychain!SetAccess PROVE Properly
  <1>1. pc = "set" /\ command = "migrate" /\ Keychain!Exclusive(access) /\ UNCHANGED installed
    BY DEF Keychain!SetAccess, Keychain!ItemInv, Keychain!WorksOnResolved
  <1>2. CASE UNCHANGED item /\ ended' # "ok"
    BY <1>1, <1>2, ItemKept
  <1>3. CASE ~Keychain!Gone /\ item' = [item EXCEPT !.acl = access]
    <2>1. item'.id = item.id /\ item'.secret = item.secret /\ item'.acl = access
      BY <1>3 DEF Keychain!ItemInv, Keychain!TypeOK, Keychain!Items
    <2>2. ~touched => access.other = item.acl.other
      BY <1>1 DEF Keychain!ItemInv, Keychain!WorksOnResolved
    <2> QED
      BY <1>1, <2>1, <2>2 DEF Properly, Keychain!WrittenWhereVouched, Keychain!OnlyItsOwn, Keychain!MigrationNarrows, Keychain!Exclusive
  <1> QED
    BY <1>2, <1>3 DEF Keychain!SetAccess, Keychain!Return

LEMMA ProperSomebody == ASSUME Keychain!ItemInv, Keychain!Somebody \/ Keychain!Upgrade PROVE Properly
  <1>1. UNCHANGED pc
    BY DEF Keychain!Somebody, Keychain!Upgrade, Keychain!Remove, Keychain!Put, Keychain!Rewrite, Keychain!Touch, Keychain!local
  <1>2. item'.secret # "new" \/ item.secret = "new"
    <2>1. CASE Keychain!Upgrade
      BY <2>1 DEF Keychain!Upgrade
    <2>2. CASE Keychain!Somebody
      <3>1. ASSUME NEW acl \in Keychain!ACLs, NEW secret \in {item.secret, "theirs"}, Keychain!Rewrite(secret, acl)
            PROVE  item'.secret = secret
        BY <3>1 DEF Keychain!Rewrite, Keychain!ItemInv, Keychain!TypeOK, Keychain!Items
      <3> QED
        BY <2>2, <3>1, NoItemIs DEF Keychain!Somebody, Keychain!Remove, Keychain!Put
    <2> QED
      BY <2>1, <2>2
  <1> QED
    BY <1>1, <1>2 DEF Properly, Keychain!WrittenWhereVouched, Keychain!OnlyItsOwn, Keychain!MigrationNarrows

(* Whoever else works on the item, a token is written only into one that   *)
(* was found exclusive; no command changes an access but a migration, and  *)
(* none removes an item but a delete that resolved it (keychain_darwin.go).*)
THEOREM ItemProper == Keychain!Spec => ItemSteps
  <1>1. Keychain!ItemInv /\ [Keychain!Next]_(Keychain!vars) => [Properly]_(Keychain!vars)
    <2> SUFFICES ASSUME Keychain!ItemInv, Keychain!Next PROVE Properly
      OBVIOUS
    <2> QED
      BY ProperLook, ProperBegin, ProperUpdate, ProperAdd, ProperDelete, ProperSet, ProperSomebody
         DEF Keychain!Next, Keychain!Program
  <1>2. Keychain!Spec => [][Properly]_(Keychain!vars)
    BY <1>1, ItemInit, ItemStep, PTL DEF Keychain!Spec
  <1> QED
    BY <1>2 DEF Properly, ItemSteps, Keychain!ItemSteps

-----------------------------------------------------------------------------
(* The stored credential: first sorted lists and the walk along two of them.*)

(* A set of numbers with a member has a least one.                         *)
LEMMA LeastOf == ASSUME NEW T \in SUBSET Nat, T # {} PROVE \E n \in T : \A m \in T : n <= m
  <1>1. IsWellFoundedOn(OpToRel(<, Nat), Nat)
    BY NatLessThanWellFounded
  <1>2. PICK n \in T : \A m \in T : ~(<<m, n>> \in OpToRel(<, Nat))
    BY <1>1, WFMin
  <1>3. \A m \in T : ~(m < n)
    BY <1>2 DEF OpToRel
  <1> QED
    BY <1>3

(* A set that has 0 and with each number the next has all: induction over  *)
(* numbers, stated with a set in the place of a predicate.                 *)
LEMMA AllNumbers ==
    ASSUME NEW S \in SUBSET Nat, 0 \in S, \A n \in S : n + 1 \in S
    PROVE  S = Nat
  <1> SUFFICES ASSUME Nat \ S # {} PROVE FALSE
    OBVIOUS
  <1>1. PICK n \in Nat \ S : \A m \in Nat \ S : n <= m
    BY LeastOf
  <1>2. n # 0 /\ n - 1 \in Nat
    OBVIOUS
  <1>3. n - 1 \in S
    BY <1>1, <1>2
  <1>4. (n - 1) + 1 = n
    OBVIOUS
  <1> QED
    BY <1>3, <1>4

(* A list of numbers has a largest one.                                    *)
LEMMA LargestAt ==
    ASSUME NEW n \in Nat, NEW s \in [1 .. n + 1 -> Nat]
    PROVE  \E m \in 1 .. n + 1 : \A i \in 1 .. n + 1 : s[i] <= s[m]
  <1> DEFINE S == {k \in Nat : \A f \in [1 .. k + 1 -> Nat] :
                      \E m \in 1 .. k + 1 : \A i \in 1 .. k + 1 : f[i] <= f[m]}
  <1>1. 0 \in S
    <2> SUFFICES ASSUME NEW f \in [1 .. 0 + 1 -> Nat]
                 PROVE  \E m \in 1 .. 0 + 1 : \A i \in 1 .. 0 + 1 : f[i] <= f[m]
      OBVIOUS
    <2>1. 1 \in 1 .. 0 + 1 /\ \A i \in 1 .. 0 + 1 : i = 1 /\ f[i] \in Nat
      OBVIOUS
    <2>2. \A i \in 1 .. 0 + 1 : f[i] <= f[1]
      BY <2>1
    <2> QED
      BY <2>1, <2>2
  <1>2. ASSUME NEW k \in S PROVE k + 1 \in S
    <2>1. k \in Nat /\ k + 1 \in Nat
      OBVIOUS
    <2> SUFFICES ASSUME NEW f \in [1 .. (k + 1) + 1 -> Nat]
                 PROVE  \E m \in 1 .. (k + 1) + 1 : \A i \in 1 .. (k + 1) + 1 : f[i] <= f[m]
      BY <2>1
    <2> DEFINE g == [i \in 1 .. k + 1 |-> f[i]]
    <2>2. \A i \in 1 .. (k + 1) + 1 : f[i] \in Nat /\ (i \in 1 .. k + 1 \/ i = k + 2)
      BY <2>1
    <2>3. /\ k + 2 \in 1 .. (k + 1) + 1
          /\ \A i \in 1 .. k + 1 : i \in 1 .. (k + 1) + 1
      BY <2>1
    <2>4. g \in [1 .. k + 1 -> Nat]
      BY <2>2, <2>3
    <2>5. \E m \in 1 .. k + 1 : \A i \in 1 .. k + 1 : g[i] <= g[m]
      BY <2>4
    <2>6. PICK m \in 1 .. k + 1 : \A i \in 1 .. k + 1 : f[i] <= f[m]
      BY <2>5
    <2> HIDE DEF S, g
    <2>7. CASE f[k + 2] <= f[m]
      BY <2>2, <2>3, <2>6, <2>7
    <2>8. CASE ~(f[k + 2] <= f[m])
      <3>1. ASSUME NEW i \in 1 .. (k + 1) + 1 PROVE f[i] <= f[k + 2]
        <4>1. f[i] \in Nat /\ f[m] \in Nat /\ f[k + 2] \in Nat
          BY <2>2, <2>3
        <4>2. CASE i = k + 2
          BY <4>1, <4>2
        <4>3. CASE i \in 1 .. k + 1
          <5>1. f[i] <= f[m]
            BY <2>6, <4>3
          <5> QED
            BY <5>1, <4>1, <2>8
        <4> QED
          BY <2>2, <4>2, <4>3
      <3> QED
        BY <3>1, <2>3
    <2> QED
      BY <2>7, <2>8
  <1>3. S = Nat
    <2>1. S \in SUBSET Nat
      OBVIOUS
    <2> HIDE DEF S
    <2> QED
      BY <1>1, <1>2, <2>1, AllNumbers
  <1>4. n \in S
    BY <1>3
  <1> QED
    BY <1>4

(* A way to put n members of a list in order.                              *)
Sorts(p, n, s) ==
    /\ p \in [1 .. n -> 1 .. n]
    /\ \A w \in 1 .. n : \E i \in 1 .. n : p[i] = w
    /\ \A i, j \in 1 .. n : p[i] = p[j] => i = j
    /\ \A i, j \in 1 .. n : i < j => s[p[i]] <= s[p[j]]

(* A list whose largest member has changed places with its last is sorted  *)
(* once the rest is.                                                       *)
LEMMA OneMore ==
    ASSUME NEW n \in Nat, NEW s \in [1 .. n + 1 -> Nat], NEW m \in 1 .. n + 1,
           \A i \in 1 .. n + 1 : s[i] <= s[m],
           NEW p, Sorts(p, n, [i \in 1 .. n |-> s[IF i = m THEN n + 1 ELSE i]])
    PROVE  \E q : Sorts(q, n + 1, s)
  <1> DEFINE swap(i) == IF i = m THEN n + 1 ELSE i
             t == [i \in 1 .. n |-> s[swap(i)]]
             q == [i \in 1 .. n + 1 |-> IF i = n + 1 THEN m ELSE swap(p[i])]
  <1>1. /\ p \in [1 .. n -> 1 .. n]
        /\ \A w \in 1 .. n : \E i \in 1 .. n : p[i] = w
        /\ \A i, j \in 1 .. n : p[i] = p[j] => i = j
        /\ \A i, j \in 1 .. n : i < j => s[swap(p[i])] <= s[swap(p[j])]
    <2>0. Sorts(p, n, t)
      OBVIOUS
    <2> HIDE DEF swap
    <2>1. p \in [1 .. n -> 1 .. n]
      BY <2>0 DEF Sorts
    <2>2. \A i \in 1 .. n : t[p[i]] = s[swap(p[i])]
      BY <2>1
    <2>3. \A i, j \in 1 .. n : i < j => t[p[i]] <= t[p[j]]
      BY <2>0 DEF Sorts
    <2>4. \A i, j \in 1 .. n : i < j => s[swap(p[i])] <= s[swap(p[j])]
      BY <2>2, <2>3
    <2> QED
      BY <2>0, <2>1, <2>4 DEF Sorts
  <1>2. \A i \in 1 .. n : swap(i) \in (1 .. n + 1) \ {m}
    OBVIOUS
  <1>3. \A i, j \in 1 .. n : swap(i) = swap(j) => i = j
    OBVIOUS
  <1>4. \A w \in (1 .. n + 1) \ {m} : \E i \in 1 .. n : swap(i) = w
    <2> TAKE w \in (1 .. n + 1) \ {m}
    <2>1. CASE w = n + 1
      <3>1. m \in 1 .. n /\ swap(m) = w
        BY <2>1
      <3> QED
        BY <3>1
    <2>2. CASE w # n + 1
      <3>1. w \in 1 .. n /\ swap(w) = w
        BY <2>2
      <3> QED
        BY <3>1
    <2> QED
      BY <2>1, <2>2
  <1> HIDE DEF swap
  <1>5. ASSUME NEW i \in 1 .. n
        PROVE  p[i] \in 1 .. n /\ q[i] = swap(p[i]) /\ i \in 1 .. n + 1 /\ i # n + 1
    <2>1. p[i] \in 1 .. n
      BY <1>1
    <2>2. i \in 1 .. n + 1 /\ i # n + 1
      OBVIOUS
    <2> QED
      BY <2>1, <2>2
  <1>6. q[n + 1] = m /\ n + 1 \in 1 .. n + 1
    OBVIOUS
  <1>0. \A i \in 1 .. n + 1 : i = n + 1 \/ i \in 1 .. n
    OBVIOUS
  <1>7. q \in [1 .. n + 1 -> 1 .. n + 1]
    BY <1>1, <1>2, <1>0
  <1> HIDE DEF q
  <1>8. ASSUME NEW w \in 1 .. n + 1 PROVE \E i \in 1 .. n + 1 : q[i] = w
    <2>1. CASE w = m
      BY <1>6, <2>1
    <2>2. CASE w # m
      <3>1. PICK v \in 1 .. n : swap(v) = w
        BY <1>4, <2>2
      <3>2. PICK i \in 1 .. n : p[i] = v
        BY <1>1
      <3> QED
        BY <1>5, <3>1, <3>2
    <2> QED
      BY <2>1, <2>2
  <1>9. ASSUME NEW i \in 1 .. n + 1, NEW j \in 1 .. n + 1, q[i] = q[j] PROVE i = j
    <2>1. ASSUME NEW k \in 1 .. n PROVE q[k] # m
      BY <1>2, <1>5
    <2>2. CASE i = n + 1 \/ j = n + 1
      BY <1>0, <1>6, <1>9, <2>1, <2>2
    <2>3. CASE i \in 1 .. n /\ j \in 1 .. n
      <3>1. p[i] \in 1 .. n /\ p[j] \in 1 .. n /\ swap(p[i]) = swap(p[j])
        BY <1>5, <1>9, <2>3
      <3>2. p[i] = p[j]
        BY <1>3, <3>1
      <3> QED
        BY <1>1, <2>3, <3>2
    <2> QED
      BY <1>0, <2>2, <2>3
  <1>10. ASSUME NEW i \in 1 .. n + 1, NEW j \in 1 .. n + 1, i < j PROVE s[q[i]] <= s[q[j]]
    <2>1. i \in 1 .. n
      BY <1>10
    <2>2. CASE j = n + 1
      BY <2>1, <2>2, <1>6, <1>7
    <2>3. CASE j \in 1 .. n
      <3>1. s[swap(p[i])] <= s[swap(p[j])]
        BY <1>1, <1>10, <2>1, <2>3
      <3> QED
        BY <1>5, <2>1, <2>3, <3>1
    <2> QED
      BY <1>0, <2>2, <2>3
  <1> QED
    BY <1>7, <1>8, <1>9, <1>10 DEF Sorts

(* Every list can be sorted.                                               *)
LEMMA Sortable == ASSUME NEW n \in Nat, NEW s \in [1 .. n -> Nat] PROVE \E p : Sorts(p, n, s)
  <1> DEFINE S == {k \in Nat : \A f \in [1 .. k -> Nat] : \E p : Sorts(p, k, f)}
  <1>1. 0 \in S
    <2> SUFFICES ASSUME NEW f \in [1 .. 0 -> Nat] PROVE \E p : Sorts(p, 0, f)
      OBVIOUS
    <2>1. Sorts([i \in 1 .. 0 |-> 0], 0, f)
      BY DEF Sorts
    <2> QED
      BY <2>1
  <1>2. ASSUME NEW k \in S PROVE k + 1 \in S
    <2>1. k \in Nat /\ k + 1 \in Nat
      OBVIOUS
    <2> SUFFICES ASSUME NEW f \in [1 .. k + 1 -> Nat] PROVE \E p : Sorts(p, k + 1, f)
      BY <2>1
    <2>2. \A g \in [1 .. k -> Nat] : \E p : Sorts(p, k, g)
      OBVIOUS
    <2> HIDE DEF S
    <2>3. PICK m \in 1 .. k + 1 : \A i \in 1 .. k + 1 : f[i] <= f[m]
      BY <2>1, LargestAt
    <2> DEFINE t == [i \in 1 .. k |-> f[IF i = m THEN k + 1 ELSE i]]
    <2>4. t \in [1 .. k -> Nat]
      BY <2>1
    <2>5. PICK p : Sorts(p, k, t)
      <3> HIDE DEF t
      <3> QED
        BY <2>2, <2>4
    <2> QED
      BY <2>1, <2>3, <2>5, OneMore
  <1>3. S = Nat
    <2>1. S \in SUBSET Nat
      OBVIOUS
    <2> HIDE DEF S
    <2> QED
      BY <1>1, <1>2, <2>1, AllNumbers
  <1>4. n \in S
    BY <1>3
  <1> QED
    BY <1>4

(* What a server granted, sorted, is what it granted.                      *)
LEMMA SortedKeeps ==
    ASSUME NEW list \in Payload!ScopeLists, Payload!StoredAssumption
    PROVE  /\ Payload!Sorted(list) \in Payload!ScopeLists
           /\ \A i \in 1 .. Len(Payload!Sorted(list)) : \E j \in 1 .. Len(list) : Payload!Sorted(list)[i] = list[j]
  <1>1. PICK n \in 0 .. MaxScopes : list \in [1 .. n -> ScopeNames]
    BY DEF Payload!ScopeLists
  <1>2. n \in Nat /\ ScopeNames \subseteq Nat
    BY DEF Payload!StoredAssumption
  <1>3. Len(list) = n
    BY <1>1, <1>2
  <1>4. list \in [1 .. n -> Nat]
    BY <1>1, <1>2
  <1>5. PICK q : Sorts(q, n, list)
    BY <1>2, <1>4, Sortable
  <1> DEFINE order == CHOOSE p \in Payload!Bijection(1 .. Len(list), 1 .. Len(list)) :
                        \A i, j \in 1 .. Len(list) : i < j => list[p[i]] <= list[p[j]]
  <1>6. /\ q \in Payload!Bijection(1 .. Len(list), 1 .. Len(list))
        /\ \A i, j \in 1 .. Len(list) : i < j => list[q[i]] <= list[q[j]]
    <2>1. q \in Payload!Injection(1 .. n, 1 .. n)
      BY <1>5 DEF Sorts, Payload!Injection, Payload!IsInjective
    <2>2. q \in Payload!Surjection(1 .. n, 1 .. n)
      BY <1>5 DEF Sorts, Payload!Surjection
    <2> QED
      BY <1>3, <1>5, <2>1, <2>2 DEF Sorts, Payload!Bijection
  <1>7. order \in Payload!Bijection(1 .. Len(list), 1 .. Len(list))
    BY <1>6
  <1>9. Payload!Sorted(list) = [i \in 1 .. Len(list) |-> list[order[i]]]
    BY DEF Payload!Sorted
  <1> HIDE DEF order
  <1>8. order \in [1 .. n -> 1 .. n]
    BY <1>3, <1>7 DEF Payload!Bijection, Payload!Injection
  <1>10. Payload!Sorted(list) \in [1 .. n -> ScopeNames] /\ \A i \in 1 .. n : Payload!Sorted(list)[i] = list[order[i]]
    BY <1>1, <1>3, <1>8, <1>9
  <1>11. Len(Payload!Sorted(list)) = n
    BY <1>2, <1>10
  <1>12. Payload!Sorted(list) \in Payload!ScopeLists
    BY <1>10 DEF Payload!ScopeLists
  <1> QED
    BY <1>3, <1>8, <1>10, <1>11, <1>12

(* A list of scopes as numbers in a row.                                   *)
LEMMA ListOf ==
    ASSUME NEW list \in Payload!ScopeLists, Payload!StoredAssumption
    PROVE  /\ list \in Seq(Nat) /\ Len(list) \in Nat /\ DOMAIN list = 1 .. Len(list)
           /\ \A i \in 1 .. Len(list) : list[i] \in Nat /\ list[i] \in ScopeNames
  <1>1. PICK n \in 0 .. MaxScopes : list \in [1 .. n -> ScopeNames]
    BY DEF Payload!ScopeLists
  <1>2. n \in Nat /\ ScopeNames \subseteq Nat
    BY DEF Payload!StoredAssumption
  <1>3. list \in [1 .. n -> Nat]
    BY <1>1, <1>2
  <1>4. list \in Seq(Nat) /\ Len(list) = n
    BY <1>2, <1>3
  <1> QED
    BY <1>1, <1>2, <1>3, <1>4

(* A list is increasing if each member is less than the next.              *)
LEMMA Increasing ==
    ASSUME NEW list \in Seq(Nat), Payload!ValidateScopes(list)
    PROVE  \A i, j \in 1 .. Len(list) : i < j => list[i] < list[j]
  <1> DEFINE S == {k \in Nat : \A i \in 1 .. Len(list) : i + k + 1 <= Len(list) => list[i] < list[i + k + 1]}
  <1>0. \A i \in 1 .. Len(list) : list[i] \in Nat
    OBVIOUS
  <1>1. 0 \in S
    BY DEF Payload!ValidateScopes
  <1>2. ASSUME NEW k \in S PROVE k + 1 \in S
    <2> SUFFICES ASSUME NEW i \in 1 .. Len(list), i + (k + 1) + 1 <= Len(list)
                 PROVE  list[i] < list[i + (k + 1) + 1]
      OBVIOUS
    <2>1. k \in Nat /\ (i + k + 1 <= Len(list) => list[i] < list[i + k + 1])
      OBVIOUS
    <2> HIDE DEF S
    <2>2. Len(list) \in Nat
      OBVIOUS
    <2>3. i + k + 1 \in 1 .. Len(list) - 1 /\ i + (k + 1) + 1 \in 1 .. Len(list)
      BY <2>1, <2>2
    <2>4. list[i + k + 1] < list[(i + k + 1) + 1]
      BY <2>3 DEF Payload!ValidateScopes
    <2>5. (i + k + 1) + 1 = i + (k + 1) + 1 /\ i + k + 1 \in 1 .. Len(list)
      BY <2>1, <2>3
    <2>6. list[i + k + 1] < list[i + (k + 1) + 1] /\ list[i] < list[i + k + 1]
      BY <2>1, <2>4, <2>5
    <2> QED
      BY <1>0, <2>3, <2>5, <2>6
  <1>3. S = Nat
    <2>1. S \in SUBSET Nat
      OBVIOUS
    <2> HIDE DEF S
    <2> QED
      BY <1>1, <1>2, <2>1, AllNumbers
  <1>4. ASSUME NEW i \in 1 .. Len(list), NEW j \in 1 .. Len(list), i < j PROVE list[i] < list[j]
    <2>1. j - i - 1 \in Nat /\ i + (j - i - 1) + 1 = j /\ j <= Len(list)
      BY <1>4
    <2>2. j - i - 1 \in S
      BY <1>3, <2>1
    <2>3. i + (j - i - 1) + 1 <= Len(list) => list[i] < list[i + (j - i - 1) + 1]
      BY <2>2
    <2> QED
      BY <2>1, <2>3
  <1> QED
    BY <1>4

(* What the walk along two increasing lists decides: whether the one is    *)
(* contained in the other (scopeSubset).                                   *)
LEMMA WalkDecides ==
    ASSUME NEW list \in Seq(Nat), NEW allowed \in Seq(Nat),
           Payload!ValidateScopes(list), Payload!ValidateScopes(allowed)
    PROVE  Payload!scopeSubset(list, allowed)
             <=> \A i \in 1 .. Len(list) : \E j \in 1 .. Len(allowed) : allowed[j] = list[i]
  <1>1. ASSUME Payload!scopeSubset(list, allowed), NEW i \in 1 .. Len(list)
        PROVE  \E j \in 1 .. Len(allowed) : allowed[j] = list[i]
    <2>1. PICK at \in [1 .. Len(list) -> 1 .. Len(allowed)] : \A k \in 1 .. Len(list) : allowed[at[k]] = list[k]
      BY <1>1 DEF Payload!scopeSubset
    <2> QED
      BY <2>1
  <1>2. ASSUME \A i \in 1 .. Len(list) : \E j \in 1 .. Len(allowed) : allowed[j] = list[i]
        PROVE  Payload!scopeSubset(list, allowed)
    <2> DEFINE at == [i \in 1 .. Len(list) |-> CHOOSE j \in 1 .. Len(allowed) : allowed[j] = list[i]]
    <2>1. at \in [1 .. Len(list) -> 1 .. Len(allowed)] /\ \A i \in 1 .. Len(list) : allowed[at[i]] = list[i]
      BY <1>2
    <2> HIDE DEF at
    <2>2. \A i, j \in 1 .. Len(list) : i < j => list[i] < list[j]
      BY Increasing
    <2>3. \A i, j \in 1 .. Len(allowed) : i < j => allowed[i] < allowed[j]
      BY Increasing
    <2>4. Len(list) \in Nat /\ Len(allowed) \in Nat
      OBVIOUS
    <2>5. ASSUME NEW i \in 1 .. Len(list)
          PROVE  LET last == IF i = 1 THEN 0 ELSE at[i - 1] IN
                 /\ last < at[i] /\ allowed[at[i]] = list[i]
                 /\ \A j \in last + 1 .. at[i] - 1 : allowed[j] < list[i]
      <3> DEFINE last == IF i = 1 THEN 0 ELSE at[i - 1]
      <3>1. at[i] \in 1 .. Len(allowed) /\ allowed[at[i]] = list[i] /\ list[i] \in Nat
        <4>1. list[i] \in Nat
          OBVIOUS
        <4> QED
          BY <2>1, <4>1
      <3>2. last \in Nat /\ last < at[i]
        <4>1. CASE i = 1
          BY <2>1, <4>1
        <4>2. CASE i # 1
          <5>1. i - 1 \in 1 .. Len(list) /\ i - 1 < i
            BY <2>4, <4>2
          <5>2. at[i - 1] \in 1 .. Len(allowed) /\ allowed[at[i - 1]] = list[i - 1] /\ list[i - 1] < list[i]
            BY <2>1, <2>2, <5>1
          <5>3. at[i - 1] # at[i] /\ ~(at[i] < at[i - 1])
            <6>1. list[i - 1] \in Nat
              BY <5>1
            <6>2. ~(allowed[at[i]] < allowed[at[i - 1]]) /\ allowed[at[i]] # allowed[at[i - 1]]
              BY <3>1, <5>2, <6>1
            <6> QED
              BY <2>3, <3>1, <5>2, <6>2
          <5>4. last = at[i - 1]
            BY <4>2
          <5> QED
            BY <3>1, <5>2, <5>3, <5>4
        <4> QED
          BY <4>1, <4>2
      <3>3. ASSUME NEW j \in last + 1 .. at[i] - 1 PROVE allowed[j] < list[i]
        <4>1. j \in 1 .. Len(allowed) /\ j < at[i]
          BY <3>1, <3>2
        <4> QED
          BY <2>3, <3>1, <4>1
      <3> QED
        BY <3>1, <3>2, <3>3
    <2> QED
      BY <2>1, <2>5 DEF Payload!scopeSubset
  <1> QED
    BY <1>1, <1>2
-----------------------------------------------------------------------------
(* The payload of a credential.                                            *)

Bindings ==
    [identity : Payload!ProfilesAt(Payload!Generations) \cup {Payload!NoProfile},
     generation : 0 .. 2, capabilities : SUBSET {"read", "write"}]

Flags == BOOLEAN

StoredPayloads ==
    [prefix : 0 .. 2, version : {1, 2}, extra : Flags, kind : {"oauth", "permanent-token", "odd"},
     token : 0 .. 4, oauth : 0 .. 4, scopes : Payload!ScopeLists, scopesPresent : Flags, binding : Bindings]

Credentials ==
    [kind : {"oauth", "permanent-token", "odd"}, token : 0 .. 4, oauth : 0 .. 4, scopes : Payload!ScopeLists,
     binding : Bindings, legacyOAuthScopes : BOOLEAN]

(* The token in the Keychain is of the profile that the payload names, and *)
(* one whose scopes are not written down was granted all of that profile's.*)
PayloadIInv ==
    /\ Payload!CredentialInv
    /\ stored \in StoredPayloads
    /\ ~stored.scopesPresent => stored.scopes = <<>>
    /\ issuer = stored.binding.identity
    /\ Payload!decodes(stored) /\ stored.kind = "oauth" /\ stored.scopes = <<>> /\ stored.binding # Payload!Unbound
         => granted = Payload!ToSet(issuer.scopes)

LEMMA ProfileOf ==
    ASSUME NEW p \in Payload!ProfilesAt(Payload!Generations)
    PROVE  /\ p # Payload!NoProfile /\ p.topology \in Topologies /\ p.generation \in {1, 2}
           /\ p.capabilities \in SUBSET {"read", "write"} /\ "read" \in p.capabilities
           /\ p.scopes \in Configured /\ p.scopes \in Payload!ScopeLists /\ p.scopes # <<>>
           /\ Payload!ValidateScopes(p.scopes)
           /\ Payload!BindingOf(p) \in Bindings /\ Payload!BindingOf(p) # Payload!Unbound
           /\ Payload!BindingOf(p).identity = p
  <1>1. /\ p.topology \in Topologies /\ p.generation \in {1, 2}
        /\ p.capabilities \in Payload!CapabilitySets /\ p.scopes \in Configured
    BY DEF Payload!ProfilesAt, Payload!Generations
  <1>2. p # Payload!NoProfile
    BY <1>1, PayloadAssumption DEF Payload!NoProfile, Payload!StoredAssumption
  <1>3. p.capabilities \in SUBSET {"read", "write"} /\ "read" \in p.capabilities
    BY <1>1 DEF Payload!CapabilitySets
  <1>4. /\ p.scopes \in Payload!ScopeLists /\ p.scopes # <<>> /\ Payload!ValidateScopes(p.scopes)
    BY <1>1, PayloadAssumption DEF Payload!StoredAssumption, Payload!ValidateScopes
  <1>5. Payload!BindingOf(p) = [identity |-> p, generation |-> p.generation, capabilities |-> p.capabilities]
    BY DEF Payload!BindingOf, Payload!CredentialIdentity
  <1>6. Payload!BindingOf(p) \in Bindings
    BY <1>1, <1>3, <1>5 DEF Bindings
  <1>7. Payload!BindingOf(p).identity = p
    BY <1>5
  <1>8. Payload!Unbound.identity = Payload!NoProfile
    BY DEF Payload!Unbound
  <1> QED
    BY <1>1, <1>2, <1>3, <1>4, <1>6, <1>7, <1>8

LEMMA EmptyListed == <<>> \in Payload!ScopeLists
  <1>1. <<>> \in [1 .. 0 -> ScopeNames] /\ 0 \in 0 .. MaxScopes
    BY PayloadAssumption DEF Payload!StoredAssumption
  <1> QED
    BY <1>1 DEF Payload!ScopeLists

(* A bound credential that may be stored is read back.                     *)
LEMMA Encoded ==
    ASSUME NEW c \in Credentials, Payload!Encodable(c)
    PROVE  LET v == Payload!encodeCredentialValue(c) IN
           /\ v \in StoredPayloads /\ Payload!decodes(v)
           /\ v.scopesPresent = (c.scopes # <<>>) /\ v.extra = FALSE /\ v.prefix = v.version
           /\ v.version = IF c.kind = "oauth" /\ c.legacyOAuthScopes /\ c.scopes = <<>> THEN 1 ELSE 2
           /\ v.kind = c.kind /\ v.token = c.token /\ v.oauth = c.oauth /\ v.scopes = c.scopes /\ v.binding = c.binding
           /\ c.binding # Payload!Unbound
  <1> DEFINE v == Payload!encodeCredentialValue(c)
             old == c.kind = "oauth" /\ c.legacyOAuthScopes /\ c.scopes = <<>>
             held == Payload!credentialOf(v)
  <1>1. /\ v.prefix = IF old THEN 1 ELSE 2
        /\ v.version = IF old THEN 1 ELSE 2
        /\ v.kind = c.kind /\ v.token = c.token /\ v.oauth = c.oauth /\ v.scopes = c.scopes /\ v.binding = c.binding
        /\ v.scopesPresent = (c.scopes # <<>>) /\ v.extra = FALSE
    BY DEF Payload!encodeCredentialValue, Payload!Payload
  <1>2. v \in StoredPayloads
    <2>1. /\ c.kind \in {"oauth", "permanent-token", "odd"} /\ c.token \in 0 .. 4 /\ c.oauth \in 0 .. 4
          /\ c.scopes \in Payload!ScopeLists /\ c.binding \in Bindings
      BY DEF Credentials
    <2>2. (c.scopes # <<>>) \in BOOLEAN
      OBVIOUS
    <2> QED
      BY <2>1, <2>2 DEF StoredPayloads, Flags, Payload!encodeCredentialValue, Payload!Payload
  <1>3. /\ held.kind = c.kind /\ held.token = c.token /\ held.oauth = c.oauth /\ held.scopes = c.scopes
        /\ held.binding = c.binding
    BY <1>1 DEF Payload!credentialOf
  <1>4. c.binding.identity # Payload!NoProfile /\ Payload!Validate(c)
        /\ (c.kind = "oauth" => c.scopes # <<>> \/ c.legacyOAuthScopes)
    BY DEF Payload!Encodable
  <1>5. c.binding # Payload!Unbound
    BY <1>4 DEF Payload!Unbound
  <1> HIDE DEF held, v
  <1>6. Payload!Validate(held)
    BY <1>3, <1>4, <1>5 DEF Payload!Validate
  <1>7. c.kind \in {"oauth", "permanent-token"} /\ (c.kind = "permanent-token" => c.scopes = <<>>)
    BY <1>4 DEF Payload!Validate
  <1>8. Payload!decodes(v)
    <2>1. v.prefix \in {1, 2} /\ v.version = v.prefix /\ ~v.extra
      BY <1>1
    <2>2. ASSUME v.version = 1 PROVE ~v.scopesPresent
      <3>1. c.scopes = <<>>
        BY <1>1, <2>2
      <3> QED
        BY <1>1, <3>1
    <2>3. v.version = 2 => v.scopesPresent = (v.kind = "oauth") /\ (v.kind = "oauth" => v.scopes # <<>>)
      BY <1>1, <1>4, <1>7
    <2> QED
      BY <2>1, <2>2, <2>3, <1>6 DEF Payload!decodes, held
  <1> QED
    BY <1>1, <1>2, <1>5, <1>8 DEF v

(* What is read of a stored payload.                                       *)
LEMMA Held ==
    ASSUME stored \in StoredPayloads
    PROVE  LET held == Payload!credentialOf(stored) IN
           /\ held \in Credentials
           /\ held.kind = stored.kind /\ held.token = stored.token /\ held.oauth = stored.oauth
           /\ held.scopes = stored.scopes /\ held.binding = stored.binding
           /\ held.legacyOAuthScopes = (stored.version = 1 /\ stored.kind = "oauth")
  <1>1. /\ stored.kind \in {"oauth", "permanent-token", "odd"} /\ stored.token \in 0 .. 4 /\ stored.oauth \in 0 .. 4
        /\ stored.scopes \in Payload!ScopeLists /\ stored.binding \in Bindings
    BY DEF StoredPayloads, Flags
  <1>2. (stored.version = 1 /\ stored.kind = "oauth") \in BOOLEAN
    OBVIOUS
  <1> QED
    BY <1>1, <1>2 DEF Credentials, Payload!credentialOf

(* A bound payload that is read can be written again, and is then the same *)
(* credential, an OAuth one to the byte.                                   *)
LEMMA Rewritten ==
    ASSUME stored \in StoredPayloads, ~stored.scopesPresent => stored.scopes = <<>>, Payload!decodes(stored),
           stored.binding # Payload!Unbound
    PROVE  LET held == Payload!credentialOf(stored)  again == Payload!encodeCredentialValue(held) IN
           /\ Payload!Encodable(held) /\ Payload!credentialOf(again) = held
           /\ stored.kind = "oauth" => again = stored
  <1> DEFINE held == Payload!credentialOf(stored)
             again == Payload!encodeCredentialValue(held)
  <1>1. /\ held \in Credentials
        /\ held.kind = stored.kind /\ held.token = stored.token /\ held.oauth = stored.oauth
        /\ held.scopes = stored.scopes /\ held.binding = stored.binding
        /\ held.legacyOAuthScopes = (stored.version = 1 /\ stored.kind = "oauth")
    BY Held
  <1>2. /\ stored.prefix \in {1, 2} /\ stored.version = stored.prefix /\ ~stored.extra
        /\ stored.version = 1 => ~stored.scopesPresent
        /\ Payload!Validate(held)
        /\ stored.version = 2 => stored.scopesPresent = (stored.kind = "oauth")
                                 /\ (stored.kind = "oauth" => stored.scopes # <<>>)
    BY DEF Payload!decodes
  <1>3. stored.scopesPresent \in BOOLEAN /\ stored.extra \in BOOLEAN /\ stored.version \in {1, 2}
    BY DEF StoredPayloads, Flags
  <1> HIDE DEF held
  <1>4. Payload!Encodable(held)
    <2>1. held.binding.identity # Payload!NoProfile
      BY <1>1, <1>2 DEF Payload!Validate
    <2>2. held.kind = "oauth" => held.scopes # <<>> \/ held.legacyOAuthScopes
      BY <1>1, <1>2, <1>3
    <2> QED
      BY <1>2, <2>1, <2>2 DEF Payload!Encodable
  <1>5. /\ again.version = IF held.kind = "oauth" /\ held.legacyOAuthScopes /\ held.scopes = <<>> THEN 1 ELSE 2
        /\ again \in StoredPayloads
        /\ again.scopesPresent = (held.scopes # <<>>) /\ again.extra = FALSE /\ again.prefix = again.version
        /\ again.kind = held.kind /\ again.token = held.token /\ again.oauth = held.oauth
        /\ again.scopes = held.scopes /\ again.binding = held.binding
    BY <1>1, <1>4, Encoded
  <1> HIDE DEF again
  <1>6. stored.kind = "oauth" => (stored.version = again.version)
    BY <1>1, <1>2, <1>3, <1>5
  <1>7. Payload!credentialOf(again) = held
    <2>1. (again.version = 1 /\ again.kind = "oauth") = (stored.version = 1 /\ stored.kind = "oauth")
      BY <1>1, <1>5, <1>6
    <2> QED
      BY <1>1, <1>5, <2>1 DEF Payload!credentialOf, held
  <1>8. ASSUME stored.kind = "oauth" PROVE again = stored
    <2>1. again.scopesPresent = stored.scopesPresent
      BY <1>1, <1>2, <1>3, <1>5, <1>8
    <2>2. /\ again.prefix = stored.prefix /\ again.version = stored.version /\ again.extra = stored.extra
          /\ again.kind = stored.kind /\ again.token = stored.token /\ again.oauth = stored.oauth
          /\ again.scopes = stored.scopes /\ again.binding = stored.binding
      BY <1>1, <1>2, <1>3, <1>5, <1>6, <1>8
    <2> QED
      BY <1>5, <2>1, <2>2 DEF StoredPayloads
  <1> QED
    BY <1>4, <1>7, <1>8 DEF held, again
-----------------------------------------------------------------------------
(* The steps of a payload's life.                                          *)

(* What is stored of a credential is as sound as the credential.           *)
LEMMA StoringKeeps ==
    ASSUME NEW c \in Credentials, Payload!Encodable(c), stored' = Payload!encodeCredentialValue(c),
           issuer' = c.binding.identity, granted' \subseteq ScopeNames,
           profile' \in Payload!ProfilesAt(Payload!Generations),
           c.kind = "oauth" => Payload!ToSet(c.scopes) \subseteq granted',
           c.kind = "oauth" /\ c.scopes = <<>> => granted' = Payload!ToSet(c.binding.identity.scopes),
           told' \in {"logged in", "rolled back", "not rolled back", "refreshed"},
           told' = "logged in" => ~c.legacyOAuthScopes,
           told' \in {"logged in", "refreshed"}
             => Payload!ValidateCredentialBinding(Payload!credentialOf(stored'), profile')
    PROVE  PayloadIInv'
  <1>1. /\ stored' \in StoredPayloads /\ Payload!decodes(stored')
        /\ stored'.scopesPresent = (c.scopes # <<>>)
        /\ stored'.version = IF c.kind = "oauth" /\ c.legacyOAuthScopes /\ c.scopes = <<>> THEN 1 ELSE 2
        /\ stored'.kind = c.kind /\ stored'.scopes = c.scopes /\ stored'.binding = c.binding
    BY Encoded
  <1>2. Payload!TypeOK'
    <2>1. stored'.scopes \in Payload!ScopeLists
      BY <1>1 DEF StoredPayloads
    <2>2. ASSUME told' = "logged in" PROVE stored'.version = 2 /\ stored'.scopesPresent = (stored'.kind = "oauth")
      <3>1. stored'.version = 2
        BY <1>1, <2>2
      <3> QED
        BY <1>1, <3>1 DEF Payload!decodes
    <2> QED
      BY <2>1, <2>2 DEF Payload!TypeOK
  <1>3. Payload!NeverWidened'
    BY <1>1 DEF Payload!NeverWidened
  <1>4. Payload!RefreshKept' /\ Payload!LoginDelivers'
    BY <1>1 DEF Payload!RefreshKept, Payload!LoginDelivers, Payload!Usable
  <1>5. ~stored'.scopesPresent => stored'.scopes = <<>>
    BY <1>1
  <1> QED
    BY <1>1, <1>2, <1>3, <1>4, <1>5 DEF PayloadIInv, Payload!CredentialInv

LEMMA LeavingKeeps ==
    ASSUME PayloadIInv, UNCHANGED <<stored, issuer, granted>>, profile' \in Payload!ProfilesAt(Payload!Generations),
           told' \in {"refused", "used", "edited"}
    PROVE  PayloadIInv'
  <1>1. Payload!TypeOK'
    BY DEF PayloadIInv, Payload!CredentialInv, Payload!TypeOK
  <1>2. Payload!NeverWidened'
    BY DEF PayloadIInv, Payload!CredentialInv, Payload!NeverWidened
  <1>3. Payload!RefreshKept' /\ Payload!LoginDelivers'
    BY DEF Payload!RefreshKept, Payload!LoginDelivers
  <1> QED
    BY <1>1, <1>2, <1>3 DEF PayloadIInv, Payload!CredentialInv

(* The credential of a login is of the profile that it publishes.          *)
LEMMA FreshlyBound ==
    ASSUME PayloadIInv, Payload!decodes(stored), NEW kind \in {"permanent-token", "oauth"},
           NEW scopes \in Payload!ScopeLists, kind = "permanent-token" <=> scopes = <<>>,
           NEW p \in Payload!ProfilesAt(Payload!Generations),
           Payload!Bindable(Payload!Fresh(kind, scopes), p),
           Payload!Encodable(Payload!BindCredential(Payload!Fresh(kind, scopes), p))
    PROVE  LET new == Payload!BindCredential(Payload!Fresh(kind, scopes), p) IN
           /\ new \in Credentials /\ new.kind = kind /\ new.scopes = scopes /\ new.binding = Payload!BindingOf(p)
           /\ ~new.legacyOAuthScopes
           /\ Payload!ValidateCredentialBinding(Payload!credentialOf(Payload!encodeCredentialValue(new)), p)
  <1> DEFINE raw == Payload!Fresh(kind, scopes)
             new == Payload!BindCredential(raw, p)
             held == Payload!credentialOf(Payload!encodeCredentialValue(new))
  <1>1. /\ stored \in StoredPayloads /\ Payload!Validate(Payload!credentialOf(stored))
    BY DEF PayloadIInv, Payload!decodes
  <1>2. Payload!NewToken \in {1, 2}
    <2>1. IF stored.kind = "oauth" THEN stored.oauth \in {1, 2} ELSE stored.token \in {1, 2}
      BY <1>1, Held DEF Payload!Validate, Payload!ValidateToken, Payload!Tokens
    <2> QED
      BY <2>1 DEF Payload!NewToken, Payload!Other
  <1>3. raw = [kind |-> kind, token |-> IF kind = "oauth" THEN 0 ELSE Payload!NewToken,
               oauth |-> IF kind = "oauth" THEN Payload!NewToken ELSE 0,
               scopes |-> scopes, binding |-> Payload!Unbound, legacyOAuthScopes |-> FALSE]
    BY DEF Payload!Fresh, Payload!Empty
  <1>4. new = [kind |-> kind, token |-> IF kind = "oauth" THEN 0 ELSE Payload!NewToken,
               oauth |-> IF kind = "oauth" THEN Payload!NewToken ELSE 0,
               scopes |-> scopes, binding |-> Payload!BindingOf(p), legacyOAuthScopes |-> FALSE]
    <2> HIDE DEF raw
    <2>1. raw.kind = kind /\ raw.scopes = scopes
      BY <1>3
    <2>2. new = [raw EXCEPT !.scopes = scopes, !.binding = Payload!BindingOf(p)]
      BY <2>1 DEF Payload!BindCredential
    <2> QED
      BY <1>3, <2>2
  <1>5. new \in Credentials
    BY <1>2, <1>4, ProfileOf DEF Credentials
  <1>6. /\ new.kind = kind /\ new.scopes = scopes /\ new.binding = Payload!BindingOf(p) /\ new.legacyOAuthScopes = FALSE
    BY <1>4
  <1>7. kind = "oauth" => Payload!scopeSubset(scopes, p.scopes)
    BY <1>3 DEF Payload!Bindable
  <1>8. Payload!Encodable(new)
    OBVIOUS
  <1> HIDE DEF raw, new
  <1>9. /\ held.kind = new.kind /\ held.scopes = new.scopes /\ held.binding = new.binding
        /\ Payload!Validate(held)
    <2> DEFINE v == Payload!encodeCredentialValue(new)
    <2>1. /\ v.kind = new.kind /\ v.scopes = new.scopes /\ v.binding = new.binding /\ Payload!decodes(v)
      BY <1>5, <1>8, Encoded
    <2> HIDE DEF v
    <2>2. Payload!Validate(Payload!credentialOf(v))
      BY <2>1 DEF Payload!decodes
    <2>3. /\ Payload!credentialOf(v).kind = v.kind /\ Payload!credentialOf(v).scopes = v.scopes
          /\ Payload!credentialOf(v).binding = v.binding
      BY DEF Payload!credentialOf
    <2> QED
      BY <2>1, <2>2, <2>3 DEF v
  <1> HIDE DEF held
  <1>10. p.generation # 0
    BY ProfileOf
  <1>11. Payload!ValidateCredentialBinding(held, p)
    BY <1>6, <1>7, <1>9, <1>10 DEF Payload!ValidateCredentialBinding
  <1> QED
    BY <1>5, <1>6, <1>11 DEF new, raw, held

(* What a server answers and a client takes.                               *)
LEMMA ScopesTaken ==
    ASSUME NEW answer \in Payload!Answers, NEW asked \in Payload!ScopeLists, Payload!ValidateScopes(asked),
           Payload!Acceptable(answer, asked)
    PROVE  LET scopes == Payload!grantedScopes(answer, asked) IN
           /\ scopes \in Payload!ScopeLists /\ scopes # <<>> /\ Payload!ValidateScopes(scopes)
           /\ answer.named => Payload!ToSet(scopes) \subseteq Payload!ToSet(answer.scopes)
           /\ ~answer.named => scopes = asked
           /\ \A i \in 1 .. Len(scopes) : \E j \in 1 .. Len(asked) : asked[j] = scopes[i]
           /\ answer.named => Payload!ToSet(answer.scopes) \subseteq ScopeNames
  <1>1. CASE answer.named
    <2>0. Payload!Silent.named = FALSE
      BY DEF Payload!Silent
    <2>1. answer.scopes \in Payload!ScopeLists
      BY <1>1, <2>0 DEF Payload!Answers
    <2> DEFINE sorted == Payload!Sorted(answer.scopes)
    <2>2. /\ sorted \in Payload!ScopeLists
          /\ \A i \in 1 .. Len(sorted) : \E j \in 1 .. Len(answer.scopes) : sorted[i] = answer.scopes[j]
      BY <2>1, SortedKeeps, PayloadAssumption
    <2>3. Payload!ValidateScopes(sorted) /\ Payload!scopeSubset(sorted, asked)
      BY <1>1 DEF Payload!Acceptable, Payload!validGrantedScopes
    <2>4. Payload!grantedScopes(answer, asked) = sorted
      BY <1>1 DEF Payload!grantedScopes
    <2> HIDE DEF sorted
    <2>5. /\ DOMAIN sorted = 1 .. Len(sorted) /\ DOMAIN answer.scopes = 1 .. Len(answer.scopes)
          /\ sorted \in Seq(Nat) /\ asked \in Seq(Nat)
          /\ \A i \in 1 .. Len(answer.scopes) : answer.scopes[i] \in ScopeNames
      BY <2>1, <2>2, ListOf, PayloadAssumption
    <2>6. Payload!ToSet(sorted) \subseteq Payload!ToSet(answer.scopes)
      BY <2>2, <2>5 DEF Payload!ToSet
    <2>7. Payload!ToSet(answer.scopes) \subseteq ScopeNames
      BY <2>5 DEF Payload!ToSet
    <2>8. \A i \in 1 .. Len(sorted) : \E j \in 1 .. Len(asked) : asked[j] = sorted[i]
      BY <2>3, <2>5, WalkDecides
    <2>9. sorted # <<>>
      BY <2>3 DEF Payload!ValidateScopes
    <2> QED
      BY <1>1, <2>2, <2>3, <2>4, <2>6, <2>7, <2>8, <2>9
  <1>2. CASE ~answer.named
    <2>1. Payload!grantedScopes(answer, asked) = asked /\ asked # <<>>
      BY <1>2 DEF Payload!grantedScopes, Payload!ValidateScopes
    <2> QED
      BY <1>2, <2>1
  <1> QED
    BY <1>1, <1>2
LEMMA SilentAnswer == Payload!Silent \in Payload!Answers /\ Payload!Silent.named = FALSE
  BY DEF Payload!Silent, Payload!Answers

(* What a login does if nothing refuses it.                                *)
LEMMA LoginKeeps ==
    ASSUME PayloadIInv, NEW kind \in {"permanent-token", "oauth"}, NEW answer \in Payload!Answers,
           NEW published \in BOOLEAN, kind = "permanent-token" => answer = Payload!Silent,
           Payload!Login(kind, answer, published)
    PROVE  PayloadIInv'
  <1> DEFINE scopes == IF kind = "oauth" THEN Payload!grantedScopes(answer, profile.scopes) ELSE <<>>
             p == [profile EXCEPT !.generation = Payload!Other(profile.generation)]
             raw == Payload!Fresh(kind, scopes)
             new == Payload!BindCredential(raw, p)
  <1>1. /\ profile \in Payload!ProfilesAt(Payload!Generations) /\ stored \in StoredPayloads
        /\ ~stored.scopesPresent => stored.scopes = <<>>
        /\ granted \subseteq ScopeNames /\ issuer = stored.binding.identity
    BY DEF PayloadIInv, Payload!CredentialInv, Payload!TypeOK
  <1>2. /\ profile.scopes \in Payload!ScopeLists /\ profile.scopes # <<>> /\ Payload!ValidateScopes(profile.scopes)
        /\ profile.generation \in {1, 2}
    BY <1>1, ProfileOf
  <1>3. p \in Payload!ProfilesAt(Payload!Generations) /\ p.scopes = profile.scopes
    BY <1>1, <1>2 DEF Payload!ProfilesAt, Payload!Generations, Payload!Other
  <1>4. kind = "oauth" => Payload!Acceptable(answer, profile.scopes)
    BY DEF Payload!Login
  <1>5. /\ scopes \in Payload!ScopeLists /\ (kind = "permanent-token" <=> scopes = <<>>)
        /\ kind = "oauth" /\ answer.named => Payload!ToSet(scopes) \subseteq Payload!ToSet(answer.scopes)
        /\ kind = "oauth" /\ ~answer.named => scopes = profile.scopes
        /\ answer.named => Payload!ToSet(answer.scopes) \subseteq ScopeNames
    <2>1. CASE kind = "oauth"
      BY <1>2, <1>4, <2>1, ScopesTaken
    <2>2. CASE kind = "permanent-token"
      BY <2>2, EmptyListed, SilentAnswer
    <2> QED
      BY <2>1, <2>2
  <1> HIDE DEF scopes
  <1>6. CASE ~Payload!decodes(stored) \/ ~Payload!Bindable(raw, p) \/ ~Payload!Encodable(new)
    <2>1. told' = "refused" /\ UNCHANGED <<profile, stored, issuer, granted>>
      BY <1>6 DEF Payload!Login, Payload!Ended, scopes
    <2> QED
      BY <1>1, <2>1, LeavingKeeps
  <1>7. CASE Payload!decodes(stored) /\ Payload!Bindable(raw, p) /\ Payload!Encodable(new)
    <2>1. /\ new \in Credentials /\ new.kind = kind /\ new.scopes = scopes /\ new.binding = Payload!BindingOf(p)
          /\ ~new.legacyOAuthScopes
          /\ Payload!ValidateCredentialBinding(Payload!credentialOf(Payload!encodeCredentialValue(new)), p)
      BY <1>3, <1>5, <1>7, FreshlyBound
    <2>2. new.binding.identity = p
      BY <1>3, <2>1, ProfileOf
    <2>3. ASSUME Payload!Issued(answer, Payload!ToSet(profile.scopes), p)
          PROVE  /\ issuer' = p /\ granted' \subseteq ScopeNames
                 /\ kind = "oauth" => Payload!ToSet(scopes) \subseteq granted'
      <3>1. Payload!ToSet(profile.scopes) \subseteq ScopeNames
        BY <1>2, ListOf, PayloadAssumption DEF Payload!ToSet
      <3> QED
        BY <1>5, <2>3, <3>1 DEF Payload!Issued
    <2>4. CASE published
      <3>1. /\ told' = "logged in" /\ profile' = p /\ stored' = Payload!encodeCredentialValue(new)
            /\ Payload!Issued(answer, Payload!ToSet(profile.scopes), p)
        BY <1>7, <2>4 DEF Payload!Login, Payload!Ended, scopes
      <3> HIDE DEF new, p
      <3> QED
        BY <1>3, <1>5, <1>7, <2>1, <2>2, <2>3, <3>1, StoringKeeps
    <2>5. CASE ~published
      <3>1. Payload!RollBack(new, answer, p) /\ UNCHANGED profile
        BY <1>7, <2>5 DEF Payload!Login, scopes
      <3> DEFINE previous == Payload!credentialOf(stored)
      <3>2. CASE Payload!Encodable(previous)
        <4>1. /\ told' = "rolled back" /\ stored' = Payload!encodeCredentialValue(previous)
              /\ UNCHANGED <<issuer, granted>>
          BY <3>1, <3>2 DEF Payload!RollBack, Payload!Ended
        <4>2. /\ previous \in Credentials /\ previous.kind = stored.kind /\ previous.scopes = stored.scopes
              /\ previous.binding = stored.binding
          BY <1>1, Held
        <4>3. previous.binding # Payload!Unbound
          BY <3>2, <4>2, Encoded
        <4> HIDE DEF previous
        <4>4. previous.kind = "oauth" => Payload!ToSet(previous.scopes) \subseteq granted'
          BY <1>7, <4>1, <4>2, <4>3 DEF PayloadIInv, Payload!CredentialInv, Payload!NeverWidened
        <4>5. previous.kind = "oauth" /\ previous.scopes = <<>>
                => granted' = Payload!ToSet(previous.binding.identity.scopes)
          BY <1>7, <4>1, <4>2, <4>3 DEF PayloadIInv
        <4> QED
          BY <1>1, <3>1, <3>2, <4>1, <4>2, <4>4, <4>5, StoringKeeps
      <3>3. CASE ~Payload!Encodable(previous)
        <4>1. /\ told' = "not rolled back" /\ stored' = Payload!encodeCredentialValue(new)
              /\ Payload!Issued(answer, Payload!ToSet(profile.scopes), p)
          BY <3>1, <3>3 DEF Payload!RollBack, Payload!Ended
        <4> HIDE DEF new, p
        <4> QED
          BY <1>1, <1>5, <1>7, <2>1, <2>2, <2>3, <3>1, <4>1, StoringKeeps
      <3> QED
        BY <3>2, <3>3
    <2> QED
      BY <2>4, <2>5
  <1> QED
    BY <1>6, <1>7

(* What a usable credential is.                                            *)
LEMMA UsableIs ==
    ASSUME PayloadIInv, Payload!Usable
    PROVE  /\ Payload!decodes(stored) /\ stored.binding = Payload!BindingOf(profile)
           /\ stored.binding # Payload!Unbound /\ issuer = profile /\ stored.binding.identity = profile
  <1>1. profile \in Payload!ProfilesAt(Payload!Generations) /\ stored \in StoredPayloads
        /\ issuer = stored.binding.identity
    BY DEF PayloadIInv, Payload!CredentialInv, Payload!TypeOK
  <1>2. Payload!decodes(stored) /\ stored.binding = Payload!BindingOf(profile)
    BY <1>1, Held DEF Payload!Usable, Payload!ValidateCredentialBinding
  <1> QED
    BY <1>1, <1>2, ProfileOf

(* What is refreshed is kept: whatever answer the client takes, it stores. *)
LEMMA RefreshKeeps ==
    ASSUME PayloadIInv, NEW answer \in Payload!Answers, Payload!Refresh(answer)
    PROVE  PayloadIInv'
  <1> DEFINE held == Payload!credentialOf(stored)
             current == IF held.scopes = <<>> THEN profile.scopes ELSE held.scopes
             scopes == Payload!grantedScopes(answer, current)
             new == [held EXCEPT !.oauth = Payload!NewToken, !.scopes = scopes]
  <1>1. /\ profile \in Payload!ProfilesAt(Payload!Generations) /\ stored \in StoredPayloads
        /\ granted \subseteq ScopeNames /\ issuer = stored.binding.identity
    BY DEF PayloadIInv, Payload!CredentialInv, Payload!TypeOK
  <1>2. /\ held \in Credentials
        /\ held.kind = stored.kind /\ held.token = stored.token /\ held.oauth = stored.oauth
        /\ held.scopes = stored.scopes /\ held.binding = stored.binding
    BY <1>1, Held
  <1>3. /\ Payload!Usable /\ stored.kind = "oauth" /\ Payload!validGrantedScopes(current, profile.scopes)
        /\ Payload!Acceptable(answer, current) /\ UNCHANGED profile
    BY DEF Payload!Refresh
  <1>4. /\ Payload!decodes(stored) /\ stored.binding = Payload!BindingOf(profile)
        /\ stored.binding # Payload!Unbound /\ issuer = profile /\ stored.binding.identity = profile
    BY <1>3, UsableIs
  <1>5. Payload!Validate(held)
    BY <1>4 DEF Payload!decodes
  <1>6. /\ profile.scopes \in Payload!ScopeLists /\ Payload!ValidateScopes(profile.scopes)
        /\ profile.generation # 0 /\ profile # Payload!NoProfile
    BY <1>1, ProfileOf
  <1>7. held.scopes \in Payload!ScopeLists
    BY <1>2 DEF Credentials
  <1>8. /\ current \in Payload!ScopeLists /\ Payload!ValidateScopes(current)
        /\ Payload!scopeSubset(current, profile.scopes)
    BY <1>3, <1>6, <1>7 DEF Payload!validGrantedScopes
  <1>9. current = IF stored.scopes = <<>> THEN profile.scopes ELSE stored.scopes
    BY <1>2
  <1> HIDE DEF held, current
  <1>10. /\ scopes \in Payload!ScopeLists /\ scopes # <<>> /\ Payload!ValidateScopes(scopes)
         /\ answer.named => Payload!ToSet(scopes) \subseteq Payload!ToSet(answer.scopes)
         /\ ~answer.named => scopes = current
         /\ \A i \in 1 .. Len(scopes) : \E j \in 1 .. Len(current) : current[j] = scopes[i]
         /\ answer.named => Payload!ToSet(answer.scopes) \subseteq ScopeNames
    BY <1>3, <1>8, ScopesTaken
  <1> HIDE DEF scopes
  <1>11. Payload!scopeSubset(scopes, profile.scopes)
    <2>1. scopes \in Seq(Nat) /\ current \in Seq(Nat) /\ profile.scopes \in Seq(Nat)
      BY <1>6, <1>8, <1>10, ListOf, PayloadAssumption
    <2>2. \A i \in 1 .. Len(current) : \E j \in 1 .. Len(profile.scopes) : profile.scopes[j] = current[i]
      BY <1>6, <1>8, <2>1, WalkDecides
    <2>3. \A i \in 1 .. Len(scopes) : \E j \in 1 .. Len(profile.scopes) : profile.scopes[j] = scopes[i]
      BY <1>10, <2>2
    <2> QED
      BY <1>6, <1>10, <2>1, <2>3, WalkDecides
  <1>12. Payload!NewToken \in {1, 2}
    <2>1. stored.oauth \in {1, 2}
      BY <1>2, <1>3, <1>5 DEF Payload!Validate, Payload!ValidateToken, Payload!Tokens
    <2> QED
      BY <1>3, <2>1 DEF Payload!NewToken, Payload!Other
  <1>13. /\ new.kind = "oauth" /\ new.token = held.token /\ new.oauth = Payload!NewToken /\ new.scopes = scopes
         /\ new.binding = held.binding /\ new.legacyOAuthScopes = held.legacyOAuthScopes
         /\ new \in Credentials
    <2>1. held.kind = "oauth" /\ 0 .. 4 = {0, 1, 2, 3, 4}
      BY <1>2, <1>3
    <2>2. new \in Credentials
      BY <1>2, <1>10, <1>12, <2>1 DEF Credentials
    <2>3. DOMAIN held = {"kind", "token", "oauth", "scopes", "binding", "legacyOAuthScopes"}
      BY <1>2 DEF Credentials
    <2> QED
      BY <2>1, <2>2, <2>3
  <1>14. Payload!Validate(new) /\ held.token = 0
    <2>1. /\ held.token = 0
          /\ held.binding.identity # Payload!NoProfile /\ held.binding.generation # 0
          /\ "read" \in held.binding.capabilities
      BY <1>2, <1>3, <1>4, <1>5 DEF Payload!Validate, Payload!Empty
    <2>2. new.binding # Payload!Unbound
      BY <1>2, <1>4, <1>13
    <2> HIDE DEF new
    <2> QED
      BY <1>10, <1>12, <1>13, <2>1, <2>2 DEF Payload!Validate, Payload!ValidateToken, Payload!Tokens, Payload!Empty
  <1>15. Payload!Encodable(new)
    <2>1. new.binding.identity # Payload!NoProfile
      BY <1>2, <1>4, <1>6, <1>13
    <2> HIDE DEF new
    <2> QED
      BY <1>10, <1>13, <1>14, <2>1 DEF Payload!Encodable
  <1>16. Payload!ValidateCredentialBinding(new, profile)
    <2>1. new.binding = Payload!BindingOf(profile)
      BY <1>2, <1>4, <1>13
    <2> HIDE DEF new
    <2> QED
      BY <1>6, <1>10, <1>11, <1>13, <1>14, <2>1 DEF Payload!ValidateCredentialBinding
  <1>17. /\ told' = "refreshed" /\ stored' = Payload!encodeCredentialValue(new)
         /\ Payload!Issued(answer, granted, profile)
    BY <1>15, <1>16 DEF Payload!Refresh, Payload!Ended, held, current, scopes
  <1> HIDE DEF new
  <1>18. Payload!ValidateCredentialBinding(Payload!credentialOf(stored'), profile')
    <2> DEFINE again == Payload!credentialOf(stored')
    <2>1. /\ stored'.kind = new.kind /\ stored'.scopes = new.scopes /\ stored'.binding = new.binding
          /\ Payload!decodes(stored')
      BY <1>13, <1>15, <1>17, Encoded
    <2>2. again.kind = stored'.kind /\ again.scopes = stored'.scopes /\ again.binding = stored'.binding
      BY DEF Payload!credentialOf
    <2>3. Payload!Validate(again)
      BY <2>1 DEF Payload!decodes
    <2>4. new.binding = Payload!BindingOf(profile)
      BY <1>2, <1>4, <1>13
    <2> HIDE DEF again
    <2>5. Payload!ValidateCredentialBinding(again, profile)
      BY <1>6, <1>10, <1>11, <1>13, <2>1, <2>2, <2>3, <2>4 DEF Payload!ValidateCredentialBinding
    <2> QED
      BY <1>3, <2>5 DEF again
  <1>19. /\ granted' \subseteq ScopeNames /\ Payload!ToSet(scopes) \subseteq granted'
         /\ issuer' = new.binding.identity
    <2>1. Payload!ToSet(current) \subseteq granted
      <3>1. CASE stored.scopes = <<>>
        BY <1>3, <1>4, <1>9, <3>1 DEF PayloadIInv
      <3>2. CASE stored.scopes # <<>>
        BY <1>3, <1>4, <1>9, <3>2 DEF PayloadIInv, Payload!CredentialInv, Payload!NeverWidened
      <3> QED
        BY <3>1, <3>2
    <2>2. issuer' = profile /\ granted' = IF answer.named THEN Payload!ToSet(answer.scopes) ELSE granted
      BY <1>17 DEF Payload!Issued
    <2>3. new.binding.identity = profile
      BY <1>2, <1>4, <1>13
    <2> QED
      BY <1>1, <1>10, <2>1, <2>2, <2>3
  <1> QED
    BY <1>1, <1>3, <1>10, <1>13, <1>15, <1>17, <1>18, <1>19, StoringKeeps
LEMMA Unwritten ==
    ASSUME NEW v \in StoredPayloads, NEW no \in Flags
    PROVE  LET u == [v EXCEPT !.scopes = <<>>, !.scopesPresent = no] IN
             /\ u \in StoredPayloads /\ u.binding = v.binding /\ u.scopesPresent = no /\ u.scopes = <<>>
  BY EmptyListed DEF StoredPayloads

LEMMA PayloadInit == Payload!Init => PayloadIInv
  <1> SUFFICES ASSUME Payload!Init PROVE PayloadIInv
    OBVIOUS
  <1>1. /\ profile \in Payload!ProfilesAt({1}) /\ issuer = stored.binding.identity /\ told = "nothing"
        /\ granted = Payload!ToSet(IF stored.scopesPresent THEN stored.scopes ELSE profile.scopes)
    BY DEF Payload!Init
  <1>2. PICK v \in Payload!Payloads(profile) : stored \in {v, Payload!Absent(v)}
    BY DEF Payload!Init
  <1>3. profile \in Payload!ProfilesAt(Payload!Generations)
    BY <1>1 DEF Payload!ProfilesAt, Payload!Generations
  <1> DEFINE other == [profile EXCEPT !.generation = Payload!Other(profile.generation)]
             written == {Payload!Unbound, [Payload!Unbound EXCEPT !.identity = profile],
                         Payload!BindingOf(profile), Payload!BindingOf(other)}
  <1>4. other \in Payload!ProfilesAt(Payload!Generations) /\ other.scopes = profile.scopes
    BY <1>1 DEF Payload!ProfilesAt, Payload!Generations, Payload!Other
  <1>5. /\ v.prefix \in 0 .. 2 /\ v.version \in {1, 2} /\ v.extra \in BOOLEAN
        /\ v.kind \in {"oauth", "permanent-token", "odd"} /\ v.token \in {0, 1, 3} /\ v.oauth \in {0, 1, 3, 4}
        /\ v.scopes \in Payload!ScopeLists /\ v.scopesPresent = TRUE /\ v.binding \in written
        /\ v = [prefix |-> v.prefix, version |-> v.version, extra |-> v.extra, kind |-> v.kind, token |-> v.token,
                oauth |-> v.oauth, scopes |-> v.scopes, scopesPresent |-> TRUE, binding |-> v.binding]
    <2> DEFINE Fields == [kind : {"oauth", "permanent-token", "odd"}, token : {Payload!Empty, 1, Payload!Malformed},
                          oauth : {Payload!Empty, 1, Payload!Malformed, Payload!Part}, scopes : Payload!ScopeLists,
                          binding : written]
               Frames == [prefix : 0 .. 2, version : {1, 2}, extra : BOOLEAN]
    <2>1. \E f \in Frames, c \in Fields :
            v = [prefix |-> f.prefix, version |-> f.version, extra |-> f.extra, kind |-> c.kind, token |-> c.token,
                 oauth |-> c.oauth, scopes |-> c.scopes, scopesPresent |-> TRUE, binding |-> c.binding]
      BY <1>2 DEF Payload!Payloads
    <2> HIDE DEF written
    <2> QED
      BY <2>1 DEF Payload!Empty, Payload!Malformed, Payload!Part
  <1>6. \A b \in written : b \in Bindings
    <2>1. Payload!Unbound \in Bindings /\ [Payload!Unbound EXCEPT !.identity = profile] \in Bindings
      BY <1>3 DEF Bindings, Payload!Unbound
    <2> QED
      BY <1>3, <1>4, <2>1, ProfileOf
  <1>7. ASSUME NEW b \in written, b # Payload!Unbound
        PROVE  b.identity \in {profile, other} /\ b.identity.scopes = profile.scopes
    <2>1. [Payload!Unbound EXCEPT !.identity = profile].identity = profile
      BY DEF Payload!Unbound
    <2>2. Payload!BindingOf(profile).identity = profile /\ Payload!BindingOf(other).identity = other
      BY <1>3, <1>4, ProfileOf
    <2> HIDE DEF other
    <2> QED
      BY <1>4, <1>7, <2>1, <2>2
  <1> HIDE DEF written, other
  <1>8. /\ stored \in StoredPayloads /\ stored.binding = v.binding
        /\ stored.scopesPresent \in BOOLEAN /\ (~stored.scopesPresent => stored.scopes = <<>>)
    <2>1. /\ v.extra \in Flags /\ TRUE \in Flags /\ FALSE \in Flags
          /\ v.token \in 0 .. 4 /\ v.oauth \in 0 .. 4 /\ v.binding \in Bindings
      BY <1>5, <1>6 DEF Flags
    <2>2. v \in StoredPayloads
      <3> DEFINE yes == TRUE
                 more == v.extra
      <3>1. /\ yes \in Flags /\ more \in Flags
            /\ v = [prefix |-> v.prefix, version |-> v.version, extra |-> more, kind |-> v.kind, token |-> v.token,
                    oauth |-> v.oauth, scopes |-> v.scopes, scopesPresent |-> yes, binding |-> v.binding]
        BY <1>5, <2>1
      <3>2. /\ v.prefix \in 0 .. 2 /\ v.version \in {1, 2} /\ v.kind \in {"oauth", "permanent-token", "odd"}
            /\ v.token \in 0 .. 4 /\ v.oauth \in 0 .. 4 /\ v.scopes \in Payload!ScopeLists /\ v.binding \in Bindings
        BY <1>5, <2>1
      <3> HIDE DEF yes, more
      <3> QED
        BY <3>1, <3>2 DEF StoredPayloads
    <2>3. CASE stored = v
      <3>1. stored \in StoredPayloads /\ stored.binding = v.binding
        BY <2>2, <2>3
      <3>2. stored.scopesPresent = TRUE
        BY <1>5, <2>3
      <3> QED
        BY <3>1, <3>2
    <2>4. CASE stored = Payload!Absent(v)
      <3>1. stored = [v EXCEPT !.scopes = <<>>, !.scopesPresent = FALSE]
        BY <2>4 DEF Payload!Absent
      <3>2. stored \in StoredPayloads /\ stored.binding = v.binding /\ stored.scopesPresent = FALSE
            /\ stored.scopes = <<>>
        BY <2>1, <2>2, <3>1, Unwritten
      <3> QED
        BY <3>2
    <2> QED
      BY <1>2, <2>3, <2>4
  <1>9. stored.scopes \in Payload!ScopeLists /\ profile.scopes \in Payload!ScopeLists
    BY <1>3, <1>8, ProfileOf DEF StoredPayloads
  <1>10. granted \subseteq ScopeNames
    <2>1. ASSUME NEW list \in Payload!ScopeLists PROVE Payload!ToSet(list) \subseteq ScopeNames
      BY ListOf, PayloadAssumption DEF Payload!ToSet
    <2> QED
      BY <1>1, <1>9, <2>1
  <1>11. Payload!TypeOK
    BY <1>1, <1>3, <1>9, <1>10 DEF Payload!TypeOK
  <1>12. Payload!NeverWidened
    <2>1. CASE stored.scopesPresent
      BY <1>1, <2>1 DEF Payload!NeverWidened
    <2>2. CASE ~stored.scopesPresent
      <3>1. Payload!ToSet(stored.scopes) = {}
        BY <1>8, <2>2 DEF Payload!ToSet
      <3> QED
        BY <3>1 DEF Payload!NeverWidened
    <2> QED
      BY <2>1, <2>2
  <1>13. Payload!RefreshKept /\ Payload!LoginDelivers
    BY <1>1 DEF Payload!RefreshKept, Payload!LoginDelivers
  <1>14. ASSUME Payload!decodes(stored), stored.kind = "oauth", stored.scopes = <<>>, stored.binding # Payload!Unbound
         PROVE  granted = Payload!ToSet(issuer.scopes)
    <2>1. ~stored.scopesPresent
      BY <1>14, <1>8 DEF Payload!decodes, StoredPayloads
    <2>2. issuer.scopes = profile.scopes
      BY <1>1, <1>5, <1>7, <1>8, <1>14
    <2> QED
      BY <1>1, <2>1, <2>2
  <1> QED
    BY <1>1, <1>8, <1>11, <1>12, <1>13, <1>14 DEF PayloadIInv, Payload!CredentialInv

(* What a step of a payload's life does to the token and the old payload.  *)
Honestly == Payload!TokenStaysHome /\ Payload!RestoredExactly

LEMMA PayloadStep ==
    ASSUME PayloadIInv, [Payload!Next]_(Payload!vars) PROVE PayloadIInv' /\ [Honestly]_(Payload!vars)
  <1>1. ASSUME NEW published \in BOOLEAN, NEW kind \in {"permanent-token", "oauth"}, NEW answer \in Payload!Answers,
               kind = "permanent-token" => answer = Payload!Silent, Payload!Login(kind, answer, published)
        PROVE  PayloadIInv' /\ Honestly
    <2>1. PayloadIInv'
      BY <1>1, LoginKeeps
    <2>2. told' \in {"refused", "logged in", "rolled back", "not rolled back"}
      BY <1>1 DEF Payload!Login, Payload!RollBack, Payload!Ended
    <2>3. Payload!TokenStaysHome
      BY <2>2 DEF Payload!TokenStaysHome
    <2>4. ASSUME told' \in {"rolled back", "not rolled back"}, stored.binding # Payload!Unbound
          PROVE  /\ Payload!Encodable(Payload!credentialOf(stored))
                 /\ Payload!credentialOf(stored') = Payload!credentialOf(stored)
                 /\ stored.kind = "oauth" => stored' = stored
      <3>1. /\ Payload!decodes(stored)
            /\ IF Payload!Encodable(Payload!credentialOf(stored))
               THEN stored' = Payload!encodeCredentialValue(Payload!credentialOf(stored))
               ELSE told' = "not rolled back"
        BY <1>1, <2>4 DEF Payload!Login, Payload!RollBack, Payload!Ended
      <3>2. /\ Payload!Encodable(Payload!credentialOf(stored))
            /\ Payload!credentialOf(Payload!encodeCredentialValue(Payload!credentialOf(stored)))
                 = Payload!credentialOf(stored)
            /\ stored.kind = "oauth" => Payload!encodeCredentialValue(Payload!credentialOf(stored)) = stored
        BY <2>4, <3>1, Rewritten DEF PayloadIInv
      <3> QED
        BY <3>1, <3>2
    <2>5. Payload!RestoredExactly
      BY <2>4 DEF Payload!RestoredExactly
    <2> QED
      BY <2>1, <2>3, <2>5 DEF Honestly
  <1>2. ASSUME Payload!Use PROVE PayloadIInv' /\ Honestly
    <2>1. /\ UNCHANGED <<profile, stored, issuer, granted>> /\ told' \in {"used", "refused"}
          /\ told' = "used" => Payload!Usable
      BY <1>2 DEF Payload!Use, Payload!Ended
    <2>2. PayloadIInv'
      BY <2>1, LeavingKeeps DEF PayloadIInv, Payload!CredentialInv, Payload!TypeOK
    <2>3. Payload!TokenStaysHome
      BY <2>1, UsableIs DEF Payload!TokenStaysHome
    <2>4. Payload!RestoredExactly
      BY <2>1 DEF Payload!RestoredExactly
    <2> QED
      BY <2>2, <2>3, <2>4 DEF Honestly
  <1>3. ASSUME NEW answer \in Payload!Answers, Payload!Refresh(answer) PROVE PayloadIInv' /\ Honestly
    <2>1. PayloadIInv'
      BY <1>3, RefreshKeeps
    <2>2. Payload!Usable /\ told' \in {"refreshed", "uncertain"}
      BY <1>3 DEF Payload!Refresh, Payload!Ended
    <2>3. Payload!TokenStaysHome
      BY <2>2, UsableIs DEF Payload!TokenStaysHome
    <2>4. Payload!RestoredExactly
      BY <2>2 DEF Payload!RestoredExactly
    <2> QED
      BY <2>1, <2>3, <2>4 DEF Honestly
  <1>4. ASSUME NEW p \in Payload!ProfilesAt({profile.generation}), Payload!Edit(p) PROVE PayloadIInv' /\ Honestly
    <2>1. UNCHANGED <<stored, issuer, granted>> /\ profile' = p /\ told' = "edited"
      BY <1>4 DEF Payload!Edit, Payload!Ended
    <2>2. profile.generation \in Payload!Generations
      BY ProfileOf DEF PayloadIInv, Payload!CredentialInv, Payload!TypeOK, Payload!Generations
    <2>3. p \in Payload!ProfilesAt(Payload!Generations)
      BY <2>2 DEF Payload!ProfilesAt
    <2>4. PayloadIInv'
      BY <2>1, <2>3, LeavingKeeps
    <2> QED
      BY <2>1, <2>4 DEF Honestly, Payload!TokenStaysHome, Payload!RestoredExactly
  <1>5. ASSUME UNCHANGED Payload!vars PROVE PayloadIInv' /\ UNCHANGED Payload!vars
    BY <1>5 DEF Payload!vars, PayloadIInv, Payload!CredentialInv, Payload!TypeOK, Payload!NeverWidened,
                Payload!RefreshKept, Payload!LoginDelivers, Payload!Usable
  <1>6. CASE Payload!Next
    <2>1. ASSUME NEW published \in BOOLEAN, Payload!Login("permanent-token", Payload!Silent, published)
          PROVE  PayloadIInv' /\ Honestly
      BY <1>1, <2>1, SilentAnswer
    <2>2. ASSUME NEW published \in BOOLEAN, NEW answer \in Payload!Answers, Payload!Login("oauth", answer, published)
          PROVE  PayloadIInv' /\ Honestly
      BY <1>1, <2>2
    <2> QED
      BY <1>2, <1>3, <1>4, <1>6, <2>1, <2>2 DEF Payload!Next
  <1> QED
    BY <1>5, <1>6

(* What is stored claims no scope that the server did not grant, a login   *)
(* leaves what the next command can use, and no refresh that the client    *)
(* took is lost: for all lists of scopes, sorted and walked as the code    *)
(* does (internal/auth/store.go, internal/oauth/oauth.go).                 *)
THEOREM CredentialSafe == Payload!Spec => []CredentialSound
  <1>1. PayloadIInv => CredentialSound
    BY DEF PayloadIInv, CredentialSound
  <1>2. PayloadIInv /\ [Payload!Next]_(Payload!vars) => PayloadIInv'
    BY PayloadStep
  <1> QED
    BY <1>1, <1>2, PayloadInit, PTL DEF Payload!Spec

(* A token is presented only for the profile it was issued for, and a      *)
(* failed login puts back exactly what it found (loadBoundCredential,      *)
(* loginLocked).                                                           *)
THEOREM CredentialHonest == Payload!Spec => CredentialSteps
  <1>1. PayloadIInv /\ [Payload!Next]_(Payload!vars) => PayloadIInv' /\ [Honestly]_(Payload!vars)
    BY PayloadStep
  <1>2. Payload!Spec => [][Honestly]_(Payload!vars)
    BY <1>1, PayloadInit, PTL DEF Payload!Spec
  <1> QED
    BY <1>2 DEF Honestly, CredentialSteps, Payload!CredentialSteps
=============================================================================
