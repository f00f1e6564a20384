------------------------ MODULE InferenceClientProofs ------------------------
(***************************************************************************)
(* Proofs about InferenceClient, for any number of calls, any integer as   *)
(* max_retries of either side, any size of the pools and any set of        *)
(* statuses.                                                               *)
(***************************************************************************)
EXTENDS InferenceClient, FiniteSetTheorems, SequenceTheorems, TLAPS

USE ClientAssumption DEF ClientAssumption

(* What POST /v1/chat answers on outcome o is what the attempt t met.      *)
Told(o, t) ==
    /\ ChatStatus(o) = 200 <=> t.body = "completion"
    /\ ChatStatus(o) = 504 <=> t.body \in {"timeout", "pool_timeout"}
    /\ ChatStatus(o) = 500 <=> t.body = "unreadable"
    /\ ChatStatus(o) \in {401, 403} <=> t.status \in {401, 403} /\ t.body = "error"

(* A call that is not over has a turn left.                                *)
TurnLeft == \A c \in Calls :
    /\ pc[c] = "new" => tries[c] = <<>>
    /\ pc[c] # "over" => /\ Len(tries[c]) < Attempts(Side[c])
                         /\ outcome[c] = Ends("none", 0)

Inv == TypeOK /\ TurnLeft /\ ChatTellsLastTry

-----------------------------------------------------------------------------
LEMMA AttemptsPositive == \A c \in Calls : Attempts(Side[c]) \in Nat \ {0}
BY DEF Attempts

LEMMA AppendFacts ==
    ASSUME NEW S, NEW s \in Seq(S), NEW t \in S
    PROVE  /\ Append(s, t) \in Seq(S) /\ Append(s, t) # <<>>
           /\ Len(s) \in Nat /\ Len(Append(s, t)) = Len(s) + 1
           /\ DOMAIN s = 1 .. Len(s) /\ DOMAIN Append(s, t) = 1 .. Len(s) + 1
           /\ \A n \in 1 .. Len(s) : Append(s, t)[n] = s[n]
           /\ Append(s, t)[Len(s) + 1] = t
<1>1. Append(s, t) # <<>>
  BY AppendProperties
<1>2. /\ Append(s, t) \in Seq(S)
      /\ Len(s) \in Nat /\ Len(Append(s, t)) = Len(s) + 1
      /\ DOMAIN s = 1 .. Len(s) /\ DOMAIN Append(s, t) = 1 .. Len(s) + 1
      /\ \A n \in 1 .. Len(s) : Append(s, t)[n] = s[n]
      /\ Append(s, t)[Len(s) + 1] = t
  OBVIOUS
<1> QED
  BY <1>1, <1>2

(* The kinds of turns, and what each of them makes of a call.              *)
LEMMA NoAnswerFacts ==
    /\ \A why \in {"timeout", "pool_timeout", "transport"} :
          NoAnswer(why) \in Tries /\ NoAnswer(why).body = why /\ NoAnswer(why).status = 0
    /\ Told(Ends("timeout", 0), NoAnswer("timeout"))
    /\ Told(Ends("timeout", 0), NoAnswer("pool_timeout"))
    /\ Told(Ends("error", 0), NoAnswer("transport"))
BY DEF NoAnswer, Tries, Told, Ends, ChatStatus

LEMMA RejectedFacts ==
    ASSUME NEW status \in Statuses, status >= 400
    PROVE  LET t == [status |-> status, body |-> "error"]
           IN  /\ t \in Tries /\ Told(Ends("error", status), t)
BY DEF Tries, Answers, Told, Ends, ChatStatus

LEMMA RepliedFacts ==
    ASSUME NEW status \in Statuses, status < 400, NEW body \in Bodies
    PROVE  LET t == [status |-> status, body |-> body]
           IN  t \in Tries /\ Told(Ends(KindOf(body), 0), t)
BY DEF Tries, Answers, Bodies, Told, Ends, ChatStatus, KindOf

LEMMA EndsFacts ==
    /\ \A kind \in Kinds, status \in Statuses \cup {0} : Ends(kind, status) \in Outcomes
    /\ \A body : KindOf(body) \in Kinds
BY DEF Ends, Outcomes, Kinds, KindOf

-----------------------------------------------------------------------------
(* A turn that ends the call.                                              *)
LEMMA ReturnKeeps ==
    ASSUME Inv, NEW c \in Calls, pc[c] \notin {"new", "over"},
           NEW t \in Tries, NEW o \in Outcomes, Told(o, t), Return(c, t, o)
    PROVE  Inv'
<1>1. /\ tries[c] \in Seq(Tries) /\ Len(tries[c]) < Attempts(Side[c])
      /\ Attempts(Side[c]) \in Nat
  BY AttemptsPositive DEF Inv, TypeOK, TurnLeft
<1>2. /\ pc' = [pc EXCEPT ![c] = "over"] /\ outcome' = [outcome EXCEPT ![c] = o]
      /\ tries' = [tries EXCEPT ![c] = Append(tries[c], t)]
  BY DEF Return
<1>3. /\ pc'[c] = "over" /\ outcome'[c] = o /\ tries'[c] = Append(tries[c], t)
      /\ \A d \in Calls : d # c =>
             pc'[d] = pc[d] /\ outcome'[d] = outcome[d] /\ tries'[d] = tries[d]
  BY <1>2 DEF Inv, TypeOK
<1>4. /\ tries'[c] \in Seq(Tries) /\ tries'[c] # <<>>
      /\ Len(tries[c]) \in Nat /\ Len(tries'[c]) = Len(tries[c]) + 1
      /\ DOMAIN tries[c] = 1 .. Len(tries[c])
      /\ DOMAIN tries'[c] = 1 .. Len(tries[c]) + 1
      /\ \A n \in 1 .. Len(tries[c]) : tries'[c][n] = tries[c][n]
      /\ tries'[c][Len(tries[c]) + 1] = t
  BY <1>1, <1>3, AppendFacts
<1>5. TypeOK'
  <2>1. pc' \in [Calls -> PCs] /\ outcome' \in [Calls -> Outcomes]
    BY <1>2 DEF Inv, TypeOK, PCs
  <2>2. tries' \in [Calls -> Seq(Tries)]
    BY <1>2, <1>3, <1>4 DEF Inv, TypeOK
  <2>3. \A d \in Calls : Len(tries'[d]) <= Attempts(Side[d])
    BY <1>1, <1>3, <1>4 DEF Inv, TypeOK
  <2> QED
    BY <2>1, <2>2, <2>3 DEF TypeOK
<1>6. TurnLeft'
  <2> SUFFICES ASSUME NEW d \in Calls
               PROVE  /\ pc'[d] = "new" => tries'[d] = <<>>
                      /\ pc'[d] # "over" => /\ Len(tries'[d]) < Attempts(Side[d])
                                            /\ outcome'[d] = Ends("none", 0)
    BY DEF TurnLeft
  <2>1. CASE d = c
    BY <1>3, <2>1
  <2>2. CASE d # c
    BY <1>3, <2>2 DEF Inv, TurnLeft
  <2> QED
    BY <2>1, <2>2
<1>7. ChatTellsLastTry'
  <2> SUFFICES ASSUME NEW d \in Calls, pc'[d] = "over"
               PROVE  tries'[d] # <<>> /\ Told(outcome'[d], LastTry(d)')
    BY DEF ChatTellsLastTry, Told, ChatStatus
  <2>1. CASE d = c
    BY <2>1, <1>3, <1>4 DEF LastTry
  <2>2. CASE d # c
    BY <2>2, <1>3 DEF Inv, ChatTellsLastTry, Told, LastTry, ChatStatus
  <2> QED
    BY <2>1, <2>2
<1> QED
  BY <1>5, <1>6, <1>7 DEF Inv

(* A turn after which another one follows.                                 *)
LEMMA TryAgainKeeps ==
    ASSUME Inv, NEW c \in Calls, pc[c] \notin {"new", "over"},
           NEW t \in Tries, MayRetry(c), TryAgain(c, t)
    PROVE  Inv'
<1>1. /\ tries[c] \in Seq(Tries) /\ Len(tries[c]) < Attempts(Side[c]) - 1
      /\ Attempts(Side[c]) \in Nat
  BY AttemptsPositive DEF Inv, TypeOK, MayRetry
<1>2. /\ pc' = [pc EXCEPT ![c] = "backoff"] /\ outcome' = outcome
      /\ tries' = [tries EXCEPT ![c] = Append(tries[c], t)]
  BY DEF TryAgain
<1>3. /\ pc'[c] = "backoff" /\ tries'[c] = Append(tries[c], t)
      /\ \A d \in Calls : d # c => pc'[d] = pc[d] /\ tries'[d] = tries[d]
  BY <1>2 DEF Inv, TypeOK
<1>4. /\ tries'[c] \in Seq(Tries)
      /\ Len(tries[c]) \in Nat /\ Len(tries'[c]) = Len(tries[c]) + 1
      /\ DOMAIN tries[c] = 1 .. Len(tries[c])
      /\ DOMAIN tries'[c] = 1 .. Len(tries[c]) + 1
      /\ \A n \in 1 .. Len(tries[c]) : tries'[c][n] = tries[c][n]
      /\ tries'[c][Len(tries[c]) + 1] = t
  BY <1>1, <1>3, AppendFacts
<1>5. TypeOK'
  BY <1>1, <1>2, <1>3, <1>4 DEF Inv, TypeOK, PCs
<1>6. TurnLeft'
  BY <1>1, <1>2, <1>3, <1>4 DEF Inv, TurnLeft
<1>7. ChatTellsLastTry'
  <2> SUFFICES ASSUME NEW d \in Calls, pc'[d] = "over"
               PROVE  tries'[d] # <<>> /\ Told(outcome'[d], LastTry(d)')
    BY DEF ChatTellsLastTry, Told, ChatStatus
  <2>1. d # c
    BY <1>3
  <2> QED
    BY <2>1, <1>2, <1>3 DEF Inv, ChatTellsLastTry, Told, LastTry, ChatStatus
<1> QED
  BY <1>5, <1>6, <1>7 DEF Inv

(* A step of a call that is not over before or after it, within a turn.    *)
LEMMA WithinTurnKeeps ==
    ASSUME Inv, NEW c \in Calls, pc[c] # "over",
           NEW x \in PCs \ {"new", "over"}, pc' = [pc EXCEPT ![c] = x],
           tries' = tries, outcome' = outcome
    PROVE  Inv'
<1>1. pc'[c] = x /\ \A d \in Calls : d # c => pc'[d] = pc[d]
  BY DEF Inv, TypeOK
<1>2. TypeOK'
  BY DEF Inv, TypeOK
<1>3. TurnLeft'
  BY <1>1 DEF Inv, TurnLeft
<1>4. ChatTellsLastTry'
  BY <1>1 DEF Inv, ChatTellsLastTry, LastTry, ChatStatus
<1> QED
  BY <1>2, <1>3, <1>4 DEF Inv

-----------------------------------------------------------------------------
LEMMA Initially == Init => Inv
<1> SUFFICES ASSUME Init
             PROVE  Inv
  OBVIOUS
<1>1. TypeOK
  BY AttemptsPositive DEF Init, TypeOK, PCs, Outcomes, Kinds, Ends
<1>2. TurnLeft
  BY AttemptsPositive DEF Init, TurnLeft
<1>3. ChatTellsLastTry
  BY DEF Init, ChatTellsLastTry
<1> QED
  BY <1>1, <1>2, <1>3 DEF Inv

LEMMA StartKeeps ==
    ASSUME Inv, NEW c \in Calls, Start(c)
    PROVE  Inv'
<1>1. /\ pc[c] = "new" /\ pc' = [pc EXCEPT ![c] = "waiting"]
      /\ tries' = tries /\ outcome' = [outcome EXCEPT ![c] = outcome[c]]
  <2>1. Attempts(Side[c]) > 0
    BY AttemptsPositive
  <2> QED
    BY <2>1 DEF Start
<1>2. outcome' = outcome
  BY <1>1 DEF Inv, TypeOK
<1> QED
  BY <1>1, <1>2, WithinTurnKeeps DEF PCs

LEMMA ExchangeKeeps ==
    ASSUME Inv, NEW c \in Calls, Exchange(c)
    PROVE  Inv'
<1>1. CASE TimesOut(c)
  <2>1. Ends("timeout", 0) \in Outcomes
    BY EndsFacts DEF Kinds
  <2> QED
    BY <1>1, <2>1, NoAnswerFacts, ReturnKeeps DEF TimesOut
<1>2. CASE TransportFails(c)
  <2>1. Ends("error", 0) \in Outcomes
    BY EndsFacts DEF Kinds
  <2> QED
    BY <1>2, <2>1, NoAnswerFacts, ReturnKeeps, TryAgainKeeps DEF TransportFails
<1>3. CASE \E status \in Statuses : Rejected(c, status)
  <2>1. PICK status \in Statuses : Rejected(c, status)
    BY <1>3
  <2> DEFINE t == [status |-> status, body |-> "error"]
  <2>2. t \in Tries /\ Told(Ends("error", status), t)
    BY <2>1, RejectedFacts DEF Rejected
  <2>3. Ends("error", status) \in Outcomes
    BY EndsFacts DEF Kinds
  <2>4. /\ pc[c] = "posted"
        /\ \/ Retried(c, status) /\ TryAgain(c, t)
           \/ Return(c, t, Ends("error", status))
    BY <2>1 DEF Rejected
  <2> HIDE DEF t
  <2>5. CASE Retried(c, status) /\ TryAgain(c, t)
    BY <2>2, <2>4, <2>5, TryAgainKeeps DEF Retried
  <2>6. CASE Return(c, t, Ends("error", status))
    BY <2>2, <2>3, <2>4, <2>6, ReturnKeeps
  <2> QED
    BY <2>4, <2>5, <2>6
<1>4. CASE \E status \in Statuses, body \in Bodies : Replied(c, status, body)
  <2>1. PICK status \in Statuses, body \in Bodies : Replied(c, status, body)
    BY <1>4
  <2> DEFINE t == [status |-> status, body |-> body]
  <2>2. t \in Tries /\ Told(Ends(KindOf(body), 0), t)
    BY <2>1, RepliedFacts DEF Replied
  <2>3. Ends(KindOf(body), 0) \in Outcomes
    BY EndsFacts
  <2>4. pc[c] = "posted" /\ Return(c, t, Ends(KindOf(body), 0))
    BY <2>1 DEF Replied
  <2> HIDE DEF t
  <2> QED
    BY <2>2, <2>3, <2>4, ReturnKeeps
<1> QED
  BY <1>1, <1>2, <1>3, <1>4 DEF Exchange

LEMMA NextKeeps == Inv /\ [Next]_vars => Inv'
<1> SUFFICES ASSUME Inv, [Next]_vars
             PROVE  Inv'
  OBVIOUS
<1>1. ASSUME NEW c \in Calls, Start(c)
      PROVE  Inv'
  BY <1>1, StartKeeps
<1>2. ASSUME NEW c \in Calls, Connect(c)
      PROVE  Inv'
  BY <1>2, WithinTurnKeeps DEF Connect, PCs
<1>3. ASSUME NEW c \in Calls, Exchange(c)
      PROVE  Inv'
  BY <1>3, ExchangeKeeps
<1>4. ASSUME NEW c \in Calls, BackoffEnds(c)
      PROVE  Inv'
  BY <1>4, WithinTurnKeeps DEF BackoffEnds, PCs
<1>5. ASSUME NEW c \in Calls, PoolTimeout(c)
      PROVE  Inv'
  <2>1. Ends("timeout", 0) \in Outcomes
    BY EndsFacts DEF Kinds
  <2> QED
    BY <1>5, <2>1, NoAnswerFacts, ReturnKeeps DEF PoolTimeout
<1>6. CASE UNCHANGED vars
  BY <1>6 DEF vars, Inv, TypeOK, TurnLeft, ChatTellsLastTry,
              LastTry, ChatStatus
<1> QED
  BY <1>1, <1>2, <1>3, <1>4, <1>5, <1>6 DEF Next, Step, Terminated

(* chat_completions() makes at most max(0, max_retries) + 1 attempts and   *)
(* returns one of the outcomes its callers know.                           *)
THEOREM ClientTypeCorrect == Spec => []TypeOK
<1>1. Inv => TypeOK
  BY DEF Inv
<1> QED
  BY <1>1, Initially, NextKeeps, PTL DEF Spec

(* What POST /v1/chat answers is what the last attempt met, whatever came  *)
(* before it; in particular there is a last attempt, so that the assert    *)
(* behind the loop is not reached.                                         *)
THEOREM LastTryIsTold == Spec => []ChatTellsLastTry
<1>1. Inv => ChatTellsLastTry
  BY DEF Inv
<1> QED
  BY <1>1, Initially, NextKeeps, PTL DEF Spec

-----------------------------------------------------------------------------
(* What an exchange does to its call, whichever way it goes.               *)
LEMMA ExchangeFacts ==
    ASSUME Inv, NEW c \in Calls, Exchange(c)
    PROVE  /\ pc[c] = "posted"
           /\ \E t \in Tries, o \in Outcomes :
                 /\ t.body # "pool_timeout"
                 /\ \/ TryAgain(c, t)
                    \/ Return(c, t, o) /\ o.kind \in Call!Results \ {"none"}
<1>1. CASE TimesOut(c)
  <2>1. /\ Ends("timeout", 0) \in Outcomes
        /\ Ends("timeout", 0).kind \in Call!Results \ {"none"}
    BY EndsFacts DEF Kinds, Ends, Call!Results
  <2>2. NoAnswer("timeout") \in Tries /\ NoAnswer("timeout").body # "pool_timeout"
    BY NoAnswerFacts
  <2> QED
    BY <1>1, <2>1, <2>2 DEF TimesOut
<1>2. CASE TransportFails(c)
  <2>1. /\ Ends("error", 0) \in Outcomes
        /\ Ends("error", 0).kind \in Call!Results \ {"none"}
    BY EndsFacts DEF Kinds, Ends, Call!Results
  <2>2. NoAnswer("transport") \in Tries /\ NoAnswer("transport").body # "pool_timeout"
    BY NoAnswerFacts
  <2> QED
    BY <1>2, <2>1, <2>2 DEF TransportFails
<1>3. CASE \E status \in Statuses : Rejected(c, status)
  <2>1. PICK status \in Statuses : Rejected(c, status)
    BY <1>3
  <2> DEFINE t == [status |-> status, body |-> "error"]
  <2>2. t \in Tries /\ t.body # "pool_timeout"
    BY DEF Tries, Answers
  <2>3. /\ Ends("error", status) \in Outcomes
        /\ Ends("error", status).kind \in Call!Results \ {"none"}
    BY EndsFacts DEF Kinds, Ends, Call!Results
  <2>4. /\ pc[c] = "posted"
        /\ TryAgain(c, t) \/ Return(c, t, Ends("error", status))
    BY <2>1 DEF Rejected
  <2> HIDE DEF t
  <2> QED
    BY <2>2, <2>3, <2>4
<1>4. CASE \E status \in Statuses, body \in Bodies : Replied(c, status, body)
  <2>1. PICK status \in Statuses, body \in Bodies : Replied(c, status, body)
    BY <1>4
  <2> DEFINE t == [status |-> status, body |-> body]
  <2>2. t \in Tries /\ t.body # "pool_timeout"
    BY DEF Tries, Answers, Bodies
  <2>3. /\ Ends(KindOf(body), 0) \in Outcomes
        /\ Ends(KindOf(body), 0).kind \in Call!Results \ {"none"}
    BY EndsFacts DEF KindOf, Ends, Call!Results
  <2>4. pc[c] = "posted" /\ Return(c, t, Ends(KindOf(body), 0))
    BY <2>1 DEF Replied
  <2> HIDE DEF t
  <2> QED
    BY <2>2, <2>3, <2>4
<1> QED
  BY <1>1, <1>2, <1>3, <1>4 DEF Exchange

-----------------------------------------------------------------------------
(* The refinement of ModelCall.                                            *)
LEMMA SentFacts ==
    ASSUME NEW s \in Seq(Tries), NEW t \in Tries
    PROVE  /\ Cardinality(Sent(s)) \in Nat /\ Cardinality(Sent(s)) <= Len(s)
           /\ Cardinality(Sent(Append(s, t))) =
                  IF t.body = "pool_timeout" THEN Cardinality(Sent(s))
                                             ELSE Cardinality(Sent(s)) + 1
<1>1. /\ Len(s) \in Nat /\ DOMAIN s = 1 .. Len(s)
      /\ DOMAIN Append(s, t) = 1 .. Len(s) + 1
      /\ \A n \in 1 .. Len(s) : Append(s, t)[n] = s[n]
      /\ Append(s, t)[Len(s) + 1] = t
  BY AppendFacts
<1>2. IsFiniteSet(1 .. Len(s)) /\ Cardinality(1 .. Len(s)) = Len(s)
  <2>1. PICK n \in Nat : n = Len(s)
    BY <1>1
  <2>2. IsFiniteSet(1 .. n) /\ Cardinality(1 .. n) = IF 1 > n THEN 0 ELSE n - 1 + 1
    BY FS_Interval
  <2> QED
    BY <2>1, <2>2
<1>3. Sent(s) \subseteq 1 .. Len(s)
  BY <1>1 DEF Sent
<1>4. /\ IsFiniteSet(Sent(s)) /\ Cardinality(Sent(s)) \in Nat
      /\ Cardinality(Sent(s)) <= Len(s)
  BY <1>2, <1>3, FS_Subset, FS_CardinalityType
<1>5. CASE t.body = "pool_timeout"
  <2>1. Sent(Append(s, t)) = Sent(s)
    BY <1>1, <1>5 DEF Sent
  <2> QED
    BY <1>4, <1>5, <2>1
<1>6. CASE t.body # "pool_timeout"
  <2>1. Sent(Append(s, t)) = Sent(s) \cup {Len(s) + 1}
    BY <1>1, <1>6 DEF Sent
  <2>2. Len(s) + 1 \notin Sent(s)
    BY <1>1, <1>3
  <2> QED
    BY <1>4, <1>6, <2>1, <2>2, FS_AddElement
<1> QED
  BY <1>4, <1>5, <1>6

(* A step touches the mapped variables of one call only.                   *)
LEMMA OthersUnmoved ==
    ASSUME NEW c \in Calls,
           \A d \in Calls : d # c =>
               pc'[d] = pc[d] /\ tries'[d] = tries[d] /\ outcome'[d] = outcome[d]
    PROVE  \A d \in Calls : d # c => /\ StageOf(d)' = StageOf(d)
                                     /\ SentBy(d)' = SentBy(d)
                                     /\ outcome'[d].kind = outcome[d].kind
BY DEF StageOf, SentBy

LEMMA InitRefines == Init => Call!Init
<1> SUFFICES ASSUME Init
             PROVE  Call!Init
  OBVIOUS
<1>1. ASSUME NEW c \in Calls
      PROVE  StageOf(c) = "idle" /\ SentBy(c) = 0 /\ outcome[c].kind = "none"
  <2>1. Sent(tries[c]) = {}
    BY DEF Init, Sent
  <2>2. pc[c] = "new" /\ outcome[c] = Ends("none", 0)
    BY DEF Init
  <2>3. Cardinality(Sent(tries[c])) = 0
    BY <2>1, FS_EmptySet
  <2>4. StageOf(c) = "idle"
    BY <2>2 DEF StageOf
  <2>5. SentBy(c) = 0
    BY <2>2, <2>3 DEF SentBy
  <2>6. outcome[c].kind = "none"
    BY <2>2 DEF Ends
  <2> QED
    BY <2>4, <2>5, <2>6
<1> QED
  BY <1>1 DEF Call!Init

LEMMA SentInTime ==
    ASSUME Inv, NEW c \in Calls
    PROVE  /\ Cardinality(Sent(tries[c])) \in Nat
           /\ pc[c] # "over" => Cardinality(Sent(tries[c])) < Attempts(Side[c])
<1>1. tries[c] \in Seq(Tries) /\ NoAnswer("timeout") \in Tries
  BY NoAnswerFacts DEF Inv, TypeOK
<1>2. /\ Cardinality(Sent(tries[c])) \in Nat
      /\ Cardinality(Sent(tries[c])) <= Len(tries[c])
  BY <1>1, SentFacts
<1>3. Len(tries[c]) \in Nat /\ Attempts(Side[c]) \in Nat
  BY <1>1, AttemptsPositive
<1> QED
  BY <1>2, <1>3 DEF Inv, TurnLeft

(* A call that ends, whatever its last turn met.                           *)
LEMMA ReturnRefines ==
    ASSUME Inv, NEW c \in Calls, pc[c] \in {"waiting", "posted"},
           NEW t \in Tries, NEW o \in Outcomes, Return(c, t, o),
           o.kind \in Call!Results \ {"none"},
           t.body = "pool_timeout" <=> pc[c] = "waiting",
           pc[c] = "waiting" => o.kind = "timeout"
    PROVE  Call!End(c, o.kind)
<1>1. /\ pc' = [pc EXCEPT ![c] = "over"] /\ outcome' = [outcome EXCEPT ![c] = o]
      /\ tries' = [tries EXCEPT ![c] = Append(tries[c], t)]
      /\ tries[c] \in Seq(Tries)
  BY DEF Return, Inv, TypeOK
<1>2. /\ pc'[c] = "over" /\ outcome'[c] = o /\ tries'[c] = Append(tries[c], t)
      /\ \A d \in Calls : d # c =>
             pc'[d] = pc[d] /\ tries'[d] = tries[d] /\ outcome'[d] = outcome[d]
  BY <1>1 DEF Inv, TypeOK
<1>3. \A d \in Calls : d # c => /\ StageOf(d)' = StageOf(d)
                                /\ SentBy(d)' = SentBy(d)
                                /\ outcome'[d].kind = outcome[d].kind
  BY <1>2, OthersUnmoved
<1>4. StageOf(c) = "open" /\ StageOf(c)' = "over"
  BY <1>2 DEF StageOf
<1>5. SentBy(c)' = SentBy(c) /\ (pc[c] = "posted" => SentBy(c) > 0)
  BY <1>1, <1>2, SentFacts DEF SentBy
<1> QED
  <2>1. [d \in Calls |-> StageOf(d)]' = [[d \in Calls |-> StageOf(d)] EXCEPT ![c] = "over"]
    BY <1>3, <1>4
  <2>2. [d \in Calls |-> SentBy(d)]' = [d \in Calls |-> SentBy(d)]
    BY <1>3, <1>5
  <2>3. [d \in Calls |-> outcome[d].kind]' =
            [[d \in Calls |-> outcome[d].kind] EXCEPT ![c] = o.kind]
    BY <1>2, <1>3
  <2> QED
    BY <1>4, <1>5, <2>1, <2>2, <2>3 DEF Call!End

LEMMA StepRefines ==
    ASSUME Inv, [Next]_vars
    PROVE  [Call!Next]_Call!callVars
<1>1. ASSUME NEW c \in Calls, Start(c)
      PROVE  Call!Open(c)
  <2>1. /\ pc[c] = "new" /\ pc' = [pc EXCEPT ![c] = "waiting"]
        /\ tries' = tries /\ outcome' = [outcome EXCEPT ![c] = outcome[c]]
    <3>1. Attempts(Side[c]) > 0
      BY AttemptsPositive
    <3> QED
      BY <1>1, <3>1 DEF Start
  <2>2. /\ pc'[c] = "waiting" /\ outcome' = outcome
        /\ \A d \in Calls : d # c => pc'[d] = pc[d]
    BY <2>1 DEF Inv, TypeOK
  <2>3. \A d \in Calls : d # c => StageOf(d)' = StageOf(d)
    BY <2>2 DEF StageOf
  <2>4. StageOf(c) = "idle" /\ StageOf(c)' = "open"
    BY <2>1, <2>2 DEF StageOf
  <2>5. \A d \in Calls : SentBy(d)' = SentBy(d)
    BY <2>1, <2>2 DEF SentBy
  <2> QED
    BY <2>2, <2>3, <2>4, <2>5 DEF Call!Open
<1>2. ASSUME NEW c \in Calls, Connect(c)
      PROVE  Call!Send(c)
  <2>1. /\ pc[c] = "waiting" /\ pc' = [pc EXCEPT ![c] = "posted"]
        /\ tries' = tries /\ outcome' = outcome
    BY <1>2 DEF Connect
  <2>2. pc'[c] = "posted" /\ \A d \in Calls : d # c => pc'[d] = pc[d]
    BY <2>1 DEF Inv, TypeOK
  <2>3. \A d \in Calls : StageOf(d)' = StageOf(d)
    BY <2>1, <2>2 DEF StageOf
  <2>4. StageOf(c) = "open"
    BY <2>1 DEF StageOf
  <2>5. \A d \in Calls : d # c => SentBy(d)' = SentBy(d)
    BY <2>1, <2>2 DEF SentBy
  <2>6. SentBy(c)' = SentBy(c) + 1 /\ SentBy(c) < Attempts(Side[c])
    BY <2>1, <2>2, SentInTime DEF SentBy
  <2> QED
    BY <2>1, <2>3, <2>4, <2>5, <2>6 DEF Call!Send
<1>3. ASSUME NEW c \in Calls, Exchange(c)
      PROVE  Call!Next \/ UNCHANGED Call!callVars
  <2>1. PICK t \in Tries, o \in Outcomes :
          /\ t.body # "pool_timeout"
          /\ \/ TryAgain(c, t)
             \/ Return(c, t, o) /\ o.kind \in Call!Results \ {"none"}
    BY <1>3, ExchangeFacts
  <2>2. pc[c] = "posted"
    BY <1>3, ExchangeFacts
  <2>3. CASE Return(c, t, o) /\ o.kind \in Call!Results \ {"none"}
    BY <2>1, <2>2, <2>3, ReturnRefines DEF Call!Next
  <2>4. CASE TryAgain(c, t)
    <3>1. /\ pc' = [pc EXCEPT ![c] = "backoff"] /\ outcome' = outcome
          /\ tries' = [tries EXCEPT ![c] = Append(tries[c], t)]
          /\ tries[c] \in Seq(Tries)
      BY <2>4 DEF TryAgain, Inv, TypeOK
    <3>2. /\ pc'[c] = "backoff" /\ tries'[c] = Append(tries[c], t)
          /\ \A d \in Calls : d # c => pc'[d] = pc[d] /\ tries'[d] = tries[d]
      BY <3>1 DEF Inv, TypeOK
    <3>3. \A d \in Calls : StageOf(d)' = StageOf(d)
      BY <2>2, <3>2 DEF StageOf
    <3>4. SentBy(c)' = SentBy(c)
      BY <2>1, <2>2, <3>1, <3>2, SentFacts DEF SentBy
    <3>5. \A d \in Calls : d # c => SentBy(d)' = SentBy(d)
      BY <3>2 DEF SentBy
    <3> QED
      BY <3>1, <3>3, <3>4, <3>5 DEF Call!callVars
  <2> QED
    BY <2>1, <2>3, <2>4
<1>4. ASSUME NEW c \in Calls, BackoffEnds(c)
      PROVE  UNCHANGED Call!callVars
  <2>1. /\ pc[c] = "backoff" /\ pc' = [pc EXCEPT ![c] = "waiting"]
        /\ tries' = tries /\ outcome' = outcome
    BY <1>4 DEF BackoffEnds
  <2>2. pc'[c] = "waiting" /\ \A d \in Calls : d # c => pc'[d] = pc[d]
    BY <2>1 DEF Inv, TypeOK
  <2>3. \A d \in Calls : StageOf(d)' = StageOf(d) /\ SentBy(d)' = SentBy(d)
    BY <2>1, <2>2 DEF StageOf, SentBy
  <2> QED
    BY <2>1, <2>3 DEF Call!callVars
<1>5. ASSUME NEW c \in Calls, PoolTimeout(c)
      PROVE  Call!Next
  <2>1. /\ Ends("timeout", 0) \in Outcomes /\ Ends("timeout", 0).kind = "timeout"
        /\ "timeout" \in Call!Results \ {"none"}
        /\ NoAnswer("pool_timeout") \in Tries
        /\ NoAnswer("pool_timeout").body = "pool_timeout"
    BY EndsFacts, NoAnswerFacts DEF Kinds, Ends, Call!Results
  <2>2. pc[c] = "waiting" /\ Return(c, NoAnswer("pool_timeout"), Ends("timeout", 0))
    BY <1>5 DEF PoolTimeout
  <2> QED
    BY <2>1, <2>2, ReturnRefines DEF Call!Next
<1>6. CASE UNCHANGED vars
  <2>1. \A d \in Calls : StageOf(d)' = StageOf(d) /\ SentBy(d)' = SentBy(d)
    BY <1>6 DEF vars, StageOf, SentBy
  <2> QED
    BY <1>6, <2>1 DEF vars, Call!callVars
<1> QED
  BY <1>1, <1>2, <1>3, <1>4, <1>5, <1>6 DEF Next, Step, Terminated, Call!Next

(* The retry loop implements ModelCall, the call that run_primary() and    *)
(* the candidate handler are written against: one end, and never more      *)
(* requests than max(0, max_retries) + 1.                                  *)
THEOREM LoopImplementsCall == Spec => ImplementsModelCall
<1> QED
  BY InitRefines, StepRefines, Initially, NextKeeps, PTL
     DEF Spec, ImplementsModelCall, Call!Spec
=============================================================================
