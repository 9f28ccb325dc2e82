--------------------------- MODULE Execution_proofs ---------------------------
(***************************************************************************)
(* For any finite set of credentials, any requests, limits, answers and    *)
(* delays: no round calls more credentials than allowed, no request has    *)
(* more rounds than its retries, and a request that has the program for    *)
(* itself is not turned away while a credential is free.                   *)
(*                                                                         *)
(* The bounds need to be known where they are tested: a pick that was not  *)
(* at the limit leads to a call four steps later (Rounds).  The refusal    *)
(* needs that what the request copied of the manager's states, and then    *)
(* gave to the scheduler, is at most as late as they are while nobody else *)
(* begins (Alone, Seen), although time passes in between.                  *)
(***************************************************************************)
EXTENDS Execution, FiniteSetTheorems, TLAPS

Requested == [step : RequestSteps, attempt : 0..Retries, tried : SUBSET Auths,
              auth : Auths \union {Nobody}, error : Answers \union {"none"},
              hint : Hints, snap : [Auths -> Delays], wait : 0..MaxWait, lone : BOOLEAN]

\* The functions' domains, which TypeOK leaves out, and who is asked.
Typed == /\ TypeOK
         /\ request \in [Requests -> {Idle} \union Requested]
         /\ \A r \in Requests : request[r].step \in {"asked", "post", "report"} => request[r].auth \in Auths

\* A pick that was not at the limit is not until it is served; who waits has a retry left.
Rounds == \A r \in Requests :
    /\ MaxCredentials > 0 /\ request[r] # Idle => Cardinality(request[r].tried) <= MaxCredentials
    /\ MaxCredentials > 0 /\ request[r].step \in {"sync", "rebuild", "repick"}
          => Cardinality(request[r].tried) < MaxCredentials
    /\ request[r].step = "waiting" => request[r].attempt < Retries

\* A request that has the program for itself has seen nobody begin.
Alone == \A r \in Requests : request[r] # Idle /\ request[r].lone =>
    service = Idle /\ \A q \in Requests \ {r} : request[q] = Idle

\* Until it picks again, what it read of the manager's states is no later than they are.
Due(s) == Later(s.retry, s.recover)
Seen == \A r \in Requests : request[r] # Idle /\ request[r].lone =>
    /\ request[r].step = "rebuild" => \A a \in Auths : request[r].snap[a] <= Due(state[a])
    /\ request[r].step = "repick" => \A a \in Auths : view[a].wait <= Due(state[a])

-----------------------------------------------------------------------------
(* Delays and states.                                                      *)

\* Delays reach from none to the longest there is.
LEMMA DelaysRange ==
    /\ Delays \subseteq Nat
    /\ 0 \in Delays /\ Short \in Delays /\ Long \in Delays /\ Hints \subseteq Delays
    /\ \A n \in Nat : n <= MaxBackoff => n \in Delays
    /\ \A d \in Delays : Down(d) \in Delays /\ \A e \in Delays : Later(d, e) \in Delays
  <1> DEFINE top == CHOOSE h \in Hints : \A i \in Hints : i <= h
  <1>1. top \in Nat /\ \A i \in Hints : i \in Nat /\ i <= top
    BY ExecutionAssumption
  <1> HIDE DEF top
  <1>2. PICK m \in Nat : m = Later(Later(Short, Long), Later(MaxBackoff, top))
    BY <1>1, ExecutionAssumption DEF Later
  <1>3. Short <= m /\ Long <= m /\ MaxBackoff <= m /\ top <= m
    BY <1>1, <1>2, ExecutionAssumption DEF Later
  <1>4. Delays = 0..m
    BY <1>2 DEF Delays, top
  <1>5. \A d \in 0..m : Down(d) \in 0..m /\ \A e \in 0..m : Later(d, e) \in 0..m
    BY DEF Down, Later
  <1>6. Short \in 0..m /\ Long \in 0..m /\ 0 \in 0..m /\ MaxBackoff \in Nat
    BY <1>3, ExecutionAssumption
  <1>7. Hints \subseteq 0..m
    BY <1>1, <1>3
  <1>8. \A n \in Nat : n <= MaxBackoff => n \in 0..m
    BY <1>3, <1>6
  <1> QED BY <1>4, <1>5, <1>6, <1>7, <1>8

\* The back-off doubles until it has reached its maximum.
LEMMA BackoffType ==
    ASSUME NEW level \in 0..MaxBackoff
    PROVE  /\ Backoff(level)[1] \in Delays
           /\ Backoff(level)[2] \in 0..MaxBackoff
  <1>1. MaxBackoff \in Nat /\ 2 ^ level \in Nat /\ level < 2 ^ level
    BY PowersAssumption, ExecutionAssumption
  <1>2. PICK p \in Nat : p = 2 ^ level
    BY <1>1
  <1>3. Backoff(level) = IF p >= MaxBackoff THEN <<MaxBackoff, level>> ELSE <<p, level + 1>>
    BY <1>2 DEF Backoff
  <1>4. CASE p >= MaxBackoff
    BY <1>1, <1>3, <1>4, DelaysRange
  <1>5. CASE ~(p >= MaxBackoff)
    <2>1. p <= MaxBackoff /\ level + 1 \in 0..MaxBackoff
      BY <1>1, <1>2, <1>5
    <2> QED BY <1>3, <1>5, <2>1, DelaysRange
  <1> QED BY <1>4, <1>5

\* A credential nothing is known of, and one that works.
LEMMA CleanTypes == NoState \in ModelStates /\ Clean \in ModelStates
  <1>1. 0 \in Delays /\ 0 \in 0..MaxBackoff
    <2>1. MaxBackoff \in Nat
      BY ExecutionAssumption
    <2> QED BY <2>1, DelaysRange
  <1>2. NoState \in ModelStates
    BY <1>1 DEF NoState, ModelStates
  <1>3. ASSUME NEW s \in ModelStates
        PROVE  [s EXCEPT !.kind = "clean"] \in ModelStates
    BY DEF ModelStates
  <1> QED BY <1>2, <1>3 DEF Clean

\* Whatever an upstream answers, the credential's state is one.
LEMMA AfterType ==
    ASSUME NEW a, NEW s \in ModelStates, NEW outcome \in Answers, NEW hint \in Hints
    PROVE  After(a, s, outcome, hint) \in ModelStates
  <1>1. ASSUME NEW w \in Delays
        PROVE  Failed(a, s, w) \in ModelStates
    BY DelaysRange DEF Failed, ModelStates
  <1>2. OverQuota(a, s, hint) \in ModelStates
    <2> DEFINE next == IF a \in Uncooled THEN <<0, s.level>>
                       ELSE IF hint > 0 THEN <<hint, s.level>> ELSE Backoff(s.level)
    <2>1. s.level \in 0..MaxBackoff
      BY DEF ModelStates
    <2>2. next[1] \in Delays /\ next[2] \in 0..MaxBackoff
      BY <2>1, BackoffType, DelaysRange
    <2>3. OverQuota(a, s, hint) = [retry |-> next[1], recover |-> next[1], exceeded |-> TRUE,
                                   level |-> next[2], kind |-> "error"]
      BY DEF OverQuota
    <2> HIDE DEF next
    <2> QED BY <2>2, <2>3 DEF ModelStates
  <1> QED BY <1>1, <1>2, CleanTypes, DelaysRange DEF After, Answers

\* What is read of a state, and a state as time passes.
LEMMA StateTypes ==
    ASSUME NEW s \in ModelStates
    PROVE  /\ Wait(s) \in Delays /\ Due(s) \in Delays /\ NextRetry(s) \in Delays
           /\ Aged(s) \in ModelStates
           /\ Wait(s) <= Due(s)
           /\ Due(s) > 0 => NextRetry(s) > 0
           /\ Due(Aged(s)) = Down(Due(s))
  <1>1. s.retry \in Delays /\ s.recover \in Delays /\ s.retry \in Nat /\ s.recover \in Nat
    BY DelaysRange DEF ModelStates
  <1>2. /\ Wait(s) \in Delays /\ Due(s) \in Delays /\ NextRetry(s) \in Delays
        /\ Wait(s) <= Due(s)
        /\ Due(s) > 0 => NextRetry(s) > 0
    BY <1>1, DelaysRange DEF Wait, Blocked, NextRetry, Due, Later
  <1>3. Aged(s) \in ModelStates /\ Aged(s).retry = Down(s.retry) /\ Aged(s).recover = Down(s.recover)
    BY <1>1, DelaysRange DEF Aged, ModelStates
  <1>4. Due(Aged(s)) = Down(Due(s))
    BY <1>1, <1>3 DEF Due, Later, Down
  <1> QED BY <1>2, <1>3, <1>4

-----------------------------------------------------------------------------
(* Types, and who is asked.                                                *)

\* A request that is not idle has a record.
LEMMA RequestIs ==
    ASSUME Typed, NEW r \in Requests, request[r] # Idle \/ request[r].step # "idle"
    PROVE  request[r] \in Requested /\ request[r] # Idle
  BY DEF Typed, Idle

\* A round begins with nothing tried.
LEMMA NewRoundIs ==
    ASSUME NEW n \in 0..Retries, NEW lone \in BOOLEAN
    PROVE  NewRound(n, lone) \in Requested
  <1>1. 0 \in Delays /\ 0 \in Hints /\ 0 \in 0..MaxWait
    BY DelaysRange, ExecutionAssumption
  <1> QED BY <1>1 DEF NewRound, Requested, RequestSteps

\* A field of a request's record is replaced by another of its type.
LEMMA FieldReplaced ==
    ASSUME NEW p \in Requested
    PROVE  /\ \A b \in BOOLEAN : [p EXCEPT !.lone = b] \in Requested
           /\ \A step \in RequestSteps :
                 /\ [p EXCEPT !.step = step] \in Requested
                 /\ [p EXCEPT !.step = step].step = step /\ [p EXCEPT !.step = step].auth = p.auth
  BY DEF Requested

\* The others lose their loneliness and nothing else.
LEMMA DisturbedIs ==
    ASSUME Typed, NEW e
    PROVE  /\ Disturbed(e) \in [Requests -> {Idle} \union Requested]
           /\ \A q \in Requests :
                 /\ Disturbed(e)[q].step = request[q].step
                 /\ request[q] = Idle => Disturbed(e)[q] = Idle
                 /\ request[q] # Idle => /\ Disturbed(e)[q] # Idle
                                         /\ Disturbed(e)[q].tried = request[q].tried
                                         /\ Disturbed(e)[q].attempt = request[q].attempt
                                         /\ Disturbed(e)[q].auth = request[q].auth
                                         /\ q # e => ~Disturbed(e)[q].lone
  <1>1. ASSUME NEW q \in Requests
        PROVE  /\ Disturbed(e)[q] \in {Idle} \union Requested
               /\ Disturbed(e)[q].step = request[q].step
               /\ request[q] = Idle => Disturbed(e)[q] = Idle
               /\ request[q] # Idle => /\ Disturbed(e)[q] # Idle
                                       /\ Disturbed(e)[q].tried = request[q].tried
                                       /\ Disturbed(e)[q].attempt = request[q].attempt
                                       /\ Disturbed(e)[q].auth = request[q].auth
                                       /\ q # e => ~Disturbed(e)[q].lone
    <2>1. CASE q = e \/ request[q] = Idle
      <3>1. Disturbed(e)[q] = request[q]
        BY <2>1 DEF Disturbed
      <3> QED BY <2>1, <3>1 DEF Typed
    <2>2. CASE q # e /\ request[q] # Idle
      <3>1. PICK p \in Requested : p = request[q]
        BY <2>2, RequestIs
      <3>2. Disturbed(e)[q] = [p EXCEPT !.lone = FALSE]
        BY <2>2, <3>1 DEF Disturbed
      <3>3. [p EXCEPT !.lone = FALSE] \in Requested
        BY FieldReplaced
      <3>4. LET p2 == [p EXCEPT !.lone = FALSE]
            IN  /\ p2.step = p.step /\ p2.tried = p.tried /\ p2.attempt = p.attempt /\ p2.auth = p.auth /\ ~p2.lone
                /\ p2.step # "idle"
        BY DEF Requested, RequestSteps
      <3> QED BY <2>2, <3>1, <3>2, <3>3, <3>4 DEF Idle
    <2> QED BY <2>1, <2>2
  <1>2. DOMAIN Disturbed(e) = Requests /\ Disturbed(e) = [q \in Requests |-> Disturbed(e)[q]]
    BY DEF Disturbed
  <1> QED BY <1>1, <1>2

\* One request goes on, and the rest keeps its type.
LEMMA GoesTyped ==
    ASSUME Typed, NEW r \in Requests, NEW p \in {Idle} \union Requested, Goes(r, p),
           p.step \in {"asked", "post", "report"} => p.auth \in Auths,
           state' \in [Auths -> ModelStates], view' \in [Auths -> [wait : Delays, shared : BOOLEAN]],
           suspended' \subseteq Auths, service' = service
    PROVE  Typed'
  <1>1. request' \in [Requests -> {Idle} \union Requested]
    BY DEF Typed, Goes
  <1>2. \A q \in Requests : request'[q] = IF q = r THEN p ELSE request[q]
    BY DEF Typed, Goes
  <1>3. \A q \in Requests : request'[q].step \in {"asked", "post", "report"} => request'[q].auth \in Auths
    BY <1>2 DEF Typed
  <1>4. TypeOK'
    BY <1>1 DEF Typed, TypeOK, Requested
  <1> QED BY <1>1, <1>3, <1>4 DEF Typed

\* The service's work, and what it writes.
Jobs == [step : ServiceSteps, auth : Auths, copy : ModelStates]
LEMMA ServiceTyped ==
    ASSUME Typed, service' = Idle \/ service' \in Jobs, UNCHANGED request,
           state' \in [Auths -> ModelStates], view' \in [Auths -> [wait : Delays, shared : BOOLEAN]],
           suspended' \subseteq Auths
    PROVE  Typed'
  <1>1. TypeOK'
    BY DEF Typed, TypeOK, Jobs
  <1> QED BY <1>1 DEF Typed

\* The service at work has a credential and a copy of its state.
LEMMA JobIs ==
    ASSUME Typed, service.step # "idle"
    PROVE  /\ service \in Jobs /\ service.auth \in Auths /\ service.copy \in ModelStates
           /\ \A step \in ServiceSteps : [service EXCEPT !.step = step] \in Jobs
           /\ \A step \in ServiceSteps, s \in ModelStates : [service EXCEPT !.step = step, !.copy = s] \in Jobs
  <1>1. service \in Jobs
    BY DEF Typed, TypeOK, Idle, Jobs
  <1> QED BY <1>1 DEF Jobs

\* A view changed at one credential keeps its type.
LEMMA ViewTyped ==
    ASSUME Typed, NEW a \in Auths, NEW d \in Delays, NEW b \in BOOLEAN
    PROVE  /\ [view EXCEPT ![a] = [wait |-> d, shared |-> b]] \in [Auths -> [wait : Delays, shared : BOOLEAN]]
           /\ [view EXCEPT ![a].shared = b] \in [Auths -> [wait : Delays, shared : BOOLEAN]]
  BY DEF Typed, TypeOK

\* So is one that hears of a state.
LEMMA SnapshotTyped ==
    ASSUME Typed, NEW a \in Auths, NEW s \in ModelStates
    PROVE  [view EXCEPT ![a] = Snapshot(s)] \in [Auths -> [wait : Delays, shared : BOOLEAN]]
  BY StateTypes, ViewTyped DEF Snapshot

\* Types are kept; no round is added to the last.
LEMMA TypedStep ==
    ASSUME Typed, Rounds, Next
    PROVE  Typed'
  <1>1. ASSUME NEW r \in Requests, Begin(r)
        PROVE  Typed'
    <2>1. PICK b \in BOOLEAN : b = (Others(r) = {} /\ service = Idle)
      OBVIOUS
    <2>2. NewRound(0, b) \in Requested /\ NewRound(0, b).step = "pick"
      <3>1. 0 \in 0..Retries
        BY ExecutionAssumption
      <3> QED BY <3>1, NewRoundIs DEF NewRound
    <2>3. request' = [Disturbed(r) EXCEPT ![r] = NewRound(0, b)]
      BY <1>1, <2>1 DEF Begin
    <2>4. request' \in [Requests -> {Idle} \union Requested]
      BY <2>2, <2>3, DisturbedIs
    <2>5. \A q \in Requests : request'[q] = IF q = r THEN NewRound(0, b) ELSE Disturbed(r)[q]
      BY <2>3, DisturbedIs
    <2>6. \A q \in Requests : request'[q].step \in {"asked", "post", "report"} => request'[q].auth \in Auths
      BY <2>2, <2>5, DisturbedIs DEF Typed, Idle
    <2>7. TypeOK'
      BY <1>1, <2>4 DEF Begin, Typed, TypeOK, Requested
    <2> QED BY <2>4, <2>6, <2>7 DEF Typed
  <1>2. ASSUME NEW r \in Requests, LimitReached(r)
        PROVE  Typed'
    <2>1. request[r] \in Requested
      BY <1>2, RequestIs DEF LimitReached, Step
    <2>2. [request[r] EXCEPT !.step = "failed"] \in Requested /\ [request[r] EXCEPT !.step = "failed"].step = "failed"
      BY <2>1, FieldReplaced DEF RequestSteps
    <2> QED BY <1>2, <2>2, GoesTyped DEF LimitReached, Step, Typed, TypeOK
  <1>3. ASSUME NEW r \in Requests, Served(r)
        PROVE  Typed'
    <2>1. request[r] \in Requested
      BY <1>3, RequestIs DEF Served
    <2>2. PICK a \in Auths : Goes(r, [request[r] EXCEPT !.step = "asked", !.auth = a, !.tried = @ \union {a}])
      BY <1>3 DEF Served, Ready
    <2> DEFINE p == [request[r] EXCEPT !.step = "asked", !.auth = a, !.tried = request[r].tried \union {a}]
    <2>3. p \in Requested /\ p.auth = a
      BY <2>1 DEF Requested, RequestSteps
    <2>4. Goes(r, p)
      BY <2>2
    <2> HIDE DEF p
    <2> QED BY <1>3, <2>3, <2>4, GoesTyped DEF Served, Typed, TypeOK
  <1>4. ASSUME NEW r \in Requests, Refused(r)
        PROVE  Typed'
    <2>1. request[r] \in Requested
      BY <1>4, RequestIs DEF Refused, Step
    <2>2. [request[r] EXCEPT !.step = "sync"] \in Requested /\ [request[r] EXCEPT !.step = "sync"].step = "sync"
      BY <2>1, FieldReplaced DEF RequestSteps
    <2> QED BY <1>4, <2>2, GoesTyped DEF Refused, Step, Typed, TypeOK
  <1>5. ASSUME NEW r \in Requests, Snapshots(r)
        PROVE  Typed'
    <2>1. request[r] \in Requested
      BY <1>5, RequestIs DEF Snapshots
    <2>2. PICK snap \in [Auths -> Delays] : snap = [a \in Auths |-> Wait(state[a])]
      BY StateTypes DEF Typed, TypeOK
    <2>3. [request[r] EXCEPT !.step = "rebuild", !.snap = snap] \in Requested
          /\ [request[r] EXCEPT !.step = "rebuild", !.snap = snap].step = "rebuild"
      BY <2>1 DEF Requested, RequestSteps
    <2>4. Goes(r, [request[r] EXCEPT !.step = "rebuild", !.snap = snap])
      BY <1>5, <2>2 DEF Snapshots
    <2> QED BY <1>5, <2>3, <2>4, GoesTyped DEF Snapshots, Typed, TypeOK
  <1>6. ASSUME NEW r \in Requests, Rebuilds(r)
        PROVE  Typed'
    <2>1. request[r] \in Requested
      BY <1>6, RequestIs DEF Rebuilds, Step
    <2>2. [request[r] EXCEPT !.step = "repick"] \in Requested /\ [request[r] EXCEPT !.step = "repick"].step = "repick"
      BY <2>1, FieldReplaced DEF RequestSteps
    <2>3. view' \in [Auths -> [wait : Delays, shared : BOOLEAN]]
      BY <1>6, <2>1 DEF Rebuilds, RebuiltView, Requested
    <2> QED BY <1>6, <2>2, <2>3, GoesTyped DEF Rebuilds, Step, Typed, TypeOK
  <1>7. ASSUME NEW r \in Requests, RefusedAgain(r)
        PROVE  Typed'
    <2>1. request[r] \in Requested
      BY <1>7, RequestIs DEF RefusedAgain, Step
    <2>2. [request[r] EXCEPT !.step = "failed"] \in Requested /\ [request[r] EXCEPT !.step = "failed"].step = "failed"
      BY <2>1, FieldReplaced DEF RequestSteps
    <2> QED BY <1>7, <2>2, GoesTyped DEF RefusedAgain, Step, Typed, TypeOK
  <1>8. ASSUME NEW r \in Requests, NEW outcome \in Outcomes, NEW hint \in Hints, Answer(r, outcome, hint)
        PROVE  Typed'
    <2>1. request[r] \in Requested
      BY <1>8, RequestIs DEF Answer
    <2>2. PICK a \in Auths : a = request[r].auth
      BY <1>8 DEF Answer, Typed
    <2>3. PICK s \in ModelStates : s = After(a, state[a], outcome, hint)
      BY AfterType, ExecutionAssumption DEF Typed, TypeOK
    <2>4. PICK snap \in [Auths -> Delays] : snap = [request[r].snap EXCEPT ![a] = Wait(s)]
      BY <2>1, StateTypes DEF Requested
    <2> DEFINE p == [request[r] EXCEPT !.step = "post", !.error = outcome, !.hint = hint, !.snap = snap]
    <2>5. p \in Requested /\ p.auth = a
      <3>1. outcome \in Answers /\ "post" \in RequestSteps
        BY ExecutionAssumption DEF RequestSteps
      <3> QED BY <2>1, <2>2, <3>1 DEF Requested
    <2>6. Goes(r, p)
      BY <1>8, <2>2, <2>3, <2>4 DEF Answer
    <2>7. state' \in [Auths -> ModelStates]
      BY <1>8, <2>2, <2>3 DEF Answer, Typed, TypeOK
    <2> HIDE DEF p
    <2> QED BY <1>8, <2>5, <2>6, <2>7, GoesTyped DEF Answer, Typed, TypeOK
  <1>9. ASSUME NEW r \in Requests, Posts(r)
        PROVE  Typed'
    <2>1. request[r] \in Requested
      BY <1>9, RequestIs DEF Posts, Step
    <2>2. request[r].auth \in Auths /\ request[r].snap[request[r].auth] \in Delays
      BY <1>9, <2>1 DEF Posts, Step, Typed, Requested
    <2>3. [request[r] EXCEPT !.step = "report"] \in Requested
          /\ [request[r] EXCEPT !.step = "report"].auth = request[r].auth
      BY <2>1, FieldReplaced DEF RequestSteps
    <2>4. view' \in [Auths -> [wait : Delays, shared : BOOLEAN]]
      BY <1>9, <2>2, ViewTyped DEF Posts
    <2> QED BY <1>9, <2>2, <2>3, <2>4, GoesTyped DEF Posts, Step, Typed, TypeOK
  <1>10. ASSUME NEW r \in Requests, Reports(r)
        PROVE  Typed'
    <2>1. request[r] \in Requested
      BY <1>10, RequestIs DEF Reports
    <2>2. request[r].auth \in Auths
      BY <1>10 DEF Reports, Typed
    <2>3. PICK snap \in [Auths -> Delays] : snap = [a \in Auths |-> 0]
      BY DelaysRange
    <2> DEFINE p == [request[r] EXCEPT !.step = "pick", !.snap = snap]
    <2>4. p \in Requested /\ p.step = "pick"
      BY <2>1 DEF Requested, RequestSteps
    <2>5. Goes(r, p) \/ Goes(r, Idle)
      BY <1>10, <2>3 DEF Reports
    <2>6. suspended' \subseteq Auths
      BY <1>10, <2>2 DEF Reports, Typed, TypeOK
    <2>7. state' \in [Auths -> ModelStates] /\ view' \in [Auths -> [wait : Delays, shared : BOOLEAN]] /\ service' = service
      BY <1>10 DEF Reports, Typed, TypeOK
    <2>8. Idle.step = "idle"
      BY DEF Idle
    <2> HIDE DEF p
    <2> QED BY <2>4, <2>5, <2>6, <2>7, <2>8, GoesTyped
  <1>11. ASSUME NEW r \in Requests, Sleeps(r)
        PROVE  Typed'
    <2>1. request[r] \in Requested
      BY <1>11, RequestIs DEF Sleeps
    <2>2. PICK n \in RetryWaits(r) : Goes(r, [NewRound(request[r].attempt, request[r].lone)
                                              EXCEPT !.step = "waiting", !.wait = n])
      BY <1>11 DEF Sleeps
    <2>3. n \in 0..MaxWait
      BY ExecutionAssumption DEF RetryWaits
    <2>4. PICK new \in Requested : new = NewRound(request[r].attempt, request[r].lone)
      BY <2>1, NewRoundIs DEF Requested
    <2> DEFINE p == [new EXCEPT !.step = "waiting", !.wait = n]
    <2>5. p \in Requested /\ p.step = "waiting"
      BY <2>3 DEF Requested, RequestSteps
    <2>6. Goes(r, p)
      BY <2>2, <2>4
    <2> HIDE DEF p
    <2> QED BY <1>11, <2>5, <2>6, GoesTyped DEF Sleeps, Typed, TypeOK
  <1>12. ASSUME NEW r \in Requests, GivesUp(r)
        PROVE  Typed'
    <2>1. Idle \in {Idle} \union Requested /\ Idle.step = "idle"
      BY DEF Idle
    <2> QED BY <1>12, <2>1, GoesTyped DEF GivesUp, Typed, TypeOK
  <1>13. ASSUME NEW r \in Requests, Wakes(r)
        PROVE  Typed'
    <2>1. request[r] \in Requested
      BY <1>13, RequestIs DEF Wakes
    <2>2. request[r].attempt + 1 \in 0..Retries
      BY <1>13, <2>1, ExecutionAssumption DEF Wakes, Rounds, Requested
    <2>3. PICK new \in Requested : new = NewRound(request[r].attempt + 1, request[r].lone)
      BY <2>1, <2>2, NewRoundIs DEF Requested
    <2>4. new.step = "pick"
      BY <2>3 DEF NewRound
    <2> QED BY <1>13, <2>3, <2>4, GoesTyped DEF Wakes, Typed, TypeOK
  <1>14. ASSUME NEW r \in Requests, Cancelled(r)
        PROVE  Typed'
    <2>1. Idle \in {Idle} \union Requested /\ Idle.step = "idle"
      BY DEF Idle
    <2> QED BY <1>14, <2>1, GoesTyped DEF Cancelled, Typed, TypeOK
  <1>15. ASSUME NEW a \in Auths, ReadsAuth(a)
        PROVE  Typed'
    <2>1. request' \in [Requests -> {Idle} \union Requested]
      BY <1>15, DisturbedIs DEF ReadsAuth
    <2>2. \A q \in Requests : request'[q].step \in {"asked", "post", "report"} => request'[q].auth \in Auths
      BY <1>15, DisturbedIs DEF ReadsAuth, Typed, Idle
    <2>3. service' \in Jobs
      BY <1>15 DEF ReadsAuth, ServiceStep, Jobs, ServiceSteps, Typed, TypeOK
    <2>4. TypeOK'
      BY <1>15, <2>1, <2>3 DEF ReadsAuth, Typed, TypeOK, Requested, Jobs
    <2> QED BY <2>1, <2>2, <2>4 DEF Typed
  <1>16. ASSUME Updates
        PROVE  Typed'
    <2>1. service.step # "idle"
      BY <1>16 DEF Updates, ServiceGoes, ServiceStep
    <2>2. PICK a \in Auths : a = service.auth
      BY <2>1, JobIs
    <2>3. service' = Idle \/ service' \in Jobs
      BY <1>16, <2>1, JobIs DEF Updates, ServiceGoes, ServiceStep, ServiceSteps
    <2>4. state' \in [Auths -> ModelStates]
      BY <1>16, <2>2, <2>1, JobIs DEF Updates, Typed, TypeOK
    <2>5. view' \in [Auths -> [wait : Delays, shared : BOOLEAN]]
      BY <1>16, <2>2, ViewTyped, DelaysRange DEF Updates, Typed, TypeOK
    <2>6. suspended' \subseteq Auths /\ UNCHANGED request
      BY <1>16 DEF Updates, Typed, TypeOK
    <2> QED BY <2>3, <2>4, <2>5, <2>6, ServiceTyped
  <1>17. ASSUME Shares
        PROVE  Typed'
    <2>1. service.step # "idle"
      BY <1>17 DEF Shares, ServiceGoes, ServiceStep
    <2>2. PICK a \in Auths : a = service.auth
      BY <2>1, JobIs
    <2>3. service' = Idle \/ service' \in Jobs
      BY <1>17, <2>1, JobIs DEF Shares, ServiceGoes, ServiceStep, ServiceSteps
    <2>4. state' \in [Auths -> ModelStates]
      BY <1>17, <2>2 DEF Shares, Typed, TypeOK
    <2>5. view' \in [Auths -> [wait : Delays, shared : BOOLEAN]]
      BY <1>17, <2>2, ViewTyped, StateTypes DEF Shares, Typed, TypeOK
    <2>6. suspended' \subseteq Auths /\ UNCHANGED request
      BY <1>17 DEF Shares, Typed, TypeOK
    <2> QED BY <2>3, <2>4, <2>5, <2>6, ServiceTyped
  <1>18. ASSUME RegistersModels
        PROVE  Typed'
    <2>1. service.step # "idle"
      BY <1>18 DEF RegistersModels, ServiceGoes, ServiceStep
    <2>2. PICK a \in Auths : a = service.auth
      BY <2>1, JobIs
    <2>3. service' = Idle \/ service' \in Jobs
      BY <1>18, <2>1, JobIs DEF RegistersModels, ServiceGoes, ServiceStep, ServiceSteps
    <2>4. state' \in [Auths -> ModelStates]
      BY <1>18, <2>2 DEF RegistersModels, Typed, TypeOK
    <2>5. view' \in [Auths -> [wait : Delays, shared : BOOLEAN]]
      BY <1>18, <2>2 DEF RegistersModels, Typed, TypeOK
    <2>6. suspended' \subseteq Auths /\ UNCHANGED request
      BY <1>18 DEF RegistersModels, Typed, TypeOK
    <2> QED BY <2>3, <2>4, <2>5, <2>6, ServiceTyped
  <1>19. ASSUME Reconciles
        PROVE  Typed'
    <2>1. service.step # "idle"
      BY <1>19 DEF Reconciles, ServiceGoes, ServiceStep
    <2>2. PICK a \in Auths : a = service.auth
      BY <2>1, JobIs
    <2>3. service' = Idle \/ service' \in Jobs
      BY <1>19, <2>1, JobIs DEF Reconciles, ServiceGoes, ServiceStep, ServiceSteps
    <2>4. state' \in [Auths -> ModelStates]
      BY <1>19, <2>2, CleanTypes DEF Reconciles, Typed, TypeOK
    <2>5. view' \in [Auths -> [wait : Delays, shared : BOOLEAN]]
      BY <1>19, <2>2 DEF Reconciles, Typed, TypeOK
    <2>6. suspended' \subseteq Auths /\ UNCHANGED request
      BY <1>19 DEF Reconciles, Typed, TypeOK
    <2> QED BY <2>3, <2>4, <2>5, <2>6, ServiceTyped
  <1>20. ASSUME PostsClean
        PROVE  Typed'
    <2>1. service.step # "idle"
      BY <1>20 DEF PostsClean, ServiceGoes, ServiceStep
    <2>2. PICK a \in Auths : a = service.auth
      BY <2>1, JobIs
    <2>3. service' = Idle \/ service' \in Jobs
      BY <1>20, <2>1, JobIs DEF PostsClean, ServiceGoes, ServiceStep, ServiceSteps
    <2>4. state' \in [Auths -> ModelStates]
      BY <1>20, <2>2 DEF PostsClean, Typed, TypeOK
    <2>5. view' \in [Auths -> [wait : Delays, shared : BOOLEAN]]
      BY <1>20, <2>2, CleanTypes, SnapshotTyped DEF PostsClean, Typed, TypeOK
    <2>6. suspended' \subseteq Auths /\ UNCHANGED request
      BY <1>20 DEF PostsClean, Typed, TypeOK
    <2> QED BY <2>3, <2>4, <2>5, <2>6, ServiceTyped
  <1>21. ASSUME ReadsEntry
        PROVE  Typed'
    <2>1. service.step # "idle"
      BY <1>21 DEF ReadsEntry, ServiceStep
    <2>2. PICK a \in Auths : a = service.auth
      BY <2>1, JobIs
    <2>3. service' = Idle \/ service' \in Jobs
      BY <1>21, <2>1, JobIs DEF ReadsEntry, ServiceStep, ServiceSteps, Typed, TypeOK
    <2>4. state' \in [Auths -> ModelStates]
      BY <1>21, <2>2 DEF ReadsEntry, Typed, TypeOK
    <2>5. view' \in [Auths -> [wait : Delays, shared : BOOLEAN]]
      BY <1>21, <2>2 DEF ReadsEntry, Typed, TypeOK
    <2>6. suspended' \subseteq Auths /\ UNCHANGED request
      BY <1>21 DEF ReadsEntry, Typed, TypeOK
    <2> QED BY <2>3, <2>4, <2>5, <2>6, ServiceTyped
  <1>22. ASSUME PostsEntry
        PROVE  Typed'
    <2>1. service.step # "idle"
      BY <1>22 DEF PostsEntry, ServiceStep
    <2>2. PICK a \in Auths : a = service.auth
      BY <2>1, JobIs
    <2>3. service' = Idle \/ service' \in Jobs
      BY <1>22, <2>1, JobIs DEF PostsEntry, ServiceStep, ServiceSteps
    <2>4. state' \in [Auths -> ModelStates]
      BY <1>22, <2>2 DEF PostsEntry, Typed, TypeOK
    <2>5. view' \in [Auths -> [wait : Delays, shared : BOOLEAN]]
      BY <1>22, <2>2, <2>1, JobIs, SnapshotTyped DEF PostsEntry, Typed, TypeOK
    <2>6. suspended' \subseteq Auths /\ UNCHANGED request
      BY <1>22 DEF PostsEntry, Typed, TypeOK
    <2> QED BY <2>3, <2>4, <2>5, <2>6, ServiceTyped
  <1>23. ASSUME Tick
        PROVE  Typed'
    <2>1. state' \in [Auths -> ModelStates]
      BY <1>23, StateTypes DEF Tick, Typed, TypeOK
    <2>2. ASSUME NEW a \in Auths
          PROVE  view'[a] \in [wait : Delays, shared : BOOLEAN]
      <3>1. view[a] \in [wait : Delays, shared : BOOLEAN] /\ state'[a] \in ModelStates
        BY <2>1 DEF Typed, TypeOK
      <3>2. PICK d \in Delays : d = IF view[a].wait = 1 /\ view[a].shared THEN Wait(state'[a]) ELSE Down(view[a].wait)
        BY <3>1, StateTypes, DelaysRange
      <3>3. view'[a] = [view[a] EXCEPT !.wait = d]
        BY <1>23, <3>2 DEF Tick
      <3> QED BY <3>1, <3>3
    <2>3. view' \in [Auths -> [wait : Delays, shared : BOOLEAN]]
      BY <1>23, <2>2 DEF Tick
    <2>4. ASSUME NEW q \in Requests
          PROVE  /\ request'[q] \in {Idle} \union Requested
                 /\ request'[q].step \in {"asked", "post", "report"} => request'[q].auth \in Auths
      <3>1. CASE request[q] = Idle
        BY <1>23, <3>1 DEF Tick, Idle
      <3>2. CASE request[q] # Idle
        <4>1. PICK p \in Requested : p = request[q]
          BY <3>2, RequestIs
        <4>2. PICK snap \in [Auths -> Delays] : snap = [a \in Auths |-> Down(p.snap[a])]
          BY DelaysRange DEF Requested
        <4>3. PICK n \in 0..MaxWait : n = Down(p.wait)
          BY ExecutionAssumption DEF Requested, Down
        <4>4. request'[q] = [p EXCEPT !.snap = snap, !.wait = n]
          BY <1>23, <3>2, <4>1, <4>2, <4>3 DEF Tick
        <4>5. [p EXCEPT !.snap = snap, !.wait = n] \in Requested
          BY DEF Requested
        <4>6. request'[q].step = p.step /\ request'[q].auth = p.auth
          BY <4>4 DEF Requested
        <4> QED BY <4>1, <4>4, <4>5, <4>6 DEF Typed
      <3> QED BY <3>1, <3>2
    <2>5. request' \in [Requests -> {Idle} \union Requested]
      BY <1>23, <2>4 DEF Tick
    <2>6. service' = Idle \/ service' \in Jobs
      <3>1. CASE service = Idle
        BY <1>23, <3>1 DEF Tick
      <3>2. CASE service # Idle
        <4>1. service \in Jobs /\ service.copy \in ModelStates
          BY <3>2 DEF Typed, TypeOK, Jobs
        <4>2. PICK s \in ModelStates : s = Aged(service.copy)
          BY <4>1, StateTypes
        <4>3. service' = [service EXCEPT !.copy = s]
          BY <1>23, <3>2, <4>2 DEF Tick
        <4> QED BY <4>1, <4>3 DEF Jobs
      <3> QED BY <3>1, <3>2
    <2>7. TypeOK'
      BY <1>23, <2>1, <2>3, <2>5, <2>6 DEF Tick, Typed, TypeOK, Requested, Jobs
    <2> QED BY <2>4, <2>5, <2>7 DEF Typed
  <1> QED BY <1>1, <1>2, <1>3, <1>4, <1>5, <1>6, <1>7, <1>8, <1>9, <1>10, <1>11, <1>12, <1>13, <1>14, <1>15, <1>16, <1>17, <1>18, <1>19, <1>20, <1>21, <1>22, <1>23
         DEF Next, RequestNext, ServiceNext

-----------------------------------------------------------------------------
(* The limits of a round and of the rounds.                                *)

\* Whoever has been called is counted once.
LEMMA TriedCounts ==
    ASSUME NEW tried \in SUBSET Auths
    PROVE  /\ Cardinality(tried) \in Nat
           /\ \A a \in Auths \ tried : Cardinality(tried \union {a}) = Cardinality(tried) + 1
           /\ Cardinality({}) = 0
  <1>1. IsFiniteSet(tried)
    BY ExecutionAssumption, FS_Subset
  <1> QED BY <1>1, FS_CardinalityType, FS_AddElement, FS_EmptySet

\* No step leads a request past its limits.
LEMMA RoundsStep ==
    ASSUME Typed, Rounds, Next
    PROVE  Rounds'
  <1>1. ASSUME NEW r \in Requests, Begin(r)
        PROVE  Rounds'
    <2>1. \A q \in Requests : request'[q] = IF q = r THEN NewRound(0, Others(r) = {} /\ service = Idle) ELSE Disturbed(r)[q]
      BY <1>1, DisturbedIs DEF Begin
    <2>2. request'[r].tried = {} /\ request'[r].step = "pick" /\ Cardinality({}) = 0
      <3>1. request'[r] = NewRound(0, Others(r) = {} /\ service = Idle)
        BY <2>1
      <3> QED BY <3>1, TriedCounts DEF NewRound
    <2>7. /\ MaxCredentials > 0 /\ request'[r] # Idle => Cardinality(request'[r].tried) <= MaxCredentials
          /\ MaxCredentials > 0 /\ request'[r].step \in {"sync", "rebuild", "repick"}
                => Cardinality(request'[r].tried) < MaxCredentials
          /\ request'[r].step = "waiting" => request'[r].attempt < Retries
      BY <2>2, ExecutionAssumption
    <2>8. ASSUME NEW q \in Requests \ {r}
          PROVE  /\ request'[q].step = request[q].step
                 /\ request'[q] # Idle => /\ request[q] # Idle /\ request'[q].tried = request[q].tried
                                          /\ request'[q].attempt = request[q].attempt
      BY <2>1, DisturbedIs
    <2>9. ASSUME NEW q \in Requests, request'[q].step \in {"waiting", "sync", "rebuild", "repick"}
          PROVE  request'[q] # Idle
      BY <2>9 DEF Idle
    <2> QED BY <2>7, <2>8, <2>9 DEF Rounds
  <1>2. ASSUME NEW r \in Requests, LimitReached(r)
        PROVE  Rounds'
    BY <1>2 DEF Typed, TypeOK, Requested, Rounds, Idle, LimitReached, Step, Goes
  <1>3. ASSUME NEW r \in Requests, Served(r)
        PROVE  Rounds'
    <2>1. request[r] \in Requested /\ request[r] # Idle
      BY <1>3, RequestIs DEF Served
    <2>2. PICK a \in Auths \ request[r].tried :
             Goes(r, [request[r] EXCEPT !.step = "asked", !.auth = a, !.tried = @ \union {a}])
      BY <1>3 DEF Served, Ready
    <2>3. request'[r].step = "asked" /\ request'[r].tried = request[r].tried \union {a}
      BY <2>1, <2>2 DEF Goes, Typed, Requested
    <2>4. PICK tried \in SUBSET Auths : tried = request[r].tried
      BY <2>1 DEF Requested
    <2>5. Cardinality(request'[r].tried) = Cardinality(tried) + 1 /\ Cardinality(tried) \in Nat
      BY <2>2, <2>3, <2>4, TriedCounts
    <2>6. MaxCredentials > 0 => Cardinality(tried) < MaxCredentials
      BY <1>3, <2>1, <2>4, <2>5, ExecutionAssumption DEF Served, AtLimit, Rounds
    <2>7. /\ MaxCredentials > 0 /\ request'[r] # Idle => Cardinality(request'[r].tried) <= MaxCredentials
          /\ MaxCredentials > 0 /\ request'[r].step \in {"sync", "rebuild", "repick"}
                => Cardinality(request'[r].tried) < MaxCredentials
          /\ request'[r].step = "waiting" => request'[r].attempt < Retries
      BY <2>3, <2>5, <2>6, ExecutionAssumption
    <2>8. ASSUME NEW q \in Requests \ {r}
          PROVE  request'[q] = request[q]
      BY <1>3 DEF Served, Step, Goes, Typed
    <2> QED BY <2>7, <2>8 DEF Rounds
  <1>4. ASSUME NEW r \in Requests, Refused(r)
        PROVE  Rounds'
    <2>1. request[r] \in Requested /\ request[r] # Idle
      BY <1>4, RequestIs DEF Refused, Step
    <2>2. request'[r].step = "sync" /\ request'[r].tried = request[r].tried
      BY <1>4, <2>1 DEF Refused, Step, Goes, Typed, Requested
    <2>3. PICK tried \in SUBSET Auths : tried = request[r].tried
      BY <2>1 DEF Requested
    <2>4. Cardinality(tried) \in Nat
      BY TriedCounts
    <2>7. /\ MaxCredentials > 0 /\ request'[r] # Idle => Cardinality(request'[r].tried) <= MaxCredentials
          /\ MaxCredentials > 0 /\ request'[r].step \in {"sync", "rebuild", "repick"}
                => Cardinality(request'[r].tried) < MaxCredentials
          /\ request'[r].step = "waiting" => request'[r].attempt < Retries
      BY <1>4, <2>2, <2>3, <2>4, ExecutionAssumption DEF Refused, AtLimit
    <2>8. ASSUME NEW q \in Requests \ {r}
          PROVE  request'[q] = request[q]
      BY <1>4 DEF Refused, Step, Goes, Typed
    <2> QED BY <2>7, <2>8 DEF Rounds
  <1>5. ASSUME NEW r \in Requests, Snapshots(r)
        PROVE  Rounds'
    BY <1>5 DEF Typed, TypeOK, Requested, Rounds, Idle, Snapshots, Goes
  <1>6. ASSUME NEW r \in Requests, Rebuilds(r)
        PROVE  Rounds'
    BY <1>6 DEF Typed, TypeOK, Requested, Rounds, Idle, Rebuilds, Step, Goes, RebuiltView
  <1>7. ASSUME NEW r \in Requests, RefusedAgain(r)
        PROVE  Rounds'
    BY <1>7 DEF Typed, TypeOK, Requested, Rounds, Idle, RefusedAgain, Step, Goes
  <1>8. ASSUME NEW r \in Requests, NEW outcome \in Outcomes, NEW hint \in Hints, Answer(r, outcome, hint)
        PROVE  Rounds'
    BY <1>8 DEF Typed, TypeOK, Requested, Rounds, Idle, Answer, Goes
  <1>9. ASSUME NEW r \in Requests, Posts(r)
        PROVE  Rounds'
    BY <1>9 DEF Typed, TypeOK, Requested, Rounds, Idle, Posts, Step, Goes
  <1>10. ASSUME NEW r \in Requests, Reports(r)
        PROVE  Rounds'
    BY <1>10 DEF Typed, TypeOK, Requested, Rounds, Idle, Reports, Goes
  <1>11. ASSUME NEW r \in Requests, Sleeps(r)
        PROVE  Rounds'
    <2>1. request[r] \in Requested /\ request[r] # Idle
      BY <1>11, RequestIs DEF Sleeps
    <2>2. RetryWaits(r) # {}
      BY <1>11 DEF Sleeps
    <2>3. MayRetry(r)
      BY <2>2 DEF RetryWaits, Waits
    <2>4. request'[r].step = "waiting" /\ request'[r].tried = {} /\ request'[r].attempt = request[r].attempt
      BY <1>11 DEF Sleeps, Goes, NewRound, Typed
    <2>5. Cardinality({}) = 0
      BY TriedCounts
    <2>7. /\ MaxCredentials > 0 /\ request'[r] # Idle => Cardinality(request'[r].tried) <= MaxCredentials
          /\ MaxCredentials > 0 /\ request'[r].step \in {"sync", "rebuild", "repick"}
                => Cardinality(request'[r].tried) < MaxCredentials
          /\ request'[r].step = "waiting" => request'[r].attempt < Retries
      BY <2>3, <2>4, <2>5, ExecutionAssumption DEF MayRetry
    <2>8. ASSUME NEW q \in Requests \ {r}
          PROVE  request'[q] = request[q]
      BY <1>11 DEF Sleeps, Step, Goes, Typed
    <2> QED BY <2>7, <2>8 DEF Rounds
  <1>12. ASSUME NEW r \in Requests, GivesUp(r)
        PROVE  Rounds'
    BY <1>12 DEF Typed, TypeOK, Requested, Rounds, Idle, GivesUp, Goes
  <1>13. ASSUME NEW r \in Requests, Wakes(r)
        PROVE  Rounds'
    <2>1. request'[r].step = "pick" /\ request'[r].tried = {} /\ Cardinality({}) = 0
      BY <1>13, TriedCounts DEF Wakes, Goes, NewRound, Typed
    <2>7. /\ MaxCredentials > 0 /\ request'[r] # Idle => Cardinality(request'[r].tried) <= MaxCredentials
          /\ MaxCredentials > 0 /\ request'[r].step \in {"sync", "rebuild", "repick"}
                => Cardinality(request'[r].tried) < MaxCredentials
          /\ request'[r].step = "waiting" => request'[r].attempt < Retries
      BY <2>1, ExecutionAssumption
    <2>8. ASSUME NEW q \in Requests \ {r}
          PROVE  request'[q] = request[q]
      BY <1>13 DEF Wakes, Step, Goes, Typed
    <2> QED BY <2>7, <2>8 DEF Rounds
  <1>14. ASSUME NEW r \in Requests, Cancelled(r)
        PROVE  Rounds'
    BY <1>14 DEF Typed, TypeOK, Requested, Rounds, Idle, Cancelled, Goes
  <1>15. ASSUME NEW a \in Auths, ReadsAuth(a)
        PROVE  Rounds'
    <2>1. \A q \in Requests : request'[q] = Disturbed(Nobody)[q]
      BY <1>15 DEF ReadsAuth
    <2>8. ASSUME NEW q \in Requests
          PROVE  /\ request'[q].step = request[q].step
                 /\ request'[q] # Idle => /\ request[q] # Idle /\ request'[q].tried = request[q].tried
                                          /\ request'[q].attempt = request[q].attempt
      BY <2>1, DisturbedIs
    <2>9. ASSUME NEW q \in Requests, request'[q].step \in {"waiting", "sync", "rebuild", "repick"}
          PROVE  request'[q] # Idle
      BY <2>9 DEF Idle
    <2> QED BY <2>8, <2>9 DEF Rounds
  <1>16. ASSUME Updates
        PROVE  Rounds'
    BY <1>16 DEF Typed, TypeOK, Requested, Rounds, Idle, Updates, ServiceGoes, ServiceStep
  <1>17. ASSUME Shares
        PROVE  Rounds'
    BY <1>17 DEF Typed, TypeOK, Requested, Rounds, Idle, Shares, ServiceGoes, ServiceStep
  <1>18. ASSUME RegistersModels
        PROVE  Rounds'
    BY <1>18 DEF Typed, TypeOK, Requested, Rounds, Idle, RegistersModels, ServiceGoes, ServiceStep
  <1>19. ASSUME Reconciles
        PROVE  Rounds'
    BY <1>19 DEF Typed, TypeOK, Requested, Rounds, Idle, Reconciles, ServiceGoes, ServiceStep
  <1>20. ASSUME PostsClean
        PROVE  Rounds'
    BY <1>20 DEF Typed, TypeOK, Requested, Rounds, Idle, PostsClean, ServiceGoes, ServiceStep
  <1>21. ASSUME ReadsEntry
        PROVE  Rounds'
    BY <1>21 DEF Typed, TypeOK, Requested, Rounds, Idle, ReadsEntry, ServiceStep
  <1>22. ASSUME PostsEntry
        PROVE  Rounds'
    BY <1>22 DEF Typed, TypeOK, Requested, Rounds, Idle, PostsEntry, ServiceStep
  <1>23. ASSUME Tick
        PROVE  Rounds'
    BY <1>23 DEF Typed, TypeOK, Requested, Rounds, Idle, Tick
  <1> QED BY <1>1, <1>2, <1>3, <1>4, <1>5, <1>6, <1>7, <1>8, <1>9, <1>10, <1>11, <1>12, <1>13, <1>14, <1>15, <1>16, <1>17, <1>18, <1>19, <1>20, <1>21, <1>22, <1>23
         DEF Next, RequestNext, ServiceNext

-----------------------------------------------------------------------------
(* A request that has the program for itself.                              *)

\* Who begins, or registers a credential, is in the way of the others.
LEMMA AloneStep ==
    ASSUME Typed, Alone, Next
    PROVE  Alone'
  <1>1. ASSUME NEW r \in Requests, Begin(r)
        PROVE  Alone'
    BY <1>1 DEF Typed, TypeOK, Requested, Alone, Idle, Others, Begin, Disturbed, NewRound
  <1>2. ASSUME NEW r \in Requests, LimitReached(r)
        PROVE  Alone'
    BY <1>2 DEF Typed, TypeOK, Requested, Alone, Idle, Others, LimitReached, Step, Goes
  <1>3. ASSUME NEW r \in Requests, Served(r)
        PROVE  Alone'
    BY <1>3 DEF Typed, TypeOK, Requested, Alone, Idle, Others, Served, Goes
  <1>4. ASSUME NEW r \in Requests, Refused(r)
        PROVE  Alone'
    BY <1>4 DEF Typed, TypeOK, Requested, Alone, Idle, Others, Refused, Step, Goes
  <1>5. ASSUME NEW r \in Requests, Snapshots(r)
        PROVE  Alone'
    <2>1. request[r] # Idle
      BY <1>5 DEF Snapshots, Idle
    <2>2. \A q \in Requests \ {r} : request'[q] = request[q]
      BY <1>5 DEF Snapshots, Goes, Typed
    <2>3. request[r] \in Requested
      BY <2>1 DEF Typed
    <2>4. request'[r].lone = request[r].lone
      BY <1>5, <2>3 DEF Snapshots, Goes, Typed, Requested
    <2>5. service' = service
      BY <1>5 DEF Snapshots
    <2> QED BY <2>1, <2>2, <2>4, <2>5 DEF Alone
  <1>6. ASSUME NEW r \in Requests, Rebuilds(r)
        PROVE  Alone'
    BY <1>6 DEF Typed, TypeOK, Requested, Alone, Idle, Others, Rebuilds, Step, Goes, RebuiltView
  <1>7. ASSUME NEW r \in Requests, RefusedAgain(r)
        PROVE  Alone'
    BY <1>7 DEF Typed, TypeOK, Requested, Alone, Idle, Others, RefusedAgain, Step, Goes
  <1>8. ASSUME NEW r \in Requests, NEW outcome \in Outcomes, NEW hint \in Hints, Answer(r, outcome, hint)
        PROVE  Alone'
    BY <1>8 DEF Typed, TypeOK, Requested, Alone, Idle, Others, Answer, Goes
  <1>9. ASSUME NEW r \in Requests, Posts(r)
        PROVE  Alone'
    BY <1>9 DEF Typed, TypeOK, Requested, Alone, Idle, Others, Posts, Step, Goes
  <1>10. ASSUME NEW r \in Requests, Reports(r)
        PROVE  Alone'
    BY <1>10 DEF Typed, TypeOK, Requested, Alone, Idle, Others, Reports, Goes
  <1>11. ASSUME NEW r \in Requests, Sleeps(r)
        PROVE  Alone'
    BY <1>11 DEF Typed, TypeOK, Requested, Alone, Idle, Others, Sleeps, Goes, NewRound
  <1>12. ASSUME NEW r \in Requests, GivesUp(r)
        PROVE  Alone'
    BY <1>12 DEF Typed, TypeOK, Requested, Alone, Idle, Others, GivesUp, Goes
  <1>13. ASSUME NEW r \in Requests, Wakes(r)
        PROVE  Alone'
    BY <1>13 DEF Typed, TypeOK, Requested, Alone, Idle, Others, Wakes, Goes, NewRound
  <1>14. ASSUME NEW r \in Requests, Cancelled(r)
        PROVE  Alone'
    BY <1>14 DEF Typed, TypeOK, Requested, Alone, Idle, Others, Cancelled, Goes
  <1>15. ASSUME NEW a \in Auths, ReadsAuth(a)
        PROVE  Alone'
    <2>1. \A q \in Requests : request'[q] = Disturbed(Nobody)[q] /\ q # Nobody
      BY <1>15, ExecutionAssumption DEF ReadsAuth
    <2>2. \A q \in Requests : request'[q] # Idle => ~request'[q].lone
      BY <2>1, DisturbedIs
    <2> QED BY <2>2 DEF Alone
  <1>16. ASSUME Updates
        PROVE  Alone'
    BY <1>16 DEF Typed, TypeOK, Requested, Alone, Idle, Others, Updates, ServiceGoes, ServiceStep
  <1>17. ASSUME Shares
        PROVE  Alone'
    BY <1>17 DEF Typed, TypeOK, Requested, Alone, Idle, Others, Shares, ServiceGoes, ServiceStep
  <1>18. ASSUME RegistersModels
        PROVE  Alone'
    BY <1>18 DEF Typed, TypeOK, Requested, Alone, Idle, Others, RegistersModels, ServiceGoes, ServiceStep
  <1>19. ASSUME Reconciles
        PROVE  Alone'
    BY <1>19 DEF Typed, TypeOK, Requested, Alone, Idle, Others, Reconciles, ServiceGoes, ServiceStep
  <1>20. ASSUME PostsClean
        PROVE  Alone'
    BY <1>20 DEF Typed, TypeOK, Requested, Alone, Idle, Others, PostsClean, ServiceGoes, ServiceStep
  <1>21. ASSUME ReadsEntry
        PROVE  Alone'
    BY <1>21 DEF Typed, TypeOK, Requested, Alone, Idle, Others, ReadsEntry, ServiceStep
  <1>22. ASSUME PostsEntry
        PROVE  Alone'
    BY <1>22 DEF Typed, TypeOK, Requested, Alone, Idle, Others, PostsEntry, ServiceStep
  <1>23. ASSUME Tick
        PROVE  Alone'
    BY <1>23 DEF Typed, TypeOK, Requested, Alone, Idle, Others, Tick
  <1> QED BY <1>1, <1>2, <1>3, <1>4, <1>5, <1>6, <1>7, <1>8, <1>9, <1>10, <1>11, <1>12, <1>13, <1>14, <1>15, <1>16, <1>17, <1>18, <1>19, <1>20, <1>21, <1>22, <1>23
         DEF Next, RequestNext, ServiceNext

\* What a request on its own has read is no later than what it is of, as time passes.
LEMMA SeenStep ==
    ASSUME Typed, Alone, Seen, Next
    PROVE  Seen'
  <1>1. ASSUME NEW r \in Requests, Begin(r)
        PROVE  Seen'
    BY <1>1 DEF Typed, TypeOK, Requested, Alone, Seen, Idle, Begin, Disturbed, NewRound
  <1>2. ASSUME NEW r \in Requests, LimitReached(r)
        PROVE  Seen'
    BY <1>2 DEF Typed, TypeOK, Requested, Alone, Seen, Idle, LimitReached, Step, Goes
  <1>3. ASSUME NEW r \in Requests, Served(r)
        PROVE  Seen'
    BY <1>3 DEF Typed, TypeOK, Requested, Alone, Seen, Idle, Served, Goes
  <1>4. ASSUME NEW r \in Requests, Refused(r)
        PROVE  Seen'
    BY <1>4 DEF Typed, TypeOK, Requested, Alone, Seen, Idle, Refused, Step, Goes
  <1>5. ASSUME NEW r \in Requests, Snapshots(r)
        PROVE  Seen'
    <2>1. request[r] \in Requested /\ request[r] # Idle
      BY <1>5, RequestIs DEF Snapshots
    <2>2. \A q \in Requests \ {r} : request'[q] = request[q]
      BY <1>5 DEF Snapshots, Goes, Typed
    <2>3. request'[r].step = "rebuild" /\ request'[r].snap = [a \in Auths |-> Wait(state[a])]
          /\ request'[r].lone = request[r].lone
      BY <1>5, <2>1 DEF Snapshots, Goes, Typed, Requested
    <2>4. \A a \in Auths : request'[r].snap[a] <= Due(state[a])
      BY <2>3, StateTypes DEF Typed, TypeOK
    <2>5. state' = state /\ view' = view
      BY <1>5 DEF Snapshots
    <2> QED BY <2>1, <2>2, <2>3, <2>4, <2>5 DEF Seen
  <1>6. ASSUME NEW r \in Requests, Rebuilds(r)
        PROVE  Seen'
    BY <1>6 DEF Typed, TypeOK, Requested, Alone, Seen, Idle, Rebuilds, Step, Goes, RebuiltView
  <1>7. ASSUME NEW r \in Requests, RefusedAgain(r)
        PROVE  Seen'
    BY <1>7 DEF Typed, TypeOK, Requested, Alone, Seen, Idle, RefusedAgain, Step, Goes
  <1>8. ASSUME NEW r \in Requests, NEW outcome \in Outcomes, NEW hint \in Hints, Answer(r, outcome, hint)
        PROVE  Seen'
    BY <1>8 DEF Typed, TypeOK, Requested, Alone, Seen, Idle, Answer, Goes
  <1>9. ASSUME NEW r \in Requests, Posts(r)
        PROVE  Seen'
    BY <1>9 DEF Typed, TypeOK, Requested, Alone, Seen, Idle, Posts, Step, Goes
  <1>10. ASSUME NEW r \in Requests, Reports(r)
        PROVE  Seen'
    BY <1>10 DEF Typed, TypeOK, Requested, Alone, Seen, Idle, Reports, Goes
  <1>11. ASSUME NEW r \in Requests, Sleeps(r)
        PROVE  Seen'
    BY <1>11 DEF Typed, TypeOK, Requested, Alone, Seen, Idle, Sleeps, Goes, NewRound
  <1>12. ASSUME NEW r \in Requests, GivesUp(r)
        PROVE  Seen'
    BY <1>12 DEF Typed, TypeOK, Requested, Alone, Seen, Idle, GivesUp, Goes
  <1>13. ASSUME NEW r \in Requests, Wakes(r)
        PROVE  Seen'
    BY <1>13 DEF Typed, TypeOK, Requested, Alone, Seen, Idle, Wakes, Goes, NewRound
  <1>14. ASSUME NEW r \in Requests, Cancelled(r)
        PROVE  Seen'
    BY <1>14 DEF Typed, TypeOK, Requested, Alone, Seen, Idle, Cancelled, Goes
  <1>15. ASSUME NEW a \in Auths, ReadsAuth(a)
        PROVE  Seen'
    BY <1>15 DEF Typed, TypeOK, Requested, Alone, Seen, Idle, ReadsAuth, ServiceStep, Disturbed
  <1>16. ASSUME Updates
        PROVE  Seen'
    BY <1>16 DEF Typed, TypeOK, Requested, Alone, Seen, Idle, Updates, ServiceGoes, ServiceStep
  <1>17. ASSUME Shares
        PROVE  Seen'
    BY <1>17 DEF Typed, TypeOK, Requested, Alone, Seen, Idle, Shares, ServiceGoes, ServiceStep
  <1>18. ASSUME RegistersModels
        PROVE  Seen'
    BY <1>18 DEF Typed, TypeOK, Requested, Alone, Seen, Idle, RegistersModels, ServiceGoes, ServiceStep
  <1>19. ASSUME Reconciles
        PROVE  Seen'
    BY <1>19 DEF Typed, TypeOK, Requested, Alone, Seen, Idle, Reconciles, ServiceGoes, ServiceStep
  <1>20. ASSUME PostsClean
        PROVE  Seen'
    BY <1>20 DEF Typed, TypeOK, Requested, Alone, Seen, Idle, PostsClean, ServiceGoes, ServiceStep
  <1>21. ASSUME ReadsEntry
        PROVE  Seen'
    BY <1>21 DEF Typed, TypeOK, Requested, Alone, Seen, Idle, ReadsEntry, ServiceStep
  <1>22. ASSUME PostsEntry
        PROVE  Seen'
    BY <1>22 DEF Typed, TypeOK, Requested, Alone, Seen, Idle, PostsEntry, ServiceStep
  <1>23. ASSUME Tick
        PROVE  Seen'
    <2>1. ASSUME NEW a \in Auths
          PROVE  /\ state[a] \in ModelStates /\ state'[a] = Aged(state[a]) /\ state'[a] \in ModelStates
                 /\ Due(state'[a]) = Down(Due(state[a])) /\ Due(state[a]) \in Nat
      BY <1>23, StateTypes, DelaysRange DEF Tick, Typed, TypeOK
    <2>2. ASSUME NEW d \in Nat, NEW e \in Nat, d <= e
          PROVE  Down(d) <= Down(e)
      BY <2>2 DEF Down
    <2>3. ASSUME NEW a \in Auths, view[a].wait <= Due(state[a])
          PROVE  view'[a].wait <= Due(state'[a])
      <3>1. view[a] \in [wait : Delays, shared : BOOLEAN] /\ view[a].wait \in Nat
        BY DelaysRange DEF Typed, TypeOK
      <3>2. Wait(state'[a]) <= Due(state'[a]) /\ Down(view[a].wait) <= Due(state'[a])
        BY <2>1, <2>2, <2>3, <3>1, StateTypes
      <3>3. view'[a].wait \in {Wait(state'[a]), Down(view[a].wait)}
        BY <1>23, <3>1 DEF Tick
      <3> QED BY <3>2, <3>3
    <2>4. ASSUME NEW q \in Requests, request'[q] # Idle, request'[q].lone
          PROVE  /\ request[q] # Idle /\ request[q].lone
                 /\ request'[q].step = request[q].step
                 /\ \A a \in Auths : request[q].snap[a] \in Nat /\ request'[q].snap[a] = Down(request[q].snap[a])
      <3>1. request[q] # Idle
        BY <1>23, <2>4 DEF Tick
      <3>2. PICK p \in Requested : p = request[q]
        BY <3>1, RequestIs
      <3>3. request'[q] = [p EXCEPT !.snap = [a \in Auths |-> Down(@[a])], !.wait = Down(@)]
        BY <1>23, <3>1, <3>2 DEF Tick
      <3>4. /\ request'[q].lone = p.lone /\ request'[q].step = p.step
            /\ request'[q].snap = [a \in Auths |-> Down(p.snap[a])]
        BY <3>3 DEF Requested
      <3>5. \A a \in Auths : p.snap[a] \in Nat
        BY DelaysRange DEF Requested
      <3> QED BY <2>4, <3>1, <3>2, <3>4, <3>5
    <2>5. ASSUME NEW q \in Requests, request'[q] # Idle, request'[q].lone, request'[q].step = "rebuild", NEW a \in Auths
          PROVE  request'[q].snap[a] <= Due(state'[a])
      <3>1. request[q].snap[a] <= Due(state[a])
        BY <2>4, <2>5 DEF Seen
      <3> QED BY <2>1, <2>2, <2>4, <2>5, <3>1
    <2>6. ASSUME NEW q \in Requests, request'[q] # Idle, request'[q].lone, request'[q].step = "repick", NEW a \in Auths
          PROVE  view'[a].wait <= Due(state'[a])
      BY <2>3, <2>4, <2>6 DEF Seen
    <2> QED BY <2>5, <2>6 DEF Seen
  <1> QED BY <1>1, <1>2, <1>3, <1>4, <1>5, <1>6, <1>7, <1>8, <1>9, <1>10, <1>11, <1>12, <1>13, <1>14, <1>15, <1>16, <1>17, <1>18, <1>19, <1>20, <1>21, <1>22, <1>23
         DEF Next, RequestNext, ServiceNext

\* A second pick fails by one step alone.
LEMMA OnlyRefusedAgain ==
    ASSUME Typed, NEW c \in Requests, request[c].step = "repick", request'[c].step = "failed", Next
    PROVE  RefusedAgain(c)
  <1>1. ASSUME NEW r \in Requests, Begin(r)
        PROVE  RefusedAgain(c)
    <2>1. request'[c].step = IF c = r THEN "pick" ELSE request[c].step
      BY <1>1, DisturbedIs DEF Begin, NewRound
    <2> QED BY <2>1
  <1>2. ASSUME NEW r \in Requests, LimitReached(r)
        PROVE  RefusedAgain(c)
    BY <1>2 DEF Typed, Requested, Idle, LimitReached, Step, Goes
  <1>3. ASSUME NEW r \in Requests, Served(r)
        PROVE  RefusedAgain(c)
    BY <1>3 DEF Typed, Requested, Idle, Served, Goes
  <1>4. ASSUME NEW r \in Requests, Refused(r)
        PROVE  RefusedAgain(c)
    BY <1>4 DEF Typed, Requested, Idle, Refused, Step, Goes
  <1>5. ASSUME NEW r \in Requests, Snapshots(r)
        PROVE  RefusedAgain(c)
    BY <1>5 DEF Typed, Requested, Idle, Snapshots, Goes
  <1>6. ASSUME NEW r \in Requests, Rebuilds(r)
        PROVE  RefusedAgain(c)
    BY <1>6 DEF Typed, Requested, Idle, Rebuilds, Step, Goes, RebuiltView
  <1>7. ASSUME NEW r \in Requests, RefusedAgain(r)
        PROVE  RefusedAgain(c)
    BY <1>7 DEF Typed, Requested, Idle, RefusedAgain, Step, Goes
  <1>8. ASSUME NEW r \in Requests, NEW outcome \in Outcomes, NEW hint \in Hints, Answer(r, outcome, hint)
        PROVE  RefusedAgain(c)
    BY <1>8 DEF Typed, Requested, Idle, Answer, Goes
  <1>9. ASSUME NEW r \in Requests, Posts(r)
        PROVE  RefusedAgain(c)
    BY <1>9 DEF Typed, Requested, Idle, Posts, Step, Goes
  <1>10. ASSUME NEW r \in Requests, Reports(r)
        PROVE  RefusedAgain(c)
    BY <1>10 DEF Typed, Requested, Idle, Reports, Goes
  <1>11. ASSUME NEW r \in Requests, Sleeps(r)
        PROVE  RefusedAgain(c)
    BY <1>11 DEF Typed, Requested, Idle, Sleeps, Goes, NewRound
  <1>12. ASSUME NEW r \in Requests, GivesUp(r)
        PROVE  RefusedAgain(c)
    BY <1>12 DEF Typed, Requested, Idle, GivesUp, Goes
  <1>13. ASSUME NEW r \in Requests, Wakes(r)
        PROVE  RefusedAgain(c)
    BY <1>13 DEF Typed, Requested, Idle, Wakes, Goes, NewRound
  <1>14. ASSUME NEW r \in Requests, Cancelled(r)
        PROVE  RefusedAgain(c)
    BY <1>14 DEF Typed, Requested, Idle, Cancelled, Goes
  <1>15. ASSUME NEW a \in Auths, ReadsAuth(a)
        PROVE  RefusedAgain(c)
    BY <1>15, DisturbedIs DEF ReadsAuth
  <1>16. ASSUME Updates
        PROVE  RefusedAgain(c)
    BY <1>16 DEF Typed, Requested, Idle, Updates, ServiceGoes, ServiceStep
  <1>17. ASSUME Shares
        PROVE  RefusedAgain(c)
    BY <1>17 DEF Typed, Requested, Idle, Shares, ServiceGoes, ServiceStep
  <1>18. ASSUME RegistersModels
        PROVE  RefusedAgain(c)
    BY <1>18 DEF Typed, Requested, Idle, RegistersModels, ServiceGoes, ServiceStep
  <1>19. ASSUME Reconciles
        PROVE  RefusedAgain(c)
    BY <1>19 DEF Typed, Requested, Idle, Reconciles, ServiceGoes, ServiceStep
  <1>20. ASSUME PostsClean
        PROVE  RefusedAgain(c)
    BY <1>20 DEF Typed, Requested, Idle, PostsClean, ServiceGoes, ServiceStep
  <1>21. ASSUME ReadsEntry
        PROVE  RefusedAgain(c)
    BY <1>21 DEF Typed, Requested, Idle, ReadsEntry, ServiceStep
  <1>22. ASSUME PostsEntry
        PROVE  RefusedAgain(c)
    BY <1>22 DEF Typed, Requested, Idle, PostsEntry, ServiceStep
  <1>23. ASSUME Tick
        PROVE  RefusedAgain(c)
    <2>1. request[c] \in Requested /\ request[c] # Idle
      BY RequestIs
    <2>2. request'[c].step = request[c].step
      BY <1>23, <2>1 DEF Tick, Requested
    <2> QED BY <2>2
  <1> QED BY <1>1, <1>2, <1>3, <1>4, <1>5, <1>6, <1>7, <1>8, <1>9, <1>10, <1>11, <1>12, <1>13, <1>14, <1>15, <1>16, <1>17, <1>18, <1>19, <1>20, <1>21, <1>22, <1>23
         DEF Next, RequestNext, ServiceNext

-----------------------------------------------------------------------------
(* The whole invariant, and what it gives.                                 *)

Inv == Typed /\ Rounds /\ Alone /\ Seen

\* The limits are part of the types' induction: a round is added only to one that is not the last.
LEMMA Invariance == Spec => []Inv
  <1>1. Init => Inv
    <2> SUFFICES ASSUME Init
                 PROVE  Inv
      OBVIOUS
    <2>1. Idle.step = "idle"
      BY DEF Idle
    <2>2. NoState \in ModelStates /\ Snapshot(NoState) \in [wait : Delays, shared : BOOLEAN]
      BY CleanTypes, StateTypes DEF Snapshot
    <2>3. state \in [Auths -> ModelStates] /\ view \in [Auths -> [wait : Delays, shared : BOOLEAN]]
      BY <2>2 DEF Init
    <2>4. \A r \in Requests : request[r] = Idle
      BY DEF Init
    <2>5. Typed
      BY <2>1, <2>3, <2>4 DEF Init, Typed, TypeOK
    <2> QED BY <2>1, <2>4, <2>5 DEF Inv, Rounds, Alone, Seen
  <1>2. Inv /\ [Next]_vars => Inv'
    <2>1. CASE Inv /\ Next
      BY <2>1, TypedStep, RoundsStep, AloneStep, SeenStep DEF Inv
    <2>2. CASE Inv /\ UNCHANGED vars
      BY <2>2 DEF Inv, Typed, TypeOK, Rounds, Alone, Seen, vars
    <2> QED BY <2>1, <2>2
  <1> QED BY <1>1, <1>2, PTL DEF Spec

\* Types: delays and back-off levels stay in their range, and a request asks a
\* credential there is.
THEOREM TypeCorrect == Spec => []TypeOK
  <1>1. Inv => TypeOK
    BY DEF Inv, Typed
  <1> QED BY Invariance, <1>1, PTL

\* executeMixedOnce's limit and shouldRetryAfterError's: a round calls no more
\* credentials than allowed, and no request has more rounds than the first and its
\* retries, whatever is refused, answered and waited for in between.
THEOREM WithinLimits == Spec => []CallsBounded
  <1>1. Inv => CallsBounded
    BY ExecutionAssumption DEF Inv, Typed, TypeOK, Rounds, CallsBounded
  <1> QED BY Invariance, <1>1, PTL

\* pickNextMixed's second pick: a request nobody disturbs is refused for good only
\* when no credential it has not tried is free with its quota's recovery past.
THEOREM ServedWhenAlone == Spec => LoneRequestServed
  <1> DEFINE Turned(r) == request[r] # Idle /\ request[r].lone /\ request[r].step = "repick"
                             /\ request'[r] # Idle /\ request'[r].step = "failed"
             Busy(r) == \A a \in Auths \ request[r].tried : NextRetry(state[a]) > 0
  <1>1. ASSUME Inv, Next, NEW r \in Requests, Turned(r)
        PROVE  Busy(r)
    <2>1. RefusedAgain(r)
      BY <1>1, OnlyRefusedAgain DEF Inv
    <2>2. ASSUME NEW a \in Auths \ request[r].tried
          PROVE  NextRetry(state[a]) > 0
      <3>1. view[a].wait \in Nat /\ view[a].wait # 0
        BY <1>1, <2>1, DelaysRange DEF RefusedAgain, Ready, Inv, Typed, TypeOK
      <3>2. view[a].wait <= Due(state[a])
        BY <1>1 DEF Inv, Seen
      <3>3. Due(state[a]) \in Nat /\ (Due(state[a]) > 0 => NextRetry(state[a]) > 0)
        BY StateTypes, DelaysRange, <1>1 DEF Inv, Typed, TypeOK
      <3> QED BY <3>1, <3>2, <3>3
    <2> QED BY <2>2
  <1>2. ASSUME Inv, [Next]_vars
        PROVE  [\A r \in Requests : Turned(r) => Busy(r)]_vars
    BY <1>1, <1>2
  <1>3. LoneRequestServed <=> [][\A r \in Requests : Turned(r) => Busy(r)]_vars
    BY DEF LoneRequestServed
  <1> QED BY Invariance, <1>2, <1>3, PTL DEF Spec

=============================================================================
