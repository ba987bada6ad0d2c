---------------------------- MODULE ServerProofs ----------------------------
(***************************************************************************)
(* Proofs about the serving loop, for any number of requests: no request is *)
(* lost or answered twice, and each is answered with a status of its own.   *)
(***************************************************************************)
EXTENDS Server, FiniteSetTheorems, TLAPS

(* What a request may be answered with: OwnStatus of one answer.           *)
Deserved(r, s) ==
  LET ask    == asks[r]
      broken == HasBody(r) /\ body[r] = "broken"
  IN  CASE s = 200 ->
             \/ ask.endpoint = "health"
             \/ ~broken /\ ask.endpoint = "plan" /\ ask.content = "fine"
             \/ ~broken /\ ask.endpoint = "graphql"
                  /\ ask.content \in {"fine", "typename"}
        [] s = 404 -> ask.endpoint = "elsewhere"
        [] s = 500 ->
             ~broken /\ HasBody(r) /\ ask.content \in {"failing", "panics"}
        [] OTHER -> HasBody(r)
                      /\ (broken \/ ask.content \in {"not-json", "lacking", "typename"})

(* A body that was needed has come to its end, one way or the other.       *)
BodyKnown(r) == HasBody(r) => body[r] # "coming"

(* Where the loop is at a request, it has what that step relies on.         *)
StepInv ==
  /\ step \in {"read", "handle"} => HasBody(current)
  /\ step = "handle" => body[current] = "whole"
  /\ step = "respond" => status # 0 /\ BodyKnown(current) /\ Deserved(current, status)

AnswerInv ==
  \A k \in DOMAIN answers :
    BodyKnown(answers[k][1]) /\ Deserved(answers[k][1], answers[k][2])

InQueue(r)  == \E k \in DOMAIN queue : queue[k] = r
Answered(r) == \E k \in DOMAIN answers : answers[k][1] = r
AtHand(r)   == step # "next" /\ current = r

(* A request is at one index of one place.                                 *)
PlaceInv ==
  /\ \A m, n \in DOMAIN queue : queue[m] = queue[n] => m = n
  /\ \A m, n \in DOMAIN answers : answers[m][1] = answers[n][1] => m = n
  /\ \A r \in Requests : ~(InQueue(r) /\ Answered(r))
  /\ \A r \in Requests : ~(InQueue(r) /\ AtHand(r))
  /\ \A r \in Requests : ~(Answered(r) /\ AtHand(r))
  /\ \A r \in Requests : r \in arrived <=> (InQueue(r) \/ Answered(r) \/ AtHand(r))

ServerInv == TypeOK /\ StepInv /\ AnswerInv

-----------------------------------------------------------------------------
(* A request asks an endpoint for something, and what has no body is fine.  *)
LEMMA AskFacts ==
  ASSUME TypeOK, NEW r \in Requests
  PROVE  /\ asks[r].endpoint \in {"plan", "graphql", "health", "elsewhere"}
         /\ asks[r].content \in Contents
<1>1. asks[r] \in Asks
  BY DEF TypeOK
<1>2. CASE asks[r] \in [endpoint : {"plan", "graphql"}, content : Contents]
  BY <1>2
<1>3. CASE asks[r] \in [endpoint : {"health", "elsewhere"}, content : {"fine"}]
  BY <1>3 DEF Contents
<1> QED BY <1>1, <1>2, <1>3 DEF Asks

LEMMA InitInv ==
  ASSUME Init
  PROVE  ServerInv /\ PlaceInv
<1>1. TypeOK
  BY RequestsAssumption DEF Init, TypeOK
<1>2. StepInv /\ AnswerInv
  BY DEF Init, StepInv, AnswerInv
<1>3. PlaceInv
  BY DEF Init, PlaceInv, InQueue, Answered, AtHand
<1> QED BY <1>1, <1>2, <1>3 DEF ServerInv

(* Types, step by step.                                                    *)
LEMMA TypeStep ==
  ASSUME ServerInv, [Next]_vars
  PROVE  TypeOK'
<1> USE DEF ServerInv, TypeOK
<1>1. ASSUME NEW r \in Requests, Arrive(r)
      PROVE  TypeOK'
  BY <1>1 DEF Arrive
<1>2. ASSUME NEW r \in Requests, BodyEnds(r)
      PROVE  TypeOK'
  BY <1>2 DEF BodyEnds
<1>3. CASE Take
  <2>1. Head(queue) \in Requests /\ Tail(queue) \in Seq(Requests)
    BY <1>3 DEF Take
  <2> QED BY <1>3, <2>1 DEF Take, env
<1>4. CASE ReadBody \/ ReadFails \/ PanicCaught
  BY <1>4 DEF ReadBody, ReadFails, PanicCaught, env
<1>5. CASE Handle
  <2>1. asks[current].content \in Contents \ {"panics"}
    BY <1>5, AskFacts DEF Handle
  <2>2. HandleGraphql(asks[current].content) \in {200, 400, 500}
    BY <2>1 DEF HandleGraphql, Contents
  <2>3. asks[current].endpoint = "plan" => HandlePlan(asks[current].content) \in {200, 400, 500}
    BY <2>1 DEF HandlePlan, Contents
  <2> QED BY <1>5, <2>2, <2>3 DEF Handle, env
<1>6. CASE Respond
  <2>1. status \in {200, 400, 404, 500}
    BY <1>6 DEF Respond, StepInv
  <2> QED BY <1>6, <2>1 DEF Respond, env
<1>7. CASE UNCHANGED vars
  BY <1>7 DEF vars
<1> QED BY <1>1, <1>2, <1>3, <1>4, <1>5, <1>6, <1>7 DEF Next, Clients, Loop

(* Once a body's end is known it stays, and so does what its request deserves. *)
LEMMA DeservedStays ==
  ASSUME TypeOK, [Next]_vars, NEW r \in Requests, NEW s, BodyKnown(r), Deserved(r, s)
  PROVE  BodyKnown(r)' /\ Deserved(r, s)'
<1>1. asks' = asks
  BY DEF Next, Clients, Loop, Arrive, BodyEnds, Take, ReadBody, ReadFails, Handle, PanicCaught, Respond, vars
<1>2. HasBody(r)' = HasBody(r)
  BY <1>1 DEF HasBody
<1>3. HasBody(r) => body'[r] = body[r]
  <2>1. ASSUME NEW q \in Requests, BodyEnds(q), HasBody(r)
        PROVE  body'[r] = body[r]
    BY <2>1 DEF BodyEnds, BodyKnown, TypeOK
  <2>2. ASSUME ~\E q \in Requests : BodyEnds(q)
        PROVE  body' = body
    BY <2>2 DEF Next, Clients, Loop, Arrive, Take, ReadBody, ReadFails, Handle, PanicCaught, Respond, vars, env
  <2> QED BY <2>1, <2>2
<1>4. BodyKnown(r)'
  BY <1>2, <1>3 DEF BodyKnown
<1>5. (HasBody(r) /\ body[r] = "broken")' = (HasBody(r) /\ body[r] = "broken")
  BY <1>2, <1>3
<1> QED BY <1>1, <1>2, <1>4, <1>5 DEF Deserved

(* What the handlers return is what their request deserves.                *)
LEMMA HandleStep ==
  ASSUME ServerInv, Handle \/ PanicCaught
  PROVE  status' # 0 /\ Deserved(current, status')
<1> USE DEF ServerInv
<1>1. /\ current \in Requests /\ HasBody(current) /\ body[current] = "whole"
      /\ asks[current].content \in Contents
      /\ asks[current].endpoint \in {"plan", "graphql"}
  BY AskFacts DEF TypeOK, StepInv, HasBody, Handle, PanicCaught
<1>2. CASE PanicCaught
  BY <1>1, <1>2 DEF PanicCaught, Deserved
<1>3. CASE Handle /\ asks[current].endpoint = "plan"
  BY <1>1, <1>3 DEF Handle, HandlePlan, Contents, Deserved
<1>4. CASE Handle /\ asks[current].endpoint = "graphql"
  BY <1>1, <1>4 DEF Handle, HandleGraphql, Contents, Deserved
<1> QED BY <1>1, <1>2, <1>3, <1>4

LEMMA StepInvStep ==
  ASSUME ServerInv, [Next]_vars
  PROVE  StepInv'
<1> USE DEF ServerInv
<1>1. current \in Requests
  BY DEF TypeOK
<1>2. ASSUME UNCHANGED <<asks, step, current, status>>
      PROVE  StepInv'
  <2>1. (step = "handle" => body'[current] = "whole")
    <3>1. ASSUME NEW q \in Requests, BodyEnds(q), step = "handle"
          PROVE  body'[current] = body[current]
      BY <1>1, <3>1 DEF BodyEnds, StepInv, TypeOK
    <3>2. ASSUME ~\E q \in Requests : BodyEnds(q)
          PROVE  body' = body
      BY <3>2 DEF Next, Clients, Loop, Arrive, Take, ReadBody, ReadFails, Handle, PanicCaught, Respond, vars, env
    <3> QED BY <3>1, <3>2 DEF StepInv
  <2>2. step = "respond" => BodyKnown(current)' /\ Deserved(current, status)'
    <3>1. ASSUME step = "respond"
          PROVE  /\ BodyKnown(current)'
                 /\ Deserved(current, status)'
      <4>1. /\ HasBody(current) => body'[current] = body[current]
            /\ HasBody(current)' = HasBody(current)
        <5>1. ASSUME NEW q \in Requests, BodyEnds(q), HasBody(current)
              PROVE  body'[current] = body[current]
          BY <1>1, <3>1, <5>1 DEF BodyEnds, BodyKnown, StepInv, TypeOK
        <5>2. ASSUME ~\E q \in Requests : BodyEnds(q)
              PROVE  body' = body
          BY <5>2 DEF Next, Clients, Loop, Arrive, Take, ReadBody, ReadFails, Handle, PanicCaught, Respond, vars, env
        <5> QED BY <1>2, <5>1, <5>2 DEF HasBody
      <4>2. (HasBody(current) /\ body[current] = "broken")' = (HasBody(current) /\ body[current] = "broken")
        BY <1>2, <4>1
      <4> QED BY <1>2, <3>1, <4>1, <4>2 DEF BodyKnown, Deserved, StepInv
    <3> QED BY <3>1
  <2>3. step \in {"read", "handle"} => HasBody(current)'
    BY <1>2 DEF StepInv, HasBody
  <2> QED BY <1>2, <2>1, <2>2, <2>3 DEF StepInv
<1>3. CASE Clients
  BY <1>2, <1>3 DEF Clients, Arrive, BodyEnds
<1>4. CASE Take
  <2>1. /\ Head(queue) \in Requests /\ asks' = asks /\ current' = Head(queue)
        /\ asks[Head(queue)].endpoint \in {"plan", "graphql", "health", "elsewhere"}
    BY <1>4, AskFacts DEF Take, TypeOK
  <2>2. CASE HasBody(Head(queue))
    BY <1>4, <2>1, <2>2 DEF Take, StepInv, HasBody
  <2>3. CASE ~HasBody(Head(queue))
    <3>1. CASE asks[Head(queue)].endpoint = "health"
      BY <1>4, <2>1, <2>3, <3>1 DEF Take, StepInv, HasBody, BodyKnown, Deserved
    <3>2. CASE asks[Head(queue)].endpoint = "elsewhere"
      BY <1>4, <2>1, <2>3, <3>2 DEF Take, StepInv, HasBody, BodyKnown, Deserved
    <3> QED BY <2>1, <2>3, <3>1, <3>2 DEF HasBody
  <2> QED BY <2>2, <2>3
<1>5. CASE ReadBody
  BY <1>5 DEF ReadBody, StepInv, HasBody, env
<1>6. CASE ReadFails
  BY <1>1, <1>6 DEF ReadFails, StepInv, HasBody, BodyKnown, Deserved, env
<1>7. CASE Handle \/ PanicCaught
  <2>1. status' # 0 /\ Deserved(current, status')
    BY <1>7, HandleStep
  <2>2. /\ UNCHANGED <<asks, body, current>> /\ step' = "respond"
        /\ HasBody(current) /\ body[current] = "whole"
    BY <1>7 DEF Handle, PanicCaught, StepInv, env
  <2> QED BY <2>1, <2>2 DEF StepInv, Deserved, BodyKnown, HasBody
<1>8. CASE Respond
  BY <1>8 DEF Respond, StepInv
<1>9. CASE UNCHANGED vars
  BY <1>2, <1>9 DEF vars
<1> QED BY <1>3, <1>4, <1>5, <1>6, <1>7, <1>8, <1>9 DEF Next, Loop

LEMMA AnswerInvStep ==
  ASSUME ServerInv, [Next]_vars
  PROVE  AnswerInv'
<1> USE DEF ServerInv
<1>1. SUFFICES ASSUME NEW k \in DOMAIN answers'
               PROVE  (BodyKnown(answers[k][1]) /\ Deserved(answers[k][1], answers[k][2]))'
  BY DEF AnswerInv
<1>2. PICK r \in Requests, t \in {200, 400, 404, 500} :
        /\ r = answers'[k][1] /\ t = answers'[k][2]
        /\ BodyKnown(r) /\ Deserved(r, t)
  <2>1. ASSUME NEW n \in DOMAIN answers
        PROVE  /\ answers[n][1] \in Requests /\ answers[n][2] \in {200, 400, 404, 500}
               /\ BodyKnown(answers[n][1]) /\ Deserved(answers[n][1], answers[n][2])
    BY DEF AnswerInv, TypeOK
  <2>2. CASE answers' = answers
    BY <2>1, <2>2
  <2>3. CASE Respond
    <3>1. current \in Requests /\ BodyKnown(current) /\ Deserved(current, status)
      BY <2>3 DEF Respond, StepInv, TypeOK
    <3>2. answers' = Append(answers, <<current, status>>) /\ answers \in Seq(Requests \X {200, 400, 404, 500})
      BY <2>3 DEF Respond, TypeOK
    <3>3. CASE k \in DOMAIN answers
      <4>1. answers'[k] = answers[k]
        BY <3>2, <3>3
      <4> QED BY <2>1, <3>3, <4>1
    <3>4. CASE k = Len(answers) + 1
      <4>1. status \in {200, 400, 404, 500}
        BY <2>3 DEF Respond, StepInv, TypeOK
      <4>2. answers'[k] = <<current, status>>
        BY <3>2, <3>4
      <4> QED BY <3>1, <4>1, <4>2
    <3> QED BY <3>2, <3>3, <3>4
  <2> QED BY <2>2, <2>3 DEF Next, Clients, Loop, Arrive, BodyEnds, Take, ReadBody, ReadFails, Handle, PanicCaught, vars
<1>3. BodyKnown(r)' /\ Deserved(r, t)'
  BY <1>2, DeservedStays
<1> QED BY <1>2, <1>3 DEF BodyKnown, Deserved, HasBody

-----------------------------------------------------------------------------
(* Where a request is changes only as it arrives, is taken or is answered.  *)
LEMMA PlaceStep ==
  ASSUME TypeOK, PlaceInv, [Next]_vars
  PROVE  PlaceInv'
<1>1. CASE UNCHANGED <<queue, answers, arrived, current>> /\ (step' = "next" <=> step = "next")
  BY <1>1 DEF PlaceInv, InQueue, Answered, AtHand
<1>2. ASSUME NEW q \in Requests, Arrive(q)
      PROVE  PlaceInv'
  <2>1. /\ queue \in Seq(Requests) /\ queue' = Append(queue, q)
        /\ arrived' = arrived \cup {q} /\ UNCHANGED <<answers, current, step>>
    BY <1>2 DEF Arrive, TypeOK
  <2>2. ~InQueue(q) /\ ~Answered(q) /\ ~AtHand(q)
    BY <1>2 DEF Arrive, PlaceInv
  <2>3. \A r \in Requests : InQueue(r)' <=> (InQueue(r) \/ r = q)
    BY <2>1 DEF InQueue
  <2>4. \A r \in Requests : (Answered(r)' <=> Answered(r)) /\ (AtHand(r)' <=> AtHand(r))
    BY <2>1 DEF Answered, AtHand
  <2>5. \A m, n \in DOMAIN queue' : queue'[m] = queue'[n] => m = n
    BY <2>1, <2>2 DEF PlaceInv, InQueue
  <2> QED BY <2>1, <2>2, <2>3, <2>4, <2>5 DEF PlaceInv
<1>3. CASE Take
  <2>1. /\ queue \in Seq(Requests) /\ queue # <<>> /\ queue' = Tail(queue)
        /\ current' = Head(queue) /\ Head(queue) \in Requests
        /\ step = "next" /\ step' # "next" /\ UNCHANGED <<answers, arrived>>
    BY <1>3 DEF Take, TypeOK, env
  <2> DEFINE n == Len(queue)
  <2>6. /\ n \in Nat \ {0} /\ DOMAIN queue = 1..n /\ DOMAIN queue' = 1..(n - 1)
        /\ Head(queue) = queue[1] /\ \A k \in 1..(n - 1) : queue'[k] = queue[k + 1]
    BY <2>1
  <2> HIDE DEF n
  <2>7. \A k \in 1..n : k = 1 \/ (k - 1 \in 1..(n - 1) /\ queue'[k - 1] = queue[k])
    BY <2>6
  <2>8. \A k \in 1..(n - 1) : k + 1 \in 1..n /\ k + 1 # 1
    BY <2>6
  <2>2. \A r \in Requests : InQueue(r) <=> (InQueue(r)' \/ r = Head(queue))
    <3>1. ASSUME NEW r \in Requests, InQueue(r)
          PROVE  InQueue(r)' \/ r = Head(queue)
      BY <2>6, <2>7, <3>1 DEF InQueue
    <3>2. ASSUME NEW r \in Requests, InQueue(r)'
          PROVE  InQueue(r)
      BY <2>6, <2>8, <3>2 DEF InQueue
    <3>3. InQueue(Head(queue))
      BY <2>6 DEF InQueue
    <3> QED BY <3>1, <3>2, <3>3
  <2>3. ~\E k \in DOMAIN queue' : queue'[k] = Head(queue)
    <3>1. ASSUME NEW k \in 1..(n - 1)
          PROVE  queue'[k] # Head(queue)
      <4>1. k + 1 \in DOMAIN queue /\ 1 \in DOMAIN queue /\ k + 1 # 1
        BY <2>6
      <4> QED BY <2>6, <4>1 DEF PlaceInv
    <3>2. \A k \in DOMAIN queue' : queue'[k] # Head(queue)
      BY <2>6, <3>1
    <3> QED BY <3>2
  <2>4. \A r \in Requests : (Answered(r)' <=> Answered(r)) /\ ~AtHand(r) /\ (AtHand(r)' <=> r = Head(queue))
    BY <2>1 DEF Answered, AtHand
  <2>5. \A j, k \in DOMAIN queue' : queue'[j] = queue'[k] => j = k
    <3>1. TAKE j, k \in DOMAIN queue'
    <3>2. j + 1 \in DOMAIN queue /\ k + 1 \in DOMAIN queue /\ j \in Nat /\ k \in Nat
      BY <2>6
    <3>3. queue[j + 1] = queue[k + 1] => j + 1 = k + 1
      BY <3>2 DEF PlaceInv
    <3> QED BY <2>6, <3>2, <3>3
  <2>9. \A j, k \in DOMAIN answers' : answers'[j][1] = answers'[k][1] => j = k
    BY <2>1 DEF PlaceInv
  <2>10. \A r \in Requests :
           /\ ~(InQueue(r)' /\ Answered(r)') /\ ~(Answered(r)' /\ AtHand(r)')
           /\ r \in arrived <=> (InQueue(r)' \/ Answered(r)' \/ AtHand(r)')
    BY <2>2, <2>4, <2>1 DEF PlaceInv
  <2>11. \A r \in Requests : ~(InQueue(r)' /\ AtHand(r)')
    BY <2>3, <2>4 DEF InQueue
  <2> QED BY <2>1, <2>5, <2>9, <2>10, <2>11 DEF PlaceInv
<1>4. CASE Respond
  <2>1. /\ answers \in Seq(Requests \X {200, 400, 404, 500})
        /\ answers' = Append(answers, <<current, status>>) /\ current \in Requests
        /\ step # "next" /\ step' = "next" /\ UNCHANGED <<queue, arrived, current>>
    BY <1>4 DEF Respond, TypeOK, env
  <2>2. ~Answered(current) /\ ~InQueue(current)
    BY <2>1 DEF PlaceInv, AtHand
  <2>6. /\ DOMAIN answers' = 1..(Len(answers) + 1) /\ DOMAIN answers = 1..Len(answers)
        /\ answers'[Len(answers) + 1][1] = current /\ Len(answers) \in Nat
        /\ \A k \in 1..Len(answers) : answers'[k] = answers[k]
    BY <2>1
  <2>3. \A r \in Requests : Answered(r)' <=> (Answered(r) \/ r = current)
    <3>1. \A k \in DOMAIN answers' : k \in DOMAIN answers \/ k = Len(answers) + 1
      BY <2>6
    <3>2. Len(answers) + 1 \in DOMAIN answers' /\ DOMAIN answers \subseteq DOMAIN answers'
      BY <2>6
    <3> QED BY <2>6, <3>1, <3>2 DEF Answered
  <2>4. \A r \in Requests : (InQueue(r)' <=> InQueue(r)) /\ ~AtHand(r)' /\ (AtHand(r) <=> r = current)
    BY <2>1 DEF InQueue, AtHand
  <2>5. \A m, n \in DOMAIN answers' : answers'[m][1] = answers'[n][1] => m = n
    <3>1. \A k \in DOMAIN answers' : k \in DOMAIN answers \/ k = Len(answers) + 1
      BY <2>6
    <3>2. \A k \in DOMAIN answers : answers'[k] = answers[k] /\ answers[k][1] # current
      BY <2>2, <2>6 DEF Answered
    <3> QED BY <2>6, <3>1, <3>2 DEF PlaceInv
  <2> QED BY <2>1, <2>2, <2>3, <2>4, <2>5 DEF PlaceInv
<1> QED
  BY <1>1, <1>2, <1>3, <1>4 DEF Next, Clients, Loop, BodyEnds, ReadBody, ReadFails,
     Handle, PanicCaught, vars, env

(* One index of one place is one place.                                    *)
LEMMA OnePlace ==
  ASSUME TypeOK, PlaceInv
  PROVE  InOnePlace
<1>1. SUFFICES ASSUME NEW r \in Requests
               PROVE  LET places == {<<"queue", k>> : k \in {n \in DOMAIN queue : queue[n] = r}}
                                       \cup {<<"answers", k>> : k \in {n \in DOMAIN answers : answers[n][1] = r}}
                                       \cup {x \in {<<"current", 0>>} : step # "next" /\ current = r}
                      IN  Cardinality(places) = IF r \in arrived THEN 1 ELSE 0
  BY DEF InOnePlace
<1> DEFINE inQueue  == {<<"queue", k>> : k \in {n \in DOMAIN queue : queue[n] = r}}
           answered == {<<"answers", k>> : k \in {n \in DOMAIN answers : answers[n][1] = r}}
           atHand   == {x \in {<<"current", 0>>} : step # "next" /\ current = r}
           places   == inQueue \cup answered \cup atHand
<1>2. /\ ~InQueue(r) => inQueue = {}
      /\ ~Answered(r) => answered = {}
      /\ ~AtHand(r) => atHand = {}
  BY DEF InQueue, Answered, AtHand
<1>3. InQueue(r) => \E x : inQueue = {x}
  <2>1. ASSUME NEW k \in DOMAIN queue, queue[k] = r
        PROVE  inQueue = {<<"queue", k>>}
    <3>1. \A n \in DOMAIN queue : queue[n] = r <=> n = k
      BY <2>1 DEF PlaceInv
    <3> QED BY <3>1
  <2> QED BY <2>1 DEF InQueue
<1>4. Answered(r) => \E x : answered = {x}
  <2>1. ASSUME NEW k \in DOMAIN answers, answers[k][1] = r
        PROVE  answered = {<<"answers", k>>}
    <3>1. \A n \in DOMAIN answers : answers[n][1] = r <=> n = k
      BY <2>1 DEF PlaceInv
    <3> QED BY <3>1
  <2> QED BY <2>1 DEF Answered
<1>5. AtHand(r) => \E x : atHand = {x}
  BY DEF AtHand
<1>6. CASE r \in arrived
  <2>1. \E x : places = {x}
    BY <1>2, <1>3, <1>4, <1>5, <1>6 DEF PlaceInv
  <2> QED BY <1>6, <2>1, FS_Singleton
<1>7. CASE r \notin arrived
  <2>1. places = {}
    BY <1>2, <1>7 DEF PlaceInv
  <2> QED BY <1>7, <2>1, FS_EmptySet
<1> QED BY <1>6, <1>7

LEMMA OwnStatuses ==
  ASSUME AnswerInv
  PROVE  OwnStatus
BY DEF AnswerInv, OwnStatus, Deserved

-----------------------------------------------------------------------------
LEMMA Inductive == Spec => [](ServerInv /\ PlaceInv)
<1>1. Init => ServerInv /\ PlaceInv
  BY InitInv
<1>2. ServerInv /\ PlaceInv /\ [Next]_vars => (ServerInv /\ PlaceInv)'
  BY TypeStep, StepInvStep, AnswerInvStep, PlaceStep DEF ServerInv
<1> QED BY <1>1, <1>2, PTL DEF Spec

(* Every variable of the serving loop keeps its type, for any requests.     *)
THEOREM ServerTypeCorrect == Spec => []TypeOK
<1>1. ServerInv /\ PlaceInv => TypeOK
  BY DEF ServerInv
<1> QED BY <1>1, Inductive, PTL

(* Nothing is lost or answered twice: every request made is at one place of
   queue, loop and answers, however many there are.                        *)
THEOREM NothingLost == Spec => []InOnePlace
<1>1. ServerInv /\ PlaceInv => InOnePlace
  BY OnePlace DEF ServerInv
<1> QED BY <1>1, Inductive, PTL

(* A request is answered with a status of its own doing, whatever panics and
   broken bodies came before it (catch_unwind in handle_request).           *)
THEOREM StatusIsOwn == Spec => []OwnStatus
<1>1. ServerInv /\ PlaceInv => OwnStatus
  BY OwnStatuses DEF ServerInv
<1> QED BY <1>1, Inductive, PTL
=============================================================================
