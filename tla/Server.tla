------------------------------- MODULE Server -------------------------------
(***************************************************************************)
(* The serving loop of crates/server: run_server takes the requests that    *)
(* tiny_http has queued one at a time, on the main thread, and answers each *)
(* before it looks at the next.  A handler that panics is caught; a body    *)
(* that breaks off, or a client that is gone when it is answered, is only   *)
(* that request's trouble.                                                 *)
(*                                                                         *)
(* Clients and tiny_http's own threads are external: requests arrive, and   *)
(* their bodies come in or break off, in any order.  What is in a body is   *)
(* given by what the handlers make of it.                                  *)
(***************************************************************************)
EXTENDS Integers, Sequences, FiniteSetsExt

CONSTANT Requests   (* the requests clients may make                       *)

ASSUME RequestsAssumption == Requests # {}

(* not-json: serde_json fails.  lacking: a field that the handler needs is
   missing or unknown (a mobility, a coordinate).  typename: GraphQL's health
   query.  failing: Engine::plan returns an error.  panics: it panics.  fine:
   it answers.                                                             *)
Contents == {"not-json", "lacking", "typename", "failing", "panics", "fine"}

Asks == [endpoint : {"plan", "graphql"}, content : Contents]
          \cup [endpoint : {"health", "elsewhere"}, content : {"fine"}]

VARIABLES
  asks,      (* per request, its endpoint and what is in its body          *)
  body,      (* per request, "coming", "whole" or "broken" off             *)
  queue,     (* requests that wait in tiny_http's queue                    *)
  arrived,   (* requests made so far                                       *)
  step,      (* the loop: "next", "read", "handle", "respond"              *)
  current,   (* the request it is at                                       *)
  status,    (* the status it is to be answered with, 0 before it is known *)
  answers    (* the requests answered, in order, and with which status    *)

vars == <<asks, body, queue, arrived, step, current, status, answers>>

env == <<body, arrived>>

-----------------------------------------------------------------------------
(* handle_plan.                                                            *)
HandlePlan(content) ==
  CASE content \in {"not-json", "lacking", "typename"} -> 400
    [] content = "failing" -> 500
    [] content = "fine"    -> 200

(* handle_gtfs_graphql.                                                    *)
HandleGraphql(content) ==
  CASE content \in {"not-json", "lacking"} -> 400
    [] content = "failing" -> 500
    [] content \in {"typename", "fine"} -> 200

HasBody(r) == asks[r].endpoint \in {"plan", "graphql"}

Init ==
  /\ asks \in [Requests -> Asks]
  /\ body = [r \in Requests |-> "coming"]
  /\ queue = <<>>
  /\ arrived = {}
  /\ step = "next"
  /\ current = CHOOSE r \in Requests : TRUE     (* none yet *)
  /\ status = 0
  /\ answers = <<>>

-----------------------------------------------------------------------------
(* Clients and tiny_http.                                                  *)
Arrive(r) ==
  /\ r \notin arrived
  /\ arrived' = arrived \cup {r}
  /\ queue' = Append(queue, r)
  /\ UNCHANGED <<asks, body, step, current, status, answers>>

BodyEnds(r) ==
  /\ r \in arrived
  /\ body[r] = "coming"
  /\ \E b \in {"whole", "broken"} : body' = [body EXCEPT ![r] = b]
  /\ UNCHANGED <<asks, queue, arrived, step, current, status, answers>>

-----------------------------------------------------------------------------
TakePeeks ==                                               (* a mutant *)
  /\ step = "next"
  /\ queue # <<>>
  /\ current' = Head(queue)
  /\ step' = "read"
  /\ UNCHANGED <<asks, env, queue, status, answers>>

(* run_server: the next request; what needs no body has its answer at once. *)
Take ==
  /\ step = "next"
  /\ queue # <<>>
  /\ current' = Head(queue)
  /\ queue' = Tail(queue)
  /\ LET endpoint == asks[Head(queue)].endpoint
     IN  /\ step' = IF HasBody(Head(queue)) THEN "read" ELSE "respond"
         /\ status' = CASE endpoint = "health"    -> 200
                        [] endpoint = "elsewhere" -> 404
                        [] OTHER                  -> 0
  /\ UNCHANGED <<asks, env, answers>>

ReadBody ==
  /\ step = "read"
  /\ body[current] = "whole"
  /\ step' = "handle"
  /\ UNCHANGED <<asks, env, queue, current, status, answers>>

ReadFails ==
  /\ step = "read"
  /\ body[current] = "broken"
  /\ step' = "respond"
  /\ status' = 400
  /\ UNCHANGED <<asks, env, queue, current, answers>>

Handle ==
  /\ step = "handle"
  /\ asks[current].content # "panics"
  /\ step' = "respond"
  /\ status' = IF asks[current].endpoint = "plan"
               THEN HandlePlan(asks[current].content)
               ELSE HandleGraphql(asks[current].content)
  /\ UNCHANGED <<asks, env, queue, current, answers>>

PanicUncaught ==                                           (* a mutant *)
  /\ step = "handle"
  /\ asks[current].content = "panics"
  /\ step' = "dead"
  /\ UNCHANGED <<asks, env, queue, current, status, answers>>

PanicKeepsStatus ==                                        (* a mutant *)
  /\ step = "handle"
  /\ asks[current].content = "panics"
  /\ step' = "respond"
  /\ UNCHANGED <<asks, env, queue, current, status, answers>>

PanicAnswers200 ==                                         (* a mutant *)
  /\ step = "handle"
  /\ asks[current].content = "panics"
  /\ step' = "respond"
  /\ status' = 200
  /\ UNCHANGED <<asks, env, queue, current, answers>>

(* catch_unwind: a panic of the handler is an answer too.                  *)
PanicCaught ==
  /\ step = "handle"
  /\ asks[current].content = "panics"
  /\ step' = "respond"
  /\ status' = 500
  /\ UNCHANGED <<asks, env, queue, current, answers>>

(* respond_json: sent, or logged as not sent; the loop goes on either way.  *)
Respond ==
  /\ step = "respond"
  /\ answers' = Append(answers, <<current, status>>)
  /\ step' = "next"
  /\ UNCHANGED <<asks, env, queue, current, status>>

-----------------------------------------------------------------------------
Clients == \E r \in Requests : Arrive(r) \/ BodyEnds(r)

Loop == Take \/ ReadBody \/ ReadFails \/ Handle \/ PanicCaught \/ Respond

Next == Clients \/ Loop

(* The loop runs as long as it can.  It waits for the body of a request with
   no limit of time, so every request behind it depends on each body either
   coming to its end or breaking off: that is assumed of the network.      *)
Fairness == WF_vars(Loop) /\ \A r \in Requests : WF_vars(BodyEnds(r))

Spec == Init /\ [][Next]_vars /\ Fairness

-----------------------------------------------------------------------------
(* Every variable has its type.                                            *)
TypeOK ==
  /\ asks \in [Requests -> Asks]
  /\ body \in [Requests -> {"coming", "whole", "broken"}]
  /\ queue \in Seq(Requests)
  /\ arrived \subseteq Requests
  /\ step \in {"next", "read", "handle", "respond"}
  /\ current \in Requests
  /\ status \in {0, 200, 400, 404, 500}
  /\ answers \in Seq(Requests \X {200, 400, 404, 500})

(* No request is answered twice or lost on the way: each one made is in the
   queue, at hand, or answered, and in just one of these places.           *)
InOnePlace ==
  \A r \in Requests :
    LET places == {<<"queue", k>> : k \in {n \in DOMAIN queue : queue[n] = r}}
                    \cup {<<"answers", k>> :
                            k \in {n \in DOMAIN answers : answers[n][1] = r}}
                    \cup {x \in {<<"current", 0>>} : step # "next" /\ current = r}
    IN  Cardinality(places) = IF r \in arrived THEN 1 ELSE 0

(* What a request is answered with is its own doing, whatever panicked, broke
   off or hung up before it.                                               *)
OwnStatus ==
  \A k \in DOMAIN answers :
    LET ask    == asks[answers[k][1]]
        broken == HasBody(answers[k][1]) /\ body[answers[k][1]] = "broken"
    IN  CASE answers[k][2] = 200 ->
               \/ ask.endpoint = "health"
               \/ ~broken /\ ask.endpoint = "plan" /\ ask.content = "fine"
               \/ ~broken /\ ask.endpoint = "graphql"
                    /\ ask.content \in {"fine", "typename"}
          [] answers[k][2] = 404 -> ask.endpoint = "elsewhere"
          [] answers[k][2] = 500 ->
               ~broken /\ HasBody(answers[k][1]) /\ ask.content \in {"failing", "panics"}
          [] OTHER -> HasBody(answers[k][1])
                        /\ (broken \/ ask.content \in {"not-json", "lacking", "typename"})

(* Every request is answered.                                              *)
EveryoneAnswered ==
  \A r \in Requests :
    r \in arrived ~> \E k \in DOMAIN answers : answers[k][1] = r
=============================================================================
