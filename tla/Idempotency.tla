---------------------------- MODULE Idempotency ----------------------------
(***************************************************************************)
(* What a client may rely on when it sends a request under an id of its    *)
(* choice, any number of times and to any instance: the first request that *)
(* succeeds binds the id for ever, the same request gets the first         *)
(* response again, another one is told of the conflict, and only what had  *)
(* not succeeded when it was looked up can be refused.                     *)
(***************************************************************************)
CONSTANTS
  Call,      \* requests that are sent
  Request,   \* Request[c]: what c asks for, with its id
  Response,  \* what a request that succeeds can be told
  Null

VARIABLES
  record,    \* by id: the first call that succeeded, and its response
  missed,    \* calls being served that found their id unbound
  answer     \* what each caller was told

vars == <<record, missed, answer>>

IdOf(c) == Request[c].id

Bound(c) == record[IdOf(c)] # Null

Repeated(c) == Bound(c) /\ Request[record[IdOf(c)].call] = Request[c]

Answer(type, response) == [type |-> type, response |-> response]

Init ==
  /\ record = [i \in {IdOf(c) : c \in Call} |-> Null]
  /\ missed = {}
  /\ answer = [c \in Call |-> Answer("none", Null)]

Tell(c, type, response) ==
  /\ answer' = [answer EXCEPT ![c] = Answer(type, response)]
  /\ missed' = missed \ {c}

Miss(c) ==
  /\ ~ Bound(c)
  /\ missed' = missed \cup {c}
  /\ UNCHANGED <<record, answer>>

Execute(c) ==
  \E response \in Response :
    /\ ~ Bound(c)
    /\ record' = [record EXCEPT ![IdOf(c)] = [call |-> c, response |-> response]]
    /\ Tell(c, "first", response) \/ Tell(c, "lost", Null)

Replay(c) ==
  /\ Repeated(c)
  /\ Tell(c, "replayed", record[IdOf(c)].response)
  /\ UNCHANGED record

Conflict(c) ==
  /\ Bound(c) /\ ~ Repeated(c)
  /\ Tell(c, "idempotency_conflict", Null)
  /\ UNCHANGED record

Refuse(c) ==
  /\ ~ Repeated(c) \/ c \in missed
  /\ Tell(c, "refused", Null)
  /\ UNCHANGED record

(* Connections, or an instance with all the calls it serves, are lost.      *)
Fail(type) ==
  LET cs == {c \in Call : answer'[c] # answer[c]}
  IN  /\ answer' = [c \in Call |-> IF c \in cs THEN Answer(type, Null) ELSE answer[c]]
      /\ missed' = missed \ cs
      /\ UNCHANGED record

Resend(c) ==
  /\ Tell(c, "none", Null)
  /\ UNCHANGED record

Next ==
  \/ \E c \in Call :
       Miss(c) \/ Execute(c) \/ Replay(c) \/ Conflict(c) \/ Refuse(c) \/ Resend(c)
  \/ \E type \in {"failed", "lost"} : Fail(type)

Spec == Init /\ [][Next]_vars

=============================================================================
