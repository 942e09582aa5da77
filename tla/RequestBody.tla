----------------------------- MODULE RequestBody -----------------------------
(***************************************************************************)
(* makeBodyHandler: the routes of Router::putStream, which pass a request   *)
(* body to a RequestBodyReceiver piece by piece.  The connections of one    *)
(* route run on several IO loops and share a table from the address of the  *)
(* HttpContext to the state of its request.  The table holds weak pointers; *)
(* the writer's onclose callback owns the state.  An address is used again, *)
(* by the next request of a kept connection or by another connection.       *)
(* A state is named by the request it was made for.  On a kept connection   *)
(* the cleanup that StreamTransfer has posted for a finished download may   *)
(* run after the next request has begun on the same writer.                 *)
(***************************************************************************)
EXTENDS Naturals, Sequences

CONSTANTS
  Addresses,    \* addresses of HttpContexts
  Requests,     \* 1 .. the number of requests
  Middlewares,  \* how many functions the MiddlewareChain holds
  MaxPieces     \* bound: pieces of a body

ASSUME BodyConstants ==
  /\ Requests \subseteq Nat \ {0} /\ Middlewares \in Nat /\ MaxPieces \in Nat

VARIABLES
  request,   \* the request each address works for, 0 if none yet
  stage,     \* how far libhv has parsed it
  handling,  \* the event the handler works on, and the state it has locked
  values,    \* states->values, 0 where there is no entry
  onclose,   \* the state owned by the writer's onclose callback, 0 for nullptr
  receiver,  \* each state's receiver: "none", "open" or "reset"
  log,       \* what each receiver was given: kind and request
  missed,    \* the requests of which a piece was given to no receiver
  leftover   \* the addresses whose writer a posted cleanup refers to

table == <<values, onclose, receiver>>
vars == <<request, stage, handling, table, log, missed, leftover>>

Nothing == [event |-> "none", state |-> 0]

Init ==
  /\ request = [a \in Addresses |-> 0] /\ stage = [a \in Addresses |-> "idle"]
  /\ handling = [a \in Addresses |-> Nothing]
  /\ values = [a \in Addresses |-> 0] /\ onclose = [a \in Addresses |-> 0]
  /\ receiver = [r \in Requests |-> "none"] /\ log = [r \in Requests |-> <<>>]
  /\ missed = {} /\ leftover = {}

Alive(s) == \E a \in Addresses : onclose[a] = s \/ handling[a].state = s
\* Mutant: the table owns the states it refers to.
ExpiredNever(s) == FALSE
Expired(s) == ~Alive(s)

Free(a) == handling[a] = Nothing
Used == {request[a] : a \in Addresses}

-----------------------------------------------------------------------------
(* libhv: external, as far as the handler relies on it *)

\* Another request begins at the address; its writer is a reset or a new one,
\* and on a kept connection a download may have come before it.
NewRequest(a, r) ==
  /\ Free(a) /\ stage[a] \in {"idle", "over", "rejected", "closed"}
  /\ \A u \in Used : u < r
  /\ request' = [request EXCEPT ![a] = r] /\ stage' = [stage EXCEPT ![a] = "headers"]
  /\ onclose' = [onclose EXCEPT ![a] = 0]
  /\ leftover' \in {leftover \ {a}} \cup (IF stage[a] = "closed" THEN {} ELSE {leftover \cup {a}})
  /\ UNCHANGED <<handling, values, receiver, log, missed>>

\* A global middleware answers: the completion never reaches the handler.
Reject(a) ==
  /\ Free(a) /\ stage[a] = "body"
  /\ stage' = [stage EXCEPT ![a] = "rejected"]
  /\ UNCHANGED <<request, handling, table, log, missed, leftover>>

\* The connection closes and the loop calls onclose.
Close(a) ==
  /\ Free(a) /\ stage[a] \in {"headers", "body", "rejected", "over"}
  /\ stage' = [stage EXCEPT ![a] = "closed"]
  /\ receiver' = [s \in Requests |-> IF s = onclose[a] THEN "reset" ELSE receiver[s]]
  /\ UNCHANGED <<request, handling, values, onclose, log, missed, leftover>>

\* The events of a request, in the order of the parser.
StageAfter(event) == IF event \in {"headers", "piece"} THEN "body" ELSE "over"
Arrives(a, event) ==
  \/ event = "headers" /\ stage[a] = "headers"
  \/ event = "piece" /\ stage[a] = "body" /\ Len(log[request[a]]) < MaxPieces
  \/ event = "complete" /\ stage[a] = "body"
  \/ event = "error" /\ stage[a] \in {"headers", "body", "closed"}

-----------------------------------------------------------------------------
(* The handler *)

\* The posted half of scheduleCleanup, on the loop of the connection.
StreamCleanup(a) ==
  /\ Free(a) /\ a \in leftover
  /\ onclose' = [onclose EXCEPT ![a] = 0] /\ leftover' = leftover \ {a}
  /\ UNCHANGED <<request, stage, handling, values, receiver, log, missed>>

\* Under the mutex: drop what has expired, look the state up, and drop the
\* entry of a request that ends here.
Lookup(a, event) ==
  /\ Free(a) /\ Arrives(a, event)
  /\ stage' = [stage EXCEPT ![a] = StageAfter(event)]
  /\ LET live == [b \in Addresses |-> IF values[b] # 0 /\ Expired(values[b]) THEN 0 ELSE values[b]]
     IN /\ handling' = [handling EXCEPT ![a] = [event |-> event, state |-> live[a]]]
        /\ values' = IF event \in {"error", "complete"} THEN [live EXCEPT ![a] = 0] ELSE live
  /\ UNCHANGED <<request, onclose, receiver, log, missed, leftover>>

Handles(a, event) ==
  /\ handling[a].event = event
  /\ handling' = [handling EXCEPT ![a] = Nothing]
  /\ UNCHANGED <<request, stage, leftover>>

State(a) == handling[a].state
Usable(a) == State(a) # 0 /\ receiver[State(a)] = "open"
Given(a, kind) == log' = [log EXCEPT ![State(a)] = Append(@, [kind |-> kind, request |-> request[a]])]

\* The end of the handler when something was thrown or no receiver was made:
\* the receiver is reset, onclose cleared, the response ended.
Fails(a, s) ==
  /\ receiver' = [r \in Requests |-> IF r = s THEN "reset" ELSE receiver[r]]
  /\ onclose' = [onclose EXCEPT ![a] = 0]

OnError(a) ==
  /\ Handles(a, "error") /\ onclose' = [onclose EXCEPT ![a] = 0]
  /\ UNCHANGED <<values, receiver, log, missed>>

\* The factory makes a receiver; or it makes none, throws, or finds no writer.
OnHeaders(a) ==
  /\ Handles(a, "headers")
  /\ \/ /\ receiver' = [receiver EXCEPT ![request[a]] = "open"]
        /\ onclose' = [onclose EXCEPT ![a] = request[a]]
        /\ values' = [values EXCEPT ![a] = request[a]]
     \/ Fails(a, request[a]) /\ UNCHANGED values
  /\ UNCHANGED <<log, missed>>

\* A piece without a receiver is skipped; write() takes it or throws.
OnPiece(a) ==
  /\ Handles(a, "piece") /\ UNCHANGED values
  /\ \/ ~Usable(a) /\ missed' = missed \cup {request[a]} /\ UNCHANGED <<receiver, onclose, log>>
     \/ Usable(a) /\ Given(a, "write") /\ UNCHANGED <<receiver, onclose, missed>>
     \/ Usable(a) /\ Given(a, "threw") /\ Fails(a, State(a)) /\ UNCHANGED missed

\* MiddlewareChain::run: the final handler is reached if every function calls next.
Reaches(chain) == \A i \in 1 .. Middlewares : chain[i] = "next"

\* Mutant: onclose, which owns the state, is left set.
ReleaseNothing(a) == onclose' = onclose
Release(a) == onclose' = [onclose EXCEPT ![a] = 0]

OnComplete(a) ==
  /\ Handles(a, "complete") /\ UNCHANGED <<values, missed>>
  /\ \/ ~Usable(a) /\ Fails(a, State(a)) /\ UNCHANGED log
     \/ /\ Usable(a)
        /\ \E chain \in [1 .. Middlewares -> {"next", "answer"}] :
             IF Reaches(chain) THEN Given(a, "complete") ELSE UNCHANGED log
        /\ Release(a) /\ UNCHANGED receiver
     \/ Usable(a) /\ Given(a, "threw") /\ Fails(a, State(a))

Next ==
  \E a \in Addresses :
    \/ \E r \in Requests : NewRequest(a, r)
    \/ Reject(a) \/ Close(a) \/ StreamCleanup(a)
    \/ \E event \in {"headers", "piece", "complete", "error"} : Lookup(a, event)
    \/ OnError(a) \/ OnHeaders(a) \/ OnPiece(a) \/ OnComplete(a)

Spec == Init /\ [][Next]_vars

-----------------------------------------------------------------------------
(* Properties *)

\* A receiver is given the pieces and the completion of its own request only,
\* whoever used the address before, and nothing after it was completed or threw;
\* one that is completed was given every piece, also when a late cleanup has
\* taken its owner away in the middle of the body.
OwnBodyOnly ==
  \A s \in Requests : \A i \in 1 .. Len(log[s]) :
    /\ log[s][i].request = s
    /\ log[s][i].kind # "write" => i = Len(log[s])
    /\ log[s][i].kind = "complete" => s \notin missed

\* A receiver is released as soon as its request is over: completed, failed,
\* broken off or closed; one that a global middleware rejected, when the next
\* request begins.
ReceiverReleased ==
  \A s \in Requests : receiver[s] = "open" /\ Alive(s) =>
    \E a \in Addresses : request[a] = s /\ (stage[a] \in {"body", "rejected"} \/ ~Free(a))
=============================================================================
