-------------------------- MODULE RequestBodyProofs --------------------------
(***************************************************************************)
(* Proofs about RequestBody for any number of connections, requests,       *)
(* middlewares and pieces.                                                 *)
(***************************************************************************)
EXTENDS RequestBody, TLAPS

Entry == [kind : {"write", "threw", "complete"}, request : Requests]
Names == Requests \cup {0}

BodyTypeOK ==
  /\ request \in [Addresses -> Names]
  /\ stage \in [Addresses -> {"idle", "headers", "body", "over", "rejected", "closed"}]
  /\ handling \in [Addresses -> [event : {"none", "headers", "piece", "complete", "error"},
                                 state : Names]]
  /\ values \in [Addresses -> Names] /\ onclose \in [Addresses -> Names]
  /\ receiver \in [Requests -> {"none", "open", "reset"}]
  /\ log \in [Requests -> Seq(Entry)] /\ missed \subseteq Requests

Event(a) == handling[a].event

(* No two addresses work for one request; what the writer owns and what the *)
(* handler has locked is the state of the address's own request; an entry   *)
(* of the table never names the request another address works for.          *)
Ownership ==
  \A a \in Addresses :
    /\ stage[a] # "idle" => request[a] # 0
    /\ onclose[a] \in {0, request[a]} /\ State(a) \in {0, request[a]}
    /\ Event(a) = "none" => State(a) = 0
    /\ \A b \in Addresses : request[b] # 0 /\ request[b] \in {request[a], values[a]} => a = b

(* A name at most as high as one in use was given away before. *)
GivenAway(s) == \E b \in Addresses : s <= request[b]

(* A request that has not begun has left no trace. *)
Freshness ==
  /\ \A a \in Addresses : values[a] # 0 => GivenAway(values[a])
  /\ \A s \in Requests :
       log[s] # <<>> \/ s \in missed \/ receiver[s] # "none" => GivenAway(s)

(* The parser's order, as the handler sees it. *)
Parsing ==
  \A a \in Addresses :
    /\ Event(a) # "none" => stage[a] \in {"body", "over"}
    /\ Event(a) \in {"headers", "piece"} => stage[a] = "body"
    /\ Event(a) = "complete" => stage[a] = "over"
    /\ Event(a) = "piece" => values[a] = State(a)
    /\ stage[a] = "headers" \/ Event(a) = "headers" =>
         log[request[a]] = <<>> /\ request[a] \notin missed /\ receiver[request[a]] = "none"

(* A request of which a piece was missed has lost its receiver for good. *)
MissedUnusable ==
  \A a \in Addresses : request[a] \in missed =>
    receiver[request[a]] # "open" \/ (values[a] = 0 /\ State(a) = 0)

(* The parser has nothing more for the receiver of s. *)
NoMore(s) ==
  \A a \in Addresses : request[a] = s =>
    stage[a] \notin {"headers", "body"} /\ Event(a) \in {"none", "error"}

LogRules ==
  \A s \in Requests : \A i \in 1 .. Len(log[s]) :
    /\ log[s][i].request = s
    /\ log[s][i].kind # "write" => i = Len(log[s])
    /\ log[s][i].kind = "threw" => receiver[s] # "open"
    /\ log[s][i].kind = "complete" => s \notin missed /\ NoMore(s)

OpenIsBusy ==
  \A a \in Addresses : onclose[a] # 0 /\ receiver[onclose[a]] = "open" =>
    stage[a] \in {"body", "rejected"} \/ Event(a) # "none"

BodyInv ==
  /\ BodyTypeOK /\ Ownership /\ Freshness /\ Parsing
  /\ MissedUnusable /\ LogRules /\ OpenIsBusy

-----------------------------------------------------------------------------
(* Names are numbers, so that they can be compared. *)
LEMMA NamesAreNumbers == Names \subseteq Nat /\ 0 \notin Requests
BY BodyConstants DEF Names

(* Nothing has begun. *)
LEMMA InitHolds == Init => BodyInv
<1> SUFFICES ASSUME Init PROVE BodyInv
  OBVIOUS
<1> USE DEF Init, Nothing, State, Event
<1>1. BodyTypeOK
  BY DEF BodyTypeOK, Names
<1>2. Ownership
  BY DEF Ownership
<1>3. Freshness /\ Parsing /\ MissedUnusable /\ OpenIsBusy
  BY DEF Freshness, Parsing, MissedUnusable, OpenIsBusy
<1>4. LogRules
  BY DEF LogRules
<1> QED BY <1>1, <1>2, <1>3, <1>4 DEF BodyInv

(* A new request begins at an address: no state made before belongs to it. *)
LEMMA NewRequestKeeps ==
  ASSUME BodyInv, NEW a \in Addresses, NEW r \in Requests, NewRequest(a, r)
  PROVE  BodyInv'
<1> USE NamesAreNumbers DEF BodyInv, NewRequest, State, Event
<1>1. BodyTypeOK'
  BY DEF BodyTypeOK, Names
<1>2. /\ \A b \in Addresses : request[b] < r
      /\ request' = [request EXCEPT ![a] = r] /\ request \in [Addresses -> Names]
  BY DEF Used, BodyTypeOK
<1>3. ~GivenAway(r) /\ \A s \in Names : GivenAway(s) => GivenAway(s)'
  <2>1. r \in Nat /\ \A b \in Addresses : request[b] \in Nat
    BY <1>2 DEF Names
  <2>2. ~GivenAway(r)
    BY <1>2, <2>1 DEF GivenAway
  <2>3. ASSUME NEW s \in Names, NEW b \in Addresses, s <= request[b] PROVE GivenAway(s)'
    <3>1. s \in Nat /\ s <= r /\ request'[a] = r
      BY <1>2, <2>1, <2>3
    <3>2. b # a => request'[b] = request[b]
      BY <1>2
    <3> QED BY <2>3, <3>1, <3>2 DEF GivenAway
  <2> QED BY <2>2, <2>3 DEF GivenAway
<1>4. log[r] = <<>> /\ r \notin missed /\ receiver[r] = "none" /\ \A b \in Addresses : values[b] # r
  BY <1>3 DEF Freshness
<1>5. Event(a) = "none" /\ State(a) = 0
  BY DEF Free, Nothing
<1>6. Ownership'
  <2>1. r # 0 /\ \A b \in Addresses : request[b] # r
    BY <1>2 DEF Names
  <2>2. ASSUME NEW b \in Addresses PROVE
          /\ stage'[b] # "idle" => request'[b] # 0
          /\ onclose'[b] \in {0, request'[b]} /\ State(b)' \in {0, request'[b]}
          /\ Event(b)' = "none" => State(b)' = 0
    BY <1>2, <1>5, <2>1 DEF Ownership, BodyTypeOK
  <2>3. ASSUME NEW b \in Addresses, NEW d \in Addresses, request'[d] # 0,
               request'[d] \in {request'[b], values'[b]}
        PROVE  b = d
    BY <1>2, <1>4, <2>1, <2>3 DEF Ownership
  <2> QED BY <2>2, <2>3 DEF Ownership
<1>7. Freshness'
  BY <1>3 DEF Freshness, BodyTypeOK, Names
<1>8. Parsing'
  BY <1>2, <1>4, <1>5 DEF Parsing, BodyTypeOK
<1>9. MissedUnusable'
  BY <1>2, <1>4, <1>5 DEF MissedUnusable, BodyTypeOK
<1>10. LogRules'
  <2>1. ASSUME NEW s \in Requests, s # r PROVE NoMore(s) => NoMore(s)'
    BY <1>2, <2>1 DEF NoMore, BodyTypeOK
  <2> QED BY <1>4, <2>1 DEF LogRules
<1>11. OpenIsBusy'
  BY <1>2 DEF OpenIsBusy, BodyTypeOK
<1> QED BY <1>1, <1>6, <1>7, <1>8, <1>9, <1>10, <1>11

(* A global middleware rejects a request in the middle of its body. *)
LEMMA RejectKeeps ==
  ASSUME BodyInv, NEW a \in Addresses, Reject(a)
  PROVE  BodyInv'
<1> USE NamesAreNumbers DEF BodyInv, Reject, table, State, Event
<1>1. BodyTypeOK'
  BY DEF BodyTypeOK
<1>2. Event(a) = "none"
  BY DEF Free, Nothing
<1>3. Ownership' /\ Freshness'
  BY DEF Ownership, Freshness, GivenAway, BodyTypeOK
<1>4. Parsing' /\ MissedUnusable' /\ OpenIsBusy'
  BY <1>2 DEF Parsing, MissedUnusable, OpenIsBusy, BodyTypeOK
<1>5. LogRules'
  <2>1. \A s \in Requests : NoMore(s) => NoMore(s)'
    BY DEF NoMore, BodyTypeOK
  <2> QED BY <2>1 DEF LogRules
<1> QED BY <1>1, <1>3, <1>4, <1>5

(* The connection closes: onclose resets the receiver it owns. *)
LEMMA CloseKeeps ==
  ASSUME BodyInv, NEW a \in Addresses, Close(a)
  PROVE  BodyInv'
<1> USE NamesAreNumbers DEF BodyInv, Close, State, Event
<1>1. BodyTypeOK'
  BY DEF BodyTypeOK
<1>2. Event(a) = "none"
  BY DEF Free, Nothing
<1>3. Ownership'
  BY DEF Ownership, BodyTypeOK
<1>4. Freshness'
  <2>1. ASSUME NEW s \in Requests, s = onclose[a] PROVE GivenAway(s)
    BY <2>1 DEF GivenAway, Ownership, BodyTypeOK
  <2> QED BY <2>1 DEF Freshness, GivenAway, BodyTypeOK
<1>5. Parsing'
  BY <1>2 DEF Parsing, Ownership, BodyTypeOK, Names
<1>6. MissedUnusable'
  BY DEF MissedUnusable, BodyTypeOK
<1>7. LogRules'
  <2>1. \A s \in Requests : NoMore(s) => NoMore(s)'
    BY DEF NoMore, BodyTypeOK
  <2> QED BY <2>1 DEF LogRules, BodyTypeOK
<1>8. OpenIsBusy'
  BY DEF OpenIsBusy, BodyTypeOK, Names
<1> QED BY <1>1, <1>3, <1>4, <1>5, <1>6, <1>7, <1>8

(* The late cleanup of a finished download takes the owner away. *)
LEMMA StreamCleanupKeeps ==
  ASSUME BodyInv, NEW a \in Addresses, StreamCleanup(a)
  PROVE  BodyInv'
<1> USE NamesAreNumbers DEF BodyInv, StreamCleanup, State, Event
<1>1. BodyTypeOK'
  BY DEF BodyTypeOK, Names
<1>2. Ownership' /\ Freshness'
  BY DEF Ownership, Freshness, GivenAway, BodyTypeOK
<1>3. Parsing' /\ MissedUnusable' /\ OpenIsBusy'
  BY DEF Parsing, MissedUnusable, OpenIsBusy, BodyTypeOK
<1>4. LogRules'
  BY DEF LogRules, NoMore
<1> QED BY <1>1, <1>2, <1>3, <1>4

(* Under the mutex: the entries that remain are those of live states, so    *)
(* the one found at an address belongs to the request the address works for. *)
LEMMA LookupKeeps ==
  ASSUME BodyInv, NEW a \in Addresses,
         NEW event \in {"headers", "piece", "complete", "error"}, Lookup(a, event)
  PROVE  BodyInv'
<1> DEFINE live == [b \in Addresses |-> IF values[b] # 0 /\ Expired(values[b]) THEN 0 ELSE values[b]]
<1> USE NamesAreNumbers DEF BodyInv, State, Event
<1>1. /\ Event(a) = "none" /\ State(a) = 0
      /\ stage' = [stage EXCEPT ![a] = StageAfter(event)]
      /\ handling' = [handling EXCEPT ![a] = [event |-> event, state |-> live[a]]]
      /\ values' = IF event \in {"error", "complete"} THEN [live EXCEPT ![a] = 0] ELSE live
      /\ UNCHANGED <<request, onclose, receiver, log, missed>>
  BY DEF Lookup, Free, Nothing
<1>2. /\ event = "headers" => stage[a] = "headers"
      /\ event \in {"piece", "complete"} => stage[a] = "body"
      /\ event = "error" => stage[a] \in {"headers", "body", "closed"}
  BY DEF Lookup, Arrives
<1>3. ASSUME NEW b \in Addresses
      PROVE  /\ live[b] \in {0, values[b]} /\ live[b] \in {0, request[b]}
             /\ values[b] = State(b) => live[b] = values[b]
  <2>1. live[b] # 0 => live[b] = values[b] /\ Alive(values[b])
    BY DEF Expired
  <2>2. live[b] # 0 => live[b] = request[b]
    BY <2>1 DEF Alive, Ownership, BodyTypeOK
  <2>3. values[b] = State(b) => live[b] = values[b]
    BY DEF Alive, Expired
  <2>4. live[b] \in {0, values[b]}
    OBVIOUS
  <2> QED BY <2>2, <2>3, <2>4
<1>4. live \in [Addresses -> Names]
  BY DEF BodyTypeOK, Names
<1> HIDE DEF live
<1>5. \A b \in Addresses : values'[b] \in {0, live[b]} /\ (event \in {"headers", "piece"} \/ b # a => values'[b] = live[b])
  BY <1>1, <1>4
<1>6. /\ \A b \in Addresses \ {a} : stage'[b] = stage[b] /\ handling'[b] = handling[b]
      /\ stage'[a] = StageAfter(event) /\ Event(a)' = event /\ State(a)' = live[a]
  BY <1>1 DEF BodyTypeOK
<1>7. BodyTypeOK'
  <2>1. values' \in [Addresses -> Names]
    BY <1>1, <1>4 DEF Names
  <2>2. stage' \in [Addresses -> {"idle", "headers", "body", "over", "rejected", "closed"}]
    BY <1>1 DEF BodyTypeOK, StageAfter
  <2>3. handling' \in [Addresses -> [event : {"none", "headers", "piece", "complete", "error"},
                                     state : Names]]
    BY <1>1, <1>4 DEF BodyTypeOK
  <2> QED BY <1>1, <2>1, <2>2, <2>3 DEF BodyTypeOK
<1>8. Ownership'
  <2>1. request[a] # 0
    BY <1>2 DEF Ownership
  <2> QED BY <1>1, <1>3, <1>5, <1>6, <2>1 DEF Ownership, BodyTypeOK
<1>9. Freshness'
  BY <1>1, <1>3, <1>5 DEF Freshness, GivenAway
<1>10. Parsing'
  BY <1>1, <1>2, <1>3, <1>5, <1>6 DEF Parsing, StageAfter
<1>11. MissedUnusable'
  BY <1>1, <1>3, <1>5, <1>6 DEF MissedUnusable
<1>12. LogRules'
  <2>1. \A s \in Requests : NoMore(s) => NoMore(s)'
    BY <1>1, <1>2, <1>6 DEF NoMore, StageAfter
  <2> QED BY <1>1, <2>1 DEF LogRules
<1>13. OpenIsBusy'
  BY <1>1, <1>6 DEF OpenIsBusy
<1> QED BY <1>7, <1>8, <1>9, <1>10, <1>11, <1>12, <1>13

(* What ends every branch of the handler: the address is free again. *)
LEMMA HandlesDoes ==
  ASSUME BodyInv, NEW a \in Addresses, NEW event \in {"headers", "piece", "complete", "error"},
         Handles(a, event)
  PROVE  /\ handling' \in [Addresses -> [event : {"none", "headers", "piece", "complete", "error"},
                                         state : Names]]
         /\ Event(a) = event /\ Event(a)' = "none" /\ State(a)' = 0
         /\ request[a] \in Requests /\ State(a) \in {0, request[a]}
         /\ stage[a] \in {"body", "over"}
         /\ \A b \in Addresses \ {a} : handling'[b] = handling[b] /\ request[b] # request[a]
         /\ UNCHANGED <<request, stage>>
<1> USE NamesAreNumbers DEF BodyInv, State, Event, Handles, Nothing
<1>1. handling' \in [Addresses -> [event : {"none", "headers", "piece", "complete", "error"},
                                   state : Names]]
  BY DEF BodyTypeOK, Names
<1>2. Event(a) = event /\ Event(a)' = "none" /\ State(a)' = 0
  BY DEF BodyTypeOK
<1>3. stage[a] \in {"body", "over"} /\ State(a) \in {0, request[a]} /\ request[a] \in Requests
  BY <1>2 DEF Parsing, Ownership, BodyTypeOK, Names
<1>4. \A b \in Addresses \ {a} : handling'[b] = handling[b] /\ request[b] # request[a]
  BY <1>3 DEF BodyTypeOK, Ownership
<1> QED BY <1>1, <1>2, <1>3, <1>4

(* A branch of the handler that makes no receiver: the receiver of the      *)
(* address's request is as before or reset, and loses its owner unless a    *)
(* piece was handled.                                                       *)
LEMMA HandledKeeps ==
  ASSUME BodyInv, NEW a \in Addresses, NEW event \in {"headers", "piece", "complete", "error"},
         Handles(a, event), UNCHANGED values,
         \/ onclose' = [onclose EXCEPT ![a] = 0]
         \/ event = "piece" /\ UNCHANGED onclose,
         receiver' \in [Requests -> {"none", "open", "reset"}],
         \A s \in Requests : receiver'[s] = receiver[s] \/ (s = request[a] /\ receiver'[s] = "reset"),
         log' \in [Requests -> Seq(Entry)],
         \A s \in Requests : log'[s] = log[s] \/ s = request[a],
         \/ UNCHANGED missed
         \/ event = "piece" /\ ~Usable(a) /\ missed' = missed \cup {request[a]}
  PROVE  BodyTypeOK' /\ Ownership' /\ Freshness' /\ Parsing' /\ MissedUnusable' /\ OpenIsBusy'
<1> USE HandlesDoes, NamesAreNumbers DEF BodyInv
<1>1. \A b \in Addresses : onclose'[b] = onclose[b] \/ onclose'[b] = 0
  BY DEF BodyTypeOK
<1>2. BodyTypeOK'
  <2>1. onclose' \in [Addresses -> Names]
    BY DEF BodyTypeOK, Names
  <2>2. missed' \subseteq Requests
    BY DEF BodyTypeOK
  <2> QED BY <2>1, <2>2 DEF BodyTypeOK
<1>3. Ownership'
  BY <1>1 DEF Ownership, State, Event
<1>4. Freshness'
  <2>1. GivenAway(request[a])
    <3>1. request[a] \in Nat
      BY DEF Names
    <3> QED BY <3>1 DEF GivenAway
  <2>2. \A s \in Names : GivenAway(s)' <=> GivenAway(s)
    BY DEF GivenAway
  <2>3. \A b \in Addresses : values'[b] # 0 => GivenAway(values[b])
    BY DEF Freshness
  <2>4. \A s \in Requests :
          log'[s] # <<>> \/ s \in missed' \/ receiver'[s] # "none" => GivenAway(s)
    BY <2>1 DEF Freshness
  <2> QED BY <2>2, <2>3, <2>4 DEF Freshness, BodyTypeOK, Names
<1>5. Parsing'
  <2>1. ASSUME NEW b \in Addresses \ {a}, request[b] \in Requests
        PROVE  /\ log'[request[b]] = log[request[b]] /\ receiver'[request[b]] = receiver[request[b]]
               /\ request[b] \in missed' <=> request[b] \in missed
    BY <2>1
  <2>2. \A b \in Addresses : stage[b] # "idle" => request[b] \in Requests
    BY DEF Ownership, BodyTypeOK, Names
  <2> QED BY <2>1, <2>2 DEF Parsing, State, Event
<1>6. MissedUnusable'
  <2>1. ASSUME NEW b \in Addresses \ {a}, request[b] \in missed'
        PROVE  receiver'[request[b]] # "open" \/ (values'[b] = 0 /\ State(b)' = 0)
    BY <2>1 DEF MissedUnusable, State, BodyTypeOK
  <2>2. ASSUME request[a] \in missed'
        PROVE  receiver'[request[a]] # "open" \/ (values'[a] = 0 /\ State(a)' = 0)
    BY <2>2 DEF MissedUnusable, Parsing, Usable, State, Event
  <2> QED BY <2>1, <2>2 DEF MissedUnusable
<1>7. OpenIsBusy'
  <2>1. ASSUME NEW b \in Addresses \ {a}, onclose'[b] # 0, receiver'[onclose'[b]] = "open"
        PROVE  stage'[b] \in {"body", "rejected"} \/ Event(b)' # "none"
    BY <1>1, <2>1 DEF OpenIsBusy, Event, BodyTypeOK, Names
  <2>2. onclose'[a] = 0 \/ stage'[a] = "body"
    BY DEF BodyTypeOK, Parsing
  <2> QED BY <2>1, <2>2 DEF OpenIsBusy
<1> QED BY <1>2, <1>3, <1>4, <1>5, <1>6, <1>7

(* The parser's end of a request is not taken back by the handler. *)
LEMMA NoMoreStays ==
  ASSUME BodyInv, NEW a \in Addresses, NEW event \in {"headers", "piece", "complete", "error"},
         Handles(a, event), NEW s \in Requests, NoMore(s)
  PROVE  NoMore(s)'
BY HandlesDoes DEF NoMore, Event

(* A receiver that is given nothing keeps its history. *)
LEMMA SilentKeepsLog ==
  ASSUME BodyInv, NEW a \in Addresses, NEW event \in {"headers", "piece", "complete", "error"},
         Handles(a, event), UNCHANGED log,
         \A s \in Requests : receiver'[s] = receiver[s] \/ receiver'[s] = "reset",
         UNCHANGED missed \/ (event = "piece" /\ missed' = missed \cup {request[a]})
  PROVE  LogRules'
<1> SUFFICES ASSUME NEW s \in Requests, NEW i \in 1 .. Len(log[s])
             PROVE  /\ log[s][i].request = s
                    /\ log[s][i].kind # "write" => i = Len(log[s])
                    /\ log[s][i].kind = "threw" => receiver'[s] # "open"
                    /\ log[s][i].kind = "complete" => s \notin missed' /\ NoMore(s)'
  BY DEF LogRules
<1>1. /\ log[s][i].request = s
      /\ log[s][i].kind # "write" => i = Len(log[s])
      /\ log[s][i].kind = "threw" => receiver[s] # "open"
      /\ log[s][i].kind = "complete" => s \notin missed /\ NoMore(s)
  BY DEF BodyInv, LogRules
<1>2. event = "piece" /\ NoMore(s) => s # request[a]
  BY HandlesDoes DEF NoMore
<1> QED BY <1>1, <1>2, NoMoreStays

(* A usable receiver is given a piece or the completion of its own request, *)
(* after nothing but pieces.                                                *)
LEMMA GivenKeepsLog ==
  ASSUME BodyInv, NEW a \in Addresses, NEW event \in {"piece", "complete"},
         Handles(a, event), Usable(a), UNCHANGED missed,
         NEW kind \in {"write", "threw", "complete"}, Given(a, kind),
         kind = "complete" => event = "complete",
         kind = "threw" => receiver'[request[a]] = "reset",
         \A s \in Requests : receiver'[s] = receiver[s] \/ receiver'[s] = "reset"
  PROVE  /\ LogRules' /\ log' \in [Requests -> Seq(Entry)]
         /\ \A s \in Requests : log'[s] = log[s] \/ s = request[a]
<1> DEFINE r == request[a]
           e == [kind |-> kind, request |-> r]
<1>1. State(a) = r /\ r \in Requests /\ Event(a) = event /\ receiver[r] = "open"
  BY HandlesDoes DEF Usable
<1>2. e \in Entry /\ log \in [Requests -> Seq(Entry)] /\ log[r] \in Seq(Entry)
  BY <1>1 DEF Entry, BodyInv, BodyTypeOK
<1>3. log' = [log EXCEPT ![r] = Append(log[r], e)]
  BY <1>1 DEF Given
<1>4. log' \in [Requests -> Seq(Entry)] /\ \A s \in Requests : s # r => log'[s] = log[s]
  <2>1. Append(log[r], e) \in Seq(Entry)
    BY <1>2
  <2> HIDE DEF r, e
  <2> QED BY <1>1, <1>2, <1>3, <2>1
<1>5. log'[r] = Append(log[r], e)
  BY <1>1, <1>2, <1>3
<1>6. ASSUME NEW i \in 1 .. Len(log[r]) PROVE log[r][i].kind = "write" /\ log[r][i].request = r
  <2>1. log[r][i] \in Entry
    BY <1>2
  <2>2. log[r][i].kind # "threw"
    BY <1>1 DEF BodyInv, LogRules
  <2>3. ~NoMore(r)
    BY <1>1 DEF NoMore
  <2>4. log[r][i].kind # "complete" /\ log[r][i].request = r
    BY <1>1, <2>3 DEF BodyInv, LogRules
  <2> QED BY <2>1, <2>2, <2>4 DEF Entry
<1>7. ASSUME NEW s \in Requests, s = r, kind = "complete" PROVE s \notin missed /\ NoMore(s)'
  <2>1. r \notin missed
    BY <1>1, NamesAreNumbers DEF BodyInv, MissedUnusable
  <2>2. stage[a] = "over"
    BY <1>1, <1>7 DEF BodyInv, Parsing
  <2> QED BY <1>7, <2>1, <2>2, HandlesDoes DEF NoMore, Event
<1>8. ASSUME NEW s \in Requests, NEW i \in 1 .. Len(log'[s])
      PROVE  /\ log'[s][i].request = s
             /\ log'[s][i].kind # "write" => i = Len(log'[s])
             /\ log'[s][i].kind = "threw" => receiver'[s] # "open"
             /\ log'[s][i].kind = "complete" => s \notin missed' /\ NoMore(s)'
  <2>1. CASE s # r
    <3>1. log'[s] = log[s]
      BY <1>4, <2>1
    <3>2. /\ log[s][i].request = s
          /\ log[s][i].kind # "write" => i = Len(log[s])
          /\ log[s][i].kind = "threw" => receiver[s] # "open"
          /\ log[s][i].kind = "complete" => s \notin missed /\ NoMore(s)
      BY <3>1 DEF BodyInv, LogRules
    <3> QED BY <3>1, <3>2, NoMoreStays
  <2>2. CASE s = r /\ i = Len(log[r]) + 1
    <3>1. log'[s][i] = e /\ Len(log'[s]) = i
      BY <1>2, <1>5, <2>2
    <3> QED BY <1>7, <2>2, <3>1
  <2>3. CASE s = r /\ i # Len(log[r]) + 1
    <3>1. i \in 1 .. Len(log[r]) /\ log'[s][i] = log[r][i]
      BY <1>2, <1>5, <2>3
    <3> QED BY <1>6, <2>3, <3>1
  <2> QED BY <2>1, <2>2, <2>3
<1>9. LogRules'
  BY <1>8 DEF LogRules
<1> QED BY <1>4, <1>9

(* The connection broke: the state loses its owner. *)
LEMMA OnErrorKeeps ==
  ASSUME BodyInv, NEW a \in Addresses, OnError(a)
  PROVE  BodyInv'
<1>1. Handles(a, "error") /\ onclose' = [onclose EXCEPT ![a] = 0]
      /\ UNCHANGED <<values, receiver, log, missed>>
  BY DEF OnError
<1>2. receiver \in [Requests -> {"none", "open", "reset"}] /\ log \in [Requests -> Seq(Entry)]
  BY DEF BodyInv, BodyTypeOK
<1>3. BodyTypeOK' /\ Ownership' /\ Freshness' /\ Parsing' /\ MissedUnusable' /\ OpenIsBusy'
  BY <1>1, <1>2, HandledKeeps
<1>4. LogRules'
  BY <1>1, SilentKeepsLog
<1> QED BY <1>3, <1>4 DEF BodyInv

(* Ending the response resets the receiver and takes its owner away. *)
LEMMA FailsDoes ==
  ASSUME BodyInv, NEW a \in Addresses, NEW t \in {0, request[a]}, Fails(a, t)
  PROVE  /\ receiver' \in [Requests -> {"none", "open", "reset"}]
         /\ \A s \in Requests :
              /\ receiver'[s] = receiver[s] \/ (s = request[a] /\ receiver'[s] = "reset")
              /\ s = t => receiver'[s] = "reset"
         /\ onclose' = [onclose EXCEPT ![a] = 0]
BY NamesAreNumbers DEF BodyInv, BodyTypeOK, Fails

(* The headers: the state is made for the request the address works for. *)
LEMMA OnHeadersKeeps ==
  ASSUME BodyInv, NEW a \in Addresses, OnHeaders(a)
  PROVE  BodyInv'
<1>1. Handles(a, "headers") /\ UNCHANGED <<log, missed>>
  BY DEF OnHeaders
<1>2. log \in [Requests -> Seq(Entry)]
  BY DEF BodyInv, BodyTypeOK
<1>3. CASE Fails(a, request[a]) /\ UNCHANGED values
  <2>1. BodyTypeOK' /\ Ownership' /\ Freshness' /\ Parsing' /\ MissedUnusable' /\ OpenIsBusy'
    BY <1>1, <1>2, <1>3, FailsDoes, HandledKeeps
  <2>2. LogRules'
    BY <1>1, <1>3, FailsDoes, SilentKeepsLog
  <2> QED BY <2>1, <2>2 DEF BodyInv
<1>4. CASE /\ receiver' = [receiver EXCEPT ![request[a]] = "open"]
           /\ onclose' = [onclose EXCEPT ![a] = request[a]]
           /\ values' = [values EXCEPT ![a] = request[a]]
  <2> USE HandlesDoes, NamesAreNumbers, <1>1, <1>4 DEF BodyInv
  <2>1. log[request[a]] = <<>> /\ request[a] \notin missed /\ stage[a] = "body"
    BY DEF Parsing
  <2>2. BodyTypeOK'
    BY DEF BodyTypeOK, Names
  <2>3. /\ \A b \in Addresses \ {a} : onclose'[b] = onclose[b] /\ values'[b] = values[b]
        /\ onclose'[a] = request[a] /\ values'[a] = request[a]
        /\ \A s \in Requests : s # request[a] => receiver'[s] = receiver[s]
    BY DEF BodyTypeOK
  <2>4. Ownership'
    BY <2>3 DEF Ownership, State, Event
  <2>5. Freshness'
    <3>1. GivenAway(request[a])
      <4>1. request[a] \in Nat
        BY DEF Names
      <4> QED BY <4>1 DEF GivenAway
    <3> QED BY <2>3, <3>1 DEF Freshness, GivenAway
  <2>6. Parsing'
    <3>1. \A b \in Addresses : stage[b] # "idle" => request[b] \in Requests
      BY DEF Ownership, BodyTypeOK, Names
    <3> QED BY <2>1, <2>3, <3>1 DEF Parsing, State, Event
  <2>7. MissedUnusable'
    BY <2>1, <2>3 DEF MissedUnusable, State, BodyTypeOK
  <2>8. LogRules'
    <3>1. \A s \in Requests : NoMore(s) => NoMore(s)'
      BY NoMoreStays
    <3> QED BY <2>1, <2>3, <3>1 DEF LogRules
  <2>9. OpenIsBusy'
    <3>1. ASSUME NEW b \in Addresses \ {a}, onclose'[b] # 0, receiver'[onclose'[b]] = "open"
          PROVE  stage'[b] \in {"body", "rejected"} \/ Event(b)' # "none"
      <4>1. onclose[b] = request[b] /\ request[b] \in Requests /\ request[b] # request[a]
        BY <2>3, <3>1 DEF Ownership, BodyTypeOK, Names
      <4> QED BY <2>3, <3>1, <4>1 DEF OpenIsBusy, Event
    <3> QED BY <2>1, <3>1 DEF OpenIsBusy
  <2> QED BY <2>2, <2>4, <2>5, <2>6, <2>7, <2>8, <2>9
<1> QED BY <1>3, <1>4 DEF OnHeaders

(* A piece: taken, refused with an exception, or missed. *)
LEMMA OnPieceKeeps ==
  ASSUME BodyInv, NEW a \in Addresses, OnPiece(a)
  PROVE  BodyInv'
<1> DEFINE Rest == BodyTypeOK' /\ Ownership' /\ Freshness' /\ Parsing' /\ MissedUnusable' /\ OpenIsBusy'
<1>1. Handles(a, "piece") /\ UNCHANGED values
  BY DEF OnPiece
<1>2. receiver \in [Requests -> {"none", "open", "reset"}] /\ log \in [Requests -> Seq(Entry)]
  BY DEF BodyInv, BodyTypeOK
<1>3. CASE ~Usable(a) /\ missed' = missed \cup {request[a]} /\ UNCHANGED <<receiver, onclose, log>>
  <2>1. Rest
    BY <1>1, <1>2, <1>3, HandledKeeps
  <2>2. LogRules'
    BY <1>1, <1>3, SilentKeepsLog
  <2> QED BY <2>1, <2>2 DEF BodyInv
<1>4. CASE Usable(a) /\ Given(a, "write") /\ UNCHANGED <<receiver, onclose, missed>>
  <2>1. /\ LogRules' /\ log' \in [Requests -> Seq(Entry)]
        /\ \A s \in Requests : log'[s] = log[s] \/ s = request[a]
    BY <1>1, <1>4, GivenKeepsLog
  <2>2. Rest
    BY <1>1, <1>2, <1>4, <2>1, HandledKeeps
  <2> QED BY <2>1, <2>2 DEF BodyInv
<1>5. CASE Usable(a) /\ Given(a, "threw") /\ Fails(a, State(a)) /\ UNCHANGED missed
  <2>0. State(a) = request[a] /\ request[a] \in Requests
    BY <1>1, <1>5, HandlesDoes DEF Usable
  <2>1. /\ LogRules' /\ log' \in [Requests -> Seq(Entry)]
        /\ \A s \in Requests : log'[s] = log[s] \/ s = request[a]
    BY <1>1, <1>5, <2>0, FailsDoes, GivenKeepsLog
  <2>2. Rest
    BY <1>1, <1>5, <2>0, <2>1, FailsDoes, HandledKeeps
  <2> QED BY <2>1, <2>2 DEF BodyInv
<1> QED BY <1>3, <1>4, <1>5 DEF OnPiece

(* The completion: passed on, kept by a middleware, or refused. *)
LEMMA OnCompleteKeeps ==
  ASSUME BodyInv, NEW a \in Addresses, OnComplete(a)
  PROVE  BodyInv'
<1> DEFINE Rest == BodyTypeOK' /\ Ownership' /\ Freshness' /\ Parsing' /\ MissedUnusable' /\ OpenIsBusy'
<1>1. Handles(a, "complete") /\ UNCHANGED <<values, missed>>
  BY DEF OnComplete
<1>2. receiver \in [Requests -> {"none", "open", "reset"}] /\ log \in [Requests -> Seq(Entry)]
  BY DEF BodyInv, BodyTypeOK
<1>3. State(a) \in {0, request[a]} /\ request[a] \in Requests
  BY <1>1, HandlesDoes
<1>4. CASE ~Usable(a) /\ Fails(a, State(a)) /\ UNCHANGED log
  <2>1. Rest
    BY <1>1, <1>2, <1>3, <1>4, FailsDoes, HandledKeeps
  <2>2. LogRules'
    BY <1>1, <1>3, <1>4, FailsDoes, SilentKeepsLog
  <2> QED BY <2>1, <2>2 DEF BodyInv
<1>5. CASE Usable(a) /\ Given(a, "complete") /\ Release(a) /\ UNCHANGED receiver
  <2>1. /\ LogRules' /\ log' \in [Requests -> Seq(Entry)]
        /\ \A s \in Requests : log'[s] = log[s] \/ s = request[a]
    BY <1>1, <1>5, GivenKeepsLog
  <2>2. Rest
    BY <1>1, <1>2, <1>5, <2>1, HandledKeeps DEF Release
  <2> QED BY <2>1, <2>2 DEF BodyInv
<1>6. CASE UNCHANGED log /\ Release(a) /\ UNCHANGED receiver
  <2>1. Rest
    BY <1>1, <1>2, <1>6, HandledKeeps DEF Release
  <2>2. LogRules'
    BY <1>1, <1>6, SilentKeepsLog
  <2> QED BY <2>1, <2>2 DEF BodyInv
<1>7. CASE Usable(a) /\ Given(a, "threw") /\ Fails(a, State(a))
  <2>0. State(a) = request[a]
    BY <1>3, <1>7 DEF Usable
  <2>1. /\ LogRules' /\ log' \in [Requests -> Seq(Entry)]
        /\ \A s \in Requests : log'[s] = log[s] \/ s = request[a]
    BY <1>1, <1>3, <1>7, <2>0, FailsDoes, GivenKeepsLog
  <2>2. Rest
    BY <1>1, <1>7, <2>0, <2>1, FailsDoes, HandledKeeps
  <2> QED BY <2>1, <2>2 DEF BodyInv
<1> QED BY <1>4, <1>5, <1>6, <1>7 DEF OnComplete

(* Every step keeps the inductive invariant. *)
LEMMA NextKeeps == BodyInv /\ [Next]_vars => BodyInv'
<1> SUFFICES ASSUME BodyInv, [Next]_vars PROVE BodyInv'
  OBVIOUS
<1>1. CASE Next
  <2>1. PICK a \in Addresses :
          \/ \E r \in Requests : NewRequest(a, r)
          \/ Reject(a) \/ Close(a) \/ StreamCleanup(a)
          \/ \E event \in {"headers", "piece", "complete", "error"} : Lookup(a, event)
          \/ OnError(a) \/ OnHeaders(a) \/ OnPiece(a) \/ OnComplete(a)
    BY <1>1 DEF Next
  <2> QED
    BY <2>1, NewRequestKeeps, RejectKeeps, CloseKeeps, StreamCleanupKeeps, LookupKeeps,
       OnErrorKeeps, OnHeadersKeeps, OnPieceKeeps, OnCompleteKeeps
<1>2. CASE UNCHANGED vars
  BY <1>2 DEF vars, table, BodyInv, BodyTypeOK, Ownership, Freshness, GivenAway, Parsing,
              MissedUnusable, LogRules, NoMore, OpenIsBusy, State, Event
<1> QED BY <1>1, <1>2

(* The inductive invariant holds throughout. *)
LEMMA BodyInvHolds == Spec => []BodyInv
BY InitHolds, NextKeeps, PTL DEF Spec

-----------------------------------------------------------------------------
(* The table of weak pointers in makeBodyHandler never leads a receiver to  *)
(* the body of another request, nor on after an exception, the completion   *)
(* or a missed piece, for any number of connections and requests.           *)
THEOREM BodiesStayApart == Spec => []OwnBodyOnly
<1>1. BodyInv => OwnBodyOnly
  BY DEF BodyInv, LogRules, OwnBodyOnly
<1> QED BY <1>1, BodyInvHolds, PTL

(* A receiver is kept alive only by the address that works for its request, *)
(* and only until that request is over.                                     *)
THEOREM ReceiversAreReleased == Spec => []ReceiverReleased
<1>1. BodyInv => ReceiverReleased
  <2> SUFFICES ASSUME BodyInv, NEW s \in Requests, receiver[s] = "open", NEW a \in Addresses,
                      onclose[a] = s \/ handling[a].state = s
               PROVE  request[a] = s /\ (stage[a] \in {"body", "rejected"} \/ ~Free(a))
    BY DEF ReceiverReleased, Alive
  <2>1. request[a] = s
    BY NamesAreNumbers DEF BodyInv, Ownership, State
  <2>2. CASE onclose[a] = s
    BY <2>1, <2>2, NamesAreNumbers DEF BodyInv, OpenIsBusy, Free, Nothing, Event
  <2>3. CASE handling[a].state = s
    BY <2>1, <2>3, NamesAreNumbers DEF Free, Nothing
  <2> QED BY <2>1, <2>2, <2>3
<1> QED BY <1>1, BodyInvHolds, PTL

=============================================================================
