--------------------------- MODULE AcpServerProofs ---------------------------
(***************************************************************************)
(* Proofs about AcpServer: the types, that the tokens of the handlers are  *)
(* those of the work there is, that each request has one place that will   *)
(* answer it, and that what clients and models are told is what happened,  *)
(* for any opens, requests, kinds and bounds.                              *)
(***************************************************************************)
EXTENDS AcpServer, FiniteSetTheorems, SequenceTheorems, TLAPS

----------------------------------------------------------------------------
(* The inductive invariant.                                                *)

\* The stages of a turn that has begun.
InTurn == {"ready", "before model", "model", "asking", "tools", "settling", "finishing", "ending"}

\* TypeOK, by what its parts are about.
Sessions ==
  /\ opens \in [Opens -> {"new", "opening", "opened", "failed"}]
  /\ handle \in Opens \cup {Nobody} /\ sending \in Requests \cup {Nobody}
  /\ at \in [Opens -> Stages]
  /\ queue \in [Opens -> Seq(Requests)] /\ pending \in [Opens -> Seq(Requests)]
  /\ current \in [Opens -> Requests \cup {Nobody}]
  /\ accepting \in [Opens -> BOOLEAN] /\ steers \in [Opens -> Seq(Requests)]
Asked ==
  /\ kind \in [Requests -> Prompts \cup Steering]
  /\ cancelled \in SUBSET Requests /\ sent \in SUBSET Requests
  /\ response \in [Requests -> Answers \cup {Nobody}]
  /\ aim \in [Requests -> Requests \cup {Nobody}]
  /\ into \in [Requests -> Requests \cup {Nobody}]
Turns ==
  /\ result \in [Opens -> Results]
  /\ calls \in [Opens -> 0..MaxCalls] /\ rounds \in [Opens -> 0..MaxRounds]
  /\ unheard \in [Opens -> SUBSET (Requests \cup {"note"})]
  /\ notes \in [Opens -> BOOLEAN] /\ arrivals \in [Opens -> 0..MaxNotes]
  /\ cancels \in 0..MaxCancels
Bounded(o) == Len(queue[o]) <= MaxQueued /\ Len(steers[o]) <= MaxPending

\* A task exists when its session is opened; it has a prompt when it works,
\* and takes steering in a turn.
Staged(o) ==
  /\ opens[o] # "opened" => at[o] = "none"
  /\ at[o] = "none" => handle # o /\ queue[o] = <<>>
  /\ current[o] = Nobody <=> at[o] \in {"none", "idle"}
  /\ accepting[o] => at[o] \in InTurn
  /\ steers[o] # <<>> => accepting[o]
SendingTo == sending # Nobody => handle # Nobody

\* The tokens of a session: its prompt, those that wait, the one being sent.
Only(r) == IF r = Nobody THEN <<>> ELSE <<r>>
Matches(o) ==
  pending[o] = Only(current[o]) \o queue[o] \o (IF handle = o THEN Only(sending) ELSE <<>>)

\* Where a request is.
Places == {"handler", "channel", "turn", "steering"}
In(r, place, o) ==
  \/ place = "handler" /\ sending = r /\ handle = o
  \/ place = "channel" /\ r \in Range(queue[o])
  \/ place = "turn" /\ current[o] = r
  \/ place = "steering" /\ r \in Range(steers[o])
Nowhere(r) == \A p \in Places, o \in Opens : ~In(r, p, o)
InOne(r) ==
  \A p, q \in Places, o, w \in Opens : In(r, p, o) /\ In(r, q, w) => p = q /\ o = w

\* A request has one place at most, and one until it is answered.
Placed(r) ==
  /\ InOne(r)
  /\ r \notin sent => response[r] = Nobody /\ Nowhere(r)
  /\ r \in sent /\ response[r] = Nobody => ~Nowhere(r)
  /\ response[r] = "started new turn" =>
       kind[r] \in Steering /\ \A p \in Places, o \in Opens : In(r, p, o) => p = "turn"
  /\ response[r] \notin {Nobody, "started new turn"} => Nowhere(r)

Tokens ==
  /\ \A o \in Opens : Matches(o) /\ IsInjective(queue[o])
  /\ \A r \in Requests : Placed(r)

\* What a request is told of its input.
Truly(r) ==
  /\ \A o \in Opens : r \in Range(steers[o]) => aim[r] = current[o]
  /\ kind[r] \in Steering /\ into[r] # Nobody => response[r] \in {"injected", "started new turn"}
  /\ response[r] = "injected" => into[r] = aim[r] /\ aim[r] # Nobody

\* What the model has seen, and which calls have results.
Ran(o) ==
  /\ at[o] = "thinking" => kind[current[o]] = "/thinking"
  /\ at[o] = "compacting" => kind[current[o]] = "/compact"
  /\ at[o] \in {"asking", "tools", "settling", "finishing"} => Cancelled(o) \/ unheard[o] = {}
  /\ at[o] = "ending" =>
       Cancelled(o) \/ result[o] = "error" \/ (unheard[o] = {} /\ calls[o] = 0)
  /\ at[o] \notin {"tools", "ending"} => calls[o] = 0
  /\ at[o] = "answering" /\ kind[current[o]] \in {"prompt"} \cup Steering =>
       result[o] # "end turn" \/ unheard[o] = {}

IInv ==
  /\ Sessions /\ Asked /\ Turns /\ SendingTo
  /\ \A o \in Opens : Bounded(o) /\ Staged(o) /\ Ran(o)
  /\ Tokens /\ \A r \in Requests : Truly(r)

----------------------------------------------------------------------------
(* Facts about sequences.                                                  *)

\* The empty sequence has no elements.
LEMMA EmptyRange == Range(<<>>) = {}
  BY DEF Range

\* Append adds an element,
LEMMA AppendRange ==
  ASSUME NEW S, NEW s \in Seq(S), NEW e \in S
  PROVE  Range(Append(s, e)) = Range(s) \cup {e}
<1>1. Append(s, e) \in Seq(S) /\ Len(Append(s, e)) = Len(s) + 1 /\ Len(s) \in Nat
  BY AppendProperties
<1>2. \A i \in 1..Len(s) : Append(s, e)[i] = s[i]
  BY AppendProperties
<1>3. Append(s, e)[Len(s) + 1] = e
  BY AppendProperties
<1>4. DOMAIN s = 1..Len(s) /\ DOMAIN Append(s, e) = 1..(Len(s) + 1)
  BY <1>1
<1>5. \A i \in 1..(Len(s) + 1) : i \in 1..Len(s) \/ i = Len(s) + 1
  BY <1>1
<1>6. 1..Len(s) \subseteq 1..(Len(s) + 1) /\ Len(s) + 1 \in 1..(Len(s) + 1)
  BY <1>1
<1> QED
  BY <1>2, <1>3, <1>4, <1>5, <1>6, Zenon DEF Range

\* and keeps a sequence free of repetitions if the element is new;
LEMMA AppendInjects ==
  ASSUME NEW S, NEW s \in Seq(S), NEW e \in S, IsInjective(s), e \notin Range(s)
  PROVE  IsInjective(Append(s, e))
  BY AppendProperties DEF IsInjective, Range

\* the head of such a sequence is not in its tail.
LEMMA TailInjects ==
  ASSUME NEW S, NEW s \in Seq(S), s # <<>>, IsInjective(s)
  PROVE  /\ IsInjective(Tail(s)) /\ Head(s) \notin Range(Tail(s))
         /\ Range(s) = Range(Tail(s)) \cup {Head(s)}
         /\ Head(s) \in S /\ Tail(s) \in Seq(S) /\ Len(Tail(s)) <= Len(s)
<1>1. /\ Tail(s) \in Seq(S) /\ Len(Tail(s)) = Len(s) - 1 /\ Head(s) = s[1]
      /\ \A i \in 1..Len(Tail(s)) : Tail(s)[i] = s[i + 1]
  BY HeadTailProperties
<1>2. DOMAIN s = 1..Len(s) /\ DOMAIN Tail(s) = 1..(Len(s) - 1) /\ Len(s) \in Nat \ {0}
  BY <1>1
<1>3. IsInjective(Tail(s))
  BY <1>1, <1>2 DEF IsInjective
<1>4. Head(s) \notin Range(Tail(s))
  BY <1>1, <1>2 DEF IsInjective, Range
<1>5. ASSUME NEW i \in 1..Len(s), i # 1 PROVE s[i] \in Range(Tail(s))
  <2>1. i - 1 \in 1..(Len(s) - 1) /\ (i - 1) + 1 = i
    BY <1>2, <1>5
  <2>2. Tail(s)[i - 1] = s[i]
    BY <1>1, <2>1
  <2> QED
    BY <1>2, <2>1, <2>2 DEF Range
<1>6. \A i \in 1..(Len(s) - 1) : Tail(s)[i] \in Range(s)
  <2>1. TAKE i \in 1..(Len(s) - 1)
  <2>2. i + 1 \in 1..Len(s) /\ Tail(s)[i] = s[i + 1]
    BY <1>1, <1>2
  <2> QED
    BY <1>2, <2>2 DEF Range
<1>7. 1 \in DOMAIN s
  BY <1>2
<1> QED
  BY <1>1, <1>2, <1>3, <1>4, <1>5, <1>6, <1>7 DEF Range

\* How the tokens of a session change: the last one comes,
LEMMA TokenComes ==
  ASSUME NEW S, NEW q \in Seq(S), NEW e \in S, NEW f \in Seq(S)
  PROVE  Append((f \o q) \o <<>>, e) = (f \o q) \o <<e>>
  BY AppendProperties

\* becomes the last of the queue,
LEMMA TokenQueued ==
  ASSUME NEW S, NEW q \in Seq(S), NEW e \in S, NEW f \in Seq(S)
  PROVE  (f \o q) \o <<e>> = (f \o Append(q, e)) \o <<>>
<1>1. (f \o q) \o <<e>> = f \o (q \o <<e>>) /\ f \o (q \o <<e>>) \in Seq(S)
  BY ConcatAssociative, ConcatProperties
<1>2. Append(q, e) = q \o <<e>>
  BY AppendIsConcat
<1> QED
  BY <1>1, <1>2, ConcatEmptySeq

\* or is withdrawn;
LEMMA TokenWithdrawn ==
  ASSUME NEW S, NEW q \in Seq(S), NEW e \in S, NEW f \in Seq(S)
  PROVE  Front((f \o q) \o <<e>>) = (f \o q) \o <<>>
<1>1. f \o q \in Seq(S)
  OBVIOUS
<1>2. \A s \in Seq(S) : Front(s \o <<e>>) = s
  BY DEF Front
<1> QED
  BY <1>1, <1>2, ConcatEmptySeq

\* the first one goes.
LEMMA FirstToken ==
  ASSUME NEW S, NEW q \in Seq(S), NEW t \in Seq(S), NEW e \in S
  PROVE  Tail((<<e>> \o q) \o t) = (<<>> \o q) \o t
  OBVIOUS

\* The token of the first prompt of the queue is that of the running one once it is taken.
LEMMA HeadToken ==
  ASSUME NEW S, NEW q \in Seq(S), NEW t \in Seq(S), q # <<>>
  PROVE  (<<>> \o q) \o t = (<<Head(q)>> \o Tail(q)) \o t
  OBVIOUS

----------------------------------------------------------------------------
(* What a step of a task does to the requests.                             *)

\* Sessions have nothing to do with each other.
Alone(o) ==
  \A w \in Opens \ {o} :
    /\ at'[w] = at[w] /\ queue'[w] = queue[w] /\ pending'[w] = pending[w]
    /\ current'[w] = current[w] /\ result'[w] = result[w]
    /\ accepting'[w] = accepting[w] /\ steers'[w] = steers[w]
    /\ calls'[w] = calls[w] /\ rounds'[w] = rounds[w] /\ unheard'[w] = unheard[w]
    /\ notes'[w] = notes[w] /\ arrivals'[w] = arrivals[w]

\* A step leaves the requests where they are,
Quiet == UNCHANGED <<queue, pending, current, steers, response, into>>

\* answers those that steer the turn,
Clears(o) ==
  /\ steers' = [steers EXCEPT ![o] = <<>>] /\ UNCHANGED <<queue, pending, current>>
  /\ at[o] \in InTurn
  /\ \A r \in Requests \ Range(steers[o]) : response'[r] = response[r] /\ into'[r] = into[r]
  /\ \A r \in Range(steers[o]) :
       \/ response'[r] \in {"error", "prompt required"} /\ into'[r] = into[r]
       \/ response'[r] = "injected" /\ into'[r] = current[o]

\* gives the turn its prompt,
Starts(o) ==
  /\ at[o] = "preparing"
  /\ steers' = [steers EXCEPT ![o] = <<>>] /\ UNCHANGED <<queue, pending, current>>
  /\ into' = [into EXCEPT ![current[o]] = current[o]]
  /\ \A r \in Requests \ {current[o]} : response'[r] = response[r]
  /\ \/ kind[current[o]] \in Prompts /\ response'[current[o]] = response[current[o]]
     \/ kind[current[o]] \in Steering /\ response'[current[o]] = "started new turn"

\* takes a prompt from the channel,
Takes(o) ==
  /\ at[o] = "idle" /\ queue[o] # <<>>
  /\ current' = [current EXCEPT ![o] = Head(queue[o])]
  /\ queue' = [queue EXCEPT ![o] = Tail(queue[o])]
  /\ UNCHANGED <<pending, steers, response, into>>

\* or answers it.
Settles(o) ==
  /\ at[o] = "answering"
  /\ pending' = [pending EXCEPT ![o] = Tail(pending[o])]
  /\ current' = [current EXCEPT ![o] = Nobody]
  /\ UNCHANGED <<queue, steers, into>>
  /\ \A r \in Requests \ {current[o]} : response'[r] = response[r]
  /\ \/ kind[current[o]] \in Prompts /\ response'[current[o]] \in Results
     \/ response[current[o]] = Nobody /\ response'[current[o]] = "error"
     \/ response[current[o]] # Nobody /\ response'[current[o]] = response[current[o]]

Works(o) ==
  /\ Alone(o) /\ UNCHANGED <<server, kind, cancelled, cancels, sent, aim>>
  /\ Quiet \/ Clears(o) \/ Starts(o) \/ Takes(o) \/ Settles(o)

\* Every step of a task does one of these.
LEMMA TaskWorks ==
  ASSUME Sessions, Asked, Turns, NEW o \in Opens, Staged(o), TaskStep(o)
  PROVE  Works(o)
<1> USE RequestAssumption DEF Sessions, Asked, Turns
<1>1. at[o] # "none" => opens[o] = "opened"
  BY DEF Staged
<1>2. Alone(o)
  <2> USE DEF Alone, Goto, Conclude, Advance
  <2>1. CASE Receive(o)
    BY <2>1 DEF Receive, turn, agents
  <2>2. CASE Think(o) \/ Compact(o) \/ ReachModel(o) \/ ReachDone(o)
    <3>1. /\ UNCHANGED <<queue, pending, current, turn, agents>>
          /\ \E stage : at' = [at EXCEPT ![o] = stage]
          /\ result' = result \/ \E outcome : result' = [result EXCEPT ![o] = outcome]
      BY <2>2 DEF Think, Compact, ReachModel, ReachDone
    <3> QED
      BY <3>1 DEF turn, agents
  <2>3. CASE Respond(o)
    BY <2>3 DEF Respond, turn, agents
  <2>4. CASE Begin(o)
    <3>1. CASE Cancelled(o)
      BY <2>4, <3>1 DEF Begin, turn
    <3>2. CASE ~Cancelled(o)
      <4>1. /\ \A w \in Opens \ {o} : at'[w] = at[w] /\ accepting'[w] = accepting[w]
            /\ \A w \in Opens \ {o} : steers'[w] = steers[w] /\ notes'[w] = notes[w]
        <5>1. /\ at' = [at EXCEPT ![o] = "ready"] /\ accepting' = [accepting EXCEPT ![o] = TRUE]
              /\ steers' = [steers EXCEPT ![o] = <<>>] /\ notes' = [notes EXCEPT ![o] = FALSE]
          BY <2>4, <3>2 DEF Begin
        <5> QED
          BY <5>1
      <4>2. \A w \in Opens \ {o} : unheard'[w] = unheard[w]
        <5>1. \E heard : unheard' = [unheard EXCEPT ![o] = heard]
          BY <2>4, <3>2 DEF Begin
        <5> QED
          BY <5>1
      <4> QED
        BY <2>4, <3>2, <4>1, <4>2 DEF Begin
    <3> QED
      BY <3>1, <3>2
  <2>5. CASE AskModel(o) \/ Reply(o)
    BY <2>5 DEF AskModel, Reply, agents
  <2>6. CASE BeforeModel(o) \/ Settle(o)
    <3>1. notes' = [notes EXCEPT ![o] = FALSE] /\ steers' = [steers EXCEPT ![o] = <<>>]
      BY <2>6 DEF BeforeModel, Settle, Deliver
    <3>2. PICK settling \in BOOLEAN : Deliver(o, settling)
      BY <2>6 DEF BeforeModel, Settle
    <3>3. accepting' = [accepting EXCEPT ![o] = FALSE] \/ accepting' = accepting
      BY <3>2 DEF Deliver
    <3>4. \E heard : unheard' = [unheard EXCEPT ![o] = heard]
      BY <3>2 DEF Deliver, Inject
    <3>5. \A w \in Opens \ {o} : at'[w] = at[w]
      BY <2>6 DEF BeforeModel, Settle
    <3>6. UNCHANGED <<queue, pending, current, result, calls, rounds, arrivals>>
      BY <2>6 DEF BeforeModel, Settle
    <3> QED
      BY <3>1, <3>3, <3>4, <3>5, <3>6
  <2>7. CASE RunTools(o) \/ Interrupt(o)
    <3>1. /\ UNCHANGED <<queue, pending, current, accepting, steers, rounds, unheard, agents>>
          /\ \E left : calls' = [calls EXCEPT ![o] = left]
          /\ \E stage : at' = [at EXCEPT ![o] = stage]
          /\ result' = result \/ \E outcome : result' = [result EXCEPT ![o] = outcome]
      BY <2>7 DEF RunTools, Interrupt
    <3> QED
      BY <3>1 DEF agents
  <2>8. CASE EndTurn(o)
    BY <2>8 DEF EndTurn, agents
  <2> QED
    BY <2>1, <2>2, <2>3, <2>4, <2>5, <2>6, <2>7, <2>8 DEF TaskStep
<1>3. UNCHANGED <<server, kind, cancelled, cancels, sent, aim>>
  <2>1. CASE Receive(o) \/ Think(o) \/ Compact(o) \/ Respond(o) \/ ReachModel(o) \/ ReachDone(o)
    BY <2>1 DEF Receive, Think, Compact, Respond, ReachModel, ReachDone, client
  <2>2. CASE Begin(o) \/ AskModel(o) \/ Reply(o) \/ BeforeModel(o) \/ Settle(o)
    BY <2>2 DEF Begin, AskModel, Reply, BeforeModel, Settle, client
  <2>3. CASE RunTools(o) \/ Interrupt(o) \/ EndTurn(o)
    BY <2>3 DEF RunTools, Interrupt, EndTurn, client
  <2> QED
    BY <2>1, <2>2, <2>3 DEF TaskStep
<1>4. CASE Think(o) \/ Compact(o) \/ ReachModel(o) \/ ReachDone(o) \/ AskModel(o)
  BY <1>2, <1>3, <1>4
  DEF Think, Compact, ReachModel, ReachDone, AskModel, turn, client, Works, Quiet
<1>5. CASE Reply(o) \/ RunTools(o) \/ Interrupt(o)
  BY <1>2, <1>3, <1>5 DEF Reply, RunTools, Interrupt, client, Works, Quiet
<1>6. CASE Receive(o)
  BY <1>2, <1>3, <1>6 DEF Receive, turn, client, Works, Takes
<1>7. CASE Respond(o)
  <2>1. current[o] \in Requests
    BY <1>7 DEF Respond, Staged
  <2>2. \/ kind[current[o]] \in Prompts /\ response' = [response EXCEPT ![current[o]] = result[o]]
        \/ response[current[o]] = Nobody /\ response' = [response EXCEPT ![current[o]] = "error"]
        \/ response[current[o]] # Nobody /\ response' = response
    BY <1>7 DEF Respond, Answer
  <2>3. result[o] \in Results
    OBVIOUS
  <2>4. /\ \A r \in Requests \ {current[o]} : response'[r] = response[r]
        /\ \/ kind[current[o]] \in Prompts /\ response'[current[o]] \in Results
           \/ response[current[o]] = Nobody /\ response'[current[o]] = "error"
           \/ response[current[o]] # Nobody /\ response'[current[o]] = response[current[o]]
    BY <2>1, <2>2, <2>3
  <2>5. Settles(o)
    BY <1>7, <2>4 DEF Respond, turn, Settles
  <2> QED
    BY <1>2, <1>3, <2>5 DEF Works
<1>8. CASE Begin(o)
  <2>1. CASE Cancelled(o)
    BY <1>2, <1>3, <1>8, <2>1 DEF Begin, turn, Works, Quiet
  <2>2. CASE ~Cancelled(o)
    <3>1. current[o] \in Requests
      BY <1>8 DEF Begin, Staged
    <3>2. \/ kind[current[o]] \in Prompts /\ response' = response
          \/ /\ response \in [Requests -> Answers \cup {Nobody}]
             /\ kind[current[o]] \in Steering
             /\ response' = [response EXCEPT ![current[o]] = "started new turn"]
      BY <1>8, <2>2, <3>1 DEF Begin, Answer
    <3>3. /\ \A r \in Requests \ {current[o]} : response'[r] = response[r]
          /\ \/ kind[current[o]] \in Prompts /\ response'[current[o]] = response[current[o]]
             \/ kind[current[o]] \in Steering /\ response'[current[o]] = "started new turn"
      <4>1. CASE response' = response /\ kind[current[o]] \in Prompts
        BY <4>1
      <4>2. CASE response' = [response EXCEPT ![current[o]] = "started new turn"]
                 /\ kind[current[o]] \in Steering
        BY <3>1, <4>2
      <4> QED
        BY <3>2, <4>1, <4>2
    <3>4. Starts(o)
      BY <1>8, <2>2, <3>3 DEF Begin, Starts
    <3> QED
      BY <1>2, <1>3, <3>4 DEF Works
  <2> QED
    BY <2>1, <2>2
<1>9. CASE BeforeModel(o) \/ Settle(o)
  <2>1. Range(steers[o]) \subseteq Requests
    BY RangeOfSeq
  <2>2. PICK settling \in BOOLEAN : Deliver(o, settling)
    BY <1>9 DEF BeforeModel, Settle
  <2>3. /\ steers' = [steers EXCEPT ![o] = <<>>] /\ UNCHANGED <<queue, pending, current>>
        /\ at[o] \in InTurn
    BY <1>9 DEF Deliver, BeforeModel, Settle, InTurn
  <2>4. \/ into' = into /\ Reject(o)
        \/ Inject(o)
    BY <2>2 DEF Deliver
  <2>5. \A r \in Requests \ Range(steers[o]) : response'[r] = response[r] /\ into'[r] = into[r]
    BY <2>4 DEF Reject, Inject
  <2>6. \A r \in Range(steers[o]) :
           \/ response'[r] \in {"error", "prompt required"} /\ into'[r] = into[r]
           \/ response'[r] = "injected" /\ into'[r] = current[o]
    BY <2>1, <2>4 DEF Reject, Rejection, Inject
  <2>7. Clears(o)
    BY <2>3, <2>5, <2>6 DEF Clears
  <2> QED
    BY <1>2, <1>3, <2>7 DEF Works
<1>10. CASE EndTurn(o)
  <2>1. Range(steers[o]) \subseteq Requests /\ (~accepting[o] => Range(steers[o]) = {})
    <3>1. ~accepting[o] => steers[o] = <<>>
      BY DEF Staged
    <3> QED
      BY <3>1, RangeOfSeq, EmptyRange
  <2>2. into' = into /\ (Reject(o) \/ (response' = response /\ Range(steers[o]) = {}))
    BY <1>10, <2>1 DEF EndTurn
  <2>3. \A r \in Requests :
          response'[r] = IF r \in Range(steers[o]) THEN Rejection(r) ELSE response[r]
    BY <2>2 DEF Reject
  <2>4. Clears(o)
    BY <1>10, <2>1, <2>2, <2>3 DEF EndTurn, Rejection, Clears, InTurn
  <2> QED
    BY <1>2, <1>3, <2>4 DEF Works
<1> QED
  BY <1>4, <1>5, <1>6, <1>7, <1>8, <1>9, <1>10 DEF TaskStep

----------------------------------------------------------------------------
(* What the steps do to the tokens and the places of the requests.         *)

\* What changes no place of a request, nor its answer, keeps it placed;
Stays(r) ==
  /\ \A p \in Places, o \in Opens : In(r, p, o)' <=> In(r, p, o)
  /\ response'[r] = response[r] /\ (r \in sent' <=> r \in sent)

\* it stays placed,
LEMMA StayPlaced ==
  ASSUME NEW r \in Requests, Placed(r), Stays(r), kind' = kind
  PROVE  Placed(r)'
<1>1. \A p \in Places, o \in Opens : In(r, p, o)' <=> In(r, p, o)
  BY DEF Stays
<1>2. response'[r] = response[r] /\ (r \in sent' <=> r \in sent)
  BY DEF Stays
<1>3. InOne(r)'
  BY <1>1 DEF Placed, InOne
<1>4. Nowhere(r)' <=> Nowhere(r)
  BY <1>1 DEF Nowhere
<1> QED
  BY <1>1, <1>2, <1>3, <1>4 DEF Placed

\* an answered request is in no place;
LEMMA GonePlaced ==
  ASSUME NEW r \in Requests, Nowhere(r)', r \in sent', response'[r] \in Answers,
         response'[r] # "started new turn"
  PROVE  Placed(r)'
  BY RequestAssumption DEF Placed, InOne, Nowhere

\* and one that moves has the place it moves to.
LEMMA MovedPlaced ==
  ASSUME NEW r \in Requests, NEW p \in Places, NEW o \in Opens,
         \A q \in Places, w \in Opens : In(r, q, w)' <=> q = p /\ w = o,
         r \in sent', response'[r] = Nobody
  PROVE  Placed(r)'
  BY RequestAssumption DEF Placed, InOne, Nowhere, Answers

\* The places of a request, one kind at a time.
LEMMA Somewhere ==
  ASSUME NEW r \in Requests, NEW o \in Opens
  PROVE  /\ In(r, "handler", o) <=> sending = r /\ handle = o
         /\ In(r, "channel", o) <=> r \in Range(queue[o])
         /\ In(r, "turn", o) <=> current[o] = r
         /\ In(r, "steering", o) <=> r \in Range(steers[o])
  BY DEF In

\* A session no step is about keeps its tokens.
LEMMA OthersMatch ==
  ASSUME NEW w \in Opens, Matches(w), IsInjective(queue[w]), pending'[w] = pending[w],
         current'[w] = current[w], queue'[w] = queue[w], handle' = handle, sending' = sending
  PROVE  Matches(w)' /\ IsInjective(queue[w])'
  BY DEF Matches, Only

\* A step that moves no request keeps the tokens,
LEMMA QuietTokens ==
  ASSUME Tokens, Quiet, UNCHANGED <<handle, sending, sent, kind>>
  PROVE  Tokens'
<1>1. \A w \in Opens : Matches(w)' /\ IsInjective(queue[w])'
  BY OthersMatch DEF Quiet, Tokens
<1>2. \A r \in Requests : Stays(r)
  BY DEF Stays, In, Quiet
<1> QED
  BY <1>1, <1>2, StayPlaced DEF Tokens

\* as does one that answers the requests that steer the turn,
LEMMA ClearsTokens ==
  ASSUME Sessions, Asked, Tokens, NEW o \in Opens, Staged(o), Clears(o),
         UNCHANGED <<handle, sending, sent, kind>>
  PROVE  Tokens'
<1>1. \A w \in Opens : Matches(w)' /\ IsInjective(queue[w])'
  BY OthersMatch DEF Clears, Tokens
<1>2. ASSUME NEW r \in Requests PROVE Placed(r)'
  <2>1. steers'[o] = <<>> /\ \A w \in Opens \ {o} : steers'[w] = steers[w]
    BY DEF Clears, Sessions
  <2>2. \A p \in Places \ {"steering"}, w \in Opens : In(r, p, w)' <=> In(r, p, w)
    BY DEF Clears, In
  <2>3. \A w \in Opens : In(r, "steering", w)' <=> In(r, "steering", w) /\ w # o
    BY <2>1, EmptyRange, Somewhere DEF In
  <2>4. Placed(r)
    BY DEF Tokens
  <2>5. CASE r \in Range(steers[o])
    <3>1. In(r, "steering", o) /\ "steering" \in Places
      BY <2>5, Somewhere DEF Places
    <3>2. Nowhere(r)'
      <4>1. \A p \in Places, w \in Opens : In(r, p, w) => p = "steering" /\ w = o
        BY <2>4, <3>1 DEF Placed, InOne
      <4>2. \A p \in Places, w \in Opens : ~In(r, p, w)'
        BY <2>2, <2>3, <4>1
      <4> QED
        BY <4>2 DEF Nowhere
    <3>3. r \in sent
      BY <2>4, <3>1 DEF Placed, Nowhere
    <3>4. response'[r] \in {"error", "prompt required", "injected"}
      BY <2>5 DEF Clears
    <3> QED
      BY <3>2, <3>3, <3>4, GonePlaced DEF Answers, Results
  <2>6. CASE r \notin Range(steers[o])
    <3>1. ~In(r, "steering", o)
      BY <2>6, Somewhere
    <3>2. Stays(r)
      BY <2>2, <2>3, <2>6, <3>1 DEF Stays, Clears
    <3> QED
      BY <2>4, <3>2, StayPlaced
  <2> QED
    BY <2>5, <2>6
<1> QED
  BY <1>1, <1>2 DEF Tokens

\* one that gives the turn its prompt,
LEMMA StartsTokens ==
  ASSUME Sessions, Asked, Tokens, NEW o \in Opens, Staged(o), Starts(o),
         UNCHANGED <<handle, sending, sent, kind>>
  PROVE  Tokens'
<1>1. \A w \in Opens : Matches(w)' /\ IsInjective(queue[w])'
  BY OthersMatch DEF Starts, Tokens
<1>2. steers' = steers
  BY DEF Starts, Staged, InTurn, Sessions
<1>3. \A r \in Requests, p \in Places, w \in Opens : In(r, p, w)' <=> In(r, p, w)
  <2>1. queue' = queue /\ current' = current
    BY DEF Starts
  <2> QED
    BY <1>2, <2>1 DEF In
<1>4. ASSUME NEW r \in Requests, r # current[o] PROVE Placed(r)'
  <2>1. Stays(r)
    BY <1>3, <1>4 DEF Stays, Starts
  <2> QED
    BY <2>1, StayPlaced DEF Tokens
<1>5. ASSUME NEW r \in Requests, r = current[o] PROVE Placed(r)'
  <2>1. Placed(r) /\ In(r, "turn", o) /\ "turn" \in Places
    BY <1>5, Somewhere DEF Tokens, Places
  <2>2. CASE response'[r] = response[r]
    <3>1. Stays(r)
      BY <1>3, <2>2 DEF Stays
    <3> QED
      BY <2>1, <3>1, StayPlaced
  <2>3. CASE kind[r] \in Steering /\ response'[r] = "started new turn"
    <3>1. InOne(r) /\ r \in sent
      BY <2>1 DEF Placed, Nowhere
    <3>2. InOne(r)' /\ \A p \in Places, w \in Opens : In(r, p, w)' => p = "turn"
      BY <1>3, <2>1, <3>1 DEF InOne
    <3> QED
      BY <2>3, <3>1, <3>2, RequestAssumption DEF Placed, Answers
  <2> QED
    BY <1>5, <2>2, <2>3 DEF Starts
<1> QED
  BY <1>1, <1>4, <1>5 DEF Tokens

\* one that takes a prompt from the channel,
LEMMA TakesTokens ==
  ASSUME Sessions, Asked, Tokens, NEW o \in Opens, Staged(o), Takes(o),
         UNCHANGED <<handle, sending, sent, kind>>
  PROVE  Tokens'
<1>0. PICK h \in Requests : h = Head(queue[o])
  BY HeadTailProperties DEF Takes, Sessions
<1>1. /\ queue[o] \in Seq(Requests) /\ queue[o] # <<>> /\ IsInjective(queue[o])
      /\ current[o] = Nobody
  BY DEF Takes, Sessions, Tokens, Staged
<1>2. /\ IsInjective(Tail(queue[o])) /\ h \notin Range(Tail(queue[o]))
      /\ Range(queue[o]) = Range(Tail(queue[o])) \cup {h}
  BY <1>0, <1>1, TailInjects
<1>3. /\ queue'[o] = Tail(queue[o]) /\ current'[o] = h
      /\ \A w \in Opens \ {o} : queue'[w] = queue[w] /\ current'[w] = current[w]
      /\ steers' = steers /\ pending' = pending /\ response' = response
  BY <1>0 DEF Takes, Sessions
<1>4. ASSUME NEW w \in Opens PROVE Matches(w)' /\ IsInjective(queue[w])'
  <2>1. CASE w # o
    BY <1>3, <2>1, OthersMatch DEF Tokens
  <2>2. CASE w = o
    <3> DEFINE t == IF handle = o THEN Only(sending) ELSE <<>>
    <3>1. t \in Seq(Requests) /\ pending[o] = (<<>> \o queue[o]) \o t
      <4>1. Matches(o) /\ Only(current[o]) = <<>>
        BY <1>1 DEF Tokens, Only
      <4>2. sending # Nobody => sending \in Requests
        BY DEF Sessions
      <4>3. t \in Seq(Requests)
        BY <4>2 DEF Only
      <4> QED
        BY <4>1, <4>3 DEF Matches
    <3>2. pending[o] = (<<h>> \o Tail(queue[o])) \o t
      BY <1>0, <1>1, <3>1, HeadToken
    <3>3. h # Nobody
      BY <1>2, RequestAssumption
    <3>4. Only(current[o])' = <<h>>
      BY <1>3, <3>3 DEF Only
    <3>5. (IF handle = o THEN Only(sending) ELSE <<>>)' = t
      BY DEF Only
    <3>6. Matches(o)'
      BY <1>3, <3>2, <3>4, <3>5 DEF Matches
    <3> QED
      BY <1>2, <1>3, <2>2, <3>6
  <2> QED
    BY <2>1, <2>2
<1>5. ASSUME NEW r \in Requests, r # h PROVE Placed(r)'
  <2>1. \A w \in Opens : r \in Range(queue'[w]) <=> r \in Range(queue[w])
    BY <1>2, <1>3, <1>5
  <2>2. \A w \in Opens : current'[w] = r <=> current[w] = r
    BY <1>1, <1>3, <1>5, RequestAssumption
  <2>3. Stays(r)
    BY <1>3, <2>1, <2>2 DEF Stays, In
  <2> QED
    BY <2>3, StayPlaced DEF Tokens
<1>6. Placed(h)'
  <2>1. Placed(h) /\ In(h, "channel", o) /\ {"turn", "channel"} \subseteq Places
    BY <1>2, Somewhere DEF Tokens, Places
  <2>2. \A p \in Places, w \in Opens : In(h, p, w) => p = "channel" /\ w = o
    BY <2>1 DEF Placed, InOne
  <2>3. h \in sent /\ response[h] = Nobody
    BY <2>1 DEF Placed, Nowhere
  <2>4. \A w \in Opens :
           /\ ~In(h, "handler", w)' /\ ~In(h, "steering", w)' /\ ~In(h, "channel", w)'
           /\ In(h, "turn", w)' <=> w = o
    <3>1. TAKE w \in Opens
    <3>2. ~In(h, "handler", w) /\ ~In(h, "steering", w)
      BY <2>2 DEF Places
    <3>3. ~In(h, "handler", w)' /\ ~In(h, "steering", w)'
      BY <1>3, <3>2 DEF In
    <3>4. ~In(h, "channel", w)'
      <4>1. CASE w = o
        BY <1>2, <1>3, <4>1 DEF In
      <4>2. CASE w # o
        <5>1. ~In(h, "channel", w)
          BY <2>2, <4>2 DEF Places
        <5> QED
          BY <1>3, <4>2, <5>1 DEF In
      <4> QED
        BY <4>1, <4>2
    <3>5. In(h, "turn", w)' <=> w = o
      <4>1. CASE w = o
        BY <1>3, <4>1 DEF In
      <4>2. CASE w # o
        <5>1. ~In(h, "turn", w)
          BY <2>2, <4>2 DEF Places
        <5> QED
          BY <1>3, <4>2, <5>1 DEF In
      <4> QED
        BY <4>1, <4>2
    <3> QED
      BY <3>3, <3>4, <3>5
  <2>5. \A q \in Places, w \in Opens : In(h, q, w)' <=> q = "turn" /\ w = o
    BY <2>4 DEF Places
  <2> QED
    BY <1>2, <1>3, <2>1, <2>3, <2>5, MovedPlaced
<1> QED
  BY <1>4, <1>5, <1>6 DEF Tokens

\* and one that answers the prompt;
LEMMA SettlesTokens ==
  ASSUME Sessions, Asked, Tokens, NEW o \in Opens, Staged(o), Settles(o),
         UNCHANGED <<handle, sending, sent, kind>>
  PROVE  Tokens'
<1>1. PICK c \in Requests : c = current[o] /\ c # Nobody
  BY RequestAssumption DEF Settles, Staged, Sessions
<1>2. /\ pending'[o] = Tail(pending[o]) /\ current'[o] = Nobody
      /\ \A w \in Opens \ {o} : pending'[w] = pending[w] /\ current'[w] = current[w]
      /\ steers' = steers /\ queue' = queue
  BY <1>1 DEF Settles, Sessions
<1>3. ASSUME NEW w \in Opens PROVE Matches(w)' /\ IsInjective(queue[w])'
  <2>1. CASE w # o
    BY <1>2, <2>1, OthersMatch DEF Tokens
  <2>2. CASE w = o
    <3> DEFINE t == IF handle = o THEN Only(sending) ELSE <<>>
    <3>1. /\ t \in Seq(Requests) /\ queue[o] \in Seq(Requests)
          /\ pending[o] = (<<c>> \o queue[o]) \o t
      <4>1. Matches(o) /\ Only(current[o]) = <<c>>
        BY <1>1 DEF Tokens, Only
      <4>2. sending # Nobody => sending \in Requests
        BY DEF Sessions
      <4>3. t \in Seq(Requests)
        BY <4>2 DEF Only
      <4> QED
        BY <4>1, <4>3 DEF Matches, Sessions
    <3>2. pending'[o] = (<<>> \o queue[o]) \o t
      <4> HIDE DEF t
      <4>1. Tail((<<c>> \o queue[o]) \o t) = (<<>> \o queue[o]) \o t
        BY <3>1, FirstToken
      <4> QED
        BY <1>2, <3>1, <4>1
    <3>3. Only(current[o])' = <<>>
      BY <1>2 DEF Only
    <3>4. (IF handle = o THEN Only(sending) ELSE <<>>)' = t
      BY DEF Only
    <3>5. Matches(o)'
      BY <1>2, <3>2, <3>3, <3>4 DEF Matches
    <3> QED
      BY <1>2, <2>2, <3>5 DEF Tokens
  <2> QED
    BY <2>1, <2>2
<1>4. ASSUME NEW r \in Requests, r # c PROVE Placed(r)'
  <2>1. \A w \in Opens : current'[w] = r <=> current[w] = r
    BY <1>1, <1>2, <1>4, RequestAssumption
  <2>2. Stays(r)
    BY <1>1, <1>2, <1>4, <2>1 DEF Stays, In, Settles
  <2> QED
    BY <2>2, StayPlaced DEF Tokens
<1>5. Placed(c)'
  <2>1. Placed(c) /\ In(c, "turn", o) /\ "turn" \in Places
    BY <1>1, Somewhere DEF Tokens, Places
  <2>2. \A p \in Places, w \in Opens : In(c, p, w) => p = "turn" /\ w = o
    BY <2>1 DEF Placed, InOne
  <2>3. \A p \in Places, w \in Opens : ~In(c, p, w)'
    <3>1. TAKE p \in Places, w \in Opens
    <3>2. CASE p = "turn"
      <4>1. CASE w = o
        BY <1>1, <1>2, <3>2, <4>1 DEF In
      <4>2. CASE w # o
        <5>1. ~In(c, p, w)
          BY <2>2, <4>2
        <5> QED
          BY <1>2, <3>2, <4>2, <5>1 DEF In
      <4> QED
        BY <4>1, <4>2
    <3>3. CASE p # "turn"
      <4>1. ~In(c, p, w)
        BY <2>2, <3>3
      <4> QED
        BY <1>2, <3>3, <4>1 DEF In
    <3> QED
      BY <3>2, <3>3
  <2>4. c \in sent
    BY <2>1 DEF Placed, Nowhere
  <2>5. CASE response'[c] \in Results \cup {"error"}
    BY <1>1, <2>3, <2>4, <2>5, GonePlaced DEF Nowhere, Answers, Results
  <2>6. CASE response[c] # Nobody /\ response'[c] = response[c]
    BY <2>1, <2>3, <2>4, <2>6 DEF Placed, Nowhere, InOne
  <2> QED
    BY <1>1, <2>5, <2>6 DEF Settles
<1> QED
  BY <1>3, <1>4, <1>5 DEF Tokens

\* which are all steps of a task.
LEMMA WorksTokens ==
  ASSUME Sessions, Asked, Tokens, NEW o \in Opens, Staged(o), Works(o)
  PROVE  Tokens'
  BY QuietTokens, ClearsTokens, StartsTokens, TakesTokens, SettlesTokens DEF Works, server

----------------------------------------------------------------------------
(* What the handlers do to the tokens and the places of the requests.      *)

\* A handler starts to queue a request.
Pushes(r) ==
  /\ r \notin sent /\ sending = Nobody /\ handle # Nobody
  /\ sent' = sent \cup {r} /\ sending' = r
  /\ pending' = [pending EXCEPT ![handle] = Append(pending[handle], r)]
  /\ UNCHANGED <<handle, queue, current, steers, response, kind, aim, into>>

\* It gives the request to the turn,
Steered(r) ==
  /\ r \notin sent /\ sending = Nobody /\ handle # Nobody
  /\ accepting[handle]
  /\ sent' = sent \cup {r}
  /\ steers' = [steers EXCEPT ![handle] = Append(steers[handle], r)]
  /\ aim' = [aim EXCEPT ![r] = current[handle]]
  /\ UNCHANGED <<handle, sending, pending, queue, current, response, kind, into>>

\* or refuses it.
Refused(r) ==
  /\ r \notin sent /\ sent' = sent \cup {r}
  /\ \E what \in {"error", "prompt required"} : response' = [response EXCEPT ![r] = what]
  /\ UNCHANGED <<handle, sending, pending, queue, current, steers, kind, aim, into>>

\* A prompt or a steering request is pushed, steers or is refused.
LEMMA Handles ==
  ASSUME NEW r \in Requests, Prompt(r) \/ Steer(r)
  PROVE  /\ Pushes(r) \/ (kind[r] \in Steering /\ (Steered(r) \/ Refused(r)))
         /\ UNCHANGED <<opens, at, result, accepting, calls, rounds, unheard, agents, cancelled,
                        cancels, into>>
         /\ HasRoom(handle) \/ steers' = steers
<1>1. CASE Prompt(r)
  BY <1>1 DEF Prompt, Push, Pushes, turn
<1>2. CASE Steer(r)
  <2>1. UNCHANGED <<opens, at, result, accepting, calls, rounds, unheard, agents, cancelled,
                    cancels, into>>
    BY <1>2 DEF Steer
  <2>2. CASE SteerActive(r)
    BY <1>2, <2>1, <2>2
    DEF Steer, SteerActive, TakesSteering, Steered, Refused, Answer
  <2>3. CASE SteerIdle(r)
    BY <1>2, <2>1, <2>3 DEF Steer, SteerIdle, Push, Pushes, Refused, Answer
  <2> QED
    BY <1>2, <2>1, <2>2, <2>3 DEF Steer
<1> QED
  BY <1>1, <1>2

\* A request that is not sent is new to all sessions.
LEMMA OthersStay ==
  ASSUME NEW r \in Requests, NEW x \in Requests, x # r, sent' = sent \cup {r},
         response'[x] = response[x],
         \A p \in Places, o \in Opens : In(x, p, o)' <=> In(x, p, o)
  PROVE  Stays(x)
  BY DEF Stays

\* A request that is pushed is with its handler,
LEMMA PushesTokens ==
  ASSUME Sessions, Asked, Tokens, NEW r \in Requests, Pushes(r)
  PROVE  Tokens'
<1>1. handle \in Opens /\ r # Nobody
  BY RequestAssumption DEF Pushes, Sessions
<1>2. ASSUME NEW w \in Opens PROVE Matches(w)' /\ IsInjective(queue[w])'
  <2>1. IsInjective(queue[w])' /\ Matches(w)
    BY DEF Pushes, Tokens
  <2> DEFINE f == Only(current[w])
  <2>2. f \in Seq(Requests) /\ queue[w] \in Seq(Requests)
    BY DEF Sessions, Only
  <2>3. pending[w] = (f \o queue[w]) \o <<>>
    BY <2>1 DEF Matches, Pushes, Only
  <2>4. CASE w = handle
    <3>1. pending'[w] = Append((f \o queue[w]) \o <<>>, r)
      BY <1>1, <2>3, <2>4 DEF Pushes, Sessions
    <3>2. pending'[w] = (f \o queue[w]) \o <<r>>
      <4> HIDE DEF f
      <4>1. Append((f \o queue[w]) \o <<>>, r) = (f \o queue[w]) \o <<r>>
        BY <2>2, TokenComes
      <4> QED
        BY <3>1, <4>1
    <3>3. Only(sending)' = <<r>> /\ handle' = w
      BY <1>1, <2>4 DEF Only, Pushes
    <3> QED
      BY <2>1, <3>2, <3>3 DEF Matches, Pushes, Only
  <2>5. CASE w # handle
    <3>1. pending'[w] = (f \o queue[w]) \o <<>>
      BY <2>3, <2>5 DEF Pushes, Sessions
    <3> QED
      BY <2>1, <2>5, <3>1 DEF Matches, Pushes, Only
  <2> QED
    BY <2>4, <2>5
<1>3. ASSUME NEW x \in Requests, x # r PROVE Placed(x)'
  <2>1. \A p \in Places, o \in Opens : In(x, p, o)' <=> In(x, p, o)
    BY <1>3, RequestAssumption DEF Pushes, In
  <2>2. Stays(x)
    BY <1>3, <2>1, OthersStay DEF Pushes
  <2> QED
    BY <2>2, StayPlaced DEF Tokens, Pushes
<1>4. Placed(r)'
  <2>1. \A p \in Places, o \in Opens : ~In(r, p, o)
    BY DEF Tokens, Placed, Pushes, Nowhere
  <2>2. \A p \in Places, o \in Opens :
          In(r, p, o)' <=> In(r, p, o) \/ (p = "handler" /\ o = handle)
    BY <1>1 DEF Pushes, In
  <2>3. \A p \in Places, o \in Opens : In(r, p, o)' <=> p = "handler" /\ o = handle
    BY <2>1, <2>2
  <2>4. r \in sent' /\ response'[r] = Nobody
    BY DEF Pushes, Tokens, Placed
  <2>5. PICK o \in Opens : o = handle
    BY <1>1
  <2>6. "handler" \in Places
    BY DEF Places
  <2> QED
    BY <2>3, <2>4, <2>5, <2>6, MovedPlaced
<1> QED
  BY <1>2, <1>3, <1>4 DEF Tokens

\* one that steers is with the turn,
LEMMA SteeredTokens ==
  ASSUME Sessions, Asked, Tokens, NEW r \in Requests, kind[r] \in Steering, Steered(r)
  PROVE  Tokens'
<1>1. PICK h \in Opens : h = handle
  BY DEF Steered, Sessions
<1>2. \A w \in Opens : Matches(w)' /\ IsInjective(queue[w])'
  BY OthersMatch DEF Steered, Tokens
<1>3. /\ Range(steers'[h]) = Range(steers[h]) \cup {r}
      /\ \A w \in Opens \ {h} : steers'[w] = steers[w]
  BY <1>1, AppendRange DEF Steered, Sessions
<1>4. \A x \in Requests, o \in Opens : \A p \in Places :
         In(x, p, o)' <=> In(x, p, o) \/ (x = r /\ p = "steering" /\ o = h)
  <2>1. TAKE x \in Requests, o \in Opens
  <2>2. x \in Range(steers'[o]) <=> x \in Range(steers[o]) \/ (x = r /\ o = h)
    BY <1>3
  <2>3. TAKE p \in Places
  <2> QED
    BY <2>2 DEF In, Steered
<1>5. ASSUME NEW x \in Requests, x # r PROVE Placed(x)'
  <2>1. Stays(x)
    BY <1>4, <1>5, OthersStay DEF Steered
  <2> QED
    BY <2>1, StayPlaced DEF Tokens, Steered
<1>6. Placed(r)'
  <2>1. \A p \in Places, o \in Opens : In(r, p, o)' <=> p = "steering" /\ o = h
    BY <1>4 DEF Tokens, Placed, Steered, Nowhere
  <2>2. r \in sent' /\ response'[r] = Nobody
    BY DEF Steered, Tokens, Placed
  <2>3. "steering" \in Places
    BY DEF Places
  <2> QED
    BY <2>1, <2>2, <2>3, MovedPlaced
<1> QED
  BY <1>2, <1>5, <1>6 DEF Tokens

\* and one that is refused is nowhere.
LEMMA RefusedTokens ==
  ASSUME Sessions, Asked, Tokens, NEW r \in Requests, Refused(r)
  PROVE  Tokens'
<1>1. \A w \in Opens : Matches(w)' /\ IsInjective(queue[w])'
  BY OthersMatch DEF Refused, Tokens
<1>2. \A x \in Requests, p \in Places, o \in Opens : In(x, p, o)' <=> In(x, p, o)
  <2>1. handle' = handle /\ sending' = sending /\ queue' = queue /\ current' = current
        /\ steers' = steers
    BY DEF Refused
  <2> QED
    BY <2>1 DEF In
<1>3. ASSUME NEW x \in Requests, x # r PROVE Placed(x)'
  <2>1. Stays(x)
    BY <1>2, <1>3, OthersStay DEF Refused, Asked
  <2> QED
    BY <2>1, StayPlaced DEF Tokens, Refused
<1>4. Placed(r)'
  <2>1. Nowhere(r)' /\ r \in sent'
    BY <1>2 DEF Tokens, Placed, Refused, Nowhere
  <2>2. response'[r] \in {"error", "prompt required"}
    BY DEF Refused, Asked
  <2> QED
    BY <2>1, <2>2, GonePlaced DEF Answers, Results
<1> QED
  BY <1>1, <1>3, <1>4 DEF Tokens

\* The request being sent is in its handler alone.
LEMMA Sending ==
  ASSUME Sessions, Tokens, SendingTo, NEW s \in Requests, s = sending
  PROVE  /\ handle \in Opens /\ s \in sent /\ response[s] = Nobody
         /\ \A p \in Places, o \in Opens : In(s, p, o) <=> p = "handler" /\ o = handle
<1>1. handle \in Opens
  BY RequestAssumption DEF Sessions, SendingTo
<1>2. PICK h \in Opens : h = handle
  BY <1>1
<1>3. In(s, "handler", h) /\ "handler" \in Places /\ Placed(s)
  BY <1>2, Somewhere DEF Places, Tokens
<1> QED
  BY <1>2, <1>3 DEF Placed, InOne, Nowhere

\* Its token is the last one of the session.
LEMMA LastToken ==
  ASSUME Sessions, Tokens, SendingTo, NEW s \in Requests, s = sending, NEW h \in Opens, h = handle
  PROVE  /\ Only(current[h]) \in Seq(Requests) /\ queue[h] \in Seq(Requests)
         /\ pending[h] = (Only(current[h]) \o queue[h]) \o <<s>>
<1>1. Matches(h) /\ s # Nobody
  BY RequestAssumption DEF Tokens
<1> QED
  BY <1>1 DEF Matches, Only, Sessions

\* A request that is sent is in the channel, or its token is withdrawn.
LEMMA SendTokens ==
  ASSUME Sessions, Asked, Tokens, SendingTo, Send
  PROVE  Tokens'
<1>1. PICK s \in Requests : s = sending /\ s # Nobody
  BY DEF Send, Sessions
<1>2. PICK h \in Opens : h = handle
  BY <1>1, Sending
<1>3. /\ s \in sent /\ response[s] = Nobody
      /\ \A p \in Places, o \in Opens : In(s, p, o) <=> p = "handler" /\ o = h
  BY <1>1, <1>2, Sending
<1>4. /\ Only(current[h]) \in Seq(Requests) /\ queue[h] \in Seq(Requests)
      /\ pending[h] = (Only(current[h]) \o queue[h]) \o <<s>>
  BY <1>1, <1>2, LastToken
<1>5. /\ sending' = Nobody /\ handle' = handle /\ current' = current /\ steers' = steers
      /\ sent' = sent /\ kind' = kind
  BY DEF Send, turn
<1>6. ASSUME NEW w \in Opens, w # h, pending'[w] = pending[w], queue'[w] = queue[w]
      PROVE  Matches(w)' /\ IsInjective(queue[w])'
  <2>1. Matches(w) /\ IsInjective(queue[w])
    BY DEF Tokens
  <2> QED
    BY <1>2, <1>5, <1>6, <2>1 DEF Matches, Only
<1>7. CASE queue' = [queue EXCEPT ![handle] = Append(queue[handle], s)]
           /\ pending' = pending /\ response' = response
  <2>1. /\ queue'[h] = Append(queue[h], s) /\ Range(queue'[h]) = Range(queue[h]) \cup {s}
        /\ \A w \in Opens \ {h} : queue'[w] = queue[w]
    BY <1>2, <1>7, AppendRange DEF Sessions
  <2>2. s \notin Range(queue[h])
    BY <1>3, Somewhere DEF Places
  <2>3. IsInjective(queue[h])'
    BY <1>4, <2>1, <2>2, AppendInjects DEF Tokens
  <2>4. Matches(h)'
    <3> DEFINE f == Only(current[h])
    <3> HIDE DEF f
    <3>1. (f \o queue[h]) \o <<s>> = (f \o Append(queue[h], s)) \o <<>>
      BY <1>4, TokenQueued DEF f
    <3>2. Only(sending)' = <<>> /\ Only(current[h])' = f
      BY <1>5 DEF Only, f
    <3> QED
      BY <1>4, <1>5, <1>7, <2>1, <3>1, <3>2 DEF Matches, f
  <2>5. \A w \in Opens : Matches(w)' /\ IsInjective(queue[w])'
    BY <1>6, <1>7, <2>1, <2>3, <2>4
  <2>6. ASSUME NEW x \in Requests, x # s PROVE Placed(x)'
    <3>1. \A o \in Opens : x \in Range(queue'[o]) <=> x \in Range(queue[o])
      BY <2>1, <2>6
    <3>2. \A p \in Places, o \in Opens : In(x, p, o)' <=> In(x, p, o)
      BY <1>1, <1>5, <2>6, <3>1, RequestAssumption DEF In
    <3>3. Stays(x)
      BY <1>5, <1>7, <3>2 DEF Stays
    <3> QED
      BY <1>5, <3>3, StayPlaced DEF Tokens
  <2>7. Placed(s)'
    <3>1. \A o \in Opens : s \in Range(queue'[o]) <=> s \in Range(queue[o]) \/ o = h
      BY <2>1
    <3>2. \A p \in Places \ {"handler"}, o \in Opens :
             In(s, p, o)' <=> In(s, p, o) \/ (p = "channel" /\ o = h)
      BY <1>5, <3>1 DEF In
    <3>3. \A o \in Opens : ~In(s, "handler", o)'
      BY <1>1, <1>5 DEF In
    <3>4. \A p \in Places, o \in Opens : In(s, p, o)' <=> p = "channel" /\ o = h
      BY <1>3, <3>2, <3>3
    <3>5. "channel" \in Places
      BY DEF Places
    <3> QED
      BY <1>3, <1>5, <1>7, <3>4, <3>5, MovedPlaced
  <2> QED
    BY <2>5, <2>6, <2>7 DEF Tokens
<1>8. CASE pending' = [pending EXCEPT ![handle] = Withdraw(handle)]
           /\ response' = [response EXCEPT ![s] = "error"] /\ queue' = queue
  <2>1. pending'[h] = Front(pending[h]) /\ \A w \in Opens \ {h} : pending'[w] = pending[w]
    BY <1>2, <1>8 DEF Sessions, Withdraw
  <2>2. Matches(h)'
    <3> DEFINE f == Only(current[h])
    <3> HIDE DEF f
    <3>1. Front((f \o queue[h]) \o <<s>>) = (f \o queue[h]) \o <<>>
      BY <1>4, TokenWithdrawn DEF f
    <3>2. Only(sending)' = <<>> /\ Only(current[h])' = f
      BY <1>5 DEF Only, f
    <3> QED
      BY <1>4, <1>5, <1>8, <2>1, <3>1, <3>2 DEF Matches, f
  <2>3. \A w \in Opens : Matches(w)' /\ IsInjective(queue[w])'
    BY <1>6, <1>8, <2>1, <2>2 DEF Tokens
  <2>4. ASSUME NEW x \in Requests, x # s PROVE Placed(x)'
    <3>1. \A p \in Places, o \in Opens : In(x, p, o)' <=> In(x, p, o)
      BY <1>1, <1>5, <1>8, <2>4, RequestAssumption DEF In
    <3>2. Stays(x)
      BY <1>5, <1>8, <2>4, <3>1 DEF Stays, Asked
    <3> QED
      BY <1>5, <3>2, StayPlaced DEF Tokens
  <2>5. Placed(s)'
    <3>1. \A o \in Opens : ~In(s, "handler", o)'
      BY <1>1, <1>5 DEF In
    <3>2. \A p \in Places \ {"handler"}, o \in Opens : In(s, p, o)' <=> In(s, p, o)
      BY <1>5, <1>8 DEF In
    <3>3. Nowhere(s)'
      BY <1>3, <3>1, <3>2 DEF Nowhere
    <3>4. response'[s] = "error"
      BY <1>8 DEF Asked
    <3> QED
      BY <1>3, <1>5, <3>3, <3>4, GonePlaced DEF Answers, Results
  <2> QED
    BY <2>3, <2>4, <2>5 DEF Tokens
<1> QED
  BY <1>1, <1>7, <1>8 DEF Send, Answer

\* A new Handle replaces one no request is being sent to.
LEMMA InsertTokens ==
  ASSUME Sessions, Tokens, NEW o \in Opens, Insert(o)
  PROVE  Tokens'
<1>1. /\ sending = Nobody /\ sending' = Nobody /\ queue' = queue /\ pending' = pending
      /\ current' = current /\ steers' = steers /\ response' = response /\ sent' = sent
      /\ kind' = kind
  BY DEF Insert, turn, client
<1>2. ASSUME NEW w \in Opens PROVE Matches(w)' /\ IsInjective(queue[w])'
  <2>1. Matches(w) /\ IsInjective(queue[w])
    BY DEF Tokens
  <2> QED
    BY <1>1, <2>1 DEF Matches, Only
<1>3. ASSUME NEW r \in Requests PROVE Placed(r)'
  <2>1. Stays(r)
    BY <1>1, RequestAssumption DEF Stays, In
  <2> QED
    BY <1>1, <2>1, StayPlaced DEF Tokens
<1> QED
  BY <1>2, <1>3 DEF Tokens

\* Every step keeps the tokens and the places.
LEMMA TokensStep ==
  ASSUME IInv, [Next]_vars
  PROVE  Tokens'
<1> USE DEF IInv
<1>1. ASSUME NEW o \in Opens, Open(o) \/ OpenFails(o) PROVE Tokens'
  BY <1>1, QuietTokens DEF Open, OpenFails, Quiet, task, turn, client
<1>2. ASSUME NEW o \in Opens, SubagentEnds(o) PROVE Tokens'
  BY <1>2, QuietTokens DEF SubagentEnds, Quiet, server, task, turn, client
<1>3. ASSUME NEW o \in Opens, Insert(o) PROVE Tokens'
  BY <1>3, InsertTokens
<1>4. ASSUME NEW o \in Opens, TaskStep(o) PROVE Tokens'
  BY <1>4, TaskWorks, WorksTokens
<1>5. ASSUME NEW r \in Requests, Prompt(r) \/ Steer(r) PROVE Tokens'
  BY <1>5, Handles, PushesTokens, SteeredTokens, RefusedTokens
<1>6. CASE Send
  BY <1>6, SendTokens
<1>7. CASE Cancel
  BY <1>7, QuietTokens DEF Cancel, Quiet, server, task, turn
<1>8. CASE UNCHANGED vars
  BY <1>8, QuietTokens DEF Quiet, vars, server, task, turn, client
<1> QED
  BY <1>1, <1>2, <1>3, <1>4, <1>5, <1>6, <1>7, <1>8 DEF Next

----------------------------------------------------------------------------
(* The types.                                                              *)

\* Counters stay within their bounds.
LEMMA Steps ==
  /\ 0 \in 0..MaxCalls /\ 0 \in 0..MaxRounds /\ 1..MaxCalls \subseteq 0..MaxCalls
  /\ \A n \in 0..MaxCalls : \A done \in 0..n : n - done \in 0..MaxCalls
  /\ \A n \in 0..MaxCalls : n - n = 0
  /\ \A n \in 0..MaxRounds : n < MaxRounds => n + 1 \in 0..MaxRounds
  /\ \A n \in 0..MaxNotes : n < MaxNotes => n + 1 \in 0..MaxNotes
  /\ \A n \in 0..MaxCancels : n < MaxCancels => n + 1 \in 0..MaxCancels
  BY BoundAssumption

\* A function keeps its type when one of its values changes.
LEMMA ChangeTyped ==
  ASSUME NEW D, NEW T, NEW f \in [D -> T], NEW d, NEW e \in T
  PROVE  [f EXCEPT ![d] = e] \in [D -> T]
  OBVIOUS

\* The answers to steering requests are answers, rejected
LEMMA RejectAsked ==
  ASSUME Asked, NEW o \in Opens, Reject(o)
  PROVE  response' \in [Requests -> Answers \cup {Nobody}]
<1>1. \A r \in Requests : Rejection(r) \in Answers
  BY DEF Rejection, Answers, Results
<1> QED
  BY <1>1 DEF Reject, Asked

\* or injected,
LEMMA InjectAsked ==
  ASSUME Sessions, Asked, NEW o \in Opens, Inject(o)
  PROVE  /\ response' \in [Requests -> Answers \cup {Nobody}]
         /\ into' \in [Requests -> Requests \cup {Nobody}]
<1>1. current[o] \in Requests \cup {Nobody}
  BY DEF Sessions
<1> QED
  BY <1>1 DEF Inject, Asked, Answers

\* as deliver decides;
LEMMA DeliverAsked ==
  ASSUME Sessions, Asked, NEW o \in Opens, NEW settling \in BOOLEAN, Deliver(o, settling)
  PROVE  /\ response' \in [Requests -> Answers \cup {Nobody}]
         /\ into' \in [Requests -> Requests \cup {Nobody}]
<1>1. (into' = into /\ Reject(o)) \/ Inject(o)
  BY DEF Deliver
<1> QED
  BY <1>1, RejectAsked, InjectAsked DEF Asked

\* and the conversation gets input and notes.
LEMMA DeliverHeard ==
  ASSUME Sessions, Turns, NEW o \in Opens, NEW settling \in BOOLEAN, Deliver(o, settling)
  PROVE  /\ unheard' \in [Opens -> SUBSET (Requests \cup {"note"})]
         /\ notes' \in [Opens -> BOOLEAN]
<1>1. Told(o) \subseteq {"note"} /\ Range(steers[o]) \subseteq Requests
  BY RangeOfSeq DEF Told, Sessions
<1>2. \/ unheard' = [unheard EXCEPT ![o] = unheard[o] \cup Told(o)]
      \/ unheard' = [unheard EXCEPT ![o] = unheard[o] \cup Told(o) \cup Range(steers[o])]
  BY DEF Deliver, Inject
<1>3. unheard[o] \in SUBSET (Requests \cup {"note"})
  BY DEF Turns
<1>4. notes' = [notes EXCEPT ![o] = FALSE]
  BY DEF Deliver
<1> QED
  BY <1>1, <1>2, <1>3, <1>4 DEF Turns

\* The step of a task keeps the types of what it works on,
LEMMA TaskSessions ==
  ASSUME Sessions, Asked, Turns, NEW o \in Opens, Staged(o), TaskStep(o)
  PROVE  at' \in [Opens -> Stages] /\ accepting' \in [Opens -> BOOLEAN]
<1> USE RequestAssumption DEF Sessions
<1>1. CASE Receive(o) \/ Think(o) \/ Compact(o)
  BY <1>1
  DEF Receive, Goto, Dispatch, Conclude, turn, server, agents, client, Think, Compact, Stages
<1>2. CASE Respond(o) \/ Begin(o) \/ ReachModel(o)
  BY <1>2
  DEF Respond, Goto, Conclude, turn, Answer, server, agents, Begin, ReachModel, Advance, client,
      Stages
<1>3. CASE BeforeModel(o) \/ AskModel(o) \/ Reply(o)
  BY <1>3
  DEF BeforeModel, Goto, Deliver, Reject, Rejection, client, Inject, server, AskModel, Advance,
      agents, Reply, Conclude, Stages
<1>4. CASE RunTools(o) \/ Interrupt(o) \/ Settle(o)
  BY <1>4
  DEF RunTools, Goto, Conclude, server, agents, client, Interrupt, turn, Settle, Deliver, Reject,
      Rejection, Inject, Stages
<1>5. CASE ReachDone(o) \/ EndTurn(o)
  BY <1>5
  DEF ReachDone, Goto, Conclude, turn, server, agents, client, EndTurn, Reject, Rejection,
      Answered, Stages
<1> QED
  BY <1>1, <1>2, <1>3, <1>4, <1>5 DEF TaskStep

\* of what the clients are told,
LEMMA TaskAsked ==
  ASSUME Sessions, Asked, Turns, NEW o \in Opens, Staged(o), TaskStep(o)
  PROVE  /\ response' \in [Requests -> Answers \cup {Nobody}]
         /\ into' \in [Requests -> Requests \cup {Nobody}]
<1> USE RequestAssumption
<1>1. CASE Receive(o) \/ Think(o) \/ Compact(o)
  BY <1>1
  DEF Receive, Goto, Dispatch, Conclude, turn, server, agents, client, Think, Compact, Asked,
      Sessions, Turns, Answers, Results
<1>2. CASE Respond(o)
  <2>1. /\ into' = into
        /\ \/ response' = response
           \/ \E what \in Results : response' = [response EXCEPT ![current[o]] = what]
    <3>1. result[o] \in Results /\ "error" \in Results
      BY DEF Turns, Results
    <3> QED
      BY <1>2, <3>1 DEF Respond, Answer
  <2>2. Results \subseteq Answers
    BY DEF Answers
  <2>3. response \in [Requests -> Answers \cup {Nobody}]
    BY DEF Asked
  <2> QED
    BY <2>1, <2>2, <2>3 DEF Asked
<1>3. CASE Begin(o)
  <2>1. current[o] \in Requests
    BY <1>3 DEF Begin, Staged, Sessions
  <2>2. response' = response \/ response' = [response EXCEPT ![current[o]] = "started new turn"]
    BY <1>3 DEF Begin, Answer
  <2>3. into' = into \/ into' = [into EXCEPT ![current[o]] = current[o]]
    BY <1>3 DEF Begin
  <2>4. /\ "started new turn" \in Answers \cup {Nobody} /\ current[o] \in Requests \cup {Nobody}
        /\ response \in [Requests -> Answers \cup {Nobody}]
        /\ into \in [Requests -> Requests \cup {Nobody}]
    BY <2>1 DEF Answers, Asked
  <2>5. response' \in [Requests -> Answers \cup {Nobody}]
    BY <2>2, <2>4
  <2> QED
    BY <2>3, <2>4, <2>5
<1>4. CASE ReachModel(o)
  BY <1>4
  DEF ReachModel, Advance, Goto, server, turn, agents, client, Asked, Sessions, Turns, Answers,
      Results
<1>5. CASE BeforeModel(o)
  BY <1>5, DeliverAsked DEF BeforeModel
<1>6. CASE AskModel(o) \/ Reply(o) \/ RunTools(o)
  BY <1>6
  DEF AskModel, Advance, Goto, server, agents, client, Reply, Conclude, RunTools, Asked, Sessions,
      Turns, Answers, Results
<1>7. CASE Interrupt(o)
  BY <1>7
  DEF Interrupt, Goto, Conclude, turn, server, agents, client, Asked, Sessions, Turns, Answers,
      Results
<1>8. CASE Settle(o)
  BY <1>8, DeliverAsked DEF Settle
<1>9. CASE ReachDone(o)
  BY <1>9
  DEF ReachDone, Goto, Conclude, turn, server, agents, client, Asked, Sessions, Turns, Answers,
      Results
<1>10. CASE EndTurn(o)
  <2>1. into' = into /\ (response' = response \/ Reject(o))
    BY <1>10 DEF EndTurn
  <2> QED
    BY <2>1, RejectAsked DEF Asked
<1> QED
  BY <1>1, <1>2, <1>3, <1>4, <1>5, <1>6, <1>7, <1>8, <1>9, <1>10 DEF TaskStep

\* and of the turn.
LEMMA TaskTurns ==
  ASSUME Sessions, Asked, Turns, NEW o \in Opens, Staged(o), TaskStep(o)
  PROVE  Turns'
<1> USE RequestAssumption DEF Results
<1>1. CASE Receive(o) \/ Think(o) \/ Compact(o)
  BY <1>1
  DEF Receive, Goto, Dispatch, Conclude, turn, server, agents, client, Think, Compact, Turns
<1>2. CASE Respond(o)
  BY <1>2 DEF Respond, Goto, Conclude, turn, Answer, server, agents, Turns
<1>3. CASE Begin(o)
  <2>1. current[o] \in Requests /\ Told(o) \subseteq {"note"}
    BY <1>3 DEF Begin, Staged, Told, Sessions
  <2>2. \/ unheard' = unheard
        \/ unheard' = [unheard EXCEPT ![o] = unheard[o] \cup Told(o) \cup {current[o]}]
    BY <1>3 DEF Begin, turn
  <2>3. unheard \in [Opens -> SUBSET (Requests \cup {"note"})]
    BY DEF Turns
  <2>4. unheard' \in [Opens -> SUBSET (Requests \cup {"note"})]
    <3>1. unheard[o] \cup Told(o) \cup {current[o]} \in SUBSET (Requests \cup {"note"})
      BY <2>1, <2>3
    <3> QED
      BY <2>2, <2>3, <3>1, ChangeTyped
  <2>5. notes' = notes \/ notes' = [notes EXCEPT ![o] = FALSE]
    BY <1>3 DEF Begin
  <2>6. result' = result \/ result' = [result EXCEPT ![o] = "cancelled"]
    BY <1>3 DEF Begin, Conclude
  <2>7. UNCHANGED <<calls, rounds, arrivals, cancels>>
    BY <1>3 DEF Begin, turn
  <2> QED
    BY <2>4, <2>5, <2>6, <2>7 DEF Turns
<1>4. CASE ReachModel(o)
  BY <1>4 DEF ReachModel, Advance, Goto, server, turn, agents, client, Turns
<1>5. CASE BeforeModel(o)
  BY <1>5, DeliverHeard DEF BeforeModel, Turns
<1>6. CASE AskModel(o)
  BY <1>6 DEF AskModel, Advance, Goto, server, agents, client, Turns
<1>7. CASE Reply(o)
  <2>1. result' \in [Opens -> Results]
    BY <1>7 DEF Reply, Conclude, Turns
  <2>2. calls \in [Opens -> 0..MaxCalls] /\ rounds \in [Opens -> 0..MaxRounds]
    BY DEF Turns
  <2>3. calls' \in [Opens -> 0..MaxCalls]
    <3>1. calls' = calls \/ \E n \in 0..MaxCalls : calls' = [calls EXCEPT ![o] = n]
      BY <1>7, Steps DEF Reply
    <3> QED
      BY <2>2, <3>1, ChangeTyped
  <2>4. rounds' \in [Opens -> 0..MaxRounds]
    <3>1. \/ rounds' = rounds
          \/ rounds[o] < MaxRounds /\ rounds' = [rounds EXCEPT ![o] = rounds[o] + 1]
      BY <1>7 DEF Reply
    <3>2. rounds[o] < MaxRounds => rounds[o] + 1 \in 0..MaxRounds
      BY <2>2, Steps
    <3> QED
      BY <2>2, <3>1, <3>2, ChangeTyped
  <2>5. UNCHANGED <<unheard, notes, arrivals, cancels>>
    BY <1>7 DEF Reply, agents, client
  <2> QED
    BY <2>1, <2>3, <2>4, <2>5 DEF Turns
<1>8. CASE RunTools(o)
  <2>1. PICK done \in 0..calls[o] : calls' = [calls EXCEPT ![o] = calls[o] - done]
    BY <1>8 DEF RunTools
  <2>2. calls \in [Opens -> 0..MaxCalls]
    BY DEF Turns
  <2>3. calls[o] - done \in 0..MaxCalls
    BY <2>1, <2>2, Steps
  <2>4. calls' \in [Opens -> 0..MaxCalls]
    BY <2>1, <2>2, <2>3, ChangeTyped
  <2>5. result' \in [Opens -> Results]
    BY <1>8 DEF RunTools, Conclude, Turns
  <2>6. UNCHANGED <<rounds, unheard, notes, arrivals, cancels>>
    BY <1>8 DEF RunTools, agents, client
  <2> QED
    BY <2>4, <2>5, <2>6 DEF Turns
<1>9. CASE Interrupt(o)
  <2>1. calls' = [calls EXCEPT ![o] = 0]
    BY <1>9 DEF Interrupt
  <2>2. calls \in [Opens -> 0..MaxCalls]
    BY DEF Turns
  <2>3. calls' \in [Opens -> 0..MaxCalls]
    BY <2>1, <2>2, Steps, ChangeTyped
  <2>4. result' \in [Opens -> Results]
    BY <1>9 DEF Interrupt, Conclude, Turns
  <2>5. UNCHANGED <<rounds, unheard, notes, arrivals, cancels>>
    BY <1>9 DEF Interrupt, agents, client
  <2> QED
    BY <2>3, <2>4, <2>5 DEF Turns
<1>10. CASE Settle(o)
  <2>1. PICK settling \in BOOLEAN : Deliver(o, settling)
    BY <1>10 DEF Settle
  <2> QED
    BY <1>10, <2>1, DeliverHeard DEF Settle, Turns
<1>11. CASE ReachDone(o)
  BY <1>11 DEF ReachDone, Goto, Conclude, turn, server, agents, client, Turns
<1>12. CASE EndTurn(o)
  <2>1. calls \in [Opens -> 0..MaxCalls] /\ rounds \in [Opens -> 0..MaxRounds]
    BY DEF Turns
  <2>2. Answered(o) \in 0..MaxCalls
    BY <2>1, Steps DEF Answered
  <2>3. rounds' = [rounds EXCEPT ![o] = 0] /\ calls' = [calls EXCEPT ![o] = Answered(o)]
    BY <1>12 DEF EndTurn
  <2>4. rounds' \in [Opens -> 0..MaxRounds] /\ calls' \in [Opens -> 0..MaxCalls]
    BY <2>1, <2>2, <2>3, Steps, ChangeTyped
  <2>5. result' \in [Opens -> Results]
    BY <1>12 DEF EndTurn, Conclude, Turns
  <2>6. UNCHANGED <<unheard, notes, arrivals, cancels>>
    BY <1>12 DEF EndTurn, agents
  <2> QED
    BY <2>4, <2>5, <2>6 DEF Turns
<1> QED
  BY <1>1, <1>2, <1>3, <1>4, <1>5, <1>6, <1>7, <1>8, <1>9, <1>10, <1>11, <1>12 DEF TaskStep

\* It keeps the task at a stage that fits its prompt,
LEMMA TaskStaged ==
  ASSUME Sessions, NEW o \in Opens, Staged(o), TaskStep(o)
  PROVE  Staged(o)'
<1> USE RequestAssumption DEF Sessions, Staged, InTurn
<1>1. CASE Receive(o)
  <2>1. Head(queue[o]) \in Requests /\ Head(queue[o]) # Nobody
    <3>1. queue[o] \in Seq(Requests) /\ queue[o] # <<>>
      BY <1>1 DEF Receive
    <3> HIDE DEF Sessions
    <3> QED
      BY <3>1, HeadTailProperties
  <2>2. at'[o] = Dispatch(Head(queue[o])) /\ current'[o] = Head(queue[o])
    BY <1>1 DEF Receive, Goto
  <2>3. Dispatch(Head(queue[o])) \in {"answering", "thinking", "compacting", "preparing"}
    BY DEF Dispatch
  <2>4. /\ at[o] = "idle" /\ ~accepting[o] /\ steers[o] = <<>> /\ opens[o] = "opened"
        /\ UNCHANGED <<opens, accepting, steers>>
    BY <1>1 DEF Receive, server, turn
  <2> HIDE DEF Sessions
  <2> QED
    BY <2>1, <2>2, <2>3, <2>4
<1>2. CASE Think(o) \/ Compact(o) \/ Respond(o)
  BY <1>2 DEF Think, turn, Conclude, Goto, server, agents, client, Compact, Respond, Answer
<1>3. CASE Begin(o) \/ ReachModel(o) \/ BeforeModel(o)
  BY <1>3
  DEF Begin, Goto, Conclude, turn, Answer, server, ReachModel, Advance, agents, client,
      BeforeModel, Deliver, Reject, Rejection, Inject
<1>4. CASE AskModel(o) \/ Reply(o) \/ RunTools(o)
  BY <1>4 DEF AskModel, Advance, Goto, server, agents, client, Reply, Conclude, RunTools
<1>5. CASE Interrupt(o) \/ Settle(o) \/ ReachDone(o)
  BY <1>5
  DEF Interrupt, Goto, Conclude, turn, server, agents, client, Settle, Deliver, Reject, Rejection,
      Inject, ReachDone
<1>6. CASE EndTurn(o)
  BY <1>6 DEF EndTurn, Goto, Reject, Rejection, client, Answered, Conclude, server, agents
<1> QED
  BY <1>1, <1>2, <1>3, <1>4, <1>5, <1>6 DEF TaskStep

\* and what has to be true at that stage.
LEMMA TaskRan ==
  ASSUME Sessions, Asked, Turns, NEW o \in Opens, Staged(o), Ran(o), TaskStep(o)
  PROVE  Ran(o)'
<1> USE RequestAssumption DEF Ran, Cancelled
<1>1. CASE Receive(o)
  BY <1>1
  DEF Receive, Goto, Dispatch, Conclude, turn, server, agents, client, Sessions, Staged, InTurn,
      Turns, Prompts, Steering
<1>2. CASE Think(o)
  <2>1. /\ at[o] = "thinking" /\ kind[current[o]] = "/thinking" /\ calls[o] = 0
        /\ UNCHANGED <<current, kind, calls>>
    BY <1>2 DEF Think, turn, client
  <2>2. at'[o] \in {"answering", "ended"}
    BY <1>2 DEF Think, Goto, Sessions
  <2> QED
    BY <2>1, <2>2 DEF Steering
<1>3. CASE Compact(o) \/ Respond(o)
  <2>1. CASE Compact(o)
    <3>1. /\ at[o] = "compacting" /\ kind[current[o]] = "/compact" /\ calls[o] = 0
          /\ UNCHANGED <<current, kind, calls>>
      BY <2>1 DEF Compact, turn, client
    <3>2. at'[o] = "answering"
      BY <2>1 DEF Compact, Goto, Sessions
    <3> QED
      BY <3>1, <3>2 DEF Steering
  <2>2. CASE Respond(o)
    <3>1. at[o] = "answering" /\ calls[o] = 0 /\ calls' = calls
      BY <2>2 DEF Respond, turn
    <3>2. at'[o] = "idle"
      BY <2>2 DEF Respond, Goto, Sessions
    <3> QED
      BY <3>1, <3>2
  <2> QED
    BY <1>3, <2>1, <2>2
<1>4. CASE Begin(o)
  <2>1. /\ at[o] = "preparing" /\ calls[o] = 0
        /\ UNCHANGED <<calls, current, kind, cancelled>>
    BY <1>4 DEF Begin, turn
  <2>2. \/ at' = [at EXCEPT ![o] = "ready"]
        \/ at' = [at EXCEPT ![o] = "answering"] /\ result' = [result EXCEPT ![o] = "cancelled"]
    BY <1>4 DEF Begin, Goto, Conclude
  <2>3. at \in [Opens -> Stages] /\ result \in [Opens -> Results]
    BY DEF Sessions, Turns
  <2> QED
    BY <2>1, <2>2, <2>3
<1>5. CASE ReachModel(o)
  BY <1>5
  DEF ReachModel, Advance, Goto, server, turn, agents, client, Sessions, Staged, InTurn, Turns,
      Prompts, Steering
<1>6. CASE BeforeModel(o)
  BY <1>6
  DEF BeforeModel, Goto, Deliver, Reject, Rejection, client, Inject, server, Sessions, Staged,
      InTurn, Turns, Prompts, Steering
<1>7. CASE AskModel(o)
  BY <1>7
  DEF AskModel, Advance, Goto, server, agents, client, Sessions, Staged, InTurn, Turns, Prompts,
      Steering
<1>8. CASE Reply(o)
  <2>1. /\ at[o] = "asking" /\ (Cancelled(o) \/ unheard[o] = {}) /\ calls[o] = 0
        /\ UNCHANGED <<unheard, current, kind, cancelled>>
    BY <1>8 DEF Reply, client
  <2>2. \/ at'[o] = "ready" /\ calls' = calls
        \/ at'[o] = "tools"
        \/ at'[o] = "settling" /\ calls' = calls
        \/ at'[o] = "ending" /\ calls' = calls /\ (Cancelled(o) \/ result'[o] = "error")
    BY <1>8 DEF Reply, Goto, Conclude, Sessions, Turns
  <2> QED
    BY <2>1, <2>2
<1>9. CASE RunTools(o)
  <2>1. /\ at[o] = "tools" /\ (Cancelled(o) \/ unheard[o] = {})
        /\ UNCHANGED <<unheard, current, kind, cancelled>>
    BY <1>9 DEF RunTools, client
  <2>2. \/ at'[o] = "tools"
        \/ at'[o] = "ready" /\ calls'[o] = calls[o] - calls[o]
        \/ at'[o] = "ending" /\ (Cancelled(o) \/ result'[o] = "error")
    BY <1>9 DEF RunTools, Goto, Conclude, Sessions, Turns
  <2>3. calls[o] - calls[o] = 0
    <3>1. calls[o] \in 0..MaxCalls
      BY DEF Turns
    <3> QED
      BY <3>1, Steps
  <2> QED
    BY <2>1, <2>2, <2>3
<1>10. CASE Interrupt(o)
  BY <1>10
  DEF Interrupt, Goto, Conclude, turn, server, agents, client, Sessions, Staged, InTurn, Turns,
      Prompts, Steering
<1>11. CASE Settle(o)
  <2>1. /\ at[o] = "settling" /\ (Cancelled(o) \/ unheard[o] = {}) /\ calls[o] = 0
        /\ UNCHANGED <<calls, current, kind, cancelled>>
    BY <1>11 DEF Settle
  <2>2. at'[o] = IF Continues(o) THEN "ready" ELSE "finishing"
    BY <1>11 DEF Settle, Goto, Sessions
  <2>3. CASE Continues(o)
    BY <2>1, <2>2, <2>3
  <2>4. CASE ~Continues(o)
    <3>1. ~notes[o] /\ (~accepting[o] \/ Cancelled(o) \/ steers[o] = <<>>)
      BY <2>4 DEF Continues
    <3>2. Deliver(o, TRUE) /\ (~accepting[o] \/ Closes(o, TRUE))
      BY <1>11, <3>1 DEF Settle, Closes
    <3>3. unheard' = [unheard EXCEPT ![o] = unheard[o] \cup Told(o)]
      BY <3>2 DEF Deliver
    <3>4. unheard'[o] = unheard[o]
      BY <3>1, <3>3 DEF Told, Turns
    <3> QED
      BY <2>1, <2>2, <2>4, <3>4
  <2> QED
    BY <2>3, <2>4
<1>12. CASE ReachDone(o)
  BY <1>12
  DEF ReachDone, Goto, Conclude, turn, server, agents, client, Sessions, Staged, InTurn, Turns,
      Prompts, Steering
<1>13. CASE EndTurn(o)
  BY <1>13
  DEF EndTurn, Goto, Reject, Rejection, client, Answered, Conclude, server, agents, Sessions,
      Staged, InTurn, Turns, Prompts, Steering
<1> QED
  BY <1>1, <1>2, <1>3, <1>4, <1>5, <1>6, <1>7, <1>8, <1>9, <1>10, <1>11, <1>12, <1>13
  DEF TaskStep

\* What is in queues and channels are requests.
LEMMA WorksTyped ==
  ASSUME Sessions, Asked, NEW o \in Opens, Staged(o), Works(o)
  PROVE  /\ queue' \in [Opens -> Seq(Requests)] /\ pending' \in [Opens -> Seq(Requests)]
         /\ current' \in [Opens -> Requests \cup {Nobody}]
         /\ steers' \in [Opens -> Seq(Requests)]
<1> USE DEF Sessions
<1>1. <<>> \in Seq(Requests)
  OBVIOUS
<1>2. CASE Quiet
  BY <1>2 DEF Quiet
<1>3. CASE Clears(o)
  BY <1>1, <1>3 DEF Clears
<1>4. CASE Starts(o)
  BY <1>1, <1>4 DEF Starts
<1>5. CASE Takes(o)
  <2>1. queue[o] \in Seq(Requests) /\ queue[o] # <<>>
    BY <1>5 DEF Takes
  <2>2. Head(queue[o]) \in Requests /\ Tail(queue[o]) \in Seq(Requests)
    BY <2>1
  <2> QED
    BY <1>5, <2>2 DEF Takes
<1>6. CASE Settles(o)
  <2>1. current[o] \in Requests
    BY <1>6 DEF Settles, Staged
  <2>2. pending[o] \in Seq(Requests)
    OBVIOUS
  <2>3. pending[o] # <<>> => Tail(pending[o]) \in Seq(Requests)
    BY <2>2
  <2>4. pending[o] = <<>> => Tail(pending[o]) = <<>>
    OBVIOUS
  <2>5. Tail(pending[o]) \in Seq(Requests)
    BY <1>1, <2>3, <2>4
  <2> QED
    BY <1>6, <2>5 DEF Settles
<1> QED
  BY <1>2, <1>3, <1>4, <1>5, <1>6 DEF Works

\* The types hold at first,
LEMMA TypesInit == Init => Sessions /\ Asked /\ Turns /\ SendingTo
<1> SUFFICES ASSUME Init PROVE Sessions /\ Asked /\ Turns /\ SendingTo
  OBVIOUS
<1>1. Sessions
  <2>1. <<>> \in Seq(Requests) /\ "none" \in Stages
    BY DEF Stages
  <2> QED
    BY <2>1 DEF Init, Sessions
<1>4. Asked
  <2>1. kind \in [Requests -> Prompts \cup Steering]
    BY DEF Init
  <2> QED
    BY <2>1 DEF Init, Asked
<1>2. 0 \in 0..MaxCalls /\ 0 \in 0..MaxRounds /\ 0 \in 0..MaxNotes /\ 0 \in 0..MaxCancels
  BY BoundAssumption
<1>3. Turns
  BY <1>2 DEF Init, Turns, Results
<1> QED
  BY <1>1, <1>4, <1>3 DEF Init, SendingTo

\* after the step of a handler,
LEMMA HandlerTypes ==
  ASSUME Sessions, Asked, Turns, SendingTo, NEW r \in Requests, Prompt(r) \/ Steer(r)
  PROVE  Sessions' /\ Asked' /\ Turns' /\ SendingTo'
<1> USE DEF Sessions
<1>1. UNCHANGED <<opens, at, result, accepting, calls, rounds, unheard, notes, arrivals,
                  cancelled, cancels, into>>
  BY Handles DEF agents
<1>2. Turns'
  BY <1>1 DEF Turns
<1>3. CASE Pushes(r)
  <2>1. handle \in Opens /\ pending[handle] \in Seq(Requests)
    BY <1>3 DEF Pushes
  <2>2. Append(pending[handle], r) \in Seq(Requests)
    BY <2>1, AppendProperties
  <2>3. pending' \in [Opens -> Seq(Requests)]
    BY <1>3, <2>2 DEF Pushes
  <2> QED
    BY <1>1, <1>2, <1>3, <2>3 DEF Pushes, Asked, SendingTo
<1>4. CASE Steered(r)
  <2>1. handle \in Opens /\ steers[handle] \in Seq(Requests)
    BY <1>4 DEF Steered
  <2>2. Append(steers[handle], r) \in Seq(Requests) /\ current[handle] \in Requests \cup {Nobody}
    BY <2>1, AppendProperties
  <2>3. steers' \in [Opens -> Seq(Requests)]
    BY <1>4, <2>2 DEF Steered
  <2>4. aim' \in [Requests -> Requests \cup {Nobody}]
    BY <1>4, <2>2 DEF Steered, Asked
  <2> QED
    BY <1>1, <1>2, <1>4, <2>3, <2>4 DEF Steered, Asked, SendingTo
<1>5. CASE Refused(r)
  <2>1. response' \in [Requests -> Answers \cup {Nobody}]
    BY <1>5 DEF Refused, Asked, Answers, Results
  <2> QED
    BY <1>1, <1>2, <1>5, <2>1 DEF Refused, Asked, SendingTo
<1> QED
  BY <1>3, <1>4, <1>5, Handles

\* after a request is sent,
LEMMA SendTypes ==
  ASSUME Sessions, Asked, Turns, Tokens, SendingTo, Send
  PROVE  Sessions' /\ Asked' /\ Turns' /\ SendingTo'
<1>1. PICK s \in Requests : s = sending /\ s # Nobody
  BY DEF Send, Sessions
<1>2. PICK h \in Opens : h = handle
  BY <1>1, Sending
<1>3. /\ Only(current[h]) \in Seq(Requests) /\ queue[h] \in Seq(Requests)
      /\ pending[h] = (Only(current[h]) \o queue[h]) \o <<s>>
  BY <1>1, <1>2, LastToken
<1>4. Front(pending[h]) \in Seq(Requests)
  <2> DEFINE f == Only(current[h])
  <2> HIDE DEF f
  <2>1. Front((f \o queue[h]) \o <<s>>) = (f \o queue[h]) \o <<>>
    BY <1>3, TokenWithdrawn DEF f
  <2>2. (f \o queue[h]) \o <<>> \in Seq(Requests)
    BY <1>3 DEF f
  <2> QED
    BY <1>3, <2>1, <2>2 DEF f
<1>5. Append(queue[h], s) \in Seq(Requests)
  BY <1>3, AppendProperties
<1>6. queue' \in [Opens -> Seq(Requests)] /\ pending' \in [Opens -> Seq(Requests)]
  BY <1>1, <1>2, <1>4, <1>5 DEF Send, Sessions, Withdraw
<1>7. response' \in [Requests -> Answers \cup {Nobody}]
  <2>1. response' = response \/ response' = [response EXCEPT ![s] = "error"]
    BY <1>1 DEF Send, Answer
  <2> QED
    BY <2>1 DEF Asked, Answers, Results
<1>8. Sessions'
  BY <1>6 DEF Send, Sessions, turn
<1>9. Asked' /\ Turns' /\ SendingTo'
  BY <1>7 DEF Send, Asked, Turns, SendingTo, turn, agents
<1> QED
  BY <1>8, <1>9

\* and after every step.
LEMMA TypesStep ==
  ASSUME IInv, [Next]_vars
  PROVE  Sessions' /\ Asked' /\ Turns' /\ SendingTo'
<1> USE DEF IInv
<1>1. ASSUME NEW o \in Opens, Open(o) \/ OpenFails(o)
      PROVE  Sessions' /\ Asked' /\ Turns' /\ SendingTo'
  <2>1. opens' \in [Opens -> {"new", "opening", "opened", "failed"}]
    BY <1>1 DEF Open, OpenFails, Sessions
  <2>2. UNCHANGED <<handle, sending, task, turn, agents, client>>
    BY <1>1 DEF Open, OpenFails
  <2> QED
    BY <2>1, <2>2 DEF Sessions, Asked, Turns, SendingTo, task, turn, agents, client
<1>2. ASSUME NEW o \in Opens, SubagentEnds(o) PROVE Sessions' /\ Asked' /\ Turns' /\ SendingTo'
  <2>1. arrivals \in [Opens -> 0..MaxNotes] /\ notes \in [Opens -> BOOLEAN]
    BY DEF Turns
  <2>2. arrivals[o] + 1 \in 0..MaxNotes
    BY <1>2, <2>1, Steps DEF SubagentEnds
  <2>3. arrivals' \in [Opens -> 0..MaxNotes] /\ notes' \in [Opens -> BOOLEAN]
    BY <1>2, <2>1, <2>2, ChangeTyped DEF SubagentEnds
  <2>4. UNCHANGED <<server, task, turn, client>>
    BY <1>2 DEF SubagentEnds
  <2> QED
    BY <2>3, <2>4 DEF Sessions, Asked, Turns, SendingTo, server, task, turn, client
<1>3. ASSUME NEW o \in Opens, Insert(o) PROVE Sessions' /\ Asked' /\ Turns' /\ SendingTo'
  BY <1>3 DEF Insert, Goto, Sessions, Asked, Turns, SendingTo, Stages, turn, agents, client
<1>4. ASSUME NEW o \in Opens, TaskStep(o) PROVE Sessions' /\ Asked' /\ Turns' /\ SendingTo'
  <2>1. Works(o)
    BY <1>4, TaskWorks
  <2>2. Sessions'
    BY <1>4, <2>1, WorksTyped, TaskSessions DEF Sessions, Works, server
  <2>3. Asked' /\ SendingTo'
    BY <1>4, <2>1, TaskAsked DEF Asked, SendingTo, Works, server
  <2> QED
    BY <1>4, <2>2, <2>3, TaskTurns
<1>5. ASSUME NEW r \in Requests, Prompt(r) \/ Steer(r)
      PROVE  Sessions' /\ Asked' /\ Turns' /\ SendingTo'
  BY <1>5, HandlerTypes
<1>6. CASE Send
  BY <1>6, SendTypes
<1>7. CASE Cancel
  <2>1. handle \in Opens
    BY <1>7 DEF Cancel, Sessions
  <2>2. Range(pending[handle]) \subseteq Requests
    BY <2>1, RangeOfSeq DEF Sessions
  <2>3. Asked'
    BY <1>7, <2>2 DEF Cancel, Asked
  <2>4. cancels' \in 0..MaxCancels
    BY <1>7, Steps DEF Cancel, Turns
  <2> QED
    BY <1>7, <2>3, <2>4 DEF Cancel, Sessions, Turns, SendingTo, server, task, turn, agents
<1>8. CASE UNCHANGED vars
  BY <1>8 DEF vars, server, task, turn, agents, client, Sessions, Asked, Turns, SendingTo
<1> QED
  BY <1>1, <1>2, <1>3, <1>4, <1>5, <1>6, <1>7, <1>8 DEF Next

----------------------------------------------------------------------------
(* The stages of the tasks.                                                *)

\* A session no step is about stays as it is.
LEMMA OthersKeep ==
  ASSUME NEW w \in Opens, Bounded(w), Staged(w), Ran(w),
         opens'[w] = opens[w], handle' = handle, at'[w] = at[w], queue'[w] = queue[w],
         steers'[w] = steers[w], current'[w] = current[w], accepting'[w] = accepting[w],
         result'[w] = result[w], calls'[w] = calls[w], unheard'[w] = unheard[w],
         kind' = kind, cancelled \subseteq cancelled'
  PROVE  Bounded(w)' /\ Staged(w)' /\ Ran(w)'
<1>1. Bounded(w)' /\ Staged(w)'
  BY DEF Bounded, Staged
<1>2. Ran(w)'
  BY DEF Ran, Cancelled
<1> QED
  BY <1>1, <1>2

\* Nothing a task does fills a queue.
LEMMA WorksBounded ==
  ASSUME Sessions, Tokens, NEW o \in Opens, Bounded(o), Works(o)
  PROVE  Bounded(o)'
<1>1. queue'[o] = queue[o] \/ (queue[o] # <<>> /\ queue'[o] = Tail(queue[o]))
  BY DEF Works, Quiet, Clears, Starts, Takes, Settles, Sessions
<1>2. steers'[o] = steers[o] \/ steers'[o] = <<>>
  BY DEF Works, Quiet, Clears, Starts, Takes, Settles, Sessions
<1>3. queue[o] # <<>> => Len(Tail(queue[o])) <= Len(queue[o])
  BY TailInjects DEF Sessions, Tokens
<1>4. MaxQueued \in Nat /\ MaxPending \in Nat /\ Len(<<>>) = 0 /\ Len(queue[o]) \in Nat
  BY BoundAssumption DEF Sessions
<1>5. queue[o] # <<>> => Len(Tail(queue[o])) \in Nat
  BY DEF Sessions
<1>6. Len(queue'[o]) <= MaxQueued
  <2>1. CASE queue'[o] = queue[o]
    BY <2>1 DEF Bounded
  <2>2. CASE queue[o] # <<>> /\ queue'[o] = Tail(queue[o])
    <3>1. Len(queue[o]) <= MaxQueued
      BY DEF Bounded
    <3> QED
      BY <1>3, <1>4, <1>5, <2>2, <3>1
  <2> QED
    BY <1>1, <2>1, <2>2
<1>7. Len(steers'[o]) <= MaxPending
  BY <1>2, <1>4 DEF Bounded
<1> QED
  BY <1>6, <1>7 DEF Bounded

\* Every step keeps the bounds and the stages.
LEMMA StagesStep ==
  ASSUME IInv, [Next]_vars, NEW w \in Opens
  PROVE  Bounded(w)' /\ Staged(w)' /\ Ran(w)'
<1> USE DEF IInv
<1>1. ASSUME NEW o \in Opens, Open(o) \/ OpenFails(o) PROVE Bounded(w)' /\ Staged(w)' /\ Ran(w)'
  <2>1. UNCHANGED <<handle, sending, task, turn, agents, client>>
    BY <1>1 DEF Open, OpenFails
  <2>2. CASE w # o
    <3>1. opens'[w] = opens[w]
      BY <1>1, <2>2 DEF Open, OpenFails, Sessions
    <3> QED
      BY <2>1, <3>1, OthersKeep DEF task, turn, client
  <2>3. CASE w = o
    <3>1. at[w] = "none"
      BY <1>1, <2>3 DEF Open, OpenFails, Staged
    <3> QED
      BY <2>1, <3>1 DEF Bounded, Staged, Ran, Cancelled, task, turn, client
  <2> QED
    BY <2>2, <2>3
<1>2. ASSUME NEW o \in Opens, SubagentEnds(o) PROVE Bounded(w)' /\ Staged(w)' /\ Ran(w)'
  BY <1>2, OthersKeep DEF SubagentEnds, server, task, turn, client
<1>3. ASSUME NEW o \in Opens, Insert(o) PROVE Bounded(w)' /\ Staged(w)' /\ Ran(w)'
  <2>1. /\ opens' = [opens EXCEPT ![o] = "opened"] /\ at' = [at EXCEPT ![o] = "idle"]
        /\ handle' = o /\ opens[o] = "opening"
        /\ UNCHANGED <<queue, pending, current, result, turn, agents, client>>
    BY <1>3 DEF Insert, Goto
  <2>2. CASE w = o
    <3>1. at[w] = "none" /\ at'[w] = "idle" /\ opens'[w] = "opened"
      BY <2>1, <2>2 DEF Staged, Sessions
    <3> QED
      BY <2>1, <3>1 DEF Bounded, Staged, Ran, Cancelled, InTurn, turn, client
  <2>3. CASE w # o
    <3>1. at'[w] = at[w] /\ opens'[w] = opens[w]
      BY <2>1, <2>3 DEF Sessions
    <3>2. Bounded(w)'
      BY <2>1 DEF Bounded, turn
    <3>3. Staged(w)'
      BY <2>1, <2>3, <3>1 DEF Staged, turn
    <3>4. Ran(w)'
      BY <2>1, <3>1 DEF Ran, Cancelled, turn, client
    <3> QED
      BY <3>2, <3>3, <3>4
  <2> QED
    BY <2>2, <2>3
<1>4. ASSUME NEW o \in Opens, TaskStep(o) PROVE Bounded(w)' /\ Staged(w)' /\ Ran(w)'
  <2>1. Works(o)
    BY <1>4, TaskWorks
  <2>2. CASE w = o
    BY <1>4, <2>1, <2>2, WorksBounded, TaskStaged, TaskRan
  <2>3. CASE w # o
    BY <2>1, <2>3, OthersKeep DEF Works, Alone, server
  <2> QED
    BY <2>2, <2>3
<1>5. ASSUME NEW r \in Requests, Prompt(r) \/ Steer(r) PROVE Bounded(w)' /\ Staged(w)' /\ Ran(w)'
  <2>1. /\ UNCHANGED <<opens, at, result, accepting, calls, rounds, unheard, cancelled>>
        /\ HasRoom(handle) \/ steers' = steers
        /\ Pushes(r) \/ Steered(r) \/ Refused(r)
    BY <1>5, Handles
  <2>2. UNCHANGED <<handle, queue, current, kind>>
    BY <2>1 DEF Pushes, Steered, Refused
  <2>3. CASE steers'[w] = steers[w]
    BY <2>1, <2>2, <2>3, OthersKeep
  <2>4. CASE steers'[w] # steers[w]
    <3>1. Steered(r) /\ HasRoom(w) /\ w = handle
      BY <2>1, <2>4 DEF Pushes, Steered, Refused, Sessions
    <3>2. accepting[w] /\ steers'[w] = Append(steers[w], r) /\ Len(steers[w]) < MaxPending
      BY <3>1 DEF Steered, Sessions, HasRoom
    <3>3. Len(steers'[w]) = Len(steers[w]) + 1 /\ Len(steers[w]) \in Nat
      BY <3>2, AppendProperties DEF Sessions
    <3>4. Len(steers'[w]) <= MaxPending
      BY <3>2, <3>3, BoundAssumption
    <3>5. Bounded(w)'
      BY <2>2, <3>4 DEF Bounded
    <3>6. Staged(w)'
      BY <2>1, <2>2, <3>2 DEF Staged
    <3>7. Ran(w)'
      BY <2>1, <2>2 DEF Ran, Cancelled
    <3> QED
      BY <3>5, <3>6, <3>7
  <2> QED
    BY <2>3, <2>4
<1>6. CASE Send
  <2>1. UNCHANGED <<opens, handle, at, current, result, turn, kind, cancelled>>
    BY <1>6 DEF Send
  <2>2. CASE queue'[w] = queue[w]
    BY <2>1, <2>2, OthersKeep DEF turn
  <2>3. CASE queue'[w] # queue[w]
    <3>1. /\ w = handle /\ queue'[w] = Append(queue[w], sending) /\ Len(queue[w]) < MaxQueued
          /\ sending \in Requests
      BY <1>6, <2>3 DEF Send, Sessions
    <3>2. Len(queue'[w]) = Len(queue[w]) + 1 /\ Len(queue[w]) \in Nat
      BY <3>1, AppendProperties DEF Sessions
    <3>3. Len(queue'[w]) <= MaxQueued
      BY <3>1, <3>2, BoundAssumption
    <3>4. Bounded(w)'
      BY <2>1, <3>3 DEF Bounded, turn
    <3>5. Staged(w)'
      BY <2>1, <3>1 DEF Staged, turn
    <3>6. Ran(w)'
      BY <2>1 DEF Ran, Cancelled, turn
    <3> QED
      BY <3>4, <3>5, <3>6
  <2> QED
    BY <2>2, <2>3
<1>7. CASE Cancel
  BY <1>7, OthersKeep DEF Cancel, server, task, turn
<1>8. CASE UNCHANGED vars
  BY <1>8, OthersKeep DEF vars, server, task, turn, client
<1> QED
  BY <1>1, <1>2, <1>3, <1>4, <1>5, <1>6, <1>7, <1>8 DEF Next

----------------------------------------------------------------------------
(* What requests are told of their input.                                  *)

\* A request that nothing is done to hears and is told nothing new.
LEMMA SameTruly ==
  ASSUME NEW r \in Requests, Truly(r), kind' = kind, response'[r] = response[r],
         into'[r] = into[r], aim'[r] = aim[r],
         \A o \in Opens : r \in Range(steers'[o]) =>
           r \in Range(steers[o]) /\ current'[o] = current[o]
  PROVE  Truly(r)'
  BY DEF Truly

\* A request that steers a turn is answered by nobody yet, and the turn has a prompt.
LEMMA Steers ==
  ASSUME Sessions, Asked, Tokens, NEW o \in Opens, Staged(o), NEW r \in Range(steers[o])
  PROVE  /\ r \in Requests /\ response[r] = Nobody /\ at[o] \in InTurn /\ current[o] # Nobody
         /\ r \in sent
         /\ \A p \in Places, w \in Opens : In(r, p, w) => p = "steering" /\ w = o
<1>1. r \in Requests
  BY RangeOfSeq DEF Sessions
<1>2. In(r, "steering", o) /\ Placed(r) /\ "steering" \in Places
  BY <1>1, Somewhere DEF Tokens, Places
<1>3. response[r] = Nobody /\ r \in sent
  BY <1>2 DEF Placed, Nowhere
<1>4. at[o] \in InTurn /\ current[o] # Nobody
  <2>1. steers[o] # <<>>
    BY EmptyRange
  <2> QED
    BY <2>1 DEF Staged, InTurn
<1> QED
  BY <1>1, <1>2, <1>3, <1>4 DEF Placed, InOne

\* What a task tells a request is true.
LEMMA WorksTruly ==
  ASSUME Sessions, Asked, Tokens, NEW o \in Opens, Staged(o), Works(o),
         NEW r \in Requests, Truly(r)
  PROVE  Truly(r)'
<1>1. kind' = kind /\ aim' = aim
  BY DEF Works
<1>2. CASE Quiet
  BY <1>1, <1>2, SameTruly DEF Quiet
<1>3. CASE Clears(o)
  <2>1. /\ steers'[o] = <<>> /\ current' = current
        /\ \A w \in Opens \ {o} : steers'[w] = steers[w]
    BY <1>3 DEF Clears, Sessions
  <2>2. \A w \in Opens : r \in Range(steers'[w]) => r \in Range(steers[w])
    BY <2>1, EmptyRange
  <2>3. CASE r \notin Range(steers[o])
    BY <1>1, <1>3, <2>1, <2>2, <2>3, SameTruly DEF Clears
  <2>4. CASE r \in Range(steers[o])
    <3>1. response[r] = Nobody /\ current[o] # Nobody /\ aim[r] = current[o]
      BY <2>4, Steers DEF Truly
    <3>2. kind[r] \in Steering => into[r] = Nobody
      BY <3>1, RequestAssumption DEF Truly, Answers
    <3>3. \/ response'[r] \in {"error", "prompt required"} /\ into'[r] = into[r]
          \/ response'[r] = "injected" /\ into'[r] = current[o]
      BY <1>3, <2>4 DEF Clears
    <3> QED
      BY <1>1, <2>1, <2>2, <3>1, <3>2, <3>3 DEF Truly
  <2> QED
    BY <2>3, <2>4
<1>4. CASE Starts(o)
  <2>1. steers' = steers /\ current' = current
    BY <1>4 DEF Starts, Staged, InTurn, Sessions
  <2>2. CASE r # current[o]
    <3>1. into'[r] = into[r] /\ response'[r] = response[r]
      BY <1>4, <2>2 DEF Starts, Asked
    <3> QED
      BY <1>1, <2>1, <3>1, SameTruly
  <2>3. CASE r = current[o]
    <3>1. response[r] \in {Nobody, "started new turn"}
      <4>1. In(r, "turn", o) /\ Placed(r) /\ "turn" \in Places
        BY <2>3, Somewhere DEF Tokens, Places
      <4> QED
        BY <4>1 DEF Placed, Nowhere
    <3>2. \/ kind[r] \in Prompts /\ response'[r] = response[r]
          \/ response'[r] = "started new turn"
      BY <1>4, <2>3 DEF Starts
    <3>3. kind[r] \in Prompts => kind[r] \notin Steering
      BY DEF Prompts, Steering
    <3>4. response'[r] # "injected"
      BY <3>1, <3>2, RequestAssumption DEF Answers
    <3> QED
      BY <1>1, <2>1, <3>2, <3>3, <3>4 DEF Truly
  <2> QED
    BY <2>2, <2>3
<1>5. CASE Takes(o) \/ Settles(o)
  <2>1. steers[o] = <<>> /\ steers' = steers /\ into' = into
    BY <1>5 DEF Takes, Settles, Staged, InTurn
  <2>2. \A w \in Opens :
          r \in Range(steers'[w]) => r \in Range(steers[w]) /\ current'[w] = current[w]
    BY <1>5, <2>1, EmptyRange DEF Takes, Settles, Sessions
  <2>3. CASE response'[r] = response[r]
    BY <1>1, <2>1, <2>2, <2>3, SameTruly
  <2>4. CASE response'[r] # response[r]
    <3>1. \/ kind[r] \in Prompts /\ response'[r] \in Results
          \/ response[r] = Nobody /\ response'[r] = "error"
      BY <1>5, <2>4 DEF Takes, Settles
    <3>2. kind[r] \in Steering => into[r] = Nobody
      BY <3>1, RequestAssumption DEF Truly, Prompts, Steering, Answers
    <3>3. response'[r] # "injected"
      BY <3>1 DEF Results
    <3> QED
      BY <1>1, <2>1, <2>2, <3>2, <3>3 DEF Truly
  <2> QED
    BY <2>3, <2>4
<1> QED
  BY <1>2, <1>3, <1>4, <1>5 DEF Works

\* Every step keeps what requests are told true.
LEMMA TrulyStep ==
  ASSUME IInv, [Next]_vars, NEW r \in Requests
  PROVE  Truly(r)'
<1> USE DEF IInv
<1>1. ASSUME NEW o \in Opens, Open(o) \/ OpenFails(o) PROVE Truly(r)'
  BY <1>1, SameTruly DEF Open, OpenFails, task, turn, client
<1>2. ASSUME NEW o \in Opens, SubagentEnds(o) \/ Insert(o) PROVE Truly(r)'
  BY <1>2, SameTruly DEF SubagentEnds, Insert, server, task, turn, client
<1>3. ASSUME NEW o \in Opens, TaskStep(o) PROVE Truly(r)'
  BY <1>3, TaskWorks, WorksTruly
<1>4. ASSUME NEW x \in Requests, Prompt(x) \/ Steer(x) PROVE Truly(r)'
  <2>1. Pushes(x) \/ (kind[x] \in Steering /\ (Steered(x) \/ Refused(x)))
    BY <1>4, Handles
  <2>2. x \notin sent /\ Nowhere(x) /\ response[x] = Nobody
    BY <2>1 DEF Pushes, Steered, Refused, Tokens, Placed
  <2>3. CASE Pushes(x)
    BY <2>3, SameTruly DEF Pushes
  <2>4. CASE Refused(x) /\ kind[x] \in Steering
    <3>1. CASE r # x
      BY <2>4, <3>1, SameTruly DEF Refused, Asked
    <3>2. CASE r = x
      <4>1. response'[r] \in {"error", "prompt required"}
        BY <2>4, <3>2 DEF Refused, Asked
      <4>2. into[r] = Nobody
        BY <2>2, <2>4, <3>2, RequestAssumption DEF Truly, Answers
      <4> QED
        BY <2>4, <4>1, <4>2 DEF Truly, Refused
    <3> QED
      BY <3>1, <3>2
  <2>5. CASE Steered(x)
    <3>1. PICK h \in Opens : h = handle
      BY <2>5 DEF Steered, Sessions
    <3>2. /\ Range(steers'[h]) = Range(steers[h]) \cup {x}
          /\ \A w \in Opens \ {h} : steers'[w] = steers[w]
      BY <2>5, <3>1, AppendRange DEF Steered, Sessions
    <3>3. UNCHANGED <<current, response, into, kind>>
      BY <2>5 DEF Steered
    <3>4. CASE r # x
      <4>1. aim'[r] = aim[r]
        BY <2>5, <3>4 DEF Steered, Asked
      <4> QED
        BY <3>2, <3>3, <3>4, <4>1, SameTruly
    <3>5. CASE r = x
      <4>1. aim'[r] = current[h]
        BY <2>5, <3>1, <3>5 DEF Steered, Asked
      <4>2. \A w \in Opens : r \notin Range(steers[w])
        BY <2>2, <3>5, Somewhere DEF Nowhere, Places
      <4>3. response[r] # "injected"
        BY <2>2, <3>5, RequestAssumption DEF Answers
      <4> QED
        BY <3>2, <3>3, <3>5, <4>1, <4>2, <4>3 DEF Truly
    <3> QED
      BY <3>4, <3>5
  <2> QED
    BY <2>1, <2>3, <2>4, <2>5
<1>5. CASE Send
  <2>1. UNCHANGED <<current, turn, kind, aim, into>>
    BY <1>5 DEF Send
  <2>2. CASE response'[r] = response[r]
    BY <2>1, <2>2, SameTruly DEF turn
  <2>3. CASE response'[r] # response[r]
    <3>1. response'[r] = "error" /\ r = sending
      BY <1>5, <2>3 DEF Send, Answer, Asked, Sessions
    <3>2. response[r] = Nobody
      BY <3>1, Sending
    <3>3. kind[r] \in Steering => into[r] = Nobody
      BY <3>2, RequestAssumption DEF Truly, Answers
    <3> QED
      BY <2>1, <3>1, <3>3 DEF Truly, turn
  <2> QED
    BY <2>2, <2>3
<1>6. CASE Cancel
  BY <1>6, SameTruly DEF Cancel, task, turn
<1>7. CASE UNCHANGED vars
  BY <1>7, SameTruly DEF vars, task, turn, client
<1> QED
  BY <1>1, <1>2, <1>3, <1>4, <1>5, <1>6, <1>7 DEF Next

----------------------------------------------------------------------------
(* The theorems.                                                           *)

\* The initial states satisfy the invariant,
LEMMA InvariantInit == Init => IInv
<1> SUFFICES ASSUME Init PROVE IInv
  OBVIOUS
<1>1. Sessions /\ Asked /\ Turns /\ SendingTo
  BY TypesInit
<1>2. ASSUME NEW o \in Opens PROVE Bounded(o) /\ Staged(o) /\ Ran(o)
  <2>1. Len(<<>>) <= MaxQueued /\ Len(<<>>) <= MaxPending
    BY BoundAssumption
  <2>2. Bounded(o)
    BY <2>1 DEF Init, Bounded
  <2>3. Staged(o)
    BY RequestAssumption DEF Init, Staged
  <2>4. Ran(o)
    BY DEF Init, Ran
  <2> QED
    BY <2>2, <2>3, <2>4
<1>3. ASSUME NEW o \in Opens PROVE Matches(o) /\ IsInjective(queue[o])
  <2>1. (<<>> \o <<>>) \o <<>> = <<>> /\ IsInjective(<<>>)
    BY DEF IsInjective
  <2>2. Only(current[o]) = <<>> /\ Only(sending) = <<>> /\ queue[o] = <<>> /\ pending[o] = <<>>
    BY DEF Init, Only
  <2>3. (IF handle = o THEN Only(sending) ELSE <<>>) = <<>>
    BY <2>2
  <2> QED
    BY <2>1, <2>2, <2>3 DEF Matches
<1>4. ASSUME NEW r \in Requests PROVE Placed(r) /\ Truly(r)
  <2>1. \A p \in Places, o \in Opens : ~In(r, p, o)
    BY EmptyRange, RequestAssumption DEF Init, In
  <2>2. response[r] = Nobody /\ r \notin sent /\ into[r] = Nobody
    BY DEF Init
  <2>3. Placed(r)
    BY <2>1, <2>2, RequestAssumption DEF Placed, InOne, Nowhere, Answers
  <2>4. \A o \in Opens : r \notin Range(steers[o])
    BY EmptyRange DEF Init
  <2>5. Truly(r)
    BY <2>2, <2>4, RequestAssumption DEF Truly, Answers
  <2> QED
    BY <2>3, <2>5
<1> QED
  BY <1>1, <1>2, <1>3, <1>4 DEF IInv, Tokens

\* and every step keeps it.
LEMMA InvariantStep ==
  ASSUME IInv, [Next]_vars
  PROVE  IInv'
<1>1. Sessions' /\ Asked' /\ Turns' /\ SendingTo'
  BY TypesStep
<1>2. \A o \in Opens : Bounded(o)' /\ Staged(o)' /\ Ran(o)'
  BY StagesStep
<1>3. Tokens'
  BY TokensStep
<1>4. \A r \in Requests : Truly(r)'
  BY TrulyStep
<1> QED
  BY <1>1, <1>2, <1>3, <1>4 DEF IInv

\* The inductive invariant holds in every behaviour.
THEOREM Invariance == Spec => []IInv
<1>1. Init => IInv
  BY InvariantInit
<1>2. IInv /\ [Next]_vars => IInv'
  BY InvariantStep
<1> QED
  BY <1>1, <1>2, PTL DEF Spec

\* Every variable has its type and every queue its bound, MAX_QUEUED and
\* MAX_PENDING (server.rs, steering.rs).
THEOREM TypeCorrect == Spec => []TypeOK
<1>1. IInv => TypeOK
  BY DEF IInv, Sessions, Asked, Turns, Bounded, TypeOK
<1> QED
  BY <1>1, Invariance, PTL

\* The tokens of the invariant are those of PendingMatches,
LEMMA TokensMatch == IInv => PendingMatches
<1> SUFFICES ASSUME IInv, NEW o \in Opens
             PROVE  pending[o] = (IF current[o] = Nobody THEN <<>> ELSE <<current[o]>>)
                                 \o queue[o]
                                 \o (IF sending # Nobody /\ handle = o THEN <<sending>> ELSE <<>>)
  BY DEF PendingMatches
<1>1. Matches(o)
  BY DEF IInv, Tokens
<1>2. Only(current[o]) = IF current[o] = Nobody THEN <<>> ELSE <<current[o]>>
  BY DEF Only
<1>3. (IF handle = o THEN Only(sending) ELSE <<>>)
      = IF sending # Nobody /\ handle = o THEN <<sending>> ELSE <<>>
  BY DEF Only
<1> QED
  BY <1>1, <1>2, <1>3 DEF Matches

\* The places of a request as a set.
Holding(r) == {h \in Places \X Opens : In(r, h[1], h[2])}

\* its places those of OneHolder;
LEMMA HoldingIs ==
  ASSUME NEW r
  PROVE  {<<"handler", o>> : o \in {p \in Opens : sending = r /\ handle = p}}
         \cup {<<"channel", o>> : o \in {p \in Opens : r \in Range(queue[p])}}
         \cup {<<"turn", o>> : o \in {p \in Opens : current[p] = r}}
         \cup {<<"steering", o>> : o \in {p \in Opens : r \in Range(steers[p])}}
         = Holding(r)
  BY DEF Holding, In, Places

\* and a request that waits has exactly one.
LEMMA OnePlaced == IInv => OneHolder
<1> SUFFICES ASSUME IInv, NEW r \in sent
             PROVE  /\ response[r] = Nobody => Cardinality(Holding(r)) = 1
                    /\ response[r] \notin {Nobody, "started new turn"} => Holding(r) = {}
  BY HoldingIs DEF OneHolder
<1>1. r \in Requests /\ Placed(r)
  BY DEF IInv, Asked, Tokens
<1>2. ASSUME response[r] = Nobody PROVE Cardinality(Holding(r)) = 1
  <2>1. PICK p \in Places, o \in Opens : In(r, p, o)
    BY <1>1, <1>2 DEF Placed, Nowhere
  <2>2. \A q \in Places, w \in Opens : In(r, q, w) <=> q = p /\ w = o
    BY <1>1, <2>1 DEF Placed, InOne
  <2>3. Holding(r) = {<<p, o>>}
    BY <2>2 DEF Holding
  <2> QED
    BY <2>3, FS_Singleton
<1>3. ASSUME response[r] \notin {Nobody, "started new turn"} PROVE Holding(r) = {}
  <2>1. \A p \in Places, o \in Opens : ~In(r, p, o)
    BY <1>1, <1>3 DEF Placed, Nowhere
  <2> QED
    BY <2>1 DEF Holding
<1> QED
  BY <1>2, <1>3

\* The tokens are those of the work there is, in its order, and an unanswered
\* request has exactly one place that will answer it (server.rs:396).
THEOREM OnePlace == Spec => []Held
<1>1. IInv => Held
  BY TokensMatch, OnePlaced DEF Held
<1> QED
  BY <1>1, Invariance, PTL

\* What a steering client is told is what happened to its input; a turn that
\* ends by itself has shown the model all its input, and no call is left
\* without a result (steering.rs:3, server.rs:794 and 1022).
THEOREM ToldTruly == Spec => []Truthful
<1>1. IInv => SteeringToldTruly
  <2> SUFFICES ASSUME IInv, NEW r \in Requests, kind[r] \in Steering
               PROVE  /\ response[r] = "injected" => into[r] = aim[r] /\ aim[r] # Nobody
                      /\ response[r] \in {"error", "prompt required"} => into[r] = Nobody
    BY DEF SteeringToldTruly
  <2> QED
    BY DEF IInv, Truly
<1>2. IInv => EndHeard
  <2> SUFFICES ASSUME IInv, NEW o \in Opens, at[o] = "answering", result[o] = "end turn",
                      kind[current[o]] \in {"prompt"} \cup Steering
               PROVE  unheard[o] = {}
    BY DEF EndHeard
  <2> QED
    BY DEF IInv, Ran
<1>3. IInv => CallsAnswered
  BY DEF IInv, Ran, CallsAnswered
<1>4. IInv => Truthful
  BY <1>1, <1>2, <1>3 DEF Truthful
<1> QED
  BY <1>4, Invariance, PTL

\* All work of a task has a token.
LEMMA WorkHasTokens ==
  ASSUME IInv, NEW o \in Opens
  PROVE  Work(o) \subseteq Range(pending[o])
<1> DEFINE f == Only(current[o])
           t == IF handle = o THEN Only(sending) ELSE <<>>
<1>1. /\ f \in Seq(Requests) /\ t \in Seq(Requests) /\ queue[o] \in Seq(Requests)
      /\ pending[o] = (f \o queue[o]) \o t
  <2>1. sending # Nobody => sending \in Requests
    BY DEF IInv, Sessions
  <2>2. current[o] # Nobody => current[o] \in Requests
    BY DEF IInv, Sessions
  <2> QED
    <3>1. f \in Seq(Requests) /\ t \in Seq(Requests)
      BY <2>1, <2>2 DEF Only
    <3>2. queue[o] \in Seq(Requests) /\ Matches(o)
      BY DEF IInv, Sessions, Tokens
    <3> QED
      BY <3>1, <3>2 DEF Matches
<1>2. current[o] # Nobody => current[o] \in Range(f)
  BY DEF Only, Range
<1> HIDE DEF f, t
<1>3. Range(f) \cup Range(queue[o]) \subseteq Range(pending[o])
  <2>1. f \o queue[o] \in Seq(Requests) /\ Range(f \o queue[o]) = Range(f) \cup Range(queue[o])
    BY <1>1, RangeConcatenation
  <2>2. Range((f \o queue[o]) \o t) = Range(f \o queue[o]) \cup Range(t)
    <3> DEFINE g == f \o queue[o]
    <3>1. g \in Seq(Requests)
      BY <2>1
    <3> HIDE DEF g
    <3>2. Range(g \o t) = Range(g) \cup Range(t)
      BY <1>1, <3>1, RangeConcatenation
    <3> QED
      BY <3>2 DEF g
  <2> QED
    BY <1>1, <2>1, <2>2
<1> QED
  BY <1>2, <1>3 DEF Work

\* session/cancel reaches the running turn and every prompt waiting of the
\* task whose Handle the sessions map holds (server.rs:472).
THEOREM CancelReaches == Spec => [][Cancel => Work(handle) \subseteq cancelled']_vars
<1>1. ASSUME IInv, Cancel PROVE Work(handle) \subseteq cancelled'
  <2>1. handle \in Opens /\ cancelled' = cancelled \cup Range(pending[handle])
    BY <1>1 DEF Cancel, IInv, Sessions
  <2> QED
    BY <1>1, <2>1, WorkHasTokens
<1>2. IInv /\ [Next]_vars => [Cancel => Work(handle) \subseteq cancelled']_vars
  BY <1>1
<1> QED
  BY <1>2, Invariance, PTL DEF Spec

\* A session that was opened once has no other task, so that a cancellation
\* reaches all of its work (server.rs:472).
THEOREM CancelStopsOneTask ==
  ASSUME \A o1, o2 \in Opens : o1 = o2
  PROVE  Spec => CancelStopsAll
<1>1. ASSUME IInv, Cancel PROVE \A o \in Opens : Work(o) \subseteq cancelled'
  <2>1. handle \in Opens /\ cancelled' = cancelled \cup Range(pending[handle])
    BY <1>1 DEF Cancel, IInv, Sessions
  <2>2. Work(handle) \subseteq cancelled'
    BY <1>1, <2>1, WorkHasTokens
  <2> QED
    BY <2>1, <2>2
<1>2. IInv /\ [Next]_vars => [Cancel => \A o \in Opens : Work(o) \subseteq cancelled']_vars
  BY <1>1
<1> QED
  BY <1>2, Invariance, PTL DEF Spec, CancelStopsAll
=============================================================================
