-------------------------- MODULE HeaderIndexerProofs --------------------------
(***************************************************************************)
(* What the header indexer promises for any number of peers, any size of   *)
(* a batch and any chain.                                                  *)
(*                                                                         *)
(* NoGaps is not inductive: it rests on what every locator and every       *)
(* answer on their way look like (IInv).  A chain without gaps is stated   *)
(* as a set that holds all smaller heights with each, which needs no       *)
(* induction over the list.                                                *)
(***************************************************************************)
EXTENDS HeaderIndexer, TLAPS

\* What a locator may be: the tip of some moment.
Known == {0} \cup Indexed

\* The headers after a known one; if not a full batch they reach the end of the chain.
Answer(batch, known, top) ==
    \E from \in known :
        /\ \A k \in DOMAIN batch : batch[k] = from + k
        /\ from + Len(batch) <= top
        /\ Len(batch) # BatchSize => InitialBest <= from + Len(batch)

Located ==
    /\ tipHash \in Known
    /\ \A p \in Peer :
        /\ loopAsks[p] \subseteq Known
        /\ handler[p].do = "ask" => handler[p].from \in Known
        /\ \A i \in DOMAIN requests[p] : requests[p][i] \in Known

Answered ==
    \A p \in Peer : \A i \in DOMAIN inbox[p] :
        inbox[p][i].type = "headers" => Answer(inbox[p][i].batch, Known, best)

Downward == \A h \in Indexed : h \in 1..best /\ 1..h \subseteq Indexed

Finished ==
    synced \/ (\E p \in Peer : handler[p].do = "set synced") => 1..InitialBest \subseteq Indexed

IInv == TypeOK /\ InitialBest <= best /\ Located /\ Answered /\ Downward /\ Finished

-----------------------------------------------------------------------------

LEMMA DoingFacts ==
    /\ Idle \in Doing /\ SetSynced \in Doing
    /\ \A h \in Height : /\ Ask(h) \in Doing
                         /\ Ask(h).do = "ask" /\ Ask(h).from = h
    /\ \A d \in Doing : d.do = "ask" => d.from \in Height
<1>1. Idle \in Doing /\ SetSynced \in Doing /\ \A h \in Height : Ask(h) \in Doing
  BY DEF Doing
<1>2. \A h \in Height : Ask(h).do = "ask" /\ Ask(h).from = h
  BY DEF Ask
<1>3. Idle.do # "ask" /\ SetSynced.do # "ask"
  BY DEF Idle, SetSynced
<1>4. ASSUME NEW d \in Doing, d.do = "ask" PROVE d.from \in Height
  <2>1. PICK h \in Height : d = Ask(h)
    BY <1>3, <1>4 DEF Doing
  <2>. QED  BY <1>2, <2>1
<1>. QED  BY <1>1, <1>2, <1>4

LEMMA MessageFacts ==
    /\ [type |-> "inv"] \in Message
    /\ \A b \in Seq(Height) : [type |-> "headers", batch |-> b] \in Message
    /\ \A msg \in Message : msg.type = "headers" => msg.batch \in Seq(Height)
BY DEF Message

LEMMA Initially == Init => IInv /\ NoGaps
<1>. SUFFICES ASSUME Init PROVE IInv /\ NoGaps
  OBVIOUS
<1>1. Indexed = {} /\ Known = {0}
  BY DEF Init, Indexed, Known
<1>2. TypeOK
  <2>1. <<>> \in Seq(Height) /\ <<>> \in Seq(Message)
    OBVIOUS
  <2>2. 0 \in Height /\ 0 \in 0..MaxConnects /\ InitialBest \in Height
    BY ChainAssumption DEF Height
  <2>. QED  BY <2>1, <2>2, DoingFacts DEF Init, TypeOK
<1>3. InitialBest <= best
  BY ChainAssumption DEF Init
<1>4. Located
  BY <1>1 DEF Init, Located, Idle
<1>5. Answered /\ NoGaps
  BY DEF Init, Answered, NoGaps
<1>6. Downward /\ Finished
  BY <1>1 DEF Init, Downward, Finished, Idle
<1>. QED  BY <1>2, <1>3, <1>4, <1>5, <1>6 DEF IInv

-----------------------------------------------------------------------------

\* What a remote answers.
LEMMA AnswerIsBatch ==
    ASSUME NEW from \in Height, best \in Height, from <= best
    PROVE  LET batch == headersAfter(from)
           IN /\ batch \in Seq(Height)
              /\ \A k \in DOMAIN batch : batch[k] = from + k
              /\ from + Len(batch) <= best
              /\ Len(batch) # BatchSize => from + Len(batch) = best
<1>. DEFINE n == IF best - from > BatchSize THEN BatchSize ELSE best - from
<1>1. n \in Nat /\ from + n <= best /\ (n # BatchSize => from + n = best)
  BY ChainAssumption DEF Height
<1>2. headersAfter(from) = [i \in 1..n |-> from + i]
  BY DEF headersAfter
<1>3. \A i \in 1..n : from + i \in Height
  BY <1>1, ChainAssumption DEF Height
<1>4. headersAfter(from) \in Seq(Height) /\ Len(headersAfter(from)) = n
  BY <1>1, <1>2, <1>3
<1>. QED  BY <1>1, <1>2, <1>4

\* The types are kept, if the locators on their way are no higher than the chain.
LEMMA TypesStep ==
    ASSUME TypeOK, [Next]_vars,
           \A p \in Peer : \A i \in DOMAIN requests[p] : requests[p][i] <= best
    PROVE  TypeOK'
<1>. USE DEF TypeOK
<1>1. ASSUME NEW p \in Peer, OnPeerConnected(p) PROVE TypeOK'
  <2>1. connects[p] + 1 \in 0..MaxConnects
    BY <1>1, ChainAssumption DEF OnPeerConnected
  <2>. QED  BY <1>1, <2>1 DEF OnPeerConnected, idxVars
<1>2. ASSUME NEW p \in Peer, LoopAsks(p) PROVE TypeOK'
  <2>1. PICK from \in loopAsks[p] : requestHeaders(p, from)
    BY <1>2 DEF LoopAsks
  <2>2. requests' \in [Peer -> Seq(Height)]
    BY <2>1 DEF requestHeaders
  <2>. QED  BY <1>2, <2>2 DEF LoopAsks, idxVars, linkVars
<1>3. ASSUME NEW p \in Peer, OnHeaders(p) PROVE TypeOK'
  <2>. DEFINE batch == Head(inbox[p]).batch
  <2>1. inbox[p] # <<>> /\ inbox[p] \in Seq(Message) /\ Head(inbox[p]).type = "headers"
    BY <1>3 DEF OnHeaders
  <2>2. Head(inbox[p]) \in Message /\ Tail(inbox[p]) \in Seq(Message)
    BY <2>1
  <2>3. batch \in Seq(Height)
    BY <2>1, <2>2, MessageFacts
  <2>. HIDE DEF batch
  <2>4. /\ inbox' = [inbox EXCEPT ![p] = Tail(@)]
        /\ UNCHANGED <<synced, loopAsks, requests, connected, connects, best>>
    BY <1>3 DEF OnHeaders, linkVars
  <2>5. inbox' \in [Peer -> Seq(Message)]
    BY <2>2, <2>4
  <2>6. CASE batch = <<>>
    <3>1. UNCHANGED <<headers, tipHash, handler>>
      BY <1>3, <2>6 DEF OnHeaders, batch
    <3>. QED  BY <2>4, <2>5, <3>1
  <2>7. CASE batch # <<>>
    <3>1. /\ headers' = headers \o batch /\ tipHash' = Last(batch)
          /\ handler' = [handler EXCEPT ![p] = afterHeaders(batch)]
      BY <1>3, <2>7 DEF OnHeaders, append, batch
    <3>2. headers' \in Seq(Height) /\ tipHash' \in Height
      BY <2>3, <2>7, <3>1 DEF Last
    <3>3. afterHeaders(batch) \in Doing
      BY <3>2, DoingFacts DEF afterHeaders
    <3>. QED  BY <2>4, <2>5, <3>1, <3>2, <3>3
  <2>. QED  BY <2>6, <2>7
<1>4. ASSUME NEW p \in Peer, OnInv(p) PROVE TypeOK'
  <2>1. inbox[p] # <<>> /\ inbox[p] \in Seq(Message)
    BY <1>4 DEF OnInv
  <2>2. Tail(inbox[p]) \in Seq(Message)
    BY <2>1
  <2>3. (IF synced THEN Ask(tipHash) ELSE Idle) \in Doing
    BY DoingFacts
  <2>. QED  BY <1>4, <2>2, <2>3 DEF OnInv, idxVars, linkVars
<1>5. ASSUME NEW p \in Peer, HandlerAsks(p) PROVE TypeOK'
  <2>1. handler[p].from \in Height
    BY <1>5, DoingFacts DEF HandlerAsks
  <2>2. requests' \in [Peer -> Seq(Height)]
    BY <1>5, <2>1 DEF HandlerAsks, requestHeaders
  <2>. QED  BY <1>5, <2>2, DoingFacts DEF HandlerAsks, idxVars, linkVars
<1>6. ASSUME NEW p \in Peer, HandlerSetsSynced(p) PROVE TypeOK'
  BY <1>6, DoingFacts DEF HandlerSetsSynced, linkVars
<1>7. ASSUME NEW p \in Peer, Serve(p) PROVE TypeOK'
  <2>1. requests[p] \in Seq(Height) /\ requests[p] # <<>>
    BY <1>7 DEF Serve
  <2>2. /\ Head(requests[p]) \in Height /\ Head(requests[p]) <= best
        /\ Tail(requests[p]) \in Seq(Height)
    BY <2>1
  <2>3. headersAfter(Head(requests[p])) \in Seq(Height)
    BY <2>2, AnswerIsBatch
  <2>4. [type |-> "headers", batch |-> headersAfter(Head(requests[p]))] \in Message
    BY <2>3, MessageFacts
  <2>5. inbox' \in [Peer -> Seq(Message)]
    BY <1>7, <2>4 DEF Serve
  <2>6. requests' \in [Peer -> Seq(Height)]
    BY <1>7, <2>2 DEF Serve
  <2>. QED  BY <1>7, <2>5, <2>6 DEF Serve, idxVars, linkVars
<1>8. CASE NewBlock
  <2>1. inbox' \in [Peer -> Seq(Message)]
    BY <1>8, MessageFacts DEF NewBlock
  <2>2. best' \in Height
    BY <1>8, ChainAssumption DEF NewBlock, Height
  <2>. QED  BY <1>8, <2>1, <2>2 DEF NewBlock, idxVars, linkVars
<1>9. ASSUME NEW p \in Peer, Disconnect(p) PROVE TypeOK'
  BY <1>9 DEF Disconnect, idxVars
<1>10. CASE UNCHANGED vars
  BY <1>10 DEF vars, idxVars, linkVars
<1>. QED  BY <1>1, <1>2, <1>3, <1>4, <1>5, <1>6, <1>7, <1>8, <1>9, <1>10 DEF Next, PeerStep

-----------------------------------------------------------------------------

\* A locator is no higher than the chain.
LEMMA KnownIsLow ==
    ASSUME TypeOK, Downward
    PROVE  \A h \in Known : h \in Height /\ h <= best
BY ChainAssumption DEF TypeOK, Downward, Known, Height

\* Answers stay answers while the index and the chain grow.
LEMMA AnswerKept ==
    ASSUME NEW batch \in Seq(Height), NEW known, NEW known2, known \subseteq known2,
           known \subseteq Height, NEW top \in Nat, NEW top2 \in Nat, top <= top2,
           Answer(batch, known, top)
    PROVE  Answer(batch, known2, top2)
<1>1. PICK from \in known : /\ \A k \in DOMAIN batch : batch[k] = from + k
                            /\ from + Len(batch) <= top
                            /\ Len(batch) # BatchSize => InitialBest <= from + Len(batch)
  BY DEF Answer
<1>2. from \in known2 /\ from \in Nat /\ Len(batch) \in Nat
  BY DEF Height
<1>3. from + Len(batch) <= top2
  BY <1>1, <1>2
<1>. QED  BY <1>1, <1>2, <1>3 DEF Answer

\* Most actions leave the index as it is.
LEMMA SameIndex ==
    ASSUME headers' = headers
    PROVE  Indexed' = Indexed /\ Known' = Known /\ (NoGaps => NoGaps')
BY DEF Indexed, Known, NoGaps

\* Onto which heights an answer extends the index.
LEMMA GrownIndex ==
    ASSUME TypeOK, NEW batch \in Seq(Height), headers' = headers \o batch,
           NEW from \in Nat, \A k \in DOMAIN batch : batch[k] = from + k
    PROVE  Indexed' = Indexed \cup ((from + 1)..(from + Len(batch)))
<1>1. headers \in Seq(Height) /\ Len(headers') = Len(headers) + Len(batch)
      /\ DOMAIN headers' = 1..(Len(headers) + Len(batch))
  BY DEF TypeOK
<1>2. /\ \A i \in 1..Len(headers) : headers'[i] = headers[i]
      /\ \A k \in 1..Len(batch) : headers'[Len(headers) + k] = from + k
  BY <1>1
<1>3. ASSUME NEW h \in Indexed' PROVE h \in Indexed \cup ((from + 1)..(from + Len(batch)))
  <2>1. PICK i \in 1..(Len(headers) + Len(batch)) : h = headers'[i]
    BY <1>1 DEF Indexed
  <2>2. CASE i <= Len(headers)
    <3>1. i \in 1..Len(headers) /\ i \in DOMAIN headers
      BY <1>1, <2>2
    <3>. QED  BY <1>2, <2>1, <3>1 DEF Indexed
  <2>3. CASE i > Len(headers)
    <3>1. i - Len(headers) \in 1..Len(batch) /\ i = Len(headers) + (i - Len(headers))
      BY <1>1, <2>3
    <3>2. h = from + (i - Len(headers))
      BY <1>2, <2>1, <3>1
    <3>. QED  BY <3>1, <3>2
  <2>. QED  BY <1>1, <2>2, <2>3
<1>4. ASSUME NEW h \in Indexed PROVE h \in Indexed'
  <2>1. PICK i \in 1..Len(headers) : h = headers[i]
    BY <1>1 DEF Indexed
  <2>2. i \in DOMAIN headers'
    BY <1>1
  <2>. QED  BY <1>2, <2>1, <2>2 DEF Indexed
<1>5. ASSUME NEW h \in (from + 1)..(from + Len(batch)) PROVE h \in Indexed'
  <2>1. h - from \in 1..Len(batch) /\ h = from + (h - from)
    OBVIOUS
  <2>2. headers'[Len(headers) + (h - from)] = h
    BY <1>2, <2>1
  <2>3. Len(headers) + (h - from) \in DOMAIN headers'
    BY <1>1, <2>1
  <2>. QED  BY <2>2, <2>3 DEF Indexed
<1>. QED  BY <1>3, <1>4, <1>5

\* Headers that extend a known one leave no gap.
LEMMA GrownGaps ==
    ASSUME TypeOK, NoGaps, NEW batch \in Seq(Height), headers' = headers \o batch,
           NEW from \in Known, \A k \in DOMAIN batch : batch[k] = from + k
    PROVE  NoGaps'
<1>1. headers \in Seq(Height) /\ DOMAIN headers' = 1..(Len(headers) + Len(batch))
  BY DEF TypeOK
<1>2. from \in Nat
  <2>1. \A i \in DOMAIN headers : headers[i] \in Height
    BY <1>1
  <2>. QED  BY <2>1, ChainAssumption DEF Known, Indexed, Height
<1>3. /\ \A i \in 1..Len(headers) : headers'[i] = headers[i]
      /\ \A k \in 1..Len(batch) : headers'[Len(headers) + k] = from + k
  BY <1>1
<1>4. SUFFICES ASSUME NEW i \in 1..(Len(headers) + Len(batch))
               PROVE  headers'[i] = 1 \/ \E j \in 1..(i - 1) : headers'[j] = headers'[i] - 1
  BY <1>1 DEF NoGaps
<1>5. CASE i <= Len(headers)
  <2>1. i \in DOMAIN headers /\ i \in 1..Len(headers)
    BY <1>1, <1>5
  <2>2. headers[i] = 1 \/ \E j \in 1..(i - 1) : headers[j] = headers[i] - 1
    BY <2>1 DEF NoGaps
  <2>3. \A j \in 1..(i - 1) : j \in 1..Len(headers)
    BY <1>1, <2>1
  <2>4. headers'[i] = headers[i] /\ \A j \in 1..(i - 1) : headers'[j] = headers[j]
    BY <1>3, <2>1, <2>3
  <2>. QED  BY <2>2, <2>4
<1>6. CASE i > Len(headers)
  <2>. DEFINE k == i - Len(headers)
  <2>1. k \in 1..Len(batch) /\ i = Len(headers) + k
    BY <1>1, <1>6
  <2>2. headers'[i] = from + k
    BY <1>3, <2>1
  <2>3. CASE k > 1
    <3>1. k - 1 \in 1..Len(batch) /\ i - 1 = Len(headers) + (k - 1) /\ i - 1 \in 1..(i - 1)
      BY <1>1, <2>1, <2>3
    <3>2. headers'[i - 1] = from + (k - 1)
      BY <1>3, <3>1
    <3>3. (from + k) - 1 = from + (k - 1)
      BY <1>2, <2>1
    <3>. QED  BY <2>2, <3>1, <3>2, <3>3
  <2>4. CASE k = 1 /\ from # 0
    <3>1. PICK j \in 1..Len(headers) : headers[j] = from
      BY <1>1, <2>4 DEF Known, Indexed
    <3>2. j \in 1..(i - 1) /\ headers'[j] = from
      BY <1>1, <1>3, <1>6, <3>1
    <3>. QED  BY <1>2, <2>2, <2>4, <3>2
  <2>5. CASE k = 1 /\ from = 0
    BY <2>2, <2>5
  <2>. QED  BY <2>1, <2>3, <2>4, <2>5
<1>. QED  BY <1>1, <1>5, <1>6

-----------------------------------------------------------------------------

\* What a step that touches neither the index nor the chain keeps.
LEMMA QuietStep ==
    ASSUME IInv, NoGaps, UNCHANGED <<headers, best>>
    PROVE  /\ Indexed' = Indexed /\ Known' = Known
           /\ InitialBest <= best' /\ Downward' /\ NoGaps'
           /\ UNCHANGED inbox => Answered'
           /\ UNCHANGED <<synced, handler>> => Finished'
<1>1. Indexed' = Indexed /\ Known' = Known /\ NoGaps' /\ InitialBest <= best'
  BY SameIndex DEF IInv
<1>2. Downward'
  BY <1>1 DEF IInv, Downward
<1>3. UNCHANGED inbox => Answered'
  BY <1>1 DEF IInv, Answered
<1>4. ASSUME UNCHANGED <<synced, handler>> PROVE Finished'
  <2>1. Finished
    BY DEF IInv
  <2>. QED  BY <1>1, <1>4, <2>1, Zenon DEF Finished
<1>. QED  BY <1>1, <1>2, <1>3, <1>4

\* A request carries a locator that was read before.
LEMMA RequestStep ==
    ASSUME TypeOK, Located, UNCHANGED headers, NEW p \in Peer, NEW from \in Known,
           requestHeaders(p, from)
    PROVE  \A q \in Peer : \A i \in DOMAIN requests'[q] : requests'[q][i] \in Known
<1>1. CASE requests' = requests
  BY <1>1 DEF Located
<1>2. CASE requests' = [requests EXCEPT ![p] = Append(@, from)]
  <2>1. requests[p] \in Seq(Height) /\ requests'[p] = Append(requests[p], from)
    BY <1>2 DEF TypeOK
  <2>2. \A i \in DOMAIN requests'[p] : i \in DOMAIN requests[p] \/ i = Len(requests[p]) + 1
    BY <2>1
  <2>3. /\ \A i \in DOMAIN requests[p] : requests'[p][i] = requests[p][i]
        /\ requests'[p][Len(requests[p]) + 1] = from
    BY <2>1
  <2>4. \A i \in DOMAIN requests'[p] : requests'[p][i] \in Known
    BY <2>2, <2>3 DEF Located
  <2>5. \A q \in Peer \ {p} : requests'[q] = requests[q]
    BY <1>2 DEF TypeOK
  <2>. QED  BY <2>4, <2>5 DEF Located
<1>. QED  BY <1>1, <1>2 DEF requestHeaders

\* The handler takes a message, which leaves the answers behind it.
LEMMA TakeStep ==
    ASSUME TypeOK, Answered, NEW p \in Peer, inbox[p] # <<>>,
           inbox' = [inbox EXCEPT ![p] = Tail(@)], NEW q \in Peer,
           NEW i \in DOMAIN inbox'[q], inbox'[q][i].type = "headers"
    PROVE  /\ inbox'[q][i].batch \in Seq(Height)
           /\ Answer(inbox'[q][i].batch, Known, best)
<1>1. inbox[p] \in Seq(Message) /\ inbox[q] \in Seq(Message)
  BY DEF TypeOK
<1>2. PICK k \in DOMAIN inbox[q] : inbox'[q][i] = inbox[q][k]
  <2>1. CASE q = p
    <3>1. inbox'[q] = Tail(inbox[q])
      BY <2>1 DEF TypeOK
    <3>2. inbox[q] # <<>> /\ i \in DOMAIN Tail(inbox[q])
      BY <2>1, <3>1
    <3>3. i \in 1..(Len(inbox[q]) - 1) /\ Tail(inbox[q])[i] = inbox[q][i + 1]
      BY <1>1, <3>2
    <3>4. i + 1 \in DOMAIN inbox[q]
      BY <1>1, <3>3
    <3>. QED  BY <3>1, <3>3, <3>4
  <2>2. CASE q # p
    <3>1. inbox'[q] = inbox[q]
      BY <2>2 DEF TypeOK
    <3>. QED  BY <3>1
  <2>. QED  BY <2>1, <2>2
<1>3. inbox[q][k] \in Message
  BY <1>1
<1>. QED  BY <1>2, <1>3, MessageFacts DEF Answered

\* A batch that extends the index, and what the handler does with it.
LEMMA BatchStep ==
    ASSUME IInv, NoGaps, TypeOK', NEW p \in Peer, OnHeaders(p),
           Head(inbox[p]).batch # <<>>
    PROVE  IInv' /\ NoGaps'
<1>. DEFINE batch == Head(inbox[p]).batch
<1>1. /\ TypeOK /\ InitialBest <= best /\ Located /\ Answered /\ Downward /\ Finished
      /\ inbox[p] # <<>> /\ inbox[p] \in Seq(Message) /\ Head(inbox[p]).type = "headers"
      /\ inbox' = [inbox EXCEPT ![p] = Tail(@)]
      /\ UNCHANGED <<synced, loopAsks, requests, connected, connects, best>>
  BY DEF IInv, TypeOK, OnHeaders, linkVars
<1>2. headers' = headers \o batch /\ tipHash' = Last(batch)
      /\ handler' = [handler EXCEPT ![p] = afterHeaders(batch)]
  BY DEF OnHeaders, append
<1>3. Head(inbox[p]) \in Message /\ Head(inbox[p]) = inbox[p][1] /\ 1 \in DOMAIN inbox[p]
  BY <1>1
<1>4. batch \in Seq(Height)
  BY <1>1, <1>3, MessageFacts
<1>5. Answer(batch, Known, best)
  BY <1>1, <1>3 DEF Answered
<1>6. batch # <<>>
  OBVIOUS
<1>. HIDE DEF batch
<1>7. PICK from \in Known :
          /\ \A k \in DOMAIN batch : batch[k] = from + k
          /\ from + Len(batch) <= best
          /\ Len(batch) # BatchSize => InitialBest <= from + Len(batch)
  BY <1>5 DEF Answer
<1>8. /\ from \in Nat /\ best \in Nat /\ InitialBest \in Nat /\ BatchSize \in Nat
      /\ \A h \in Known : h \in Height
  BY <1>1, KnownIsLow, ChainAssumption DEF TypeOK, Height
<1>9. Indexed' = Indexed \cup ((from + 1)..(from + Len(batch)))
  BY <1>1, <1>2, <1>4, <1>7, <1>8, GrownIndex
<1>10. NoGaps'
  BY <1>1, <1>2, <1>4, <1>7, GrownGaps
<1>11. Indexed \subseteq Indexed' /\ Known \subseteq Known'
  BY <1>9 DEF Known
<1>12. Len(batch) \in Nat /\ Len(batch) > 0 /\ Last(batch) = from + Len(batch)
  <2>1. Len(batch) \in Nat /\ Len(batch) > 0 /\ Len(batch) \in DOMAIN batch
    BY <1>4, <1>6
  <2>. QED  BY <1>7, <2>1 DEF Last
<1>13. 1..(from + Len(batch)) \subseteq Indexed'
  <2>1. 1..from \subseteq Indexed
    BY <1>1, <1>7, <1>8 DEF Known, Downward
  <2>2. \A h \in 1..(from + Len(batch)) : h \in 1..from \/ h \in (from + 1)..(from + Len(batch))
    BY <1>8, <1>12
  <2>. QED  BY <1>9, <2>1, <2>2
<1>14. tipHash' \in Indexed'
  <2>1. from + Len(batch) \in (from + 1)..(from + Len(batch))
    BY <1>8, <1>12
  <2>. QED  BY <1>2, <1>9, <1>12, <2>1
<1>15. \A q \in Peer : handler'[q] = IF q = p THEN afterHeaders(batch) ELSE handler[q]
  BY <1>1, <1>2 DEF TypeOK
<1>16. /\ afterHeaders(batch).do = "ask" => afterHeaders(batch).from = tipHash'
       /\ afterHeaders(batch).do = "set synced" => Len(batch) # BatchSize
  BY DEF afterHeaders, Ask, SetSynced
<1>17. Located'
  <2>1. \A q \in Peer : handler'[q].do = "ask" => handler'[q].from \in Known'
    BY <1>1, <1>11, <1>14, <1>15, <1>16 DEF Located, Known
  <2>. QED  BY <1>1, <1>11, <1>14, <2>1 DEF Located, Known
<1>18. Answered'
  <2>1. SUFFICES ASSUME NEW q \in Peer, NEW i \in DOMAIN inbox'[q], inbox'[q][i].type = "headers"
                 PROVE  Answer(inbox'[q][i].batch, Known', best')
    BY DEF Answered
  <2>. DEFINE b == inbox'[q][i].batch
  <2>2. b \in Seq(Height) /\ Answer(b, Known, best)
    BY <1>1, <2>1, TakeStep
  <2>3. Known \subseteq Height /\ best <= best' /\ best' \in Nat
    BY <1>1, <1>8
  <2>. HIDE DEF b
  <2>4. Answer(b, Known', best')
    BY <1>8, <1>11, <2>2, <2>3, AnswerKept
  <2>. QED  BY <2>4 DEF b
<1>19. Downward'
  <2>1. \A h \in Indexed : h \in 1..best' /\ 1..h \subseteq Indexed'
    BY <1>1, <1>11 DEF Downward
  <2>2. \A h \in (from + 1)..(from + Len(batch)) :
            h \in 1..best /\ 1..h \subseteq 1..(from + Len(batch))
    BY <1>7, <1>8, <1>12
  <2>. QED  BY <1>1, <1>9, <1>13, <2>1, <2>2 DEF Downward
<1>20. Finished'
  <2>1. CASE synced \/ \E q \in Peer : handler[q].do = "set synced"
    BY <1>1, <1>11, <2>1 DEF Finished
  <2>2. CASE ~synced /\ ~(\E q \in Peer : handler[q].do = "set synced")
    <3>1. SUFFICES ASSUME afterHeaders(batch).do = "set synced"
                   PROVE  1..InitialBest \subseteq Indexed'
      BY <1>1, <1>15, <2>2 DEF Finished
    <3>2. InitialBest <= from + Len(batch)
      BY <1>7, <1>16, <3>1
    <3>3. \A h \in 1..InitialBest : h \in 1..(from + Len(batch))
      BY <1>8, <1>12, <3>2
    <3>. QED  BY <1>13, <3>3
  <2>. QED  BY <2>1, <2>2
<1>. QED  BY <1>1, <1>10, <1>17, <1>18, <1>19, <1>20 DEF IInv

\* An answer or an announcement joins what is on its way.
LEMMA SendStep ==
    ASSUME TypeOK, Answered, NEW p \in Peer, NEW msg \in Message,
           msg.type = "headers" => Answer(msg.batch, Known, best),
           NEW q \in Peer, NEW i \in DOMAIN Append(inbox[q], msg),
           Append(inbox[q], msg)[i].type = "headers"
    PROVE  /\ Append(inbox[q], msg)[i].batch \in Seq(Height)
           /\ Answer(Append(inbox[q], msg)[i].batch, Known, best)
<1>1. inbox[q] \in Seq(Message)
  BY DEF TypeOK
<1>2. CASE i = Len(inbox[q]) + 1
  BY <1>1, <1>2, MessageFacts
<1>3. CASE i # Len(inbox[q]) + 1
  <2>1. i \in DOMAIN inbox[q] /\ Append(inbox[q], msg)[i] = inbox[q][i]
    BY <1>1, <1>3
  <2>2. inbox[q][i] \in Message
    BY <1>1, <2>1
  <2>. QED  BY <2>1, <2>2, MessageFacts DEF Answered
<1>. QED  BY <1>2, <1>3

\* No step of a listener, a remote or a connection breaks the invariant.
LEMMA IStep == IInv /\ NoGaps /\ [Next]_vars => IInv' /\ NoGaps'
<1>. SUFFICES ASSUME IInv, NoGaps, [Next]_vars PROVE IInv' /\ NoGaps'
  OBVIOUS
<1>1. TypeOK /\ InitialBest <= best /\ Located /\ Answered /\ Downward /\ Finished
  BY DEF IInv
<1>2. \A h \in Known : h \in Height /\ h <= best
  BY <1>1, KnownIsLow
<1>3. TypeOK'
  BY <1>1, <1>2, TypesStep DEF Located
<1>4. ASSUME NEW p \in Peer, OnPeerConnected(p) PROVE IInv' /\ NoGaps'
  <2>1. UNCHANGED <<headers, tipHash, synced, handler, requests, inbox, best>>
        /\ loopAsks' = [loopAsks EXCEPT ![p] = {tipHash}]
    BY <1>4 DEF OnPeerConnected, idxVars
  <2>2. Located'
    BY <1>1, <2>1, QuietStep DEF Located, TypeOK
  <2>. QED  BY <1>3, <2>1, <2>2, QuietStep DEF IInv
<1>5. ASSUME NEW p \in Peer, LoopAsks(p) PROVE IInv' /\ NoGaps'
  <2>1. UNCHANGED <<headers, tipHash, synced, handler, inbox, best>>
        /\ loopAsks' = [loopAsks EXCEPT ![p] = {}]
    BY <1>5 DEF LoopAsks, idxVars
  <2>2. PICK from \in loopAsks[p] : requestHeaders(p, from)
    BY <1>5 DEF LoopAsks
  <2>3. from \in Known
    BY <1>1 DEF Located
  <2>4. \A q \in Peer : \A i \in DOMAIN requests'[q] : requests'[q][i] \in Known
    BY <1>1, <2>1, <2>2, <2>3, RequestStep
  <2>5. \A q \in Peer : loopAsks'[q] \subseteq Known
    BY <1>1, <2>1 DEF Located, TypeOK
  <2>6. Located'
    BY <1>1, <2>1, <2>4, <2>5, QuietStep DEF Located
  <2>. QED  BY <1>3, <2>1, <2>6, QuietStep DEF IInv
<1>6. ASSUME NEW p \in Peer, OnHeaders(p) PROVE IInv' /\ NoGaps'
  <2>1. CASE Head(inbox[p]).batch # <<>>
    BY <1>3, <1>6, <2>1, BatchStep
  <2>2. CASE Head(inbox[p]).batch = <<>>
    <3>1. UNCHANGED <<headers, tipHash, synced, loopAsks, handler, requests, best>>
          /\ inbox[p] # <<>> /\ inbox' = [inbox EXCEPT ![p] = Tail(@)]
      BY <1>6, <2>2 DEF OnHeaders
    <3>2. Located'
      BY <1>1, <3>1, QuietStep DEF Located
    <3>3. Answered'
      BY <1>1, <3>1, TakeStep, QuietStep DEF Answered
    <3>. QED  BY <1>3, <3>1, <3>2, <3>3, QuietStep DEF IInv
  <2>. QED  BY <2>1, <2>2
<1>7. ASSUME NEW p \in Peer, OnInv(p) PROVE IInv' /\ NoGaps'
  <2>1. UNCHANGED <<headers, tipHash, synced, loopAsks, requests, best>>
        /\ inbox[p] # <<>> /\ inbox' = [inbox EXCEPT ![p] = Tail(@)]
    BY <1>7 DEF OnInv, idxVars
  <2>2. /\ \A q \in Peer \ {p} : handler'[q] = handler[q]
        /\ handler'[p] = IF synced THEN Ask(tipHash) ELSE Idle
    BY <1>1, <1>7 DEF OnInv, TypeOK
  <2>3. /\ handler'[p].do # "set synced"
        /\ handler'[p].do = "ask" => handler'[p].from = tipHash
    BY <2>2 DEF Ask, Idle
  <2>4. Located'
    BY <1>1, <2>1, <2>2, <2>3, QuietStep DEF Located
  <2>5. Answered'
    BY <1>1, <2>1, TakeStep, QuietStep DEF Answered
  <2>6. \A q \in Peer : handler'[q].do = "set synced" => handler[q].do = "set synced"
    BY <2>2, <2>3
  <2>7. Finished'
    BY <1>1, <2>1, <2>6, QuietStep, Zenon DEF Finished
  <2>. QED  BY <1>3, <2>1, <2>4, <2>5, <2>7, QuietStep DEF IInv
<1>8. ASSUME NEW p \in Peer, HandlerAsks(p) PROVE IInv' /\ NoGaps'
  <2>1. UNCHANGED <<headers, tipHash, synced, loopAsks, inbox, best>>
        /\ handler[p].do = "ask" /\ requestHeaders(p, handler[p].from)
        /\ handler' = [handler EXCEPT ![p] = Idle]
    BY <1>8 DEF HandlerAsks, idxVars
  <2>2. \A q \in Peer : \A i \in DOMAIN requests'[q] : requests'[q][i] \in Known
    BY <1>1, <2>1, RequestStep DEF Located
  <2>3. \A q \in Peer : handler'[q] = Idle \/ handler'[q] = handler[q]
    BY <1>1, <2>1 DEF TypeOK
  <2>4. Idle.do # "ask" /\ Idle.do # "set synced"
    BY DEF Idle
  <2>5. Located'
    BY <1>1, <2>1, <2>2, <2>3, <2>4, QuietStep DEF Located
  <2>6. \A q \in Peer : handler'[q].do = "set synced" => handler[q].do = "set synced"
    BY <2>3, <2>4
  <2>7. Finished'
    BY <1>1, <2>1, <2>6, QuietStep, Zenon DEF Finished
  <2>. QED  BY <1>3, <2>1, <2>5, <2>7, QuietStep DEF IInv
<1>9. ASSUME NEW p \in Peer, HandlerSetsSynced(p) PROVE IInv' /\ NoGaps'
  <2>1. UNCHANGED <<headers, tipHash, loopAsks, requests, inbox, best>>
        /\ handler[p].do = "set synced"
        /\ handler' = [handler EXCEPT ![p] = Idle]
    BY <1>9 DEF HandlerSetsSynced
  <2>2. \A q \in Peer : handler'[q] = Idle \/ handler'[q] = handler[q]
    BY <1>1, <2>1 DEF TypeOK
  <2>3. Idle.do # "ask"
    BY DEF Idle
  <2>4. Located'
    BY <1>1, <2>1, <2>2, <2>3, QuietStep DEF Located
  <2>5. Finished'
    BY <1>1, <2>1, QuietStep, Zenon DEF Finished
  <2>. QED  BY <1>3, <2>1, <2>4, <2>5, QuietStep DEF IInv
<1>10. ASSUME NEW p \in Peer, Serve(p) PROVE IInv' /\ NoGaps'
  <2>. DEFINE from == Head(requests[p])
              msg == [type |-> "headers", batch |-> headersAfter(from)]
  <2>1. UNCHANGED <<headers, tipHash, synced, loopAsks, handler, best>>
        /\ requests[p] \in Seq(Height) /\ requests[p] # <<>>
        /\ requests' = [requests EXCEPT ![p] = Tail(@)]
        /\ inbox' = [inbox EXCEPT ![p] = Append(@, msg)]
    BY <1>1, <1>10 DEF Serve, idxVars, TypeOK
  <2>2. from \in Known
    BY <1>1, <2>1 DEF Located
  <2>3. \A q \in Peer : \A i \in DOMAIN requests'[q] : requests'[q][i] \in Known
    <3>1. \A i \in DOMAIN Tail(requests[p]) :
              /\ i + 1 \in DOMAIN requests[p]
              /\ Tail(requests[p])[i] = requests[p][i + 1]
      BY <2>1
    <3>2. requests'[p] = Tail(requests[p]) /\ \A q \in Peer \ {p} : requests'[q] = requests[q]
      BY <1>1, <2>1 DEF TypeOK
    <3>3. \A i \in DOMAIN requests'[p] : requests'[p][i] \in Known
      BY <1>1, <3>1, <3>2 DEF Located
    <3>4. \A q \in Peer \ {p} : \A i \in DOMAIN requests'[q] : requests'[q][i] \in Known
      BY <1>1, <3>2 DEF Located
    <3>. QED  BY <3>3, <3>4
  <2>4. Located'
    BY <1>1, <2>1, <2>3, QuietStep DEF Located
  <2>5. msg \in Message /\ Answer(msg.batch, Known, best)
    <3>1. LET batch == headersAfter(from)
          IN /\ batch \in Seq(Height)
             /\ \A k \in DOMAIN batch : batch[k] = from + k
             /\ from + Len(batch) <= best
             /\ Len(batch) # BatchSize => from + Len(batch) = best
      BY <1>1, <1>2, <2>2, AnswerIsBatch DEF TypeOK
    <3>. QED  BY <1>1, <2>2, <3>1, MessageFacts DEF Answer
  <2>. HIDE DEF msg
  <2>6. Answered'
    <3>1. inbox'[p] = Append(inbox[p], msg) /\ \A q \in Peer \ {p} : inbox'[q] = inbox[q]
      BY <1>1, <2>1 DEF TypeOK
    <3>2. \A i \in DOMAIN inbox'[p] :
             inbox'[p][i].type = "headers" => Answer(inbox'[p][i].batch, Known, best)
      BY <1>1, <2>5, <3>1, SendStep
    <3>. QED  BY <1>1, <2>1, <3>1, <3>2, QuietStep DEF Answered
  <2>. QED  BY <1>3, <2>1, <2>4, <2>6, QuietStep DEF IInv
<1>11. CASE NewBlock
  <2>1. /\ best' = best + 1
        /\ UNCHANGED <<headers, tipHash, synced, loopAsks, handler, requests>>
        /\ inbox' = [q \in Peer |-> IF connected[q] /\ Len(inbox[q]) < MaxQueue
                                    THEN Append(inbox[q], [type |-> "inv"]) ELSE inbox[q]]
    BY <1>11 DEF NewBlock, idxVars
  <2>2. best \in Nat /\ best' \in Nat /\ best <= best' /\ InitialBest \in Nat
    BY <1>1, <2>1, ChainAssumption DEF TypeOK, Height
  <2>3. Indexed' = Indexed /\ Known' = Known /\ NoGaps'
    BY <2>1, SameIndex
  <2>4. Located'
    BY <1>1, <2>1, <2>3 DEF Located
  <2>5. Answered'
    <3>1. SUFFICES ASSUME NEW q \in Peer, NEW i \in DOMAIN inbox'[q],
                          inbox'[q][i].type = "headers"
                   PROVE  Answer(inbox'[q][i].batch, Known', best')
      BY DEF Answered
    <3>. DEFINE b == inbox'[q][i].batch
    <3>2. b \in Seq(Height) /\ Answer(b, Known, best)
      <4>1. CASE inbox'[q] = Append(inbox[q], [type |-> "inv"])
        <5>1. [type |-> "inv"] \in Message /\ [type |-> "inv"].type # "headers"
          BY MessageFacts
        <5>. QED  BY <1>1, <3>1, <4>1, <5>1, SendStep
      <4>2. CASE inbox'[q] = inbox[q]
        <5>1. inbox[q] \in Seq(Message) /\ inbox[q][i] \in Message
          BY <1>1, <4>2 DEF TypeOK
        <5>. QED  BY <1>1, <3>1, <4>2, <5>1, MessageFacts DEF Answered
      <4>. QED  BY <2>1, <4>1, <4>2
    <3>3. Known \subseteq Height
      BY <1>2
    <3>. HIDE DEF b
    <3>4. Answer(b, Known', best')
      BY <2>2, <2>3, <3>2, <3>3, AnswerKept
    <3>. QED  BY <3>4 DEF b
  <2>6. Downward'
    BY <1>1, <2>2, <2>3 DEF Downward
  <2>7. Finished'
    BY <1>1, <2>1, <2>3, Zenon DEF Finished
  <2>8. InitialBest <= best'
    BY <1>1, <2>2
  <2>. QED  BY <1>3, <2>3, <2>4, <2>5, <2>6, <2>7, <2>8 DEF IInv
<1>12. ASSUME NEW p \in Peer, Disconnect(p) PROVE IInv' /\ NoGaps'
  <2>1. UNCHANGED <<headers, tipHash, synced, loopAsks, handler, best>>
        /\ requests' = [requests EXCEPT ![p] = <<>>]
        /\ inbox' = [inbox EXCEPT ![p] = <<>>]
    BY <1>12 DEF Disconnect, idxVars
  <2>2. \A q \in Peer : /\ requests'[q] = <<>> \/ requests'[q] = requests[q]
                        /\ inbox'[q] = <<>> \/ inbox'[q] = inbox[q]
    BY <1>1, <2>1 DEF TypeOK
  <2>3. Located'
    BY <1>1, <2>1, <2>2, QuietStep DEF Located
  <2>4. Answered'
    BY <1>1, <2>1, <2>2, QuietStep DEF Answered
  <2>. QED  BY <1>3, <2>1, <2>3, <2>4, QuietStep DEF IInv
<1>13. CASE UNCHANGED vars
  <2>1. UNCHANGED <<headers, tipHash, synced, loopAsks, handler, requests, inbox, best>>
    BY <1>13 DEF vars, idxVars
  <2>2. Located'
    BY <1>1, <2>1, QuietStep DEF Located
  <2>. QED  BY <1>3, <2>1, <2>2, QuietStep DEF IInv
<1>. QED  BY <1>4, <1>5, <1>6, <1>7, <1>8, <1>9, <1>10, <1>11, <1>12, <1>13 DEF Next, PeerStep

-----------------------------------------------------------------------------

LEMMA IInvariant == Spec => [](IInv /\ NoGaps)
BY Initially, IStep, PTL DEF Spec

\* The state of the program and of the messages on their way has its types
\* (main.go:18-25): no header above the chain is ever asked for or stored.
THEOREM Types == Spec => []TypeOK
<1>1. IInv => TypeOK
  BY DEF IInv
<1>. QED  BY <1>1, IInvariant, PTL

\* No header is indexed before the one it extends, however the handlers of any number
\* of peers interleave (main.go:42-118).
THEOREM ChainWithoutGaps == Spec => []NoGaps
BY IInvariant, PTL

\* The initial sync is declared complete only when every header that the chain had at
\* the start is indexed (main.go:76-90).
THEOREM SyncedIsCaughtUp == Spec => []SyncedMeansCaughtUp
<1>1. IInv => SyncedMeansCaughtUp
  BY DEF IInv, Finished, SyncedMeansCaughtUp
<1>. QED  BY <1>1, IInvariant, PTL

=============================================================================
