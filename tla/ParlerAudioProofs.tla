--------------------------- MODULE ParlerAudioProofs ---------------------------
(* What a caller of ParlerEngine hears: proofs about the queues the worker   *)
(* writes and the routes read, for every batch, window and interleaving.     *)
EXTENDS ParlerProofs

\* AudioInOrder of one queue s, whose reader has heard everything up to h.
InOrder(s, h) ==
    \A i \in DOMAIN s :
        LET before == IF i = 1 THEN h ELSE s[i - 1].to
        IN  IF s[i].kind = "audio" THEN s[i].from = before /\ s[i].to > s[i].from
            ELSE i = Len(s)

\* No end of the stream is on the queue yet.
Open(s) == \A i \in DOMAIN s : s[i].kind = "audio"

\* What the reader will have heard when the queue is empty.
Reach(s, h) == IF s = <<>> THEN h ELSE s[Len(s)].to

InFinals(r) == \E i \in DOMAIN finals : finals[i] = r

\* Nothing was ever said to r, or for it.
Unborn(r) ==
    /\ out[r] = <<>> /\ heard[r] = 0 /\ yielded[r] = 0
    /\ r \notin running /\ r \notin pendingOut /\ ~InFinals(r)

\* A request waits for its admission once; and whoever the worker still talks
\* to has on its queue, unended, all that was counted as sent to it.
QueuedInv ==
    /\ \A r \in Req : caller[r] = "idle" => Unborn(r)
    /\ \A i \in DOMAIN prefillQ :
        Unborn(prefillQ[i]) /\ caller[prefillQ[i]] \in {"waiting", "left"}
    /\ \A i, j \in DOMAIN prefillQ : prefillQ[i] = prefillQ[j] => i = j
TalkInv ==
    /\ \A r \in pendingOut :
        /\ Open(out[r])
        /\ Reach(out[r], heard[r]) = yielded[r]
        /\ InFinals(r) => r \in finished
    /\ pc # "deliver" => finished = {}

StreamInv == AudioInOrder /\ QueuedInv /\ TalkInv

\* Nobody is counted as sent more than its audio, and the codes of who ended in
\* this iteration are queued.
SentInv ==
    /\ \A r \in Req : yielded[r] <= Total(r)
    /\ \A r \in finished : InFinals(r) /\ r \notin running

----------------------------------------------------------------------------
(* Queues of messages *)

\* AudioInOrder is InOrder of every queue.
LEMMA InOrderEach ==
    AudioInOrder <=> \A r \in Req : InOrder(out[r], heard[r])
BY DEF AudioInOrder, InOrder

\* A chunk that starts where the queue ends continues it.
LEMMA AppendAudio ==
    ASSUME NEW s \in Seq(Message), NEW h \in Nat, InOrder(s, h), Open(s),
           NEW b \in Nat, b > Reach(s, h)
    PROVE  LET t == Append(s, Audio(Reach(s, h), b))
           IN  InOrder(t, h) /\ Open(t) /\ Reach(t, h) = b
<1> DEFINE m == Audio(Reach(s, h), b)
           t == Append(s, m)
<1>1. m.kind = "audio" /\ m.from = Reach(s, h) /\ m.to = b
  BY DEF Audio
<1> HIDE DEF m
<1>2. /\ Len(s) \in Nat /\ DOMAIN s = 1 .. Len(s)
      /\ DOMAIN t = 1 .. Len(s) + 1 /\ Len(t) = Len(s) + 1
      /\ t[Len(s) + 1] = m
      /\ \A i \in 1 .. Len(s) : t[i] = s[i]
  OBVIOUS
<1> HIDE DEF t
<1>3. Open(t)
  BY <1>1, <1>2 DEF Open
<1>4. t # <<>> /\ Reach(t, h) = b
  BY <1>1, <1>2 DEF Reach
<1>5. InOrder(t, h)
  <2> SUFFICES ASSUME NEW i \in DOMAIN t
               PROVE  /\ t[i].kind = "audio"
                      /\ t[i].from = IF i = 1 THEN h ELSE t[i - 1].to
                      /\ t[i].to > t[i].from
    BY <1>3 DEF InOrder, Open
  <2>1. CASE i \in 1 .. Len(s)
    <3>1. t[i] = s[i] /\ (i # 1 => t[i - 1] = s[i - 1])
      BY <1>2, <2>1
    <3>2. s[i].kind = "audio"
      BY <1>2, <2>1 DEF Open
    <3>3. s[i].from = (IF i = 1 THEN h ELSE s[i - 1].to) /\ s[i].to > s[i].from
      BY <1>2, <2>1, <3>2 DEF InOrder
    <3>4. QED BY <3>1, <3>2, <3>3
  <2>2. CASE i = Len(s) + 1
    <3>1. CASE s = <<>>
      BY <1>1, <1>2, <2>2, <3>1 DEF Reach
    <3>2. CASE s # <<>>
      <4>1. Len(s) # 0
        BY <3>2
      <4>2. i # 1 /\ t[i - 1] = s[Len(s)]
        BY <1>2, <2>2, <4>1
      <4>3. QED BY <1>1, <1>2, <2>2, <3>2, <4>2 DEF Reach
    <3>3. QED BY <3>1, <3>2
  <2>3. QED BY <1>2, <2>1, <2>2
<1>6. QED BY <1>3, <1>4, <1>5 DEF t, m

\* An end may follow audio.
LEMMA AppendEnd ==
    ASSUME NEW s \in Seq(Message), NEW h \in Nat, InOrder(s, h), Open(s),
           NEW m, m.kind # "audio"
    PROVE  LET t == Append(s, m)
           IN  /\ InOrder(t, h)
               /\ (IF Len(t) = 1 THEN h ELSE t[Len(t) - 1].to) = Reach(s, h)
<1> DEFINE t == Append(s, m)
<1>2. /\ Len(s) \in Nat /\ DOMAIN s = 1 .. Len(s)
      /\ DOMAIN t = 1 .. Len(s) + 1 /\ Len(t) = Len(s) + 1
      /\ t[Len(s) + 1] = m
      /\ \A i \in 1 .. Len(s) : t[i] = s[i]
  OBVIOUS
<1> HIDE DEF t
<1>3. \A i \in 1 .. Len(s) :
        /\ t[i].kind = "audio"
        /\ t[i].from = (IF i = 1 THEN h ELSE t[i - 1].to) /\ t[i].to > t[i].from
  <2> SUFFICES ASSUME NEW i \in 1 .. Len(s)
               PROVE  /\ t[i].kind = "audio"
                      /\ t[i].from = (IF i = 1 THEN h ELSE t[i - 1].to) /\ t[i].to > t[i].from
    OBVIOUS
  <2>1. t[i] = s[i] /\ (i # 1 => t[i - 1] = s[i - 1])
    BY <1>2
  <2>2. s[i].kind = "audio"
    BY <1>2 DEF Open
  <2>3. s[i].from = (IF i = 1 THEN h ELSE s[i - 1].to) /\ s[i].to > s[i].from
    BY <1>2, <2>2 DEF InOrder
  <2>4. QED BY <2>1, <2>2, <2>3
<1>4. InOrder(t, h)
  BY <1>2, <1>3 DEF InOrder
<1>5. (IF Len(s) + 1 = 1 THEN h ELSE t[Len(s)].to) = Reach(s, h)
  <2>1. CASE s = <<>>
    BY <2>1 DEF Reach
  <2>2. CASE s # <<>>
    <3>1. Len(s) # 0
      BY <2>2
    <3>2. QED BY <1>2, <2>2, <3>1 DEF Reach
  <2>3. QED BY <2>1, <2>2
<1>6. (IF Len(t) = 1 THEN h ELSE t[Len(t) - 1].to) = Reach(s, h)
  <2>1. Len(t) = Len(s) + 1 /\ Len(t) - 1 = Len(s)
    BY <1>2
  <2>2. QED BY <1>5, <2>1
<1>7. QED BY <1>4, <1>6 DEF t

\* A reader that takes one message leaves a queue in order behind.
LEMMA HearOne ==
    ASSUME NEW s \in Seq(Message), s # <<>>, NEW h \in Nat, InOrder(s, h)
    PROVE  LET g == IF Head(s).kind = "audio" THEN Head(s).to ELSE h
           IN  /\ InOrder(Tail(s), g)
               /\ Open(s) => Open(Tail(s)) /\ Reach(Tail(s), g) = Reach(s, h)
<1> DEFINE g == IF Head(s).kind = "audio" THEN Head(s).to ELSE h
           t == Tail(s)
<1>1. /\ Len(s) \in Nat \ {0} /\ DOMAIN s = 1 .. Len(s) /\ Head(s) = s[1]
      /\ Len(t) = Len(s) - 1 /\ DOMAIN t = 1 .. Len(s) - 1
      /\ \A i \in 1 .. Len(s) - 1 : t[i] = s[i + 1]
  OBVIOUS
<1>t. t \in Seq(Message)
  OBVIOUS
<1> HIDE DEF t
<1>2. t = <<>> <=> Len(s) = 1
  BY <1>1, <1>t
<1>3. Len(s) # 1 => Head(s).kind = "audio"
  BY <1>1 DEF InOrder
<1>4. ASSUME NEW i \in DOMAIN t
      PROVE  /\ i + 1 \in DOMAIN s /\ t[i] = s[i + 1]
             /\ (IF i = 1 THEN g ELSE t[i - 1].to) = s[i].to
             /\ i + 1 # 1
  <2>1. i + 1 \in DOMAIN s /\ t[i] = s[i + 1] /\ i + 1 # 1 /\ Len(s) # 1
    BY <1>1
  <2>2. CASE i = 1
    BY <1>1, <1>3, <2>1, <2>2
  <2>3. CASE i # 1
    <3>1. i - 1 \in 1 .. Len(s) - 1 /\ (i - 1) + 1 = i
      BY <1>1, <2>3
    <3>2. t[i - 1] = s[i]
      BY <1>1, <3>1
    <3>3. QED BY <2>1, <2>3, <3>2
  <2>4. QED BY <2>2, <2>3
<1> HIDE DEF g
<1>5. InOrder(t, g)
  <2> SUFFICES ASSUME NEW i \in DOMAIN t
               PROVE  IF t[i].kind = "audio"
                      THEN /\ t[i].from = IF i = 1 THEN g ELSE t[i - 1].to
                           /\ t[i].to > t[i].from
                      ELSE i = Len(t)
    BY DEF InOrder
  <2>1. IF s[i + 1].kind = "audio"
        THEN s[i + 1].from = s[(i + 1) - 1].to /\ s[i + 1].to > s[i + 1].from
        ELSE i + 1 = Len(s)
    BY <1>4 DEF InOrder
  <2>2. (i + 1) - 1 = i /\ (i + 1 = Len(s) => i = Len(t))
    BY <1>1
  <2>3. QED BY <1>4, <2>1, <2>2
<1>6. ASSUME Open(s)
      PROVE  Open(t) /\ Reach(t, g) = Reach(s, h)
  <2>1. Open(t)
    BY <1>4, <1>6 DEF Open
  <2>2. CASE Len(s) = 1
    <3>1. Reach(t, g) = g
      BY <1>2, <2>2 DEF Reach
    <3>2. g = s[1].to
      BY <1>1, <1>6 DEF g, Open
    <3>3. QED BY <2>1, <2>2, <3>1, <3>2 DEF Reach
  <2>3. CASE Len(s) # 1
    <3>1. t # <<>> /\ Len(s) - 1 \in 1 .. Len(s) - 1 /\ (Len(s) - 1) + 1 = Len(s)
      BY <1>1, <1>2, <2>3
    <3>2. t[Len(t)] = s[Len(s)]
      BY <1>1, <3>1
    <3>3. QED BY <2>1, <3>1, <3>2 DEF Reach
  <2>4. QED BY <2>2, <2>3
<1>7. QED BY <1>5, <1>6 DEF g, t

----------------------------------------------------------------------------
(* Who is spoken to: what the steps of the worker and of the routes keep *)

\* What a step does not say leaves the streams alone: requests may leave the
\* batch and the queues of the worker, and nothing is sent.
LEMMA SilentStep ==
    ASSUME IInv, StreamInv,
           UNCHANGED <<caller, heard, out, prefillQ, yielded, finished>>,
           running' \subseteq running, pendingOut' \subseteq pendingOut,
           \A r \in Req : InFinals(r)' => InFinals(r),
           pc' = "deliver" => pc = "deliver",
           pc = "deliver" => pc' = "deliver" \/ finished = {}
    PROVE  StreamInv'
<1>1. AudioInOrder'
  BY DEF AudioInOrder, StreamInv
<1>2. \A r \in Req : Unborn(r) => Unborn(r)'
  BY DEF Unborn
<1>3. \A i \in DOMAIN prefillQ : prefillQ[i] \in Req
  BY DEF IInv, TypeOK
<1>4. QueuedInv'
  BY <1>2, <1>3 DEF QueuedInv, StreamInv
<1>5. TalkInv'
  BY DEF TalkInv, StreamInv, IInv, TypeOK
<1>6. QED BY <1>1, <1>4, <1>5 DEF StreamInv

\* A pop leaves only what was in the dictionary.
LEMMA PopKeeps ==
    ASSUME NEW q \in Seq(Req), NEW r,
           NEW k \in DOMAIN Pop(q, r)
    PROVE  \E j \in DOMAIN q : q[j] = Pop(q, r)[k]
<1>1. CASE \E i \in DOMAIN q : q[i] = r
  <2> DEFINE i == CHOOSE j \in DOMAIN q : q[j] = r
             a == SubSeq(q, 1, i - 1)
             b == SubSeq(q, i + 1, Len(q))
  <2>1. i \in DOMAIN q
    BY <1>1
  <2>2. i \in 1 .. Len(q) /\ Len(q) \in Nat
    BY <2>1
  <2>3. Pop(q, r) = a \o b
    BY <1>1 DEF Pop
  <2> HIDE DEF i
  <2>4. /\ a \in Seq(Req) /\ Len(a) = i - 1 /\ \A j \in 1 .. i - 1 : a[j] = q[j]
        /\ b \in Seq(Req) /\ Len(b) = Len(q) - i
        /\ \A j \in 1 .. Len(q) - i : b[j] = q[i + j]
    BY <2>2
  <2> HIDE DEF a, b
  <2>5. k \in 1 .. (i - 1) + (Len(q) - i)
    BY <2>2, <2>3, <2>4
  <2>6. CASE k <= i - 1
    <3>1. Pop(q, r)[k] = q[k] /\ k \in DOMAIN q
      BY <2>2, <2>3, <2>4, <2>5, <2>6
    <3>2. QED BY <3>1
  <2>7. CASE k > i - 1
    <3> DEFINE n == k - (i - 1)
    <3>1. n \in 1 .. Len(q) - i
      BY <2>2, <2>5, <2>7
    <3>2. Pop(q, r)[k] = b[n]
      BY <2>2, <2>3, <2>4, <2>5, <2>7
    <3> HIDE DEF n
    <3>3. b[n] = q[i + n]
      BY <2>4, <3>1
    <3>4. i + n \in DOMAIN q
      BY <2>2, <3>1
    <3>5. QED BY <3>2, <3>3, <3>4
  <2>8. QED BY <2>2, <2>5, <2>6, <2>7
<1>2. CASE ~ \E i \in DOMAIN q : q[i] = r
  BY <1>2 DEF Pop
<1>3. QED BY <1>1, <1>2

\* A cancellation says nothing, and neither does an empty queue.
LEMMA QuietStream ==
    ASSUME IInv, StreamInv, Cancel \/ AdmitDone \/ CancelDone \/ UNCHANGED vars
    PROVE  StreamInv'
<1>1. CASE Cancel
  <2> DEFINE r == Head(cancelQ)
  <2>1. running' \subseteq running /\ pendingOut' \subseteq pendingOut
        /\ finals' \in {finals, Pop(finals, r)}
    BY <1>1 DEF Cancel
  <2>2. \A q \in Req : InFinals(q)' => InFinals(q)
    <3>1. finals \in Seq(Req)
      BY DEF IInv, TypeOK
    <3> HIDE DEF r
    <3>2. QED BY <2>1, <3>1, PopKeeps DEF InFinals
  <2>3. UNCHANGED <<caller, heard, out, prefillQ, yielded, finished, pc>> /\ pc # "deliver"
    BY <1>1 DEF Cancel, routeVars
  <2>4. QED BY <2>1, <2>2, <2>3, SilentStep
<1>2. CASE AdmitDone \/ CancelDone
  <2>1. /\ UNCHANGED <<caller, heard, out, prefillQ, yielded, finished, running,
                       pendingOut, finals>>
        /\ pc # "deliver" /\ pc' # "deliver"
    BY <1>2 DEF AdmitDone, CancelDone, routeVars, queueVars, batchVars, audioVars
  <2>2. QED BY <2>1, SilentStep DEF InFinals
<1>3. CASE UNCHANGED vars
  <2>1. UNCHANGED <<caller, heard, out, prefillQ, yielded, finished, running,
                    pendingOut, finals, pc>>
    BY <1>3 DEF vars, routeVars, queueVars, batchVars, audioVars
  <2>2. QED BY <2>1, SilentStep DEF InFinals
<1>4. QED BY <1>1, <1>2, <1>3

\* A request is queued once, and leaving or hearing takes nothing back.
LEMMA RouteStream ==
    ASSUME IInv, StreamInv, NEW r \in Req, Route(r)
    PROVE  StreamInv'
<1>0. /\ \A i \in DOMAIN prefillQ : prefillQ[i] \in Req
      /\ pendingOut \subseteq Req /\ prefillQ \in Seq(Req)
      /\ caller \in [Req -> {"idle", "waiting", "done", "error", "left"}]
  BY DEF IInv, TypeOK
<1>1. /\ UNCHANGED <<pc, pendingOut, finished, running, yielded, finals>>
      /\ \A q \in Req : InFinals(q)' <=> InFinals(q)
  BY DEF Route, Post, Hear, Leave, batchVars, audioVars, InFinals
<1>2. CASE Post(r)
  <2>1. /\ caller[r] = "idle" /\ caller' = [caller EXCEPT ![r] = "waiting"]
        /\ prefillQ' = Append(prefillQ, r) /\ UNCHANGED <<heard, out>>
    BY <1>2 DEF Post
  <2>2. AudioInOrder'
    BY <2>1 DEF AudioInOrder, StreamInv
  <2>3. \A q \in Req : Unborn(q) => Unborn(q)'
    BY <1>1, <2>1 DEF Unborn
  <2>4. QueuedInv'
    <3>1. \A q \in Req : caller'[q] = "idle" => Unborn(q)'
      BY <1>0, <2>1, <2>3 DEF QueuedInv, StreamInv
    <3>2. /\ DOMAIN prefillQ' = 1 .. Len(prefillQ) + 1 /\ Len(prefillQ) \in Nat
          /\ DOMAIN prefillQ = 1 .. Len(prefillQ)
          /\ prefillQ'[Len(prefillQ) + 1] = r
          /\ \A i \in 1 .. Len(prefillQ) : prefillQ'[i] = prefillQ[i]
      BY <1>0, <2>1
    <3>3. \A i \in DOMAIN prefillQ : prefillQ[i] # r
      BY <2>1 DEF QueuedInv, StreamInv
    <3>4. ASSUME NEW i \in DOMAIN prefillQ'
          PROVE  Unborn(prefillQ[i])' /\ caller'[prefillQ'[i]] \in {"waiting", "left"}
      <4>1. CASE i = Len(prefillQ) + 1
        <5>1. Unborn(r)' /\ caller'[r] = "waiting"
          BY <1>0, <2>1, <2>3 DEF QueuedInv, StreamInv
        <5>2. QED BY <3>2, <4>1, <5>1 DEF Unborn, InFinals
      <4>2. CASE i \in 1 .. Len(prefillQ)
        <5>1. PICK q \in Req :
                /\ q = prefillQ[i] /\ q # r
                /\ Unborn(q) /\ caller[q] \in {"waiting", "left"}
          BY <1>0, <3>2, <3>3, <4>2 DEF QueuedInv, StreamInv
        <5>2. prefillQ'[i] = q
          BY <3>2, <4>2, <5>1
        <5>3. Unborn(q)' /\ caller'[q] \in {"waiting", "left"}
          BY <1>0, <2>1, <2>3, <5>1
        <5>4. QED BY <5>2, <5>3 DEF Unborn, InFinals
      <4>3. QED BY <3>2, <4>1, <4>2
    <3>5. \A i, j \in DOMAIN prefillQ' : prefillQ'[i] = prefillQ'[j] => i = j
      BY <3>2, <3>3 DEF QueuedInv, StreamInv
    <3>6. QED BY <3>1, <3>4, <3>5 DEF QueuedInv
  <2>5. TalkInv'
    BY <1>0, <1>1, <2>1 DEF TalkInv, StreamInv
  <2>6. QED BY <2>2, <2>4, <2>5 DEF StreamInv
<1>3. CASE Leave(r)
  <2>1. /\ caller[r] = "waiting" /\ caller' = [caller EXCEPT ![r] = "left"]
        /\ UNCHANGED <<heard, out, prefillQ>>
    BY <1>3 DEF Leave
  <2>2. AudioInOrder'
    BY <2>1 DEF AudioInOrder, StreamInv
  <2>3. \A q \in Req : Unborn(q) => Unborn(q)'
    BY <1>1, <2>1 DEF Unborn
  <2>4. \A q \in Req : caller'[q] = "idle" => caller[q] = "idle"
    BY <1>0, <2>1
  <2>5. \A q \in Req : caller[q] \in {"waiting", "left"} => caller'[q] \in {"waiting", "left"}
    BY <1>0, <2>1
  <2>6. QueuedInv'
    BY <1>0, <2>1, <2>3, <2>4, <2>5 DEF QueuedInv, StreamInv
  <2>7. TalkInv'
    BY <1>0, <1>1, <2>1 DEF TalkInv, StreamInv
  <2>8. QED BY <2>2, <2>6, <2>7 DEF StreamInv
<1>4. CASE Hear(r)
  <2> DEFINE m == Head(out[r])
             g == IF m.kind = "audio" THEN m.to ELSE heard[r]
  <2>1. /\ caller[r] = "waiting" /\ out[r] # <<>>
        /\ heard' = [heard EXCEPT ![r] = IF m.kind = "audio" THEN m.to ELSE @]
        /\ caller' = [caller EXCEPT ![r] = IF m.kind = "audio" THEN @ ELSE m.kind]
        /\ out' = [out EXCEPT ![r] = Tail(@)]
        /\ prefillQ' = prefillQ
    BY <1>4 DEF Hear
  <2>2. /\ out \in [Req -> Seq(Message)] /\ heard \in [Req -> Nat]
        /\ InOrder(out[r], heard[r])
    BY InOrderEach DEF IInv, TypeOK, StreamInv
  <2>3. /\ InOrder(Tail(out[r]), g)
        /\ Open(out[r]) => Open(Tail(out[r])) /\ Reach(Tail(out[r]), g) = Reach(out[r], heard[r])
    BY <2>1, <2>2, HearOne
  <2>4. /\ heard'[r] = g /\ out'[r] = Tail(out[r])
        /\ \A q \in Req \ {r} : heard'[q] = heard[q] /\ out'[q] = out[q] /\ caller'[q] = caller[q]
    BY <1>0, <2>1, <2>2
  <2>m. m \in Message /\ m.kind # "idle"
    <3>1. m \in Message
      BY <2>1, <2>2
    <3>2. QED BY <3>1 DEF Message
  <2>5. caller'[r] # "idle"
    BY <1>0, <2>1, <2>m
  <2> HIDE DEF g, m
  <2>6. AudioInOrder'
    <3>1. \A q \in Req : InOrder(out'[q], heard'[q])
      BY <2>3, <2>4, InOrderEach DEF StreamInv
    <3>2. QED BY <3>1 DEF AudioInOrder, InOrder
  <2>7. \A q \in Req : Unborn(q) => q # r /\ Unborn(q)'
    BY <1>1, <2>1, <2>4 DEF Unborn
  <2>8. QueuedInv'
    <3>1. \A q \in Req : caller'[q] = "idle" => Unborn(q)'
      BY <2>4, <2>5, <2>7 DEF QueuedInv, StreamInv
    <3>2. ASSUME NEW i \in DOMAIN prefillQ
          PROVE  Unborn(prefillQ[i])' /\ caller'[prefillQ'[i]] \in {"waiting", "left"}
      <4>1. PICK q \in Req :
              q = prefillQ[i] /\ Unborn(q) /\ caller[q] \in {"waiting", "left"}
        BY <1>0 DEF QueuedInv, StreamInv
      <4>2. prefillQ'[i] = q
        BY <2>1, <4>1
      <4>3. Unborn(q)' /\ caller'[q] \in {"waiting", "left"}
        BY <2>4, <2>7, <4>1
      <4>4. QED BY <2>1, <4>2, <4>3 DEF Unborn, InFinals
    <3>3. QED BY <2>1, <3>1, <3>2 DEF QueuedInv, StreamInv
  <2>9. TalkInv'
    BY <1>0, <1>1, <2>3, <2>4 DEF TalkInv, StreamInv
  <2>10. QED BY <2>6, <2>8, <2>9 DEF StreamInv
<1>5. QED BY <1>2, <1>3, <1>4 DEF Route

----------------------------------------------------------------------------
(* Admission *)

\* What admission does to the queues, whichever way prefill goes.
LEMMA AdmitFacts ==
    ASSUME IInv, Admit
    PROVE  LET r == Head(prefillQ)
           IN  /\ r \in Req /\ prefillQ # <<>> /\ prefillQ' = Tail(prefillQ)
               /\ pc = "admit" /\ pc' = pc
               /\ UNCHANGED <<caller, heard, cancelQ, finished, yielded>>
               /\ \/ /\ out' = [out EXCEPT ![r] = Append(@, Error)]
                     /\ running' = running \ {r} /\ pendingOut' = pendingOut \ {r}
                     /\ tokens' = tokens /\ finals' = Pop(finals, r)
                  \/ /\ running' = running \union {r}
                     /\ pendingOut' = pendingOut \union {r}
                     /\ tokens' = [tokens EXCEPT ![r] = 2]
                     /\ UNCHANGED <<out, finals>>
<1> DEFINE r == Head(prefillQ)
<1>1. r \in Req /\ prefillQ # <<>> /\ prefillQ' = Tail(prefillQ)
      /\ pc = "admit" /\ pc' = pc
      /\ UNCHANGED <<caller, heard, cancelQ, finished, yielded>>
  BY DEF IInv, TypeOK, Admit
<1> DEFINE failed == /\ out' = [out EXCEPT ![r] = Append(@, Error)]
                     /\ running' = running \ {r} /\ pendingOut' = pendingOut \ {r}
                     /\ tokens' = tokens /\ finals' = Pop(finals, r)
<1>2. \A self, cross : Abort(r, self, cross) => failed
  BY DEF Abort, Put
<1>3. failed \/ /\ running' = running \union {r}
                /\ pendingOut' = pendingOut \union {r}
                /\ tokens' = [tokens EXCEPT ![r] = 2]
                /\ UNCHANGED <<out, finals>>
  <2> HIDE DEF failed
  <2>1. QED BY <1>2 DEF Admit
<1>4. QED BY <1>1, <1>3

\* Who is admitted was queued once and nothing was said to it, and what is
\* still queued is someone else.
LEMMA HeadFacts ==
    ASSUME IInv, StreamInv, prefillQ # <<>>, prefillQ' = Tail(prefillQ)
    PROVE  LET r == Head(prefillQ)
           IN  /\ Unborn(r) /\ caller[r] \in {"waiting", "left"}
               /\ \A i \in DOMAIN prefillQ' :
                    \E j \in DOMAIN prefillQ : prefillQ'[i] = prefillQ[j] /\ prefillQ[j] # r
               /\ \A i, j \in DOMAIN prefillQ' : prefillQ'[i] = prefillQ'[j] => i = j
<1> DEFINE r == Head(prefillQ)
<1>1. /\ prefillQ \in Seq(Req) /\ Len(prefillQ) \in Nat \ {0}
      /\ DOMAIN prefillQ = 1 .. Len(prefillQ) /\ r = prefillQ[1]
      /\ DOMAIN prefillQ' = 1 .. Len(prefillQ) - 1
      /\ \A i \in 1 .. Len(prefillQ) - 1 : prefillQ'[i] = prefillQ[i + 1]
  BY DEF IInv, TypeOK
<1> HIDE DEF r
<1>2. /\ \A i \in DOMAIN prefillQ :
           Unborn(prefillQ[i]) /\ caller[prefillQ[i]] \in {"waiting", "left"}
      /\ \A i, j \in DOMAIN prefillQ : prefillQ[i] = prefillQ[j] => i = j
  BY DEF QueuedInv, StreamInv
<1>3. 1 \in DOMAIN prefillQ
  BY <1>1
<1>4. Unborn(r) /\ caller[r] \in {"waiting", "left"}
  BY <1>1, <1>2, <1>3
<1>5. ASSUME NEW i \in DOMAIN prefillQ'
      PROVE  \E j \in DOMAIN prefillQ : prefillQ'[i] = prefillQ[j] /\ prefillQ[j] # r
  <2>1. i + 1 \in DOMAIN prefillQ /\ i + 1 # 1
    BY <1>1
  <2>2. prefillQ[i + 1] # r
    BY <1>1, <1>2, <1>3, <2>1
  <2>3. QED BY <1>1, <2>1, <2>2
<1>6. ASSUME NEW i \in DOMAIN prefillQ', NEW j \in DOMAIN prefillQ',
             prefillQ'[i] = prefillQ'[j]
      PROVE  i = j
  <2>1. i + 1 \in DOMAIN prefillQ /\ j + 1 \in DOMAIN prefillQ
    BY <1>1
  <2>2. i + 1 = j + 1
    BY <1>1, <1>2, <1>6, <2>1
  <2>3. QED BY <1>1, <2>2
<1>7. QED BY <1>4, <1>5, <1>6 DEF r

\* An admission that fails says so on an empty queue, and says nothing after;
\* one that succeeds opens a stream at its first sample.
LEMMA AdmitStream ==
    ASSUME IInv, StreamInv, Admit
    PROVE  StreamInv'
<1>1. PICK r \in Req :
        /\ prefillQ # <<>> /\ r = Head(prefillQ)
        /\ prefillQ' = Tail(prefillQ) /\ pc = "admit" /\ pc' = pc
        /\ UNCHANGED <<caller, heard, finished, yielded>>
        /\ \/ /\ out' = [out EXCEPT ![r] = Append(@, Error)]
              /\ running' = running \ {r} /\ pendingOut' = pendingOut \ {r}
              /\ finals' = Pop(finals, r)
           \/ /\ running' = running \union {r}
              /\ pendingOut' = pendingOut \union {r}
              /\ UNCHANGED <<out, finals>>
  BY AdmitFacts
<1>2. /\ Unborn(r) /\ caller[r] \in {"waiting", "left"}
      /\ \A i \in DOMAIN prefillQ' :
           \E j \in DOMAIN prefillQ : prefillQ'[i] = prefillQ[j] /\ prefillQ[j] # r
      /\ \A i, j \in DOMAIN prefillQ' : prefillQ'[i] = prefillQ'[j] => i = j
  BY <1>1, HeadFacts
<1>3. /\ out \in [Req -> Seq(Message)] /\ heard \in [Req -> Nat] /\ finals \in Seq(Req)
      /\ pendingOut \subseteq Req /\ \A i \in DOMAIN prefillQ : prefillQ[i] \in Req
  BY DEF IInv, TypeOK
<1>4. \A q \in Req : InFinals(q)' => InFinals(q)
  BY <1>1, <1>3, PopKeeps DEF InFinals
<1>5. \A q \in Req : q # r => out'[q] = out[q]
  BY <1>1, <1>3
<1>6. \A q \in Req : q # r /\ Unborn(q) => Unborn(q)'
  BY <1>1, <1>4, <1>5 DEF Unborn
<1>7. AudioInOrder'
  <2>1. InOrder(out'[r], heard[r])
    <3>1. CASE out' = out
      BY <3>1, InOrderEach DEF StreamInv
    <3>2. CASE out' = [out EXCEPT ![r] = Append(@, Error)]
      <4>1. out'[r] = Append(<<>>, Error) /\ Error.kind # "audio"
        BY <1>2, <1>3, <3>2 DEF Unborn, Error
      <4>2. <<>> \in Seq(Message) /\ InOrder(<<>>, heard[r]) /\ Open(<<>>) /\ heard[r] \in Nat
        BY <1>3 DEF InOrder, Open
      <4>3. QED BY <4>1, <4>2, AppendEnd
    <3>3. QED BY <1>1, <3>1, <3>2
  <2>2. \A q \in Req : InOrder(out'[q], heard'[q])
    BY <1>1, <1>5, <2>1, InOrderEach DEF StreamInv
  <2>3. QED BY <2>2 DEF AudioInOrder, InOrder
<1>8. QueuedInv'
  <2>1. \A q \in Req : caller'[q] = "idle" => Unborn(q)'
    BY <1>1, <1>2, <1>6 DEF QueuedInv, StreamInv
  <2>2. ASSUME NEW i \in DOMAIN prefillQ'
        PROVE  Unborn(prefillQ[i])' /\ caller'[prefillQ'[i]] \in {"waiting", "left"}
    <3>1. PICK j \in DOMAIN prefillQ : prefillQ'[i] = prefillQ[j] /\ prefillQ[j] # r
      BY <1>2
    <3>2. PICK q \in Req : q = prefillQ[j] /\ Unborn(q) /\ caller[q] \in {"waiting", "left"}
      BY <1>3 DEF QueuedInv, StreamInv
    <3>3. Unborn(q)' /\ caller'[q] \in {"waiting", "left"} /\ prefillQ'[i] = q
      BY <1>1, <1>6, <3>1, <3>2
    <3>4. QED BY <3>3 DEF Unborn, InFinals
  <2>3. QED BY <1>2, <2>1, <2>2 DEF QueuedInv
<1>9. TalkInv'
  <2>1. ASSUME NEW q \in pendingOut'
        PROVE  Open(out'[q]) /\ Reach(out'[q], heard'[q]) = yielded'[q]
               /\ (InFinals(q)' => q \in finished')
    <3>1. CASE q # r
      <4>1. q \in pendingOut /\ out'[q] = out[q] /\ q \in Req
        BY <1>1, <1>3, <1>5, <2>1, <3>1
      <4>2. QED BY <1>1, <1>4, <4>1 DEF TalkInv, StreamInv
    <3>2. CASE q = r
      <4>1. out' = out
        BY <1>1, <2>1, <3>2
      <4>2. QED BY <1>1, <1>2, <1>4, <3>2, <4>1 DEF Unborn, Open, Reach
    <3>3. QED BY <3>1, <3>2
  <2>2. QED BY <1>1, <2>1 DEF TalkInv, StreamInv
<1>10. QED BY <1>7, <1>8, <1>9 DEF StreamInv

----------------------------------------------------------------------------
(* A step of the batch *)

\* The order of the slots lists exactly P.
LEMMA SlotOrderLists ==
    ASSUME IInv, NEW P, P \subseteq running
    PROVE  /\ Cardinality(P) \in Nat /\ Cardinality(P) <= MaxBatch
           /\ InSlotOrder(selfKV, P) \in [1 .. Cardinality(P) -> P]
           /\ Len(InSlotOrder(selfKV, P)) = Cardinality(P)
           /\ \A p \in P : \E i \in 1 .. Cardinality(P) : InSlotOrder(selfKV, P)[i] = p
<1> DEFINE n == Cardinality(P)
           f == selfKV.slotOf
           Here(i) == {p \in P : Place(f, P, p) = i - 1}
<1>1. Own(selfKV, SelfMax) /\ Held(selfKV) = running /\ SelfMax \in Nat
  BY LengthAssumption DEF IInv, BatchInv, Sound
<1>2. /\ IsFiniteSet(P)
      /\ \A p \in P : f[p] \in Nat /\ f[p] \in Slot
      /\ \A p, q \in P : f[p] = f[q] => p = q
  <2>1. P \in SUBSET Held(selfKV)
    BY <1>1
  <2>2. QED BY <1>1, <2>1, OwnFacts, FS_Subset
<1>3. /\ n \in Nat
      /\ \A p \in P : Place(f, P, p) \in 0 .. n - 1
      /\ \A p, q \in P : Place(f, P, p) = Place(f, P, q) => p = q
      /\ \A k \in 0 .. n - 1 : \E p \in P : Place(f, P, p) = k
  BY <1>2, Ranking
<1>4. n <= MaxBatch
  <2> DEFINE g == [p \in P |-> f[p]]
  <2>1. g \in [P -> Slot] /\ \A p, q \in P : g[p] = g[q] => p = q
    BY <1>2
  <2>2. IsFiniteSet(Slot) /\ Cardinality(Slot) = MaxBatch
    BY CacheAssumption, FS_Interval DEF Slot
  <2>3. n <= Cardinality(Slot)
    <3>1. g \in Injection(P, Slot)
      BY <2>1 DEF Injection, IsInjective
    <3>2. QED BY <2>2, <3>1, FS_Injection
  <2>4. QED BY <2>2, <2>3
<1>5. ASSUME NEW i \in 1 .. n
      PROVE  (CHOOSE p \in P : Place(f, P, p) = i - 1) \in Here(i)
  <2>1. i - 1 \in 0 .. n - 1
    BY <1>3
  <2>2. \E p \in P : Place(f, P, p) = i - 1
    BY <1>3, <2>1
  <2>3. QED BY <2>2
<1>6. /\ InSlotOrder(selfKV, P) = [i \in 1 .. n |-> CHOOSE p \in P : Place(f, P, p) = i - 1]
  BY DEF InSlotOrder
<1>7. InSlotOrder(selfKV, P) \in [1 .. n -> P]
  BY <1>5, <1>6
<1>8. Len(InSlotOrder(selfKV, P)) = n
  BY <1>3, <1>7
<1>9. ASSUME NEW p \in P
      PROVE  \E i \in 1 .. n : InSlotOrder(selfKV, P)[i] = p
  <2> DEFINE i == Place(f, P, p) + 1
  <2>1. i \in 1 .. n /\ Place(f, P, p) = i - 1
    BY <1>3
  <2>2. InSlotOrder(selfKV, P)[i] \in Here(i)
    BY <1>5, <1>6, <2>1
  <2>3. InSlotOrder(selfKV, P)[i] = p
    BY <1>3, <2>1, <2>2
  <2>4. QED BY <2>1, <2>3
<1>10. QED BY <1>3, <1>4, <1>7, <1>8, <1>9

\* What a step that does not raise does to the requests: gone are those it ends.
LEMMA DecodeFacts ==
    ASSUME IInv, Decode
    PROVE  \E gone \in SUBSET running :
              /\ tokens' = [r \in Req |-> IF r \in running THEN tokens[r] + 1 ELSE tokens[r]]
              /\ running' = running \ gone
              /\ finals' = finals \o InSlotOrder(selfKV, gone)
              /\ finished' = gone
              /\ pc' \in {"deliver", "admit"} /\ (pc' = "admit" => gone = {})
              /\ UNCHANGED <<caller, heard, out, prefillQ, pendingOut, yielded>>
<1>1. PICK E \in SUBSET {r \in running : MayEnd(r)} :
        LET grown == Grow(selfKV)
            gone  == E \union {r \in running : OutOfRoom(grown, r)}
        IN  /\ tokens' = [r \in Req |-> IF r \in running THEN tokens[r] + 1 ELSE tokens[r]]
            /\ running' = running \ gone
            /\ finals' = finals \o InSlotOrder(selfKV, gone)
            /\ finished' = gone
            /\ pc' = IF gone # {} \/ stepCount' = 0 THEN "deliver" ELSE "admit"
            /\ UNCHANGED <<caller, heard, out, prefillQ, pendingOut, yielded>>
  BY DEF Decode, routeVars, queueVars
<1> DEFINE gone == E \union {r \in running : OutOfRoom(Grow(selfKV), r)}
<1>2. gone \in SUBSET running
  OBVIOUS
<1>3. /\ tokens' = [r \in Req |-> IF r \in running THEN tokens[r] + 1 ELSE tokens[r]]
      /\ running' = running \ gone
      /\ finals' = finals \o InSlotOrder(selfKV, gone)
      /\ finished' = gone
      /\ pc' = IF gone # {} \/ stepCount' = 0 THEN "deliver" ELSE "admit"
      /\ UNCHANGED <<caller, heard, out, prefillQ, pendingOut, yielded>>
  BY <1>1
<1> HIDE DEF gone
<1>4. pc' \in {"deliver", "admit"} /\ (pc' = "admit" => gone = {})
  BY <1>3
<1>5. QED BY <1>2, <1>3, <1>4

\* The finals after a step: those before it, and those it ended.
LEMMA FinalsAfter ==
    ASSUME IInv, NEW gone \in SUBSET running,
           finals' = finals \o InSlotOrder(selfKV, gone)
    PROVE  \A r \in Req : InFinals(r)' <=> InFinals(r) \/ r \in gone
<1> DEFINE s == InSlotOrder(selfKV, gone)
           n == Cardinality(gone)
<1>1. /\ n \in Nat /\ Len(s) = n
      /\ s \in [1 .. n -> gone]
      /\ \A p \in gone : \E i \in 1 .. n : s[i] = p
  BY SlotOrderLists
<1>2. finals \in Seq(Req) /\ s \in Seq(Req)
  BY SlotOrderTyped DEF IInv, TypeOK
<1> HIDE DEF s, n
<1>3. /\ Len(finals) \in Nat /\ DOMAIN finals = 1 .. Len(finals)
      /\ DOMAIN finals' = 1 .. Len(finals) + n /\ Len(finals') = Len(finals) + n
      /\ \A i \in 1 .. Len(finals) : finals'[i] = finals[i]
      /\ \A i \in 1 .. n : finals'[Len(finals) + i] = s[i]
  <2>1. finals' = finals \o s
    BY DEF s
  <2>2. /\ Len(finals) \in Nat /\ DOMAIN finals = 1 .. Len(finals)
        /\ DOMAIN (finals \o s) = 1 .. Len(finals) + Len(s)
        /\ Len(finals \o s) = Len(finals) + Len(s)
    BY <1>2
  <2>3. ASSUME NEW i \in 1 .. Len(finals)
        PROVE  (finals \o s)[i] = finals[i]
    BY <1>2
  <2>4. ASSUME NEW i \in 1 .. Len(s)
        PROVE  (finals \o s)[Len(finals) + i] = s[i]
    BY <1>2
  <2>5. QED BY <1>1, <2>1, <2>2, <2>3, <2>4
<1>4. ASSUME NEW r \in Req
      PROVE  InFinals(r)' <=> InFinals(r) \/ r \in gone
  <2>1. ASSUME NEW i \in DOMAIN finals', finals'[i] = r
        PROVE  InFinals(r) \/ r \in gone
    <3>1. CASE i <= Len(finals)
      BY <1>3, <2>1, <3>1 DEF InFinals
    <3>2. CASE i > Len(finals)
      <4>1. i - Len(finals) \in 1 .. n /\ Len(finals) + (i - Len(finals)) = i
        BY <1>1, <1>3, <2>1, <3>2
      <4>2. s[i - Len(finals)] = r
        BY <1>3, <2>1, <4>1
      <4>3. QED BY <1>1, <4>1, <4>2
    <3>3. QED BY <1>3, <3>1, <3>2
  <2>2. ASSUME NEW i \in DOMAIN finals, finals[i] = r
        PROVE  \E j \in DOMAIN finals' : finals'[j] = r
    <3>1. i \in DOMAIN finals' /\ finals'[i] = r
      BY <1>1, <1>3, <2>2
    <3>2. QED BY <3>1
  <2>3. ASSUME r \in gone
        PROVE  \E j \in DOMAIN finals' : finals'[j] = r
    <3>1. PICK i \in 1 .. n : s[i] = r
      BY <1>1, <2>3
    <3>2. Len(finals) + i \in DOMAIN finals'
      BY <1>1, <1>3
    <3>3. QED BY <1>3, <3>1, <3>2
  <2>4. QED BY <2>1, <2>2, <2>3 DEF InFinals
<1>5. QED BY <1>4

\* A step speaks only when it raises, and then to everyone for the last time.
LEMMA StepStream ==
    ASSUME IInv, StreamInv, Step
    PROVE  StreamInv'
<1>1. /\ out \in [Req -> Seq(Message)] /\ heard \in [Req -> Nat] /\ pc = "step"
      /\ pendingOut \subseteq Req /\ \A i \in DOMAIN prefillQ : prefillQ[i] \in Req
  BY DEF IInv, TypeOK, Step
<1>2. CASE Die
  <2>1. /\ out' = [r \in Req |-> IF r \in pendingOut THEN Append(out[r], Error) ELSE out[r]]
        /\ pendingOut' = {} /\ pc' = "dead"
        /\ UNCHANGED <<caller, heard, prefillQ, finished, running, yielded, finals>>
    BY <1>2 DEF Die, queueVars, batchVars, audioVars
  <2>2. \A q \in Req : InOrder(out'[q], heard'[q])
    <3> SUFFICES ASSUME NEW q \in Req PROVE InOrder(out'[q], heard[q])
      BY <2>1
    <3>1. InOrder(out[q], heard[q]) /\ out[q] \in Seq(Message) /\ heard[q] \in Nat
      BY <1>1, InOrderEach DEF StreamInv
    <3>2. CASE q \in pendingOut
      <4>1. Open(out[q]) /\ Error.kind # "audio"
        BY <3>2 DEF TalkInv, StreamInv, Error
      <4>2. InOrder(Append(out[q], Error), heard[q])
        BY <3>1, <4>1, AppendEnd
      <4>3. QED BY <2>1, <3>2, <4>2
    <3>3. CASE q \notin pendingOut
      BY <2>1, <3>1, <3>3
    <3>4. QED BY <3>2, <3>3
  <2>3. AudioInOrder'
    BY <2>2 DEF AudioInOrder, InOrder
  <2>4. \A q \in Req : Unborn(q) => Unborn(q)'
    BY <2>1 DEF Unborn, InFinals
  <2>5. QueuedInv'
    BY <1>1, <2>1, <2>4 DEF QueuedInv, StreamInv
  <2>6. TalkInv'
    BY <1>1, <2>1 DEF TalkInv, StreamInv
  <2>7. QED BY <2>3, <2>5, <2>6 DEF StreamInv
<1>3. CASE Decode
  <2>1. PICK gone \in SUBSET running :
          /\ running' = running \ gone
          /\ finals' = finals \o InSlotOrder(selfKV, gone)
          /\ finished' = gone
          /\ pc' = "admit" => gone = {}
          /\ pc' \in {"deliver", "admit"}
          /\ UNCHANGED <<caller, heard, out, prefillQ, pendingOut, yielded>>
    BY <1>3, DecodeFacts
  <2>2. \A q \in Req : InFinals(q)' <=> InFinals(q) \/ q \in gone
    BY <2>1, FinalsAfter
  <2>3. AudioInOrder'
    BY <2>1 DEF AudioInOrder, StreamInv
  <2>4. \A q \in Req : Unborn(q) => Unborn(q)'
    BY <2>1, <2>2 DEF Unborn
  <2>5. QueuedInv'
    BY <1>1, <2>1, <2>4 DEF QueuedInv, StreamInv
  <2>6. TalkInv'
    BY <1>1, <2>1, <2>2 DEF TalkInv, StreamInv
  <2>7. QED BY <2>3, <2>5, <2>6 DEF StreamInv
<1>4. QED BY <1>2, <1>3 DEF Step

----------------------------------------------------------------------------
(* Delivery *)

\* The turns of a tick are running requests.
LEMMA TurnRuns ==
    ASSUME IInv, running # {}
    PROVE  Turn \subseteq running
<1> DEFINE n == Cardinality(running)
           s == InSlotOrder(selfKV, running)
<1>1. n \in Nat /\ s \in [1 .. n -> running]
  BY SlotOrderLists
<1>2. n # 0
  <2>1. IsFiniteSet(running)
    BY CacheAssumption, FS_Subset DEF IInv, TypeOK
  <2>2. QED BY <2>1, FS_EmptySet
<1>3. Start \in Nat
  BY DEF Start, IInv, TypeOK
<1>4. ASSUME NEW i \in 0 .. (IF n < MaxLive THEN n ELSE MaxLive) - 1
      PROVE  ((Start + i) % n) + 1 \in 1 .. n
  <2>1. i \in Nat
    BY <1>1, TickAssumption
  <2> HIDE DEF n
  <2>2. (Start + i) % n \in 0 .. n - 1
    BY <1>1, <1>2, <1>3, <2>1
  <2>3. QED BY <1>1, <2>2
<1>5. Turn = {s[((Start + i) % n) + 1] : i \in 0 .. (IF n < MaxLive THEN n ELSE MaxLive) - 1}
  BY DEF Turn
<1> HIDE DEF s, n
<1>6. QED BY <1>1, <1>4, <1>5

\* What a tick sends: to live requests all but what is held back, to finals all;
\* what it leaves queued was queued before.
LEMMA DeliverFacts ==
    ASSUME IInv, Deliver
    PROVE  \E live \in SUBSET running, final \in SUBSET Req :
              LET upto(r) == IF r \in live THEN Total(r) - Stride ELSE Total(r)
                  sent(r) == IF r \in live \union final
                             THEN Append(out[r], Audio(From(r), upto(r))) ELSE out[r]
              IN  /\ \A r \in live : LiveChunk(r)
                  /\ \A r \in final : InFinals(r) /\ FinalChunk(r)
                  /\ \A r \in Req : InFinals(r) /\ FinalChunk(r) => r \in final \/ InFinals(r)'
                  /\ \A r \in Req : InFinals(r)' => InFinals(r)
                  /\ yielded' = [r \in Req |-> IF r \in live THEN upto(r) ELSE yielded[r]]
                  /\ out' = [r \in Req |->
                               IF r \notin pendingOut THEN out[r]
                               ELSE IF r \in finished THEN Append(sent(r), Done)
                               ELSE sent(r)]
                  /\ pendingOut' = pendingOut \ finished /\ finished' = {}
                  /\ pc = "deliver" /\ pc' = "admit"
                  /\ UNCHANGED <<caller, heard, prefillQ, running, tokens>>
<1> DEFINE live == {r \in (IF running = {} THEN {} ELSE Turn) : LiveChunk(r)}
           final == {r \in FirstFinals(Ticks) : FinalChunk(r)}
           upto(r) == IF r \in live THEN Total(r) - Stride ELSE Total(r)
           sent(r) == IF r \in live \union final
                      THEN Append(out[r], Audio(From(r), upto(r))) ELSE out[r]
<1>1. /\ yielded' = [r \in Req |-> IF r \in live THEN upto(r) ELSE yielded[r]]
      /\ finals' = SubSeq(finals, Ticks * MaxFinals + 1, Len(finals))
      /\ out' = [r \in Req |->
                   IF r \notin pendingOut THEN out[r]
                   ELSE IF r \in finished THEN Append(sent(r), Done)
                   ELSE sent(r)]
      /\ pendingOut' = pendingOut \ finished /\ finished' = {}
      /\ pc = "deliver" /\ pc' = "admit"
      /\ UNCHANGED <<caller, heard, prefillQ, running, tokens>>
  BY DEF Deliver, queueVars, batchVars
<1>2. live \in SUBSET running /\ \A r \in live : LiveChunk(r)
  BY TurnRuns
<1>3. finals \in Seq(Req) /\ Len(finals) \in Nat /\ DOMAIN finals = 1 .. Len(finals)
      /\ MaxFinals \in Nat /\ DrainTicks \in Nat
  BY TickAssumption DEF IInv, TypeOK
<1>4. Ticks \in Nat
  <2>1. IsFiniteSet(1 .. DrainTicks)
    BY <1>3, FS_Interval
  <2>2. QED BY <2>1, FS_Subset, FS_CardinalityType DEF Ticks
<1>5. Ticks * MaxFinals \in Nat
  BY <1>3, <1>4
<1>6. \A r \in final : r \in Req /\ InFinals(r) /\ FinalChunk(r)
  <2>1. \A r \in FirstFinals(Ticks) : r \in Req /\ InFinals(r)
    BY <1>3 DEF FirstFinals, InFinals
  <2>2. QED BY <2>1
<1>7. ASSUME NEW r \in Req, InFinals(r)'
      PROVE  InFinals(r)
  <2>1. PICK i \in DOMAIN finals' : finals'[i] = r
    BY <1>7 DEF InFinals
  <2>2. i + Ticks * MaxFinals \in DOMAIN finals /\ finals'[i] = finals[i + Ticks * MaxFinals]
    BY <1>1, <1>3, <1>5
  <2>3. QED BY <2>1, <2>2 DEF InFinals
<1>8. ASSUME NEW r \in Req, InFinals(r), FinalChunk(r)
      PROVE  r \in final \/ InFinals(r)'
  <2> DEFINE k == Ticks * MaxFinals
  <2>1. PICK i \in DOMAIN finals : finals[i] = r
    BY <1>8 DEF InFinals
  <2>2. CASE i <= k
    <3>1. r \in FirstFinals(Ticks)
      BY <2>1, <2>2 DEF FirstFinals
    <3>2. QED BY <1>8, <3>1
  <2>3. CASE i > k
    <3>1. k \in Nat /\ finals' = SubSeq(finals, k + 1, Len(finals))
      BY <1>1, <1>5
    <3> HIDE DEF k
    <3>2. i - k \in DOMAIN finals' /\ finals'[i - k] = finals[i]
      BY <1>3, <2>1, <2>3, <3>1
    <3>3. QED BY <2>1, <3>2 DEF InFinals
  <2>4. k \in Nat /\ i \in Nat
    BY <1>3, <1>5, <2>1
  <2> HIDE DEF k
  <2>5. QED BY <2>2, <2>3, <2>4
<1> HIDE DEF live, final
<1>9. QED BY <1>1, <1>2, <1>6, <1>7, <1>8

\* What a tick appends to the queue of one caller: its window starts where the
\* queue ends, so the queue stays in order.
LEMMA SentInOrder ==
    ASSUME IInv, StreamInv, NEW q \in pendingOut, NEW upto \in Nat, upto > yielded[q]
    PROVE  LET s == Append(out[q], Audio(From(q), upto))
           IN  /\ s \in Seq(Message)
               /\ InOrder(s, heard[q]) /\ Open(s) /\ Reach(s, heard[q]) = upto
<1>1. /\ q \in Req /\ out[q] \in Seq(Message) /\ heard[q] \in Nat
      /\ yielded[q] \in Nat
  BY DEF IInv, TypeOK
<1>2. InOrder(out[q], heard[q])
  BY <1>1, InOrderEach DEF StreamInv
<1>3. Open(out[q]) /\ Reach(out[q], heard[q]) = yielded[q]
  BY DEF TalkInv, StreamInv
<1>4. From(q) = yielded[q]
  BY <1>1, WindowFacts
<1>5. Audio(From(q), upto) \in Message
  BY <1>1, <1>4, MessagesTyped
<1>6. QED BY <1>1, <1>2, <1>3, <1>4, <1>5, AppendAudio

\* A chunk goes on where the last one ended, and a finished request gets its
\* final chunk before its end.
LEMMA DeliverStream ==
    ASSUME IInv, StreamInv, Deliver
    PROVE  StreamInv'
<1>1. PICK live \in SUBSET running, final \in SUBSET Req :
        LET upto(r) == IF r \in live THEN Total(r) - Stride ELSE Total(r)
            sent(r) == IF r \in live \union final
                       THEN Append(out[r], Audio(From(r), upto(r))) ELSE out[r]
        IN  /\ \A r \in live : LiveChunk(r)
            /\ \A r \in final : InFinals(r) /\ FinalChunk(r)
            /\ \A r \in Req : InFinals(r)' => InFinals(r)
            /\ yielded' = [r \in Req |-> IF r \in live THEN upto(r) ELSE yielded[r]]
            /\ out' = [r \in Req |->
                         IF r \notin pendingOut THEN out[r]
                         ELSE IF r \in finished THEN Append(sent(r), Done)
                         ELSE sent(r)]
            /\ pendingOut' = pendingOut \ finished /\ finished' = {}
            /\ pc' = "admit"
            /\ UNCHANGED <<caller, heard, prefillQ, running, tokens>>
  BY DeliverFacts
<1> DEFINE upto(r) == IF r \in live THEN Total(r) - Stride ELSE Total(r)
           sent(r) == IF r \in live \union final
                      THEN Append(out[r], Audio(From(r), upto(r))) ELSE out[r]
<1>2. pendingOut \subseteq Req /\ running \subseteq Req
      /\ yielded \in [Req -> Nat] /\ heard \in [Req -> Nat]
      /\ \A i \in DOMAIN prefillQ : prefillQ[i] \in Req
  BY DEF IInv, TypeOK
<1>3. ASSUME NEW q \in pendingOut
      PROVE  /\ sent(q) \in Seq(Message)
             /\ InOrder(sent(q), heard[q]) /\ Open(sent(q))
             /\ q \notin final => Reach(sent(q), heard[q]) = yielded'[q]
  <2>1. q \in Req /\ Total(q) \in Nat
    BY <1>2, WindowFacts
  <2>2. CASE q \in live \union final
    <3>1. upto(q) \in Nat /\ upto(q) > yielded[q]
      <4>1. CASE q \in live
        BY <1>1, <2>1, <4>1, WindowFacts
      <4>2. CASE q \notin live
        BY <1>1, <2>1, <2>2, <4>2 DEF FinalChunk
      <4>3. QED BY <4>1, <4>2
    <3>2. sent(q) = Append(out[q], Audio(From(q), upto(q)))
      BY <2>2
    <3>3. q \notin final => yielded'[q] = upto(q)
      BY <1>1, <2>1, <2>2
    <3> HIDE DEF upto, sent
    <3>4. QED BY <3>1, <3>2, <3>3, SentInOrder
  <2>3. CASE q \notin live \union final
    <3>1. sent(q) = out[q] /\ yielded'[q] = yielded[q]
      BY <1>1, <2>1, <2>3
    <3>2. out[q] \in Seq(Message) /\ InOrder(out[q], heard[q])
      BY <2>1, InOrderEach DEF IInv, TypeOK, StreamInv
    <3>3. Open(out[q]) /\ Reach(out[q], heard[q]) = yielded[q]
      BY DEF TalkInv, StreamInv
    <3>4. QED BY <3>1, <3>2, <3>3
  <2>4. QED BY <2>2, <2>3
<1>4. /\ out' = [r \in Req |->
                   IF r \notin pendingOut THEN out[r]
                   ELSE IF r \in finished THEN Append(sent(r), Done)
                   ELSE sent(r)]
      /\ \A r \in Req : r \notin running => yielded'[r] = yielded[r]
  BY <1>1
<1> HIDE DEF upto, sent
<1>5. ASSUME NEW q \in Req
      PROVE  InOrder(out'[q], heard'[q])
  <2>1. CASE q \notin pendingOut
    <3>1. out'[q] = out[q] /\ heard' = heard
      BY <1>1, <1>4, <2>1
    <3>2. QED BY <3>1, InOrderEach DEF StreamInv
  <2>2. CASE q \in pendingOut /\ q \in finished
    <3>1. out'[q] = Append(sent(q), Done) /\ heard' = heard
      BY <1>1, <1>4, <2>2
    <3>2. Done.kind # "audio" /\ heard[q] \in Nat
      BY <1>2 DEF Done
    <3>3. QED BY <1>3, <2>2, <3>1, <3>2, AppendEnd
  <2>3. CASE q \in pendingOut /\ q \notin finished
    <3>1. out'[q] = sent(q) /\ heard' = heard
      BY <1>1, <1>4, <2>3
    <3>2. QED BY <1>3, <2>3, <3>1
  <2>4. QED BY <2>1, <2>2, <2>3
<1>6. AudioInOrder'
  BY <1>5 DEF AudioInOrder, InOrder
<1>7. ASSUME NEW q \in Req, Unborn(q)
      PROVE  Unborn(q)'
  <2>1. q \notin pendingOut /\ q \notin running /\ ~InFinals(q)
    BY <1>7 DEF Unborn
  <2>2. out'[q] = out[q] /\ yielded'[q] = yielded[q] /\ heard' = heard
    BY <1>1, <1>4, <2>1
  <2>3. q \notin pendingOut' /\ q \notin running' /\ ~InFinals(q)'
    BY <1>1, <2>1
  <2>4. QED BY <1>7, <2>2, <2>3 DEF Unborn
<1>8. QueuedInv'
  BY <1>1, <1>2, <1>7 DEF QueuedInv, StreamInv
<1>9. TalkInv'
  <2>1. ASSUME NEW q \in pendingOut'
        PROVE  Open(out'[q]) /\ Reach(out'[q], heard'[q]) = yielded'[q] /\ ~InFinals(q)'
    <3>1. q \in pendingOut /\ q \notin finished /\ q \in Req
      BY <1>1, <1>2, <2>1
    <3>2. ~InFinals(q) /\ q \notin final /\ ~InFinals(q)'
      BY <1>1, <3>1 DEF TalkInv, StreamInv
    <3>3. out'[q] = sent(q) /\ heard' = heard
      BY <1>1, <1>4, <3>1
    <3>4. QED BY <1>3, <3>1, <3>2, <3>3
  <2>2. QED BY <1>1, <2>1 DEF TalkInv
<1>10. QED BY <1>6, <1>8, <1>9 DEF StreamInv

----------------------------------------------------------------------------
(* The first theorem *)

\* Nothing was said at first.
LEMMA InitStream ==
    ASSUME Init
    PROVE  StreamInv
<1>1. /\ \A r \in Req : Unborn(r) /\ out[r] = <<>>
      /\ prefillQ = <<>> /\ pendingOut = {} /\ finished = {}
  BY DEF Init, Unborn, InFinals
<1>2. AudioInOrder
  BY <1>1 DEF AudioInOrder
<1>3. QueuedInv
  BY <1>1 DEF QueuedInv
<1>4. TalkInv
  BY <1>1 DEF TalkInv
<1>5. QED BY <1>2, <1>3, <1>4 DEF StreamInv

\* Every queue is in order and continues what its caller has heard.
THEOREM StreamsHold == Spec => []StreamInv
<1>1. Init => StreamInv
  BY InitStream
<1>2. IInv /\ StreamInv /\ [Next]_vars => StreamInv'
  <2> SUFFICES ASSUME IInv, StreamInv, [Next]_vars PROVE StreamInv'
    OBVIOUS
  <2>1. CASE Admit
    BY <2>1, AdmitStream
  <2>2. CASE Cancel \/ AdmitDone \/ CancelDone \/ UNCHANGED vars
    BY <2>2, QuietStream
  <2>3. CASE Step
    BY <2>3, StepStream
  <2>4. CASE Deliver
    BY <2>4, DeliverStream
  <2>5. CASE \E r \in Req : Route(r)
    BY <2>5, RouteStream
  <2>6. QED BY <2>1, <2>2, <2>3, <2>4, <2>5 DEF Next, Worker
<1>3. QED BY <1>1, <1>2, BatchHolds, PTL DEF Spec

\* A caller hears its audio in order, without a gap or a repetition, whatever
\* shares its batch, whatever the windows, and however slowly it reads.
THEOREM AudioAlwaysInOrder == Spec => []AudioInOrder
<1>1. StreamInv => AudioInOrder
  BY DEF StreamInv
<1>2. QED BY <1>1, StreamsHold, PTL

----------------------------------------------------------------------------
(* Told it is done, with everything sent *)

\* More tokens are never less audio.
LEMMA TotalFacts ==
    ASSUME IInv, IInv', NEW r \in Req, tokens'[r] >= tokens[r]
    PROVE  Total(r) \in Nat /\ Total(r)' \in Nat /\ Total(r) <= Total(r)'
<1>1. tokens[r] \in Nat /\ tokens'[r] \in Nat /\ Codebooks \in Nat \ {0} /\ Hop \in Nat \ {0}
  BY AudioAssumption DEF IInv, TypeOK
<1> DEFINE c == Codes(tokens[r])
           d == Codes(tokens'[r])
<1>2. c \in Nat /\ d \in Nat /\ c <= d
  BY <1>1 DEF Codes
<1>3. Total(r) = c * Hop /\ Total(r)' = d * Hop
  BY DEF Total, Codes
<1> HIDE DEF c, d
<1>4. c * Hop \in Nat /\ d * Hop \in Nat /\ c * Hop <= d * Hop
  <2>1. PICK e \in Nat : d = c + e
    <3>1. d - c \in Nat /\ d = c + (d - c)
      BY <1>2
    <3>2. QED BY <3>1
  <2>2. d * Hop = c * Hop + e * Hop /\ e * Hop \in Nat /\ c * Hop \in Nat
    BY <1>1, <1>2, <2>1
  <2>3. QED BY <2>2
<1>5. QED BY <1>3, <1>4

\* A request with no final chunk has been sent all there is.
LEMMA NothingOwed ==
    ASSUME IInv, NEW r \in Req, ~FinalChunk(r), yielded[r] <= Total(r)
    PROVE  yielded[r] = Total(r)
<1> DEFINE y == yielded[r]
           c == Codes(tokens[r])
           k == y \div Hop
<1>1. y \in Nat /\ tokens[r] \in Nat /\ Codebooks \in Nat \ {0} /\ Hop \in Nat \ {0}
      /\ Context \in Nat
  BY AudioAssumption DEF IInv, TypeOK
<1>2. c \in Nat
  BY <1>1 DEF Codes
<1>3. Total(r) = c * Hop /\ Total(r) \in Nat
  BY WindowFacts DEF Total
<1>4. CASE Total(r) <= y
  BY <1>1, <1>3, <1>4
<1>5. CASE ~HasCodes(r)
  <2> HIDE DEF y
  <2>1. k \in Nat /\ k * Hop <= y
    BY <1>1
  <2>2. Owed(r) = IF k >= Context THEN k - Context ELSE 0
    BY DEF Owed, y
  <2>3. Owed(r) \in Nat /\ Owed(r) <= k
    <3> HIDE DEF k
    <3>1. QED BY <1>1, <2>1, <2>2
  <2>4. c <= k
    <3>1. c <= Owed(r)
      BY <1>2, <1>5, <2>3 DEF HasCodes
    <3> HIDE DEF c, k
    <3>2. QED BY <1>2, <2>1, <2>3, <3>1
  <2> HIDE DEF c, k
  <2>5. c * Hop <= k * Hop
    <3>1. PICK e \in Nat : k = c + e
      <4>1. k - c \in Nat /\ k = c + (k - c)
        BY <1>2, <2>1, <2>4
      <4>2. QED BY <4>1
    <3>2. k * Hop = c * Hop + e * Hop /\ e * Hop \in Nat /\ c * Hop \in Nat
      BY <1>1, <1>2, <3>1
    <3>3. QED BY <3>2
  <2>6. Total(r) <= y
    <3>1. k * Hop \in Nat
      BY <1>1, <2>1
    <3>2. QED BY <1>1, <1>3, <2>1, <2>5, <3>1
  <2>7. QED BY <1>1, <1>3, <1>4, <2>6
<1>6. Total(r) <= y \/ ~HasCodes(r)
  BY <1>1, <1>3 DEF FinalChunk
<1>7. QED BY <1>4, <1>5, <1>6

\* A step that ends nobody and decodes nothing.
LEMMA QuietSent ==
    ASSUME SentInv, finished' = finished, UNCHANGED <<yielded, tokens>>,
           \A q \in finished : (InFinals(q) => InFinals(q)') /\ (q \in running' => q \in running)
    PROVE  SentInv'
<1>1. \A q \in Req : Total(q)' = Total(q)
  BY DEF Total
<1>2. QED BY <1>1 DEF SentInv

\* A request is admitted with nothing sent to it.
LEMMA AdmitSent ==
    ASSUME IInv, IInv', StreamInv, SentInv, Admit
    PROVE  SentInv'
<1>1. PICK r \in Req :
        /\ prefillQ # <<>> /\ r = Head(prefillQ) /\ prefillQ' = Tail(prefillQ)
        /\ pc = "admit"
        /\ UNCHANGED <<finished, yielded>>
        /\ tokens' = tokens \/ tokens' = [tokens EXCEPT ![r] = 2]
  BY AdmitFacts
<1>2. Unborn(r)
  BY <1>1, HeadFacts
<1>3. finished' = {}
  BY <1>1 DEF StreamInv, TalkInv
<1>4. ASSUME NEW q \in Req
      PROVE  yielded'[q] <= Total(q)'
  <2>1. CASE q # r
    <3>1. tokens'[q] = tokens[q]
      BY <1>1, <2>1 DEF IInv, TypeOK
    <3>2. QED BY <1>1, <3>1 DEF Total, SentInv
  <2>2. CASE q = r
    <3>1. tokens'[r] \in Nat /\ Codebooks \in Nat \ {0} /\ Hop \in Nat \ {0}
      BY AudioAssumption DEF IInv, TypeOK
    <3>2. Codes(tokens'[r]) \in Nat
      BY <3>1 DEF Codes
    <3>3. Total(r)' \in Nat
      BY <3>1, <3>2 DEF Total, Codes
    <3>4. QED BY <1>1, <1>2, <2>2, <3>3 DEF Unborn
  <2>3. QED BY <2>1, <2>2
<1>5. QED BY <1>3, <1>4 DEF SentInv

\* A step makes speeches longer, and queues the codes of those it ends.
LEMMA StepSent ==
    ASSUME IInv, IInv', StreamInv, SentInv, Step
    PROVE  SentInv'
<1>1. finished = {} /\ running \subseteq Req /\ tokens \in [Req -> Nat]
      /\ yielded \in [Req -> Nat]
  BY DEF Step, StreamInv, TalkInv, IInv, TypeOK
<1>2. CASE Die
  BY <1>1, <1>2, QuietSent DEF Die, batchVars, audioVars
<1>3. CASE Decode
  <2>1. PICK gone \in SUBSET running :
          /\ tokens' = [r \in Req |-> IF r \in running THEN tokens[r] + 1 ELSE tokens[r]]
          /\ running' = running \ gone
          /\ finals' = finals \o InSlotOrder(selfKV, gone)
          /\ finished' = gone
          /\ yielded' = yielded
    BY <1>3, DecodeFacts
  <2>2. \A q \in finished' : InFinals(q)' /\ q \notin running'
    BY <1>1, <2>1, FinalsAfter
  <2>3. ASSUME NEW q \in Req
        PROVE  yielded'[q] <= Total(q)'
    <3>1. tokens'[q] >= tokens[q]
      BY <1>1, <2>1
    <3>2. Total(q) \in Nat /\ Total(q)' \in Nat /\ Total(q) <= Total(q)'
      BY <3>1, TotalFacts
    <3>3. yielded[q] \in Nat /\ yielded[q] <= Total(q)
      BY <1>1 DEF SentInv
    <3>4. QED BY <2>1, <3>2, <3>3
  <2>4. QED BY <2>2, <2>3 DEF SentInv
<1>4. QED BY <1>2, <1>3 DEF Step

\* Deliver stops short of the end of the queue only while others run, at the
\* bound of the drain, or after a tick with nothing to decode: the ticks it runs
\* are 1 .. Ticks, and before the bound the last of them is a LastTick.
LEMMA LeftBehind ==
    ASSUME IInv, Deliver, NEW r \in Req, InFinals(r)'
    PROVE  running # {} \/ Ticks = DrainTicks \/ Silent(Ticks)
<1> DEFINE K == {k \in 1 .. DrainTicks : \A j \in 1 .. k - 1 : ~LastTick(j)}
           t == Ticks
<1>1. DrainTicks \in Nat \ {0} /\ MaxFinals \in Nat /\ finals \in Seq(Req)
  BY TickAssumption DEF IInv, TypeOK
<1>2. IsFiniteSet(1 .. DrainTicks) /\ Cardinality(1 .. DrainTicks) = DrainTicks
  BY <1>1, FS_Interval
<1>3. IsFiniteSet(K) /\ t \in Nat /\ t <= DrainTicks /\ t = Cardinality(K)
  <2>1. K \subseteq 1 .. DrainTicks /\ t = Cardinality(K)
    BY DEF Ticks
  <2> HIDE DEF K, t
  <2>2. QED BY <1>2, <2>1, FS_Subset, FS_CardinalityType
<1>4. CASE t = DrainTicks
  BY <1>4
<1>5. CASE t < DrainTicks
  <2>1. \A k \in K : \A j \in 1 .. k : j \in K
    BY <1>1
  <2>2. K \subseteq 1 .. DrainTicks
    OBVIOUS
  <2>3. IsFiniteSet(1 .. t) /\ Cardinality(1 .. t) = t
        /\ IsFiniteSet(1 .. t + 1) /\ Cardinality(1 .. t + 1) = t + 1
    <3>1. \A n \in Nat : IsFiniteSet(1 .. n) /\ Cardinality(1 .. n) = n
      BY FS_Interval
    <3>2. t + 1 \in Nat
      BY <1>3
    <3> HIDE DEF t
    <3>3. QED BY <1>3, <3>1, <3>2
  <2>4. t + 1 \notin K
    <3> SUFFICES ASSUME t + 1 \in K PROVE FALSE
      OBVIOUS
    <3>1. 1 .. t + 1 \subseteq K
      BY <2>1
    <3> HIDE DEF K, t
    <3>2. t + 1 <= t
      BY <1>3, <2>3, <3>1, FS_Subset
    <3>3. QED BY <1>3, <3>2
  <2>5. K = 1 .. t
    <3>1. \A k \in K : k \in 1 .. t
      <4> HIDE DEF K, t
      <4>1. QED BY <1>1, <1>3, <2>1, <2>2, <2>4
    <3> HIDE DEF K, t
    <3>2. QED BY <1>3, <2>3, <3>1, FS_Subset
  <2>6. \A j \in 1 .. t - 1 : ~LastTick(j)
    <3>1. CASE t = 0
      BY <3>1
    <3>2. CASE t # 0
      <4>1. t \in K
        BY <1>3, <2>5, <3>2
      <4>2. QED BY <4>1
    <3>3. QED BY <3>1, <3>2
  <2>7. PICK j \in 1 .. t : LastTick(j)
    <3>1. t + 1 \in 1 .. DrainTicks /\ (t + 1) - 1 = t
      BY <1>1, <1>3, <1>5
    <3>2. QED BY <2>4, <3>1
  <2>8. LastTick(t)
    BY <1>3, <2>6, <2>7
  <2>9. ~(t * MaxFinals >= Len(finals))
    <3>1. PICK i \in DOMAIN finals' : TRUE
      BY DEF InFinals
    <3>2. finals' = SubSeq(finals, t * MaxFinals + 1, Len(finals))
      BY DEF Deliver
    <3> HIDE DEF t
    <3>3. t * MaxFinals \in Nat /\ Len(finals) \in Nat
      BY <1>1, <1>3
    <3>4. QED BY <1>1, <3>1, <3>2, <3>3
  <2>10. QED BY <2>8, <2>9 DEF LastTick
<1> HIDE DEF K, t
<1>6. QED BY <1>1, <1>3, <1>4, <1>5

\* A tick sends no more than there is; and to who ended in the step all of it,
\* unless it leaves its codes queued.
LEMMA DeliverSent ==
    ASSUME IInv, StreamInv, SentInv, Deliver
    PROVE  /\ SentInv'
           /\ \A r \in pendingOut \intersect finished :
                 \/ InFinals(r)' /\ (running # {} \/ Ticks = DrainTicks \/ Silent(Ticks))
                 \/ LET n == Len(out'[r])
                    IN  (IF n = 1 THEN heard[r] ELSE out'[r][n - 1].to) = Total(r)
<1>1. PICK live \in SUBSET running, final \in SUBSET Req :
        LET upto(r) == IF r \in live THEN Total(r) - Stride ELSE Total(r)
            sent(r) == IF r \in live \union final
                       THEN Append(out[r], Audio(From(r), upto(r))) ELSE out[r]
        IN  /\ \A r \in final : InFinals(r) /\ FinalChunk(r)
            /\ \A r \in Req : InFinals(r) /\ FinalChunk(r) => r \in final \/ InFinals(r)'
            /\ yielded' = [r \in Req |-> IF r \in live THEN upto(r) ELSE yielded[r]]
            /\ out' = [r \in Req |->
                         IF r \notin pendingOut THEN out[r]
                         ELSE IF r \in finished THEN Append(sent(r), Done)
                         ELSE sent(r)]
            /\ finished' = {}
            /\ tokens' = tokens
  BY DeliverFacts
<1>2. pendingOut \subseteq Req /\ running \subseteq Req
      /\ yielded \in [Req -> Nat] /\ heard \in [Req -> Nat]
  BY DEF IInv, TypeOK
<1>3. \A q \in Req : Total(q)' = Total(q) /\ Total(q) \in Nat
  BY <1>1, WindowFacts DEF Total
<1>4. ASSUME NEW q \in Req
      PROVE  yielded'[q] <= Total(q)
  <2>1. CASE q \in live
    <3>1. yielded'[q] = Total(q) - Stride /\ Stride \in Nat
      BY <1>1, <2>1, AudioAssumption
    <3>2. QED BY <1>3, <3>1
  <2>2. CASE q \notin live
    BY <1>1, <2>2 DEF SentInv
  <2>3. QED BY <2>1, <2>2
<1>5. SentInv'
  BY <1>1, <1>3, <1>4 DEF SentInv
<1>6. ASSUME NEW q \in pendingOut \intersect finished, ~InFinals(q)'
      PROVE  LET n == Len(out'[q])
             IN  (IF n = 1 THEN heard[q] ELSE out'[q][n - 1].to) = Total(q)
  <2>1. q \in Req /\ q \notin live /\ InFinals(q) /\ yielded[q] <= Total(q)
        /\ out[q] \in Seq(Message) /\ heard[q] \in Nat /\ yielded[q] \in Nat
    BY <1>1, <1>2 DEF SentInv, IInv, TypeOK
  <2>2. InOrder(out[q], heard[q]) /\ Open(out[q]) /\ Reach(out[q], heard[q]) = yielded[q]
    BY <2>1, InOrderEach DEF StreamInv, TalkInv
  <2> DEFINE s == IF q \in final THEN Append(out[q], Audio(From(q), Total(q))) ELSE out[q]
  <2>3. out'[q] = Append(s, Done)
    BY <1>1, <2>1
  <2>4. /\ s \in Seq(Message) /\ InOrder(s, heard[q]) /\ Open(s)
        /\ Reach(s, heard[q]) = Total(q)
    <3>1. CASE q \in final
      <4>1. Total(q) \in Nat /\ Total(q) > yielded[q]
        BY <1>1, <1>3, <2>1, <3>1 DEF FinalChunk
      <4>2. s = Append(out[q], Audio(From(q), Total(q)))
        BY <3>1
      <4> HIDE DEF s
      <4>3. QED BY <4>1, <4>2, SentInOrder
    <3>2. CASE q \notin final
      <4>1. ~FinalChunk(q)
        BY <1>1, <1>6, <2>1, <3>2
      <4>2. yielded[q] = Total(q)
        BY <2>1, <4>1, NothingOwed
      <4>3. s = out[q]
        BY <3>2
      <4> HIDE DEF s
      <4>4. QED BY <2>1, <2>2, <4>2, <4>3
    <3>3. QED BY <3>1, <3>2
  <2> HIDE DEF s
  <2>5. Done.kind # "audio"
    BY DEF Done
  <2>6. QED BY <2>1, <2>3, <2>4, <2>5, AppendEnd
<1>7. \A q \in Req : InFinals(q)' => running # {} \/ Ticks = DrainTicks \/ Silent(Ticks)
  BY LeftBehind
<1>8. QED BY <1>2, <1>5, <1>6, <1>7

\* The windows lose no sample, and neither does whoever shares the batch: a
\* caller that is told its speech is done has been sent all of it, unless the
\* tick that tells it leaves its codes queued behind those of others, for one of
\* the three reasons a tick may.
THEOREM OnlyBacklogCuts == Spec => CutOnlyByBacklog
<1>1. Init => SentInv
  <2> SUFFICES ASSUME Init, NEW r \in Req PROVE yielded[r] <= Total(r)
    BY DEF Init, SentInv
  <2>1. Total(r) \in Nat
    BY InitInv, WindowFacts
  <2>2. QED BY <2>1 DEF Init
<1>2. IInv /\ IInv' /\ StreamInv /\ SentInv /\ [Next]_vars => SentInv'
  <2> SUFFICES ASSUME IInv, IInv', StreamInv, SentInv, [Next]_vars PROVE SentInv'
    OBVIOUS
  <2>1. CASE Admit
    BY <2>1, AdmitSent
  <2>2. CASE Cancel
    <3>1. finished = {} /\ finished' = {} /\ UNCHANGED <<yielded, tokens>>
      BY <2>2 DEF Cancel, StreamInv, TalkInv
    <3>2. QED BY <3>1, QuietSent
  <2>3. CASE Step
    BY <2>3, StepSent
  <2>4. CASE Deliver
    BY <2>4, DeliverSent
  <2>5. CASE AdmitDone \/ CancelDone \/ UNCHANGED vars
    <3>1. UNCHANGED <<finished, yielded, tokens, finals, running>>
      BY <2>5 DEF AdmitDone, CancelDone, vars, batchVars, audioVars
    <3>2. QED BY <3>1, QuietSent DEF InFinals
  <2>6. ASSUME NEW r \in Req, Route(r)
        PROVE  SentInv'
    <3>1. UNCHANGED <<finished, yielded, tokens, finals, running>>
      BY <2>6 DEF Route, Post, Hear, Leave, batchVars, audioVars
    <3>2. QED BY <3>1, QuietSent DEF InFinals
  <2>7. QED BY <2>1, <2>2, <2>3, <2>4, <2>5, <2>6 DEF Next, Worker
<1>3. ASSUME IInv, StreamInv, SentInv, [Next]_vars, pc = "deliver", pc' = "admit"
      PROVE  \A r \in pendingOut \intersect finished :
                \/ /\ \E i \in DOMAIN finals' : finals'[i] = r
                   /\ running # {} \/ Ticks = DrainTicks \/ Silent(Ticks)
                \/ LET n == Len(out'[r])
                   IN  (IF n = 1 THEN heard[r] ELSE out'[r][n - 1].to) = Total(r)
  <2>1. Deliver
    BY <1>3 DEF Next, Worker, Admit, AdmitDone, Cancel, CancelDone, Step, Route, Post, Hear,
                Leave, vars
  <2>2. QED BY <1>3, <2>1, DeliverSent DEF InFinals
<1>4. IInv /\ StreamInv /\ SentInv /\ [Next]_vars =>
        [\A r \in pendingOut \intersect finished :
            pc = "deliver" /\ pc' = "admit" =>
               \/ /\ \E i \in DOMAIN finals' : finals'[i] = r
                  /\ running # {} \/ Ticks = DrainTicks \/ Silent(Ticks)
               \/ LET n == Len(out'[r])
                  IN  (IF n = 1 THEN heard[r] ELSE out'[r][n - 1].to) = Total(r)]_vars
  BY <1>3
<1>5. QED BY <1>1, <1>2, <1>4, BatchHolds, StreamsHold, PTL DEF Spec, CutOnlyByBacklog

----------------------------------------------------------------------------
(* Nobody who waits is forgotten *)

\* The queue s ends a stream.
Ends(s) == \E i \in DOMAIN s : s[i].kind # "audio"

\* Who waits for speech is queued for the worker, or the worker has still to
\* speak to it, or the end of its stream is there to be read.
NobodyForgotten ==
    \A r \in Req : caller[r] = "waiting" =>
        \/ \E i \in DOMAIN prefillQ : prefillQ[i] = r
        \/ r \in pendingOut
        \/ Ends(out[r])

\* The worker speaks to requests of its batch, and to those that have just
\* ended; and a cancellation is never of a caller that still waits.
CareInv ==
    /\ NobodyForgotten
    /\ pendingOut \subseteq running \union finished
    /\ \A i \in DOMAIN cancelQ : caller[cancelQ[i]] \in {"error", "left"}

\* A stream that has ended does not open again, whatever is appended to it.
LEMMA AppendEnds ==
    ASSUME NEW s \in Seq(Message), NEW m
    PROVE  /\ Ends(s) => Ends(Append(s, m))
           /\ m.kind # "audio" => Ends(Append(s, m))
<1>1. /\ Len(s) \in Nat /\ DOMAIN s = 1 .. Len(s)
      /\ DOMAIN Append(s, m) = 1 .. Len(s) + 1
      /\ Append(s, m)[Len(s) + 1] = m
      /\ \A i \in 1 .. Len(s) : Append(s, m)[i] = s[i]
  OBVIOUS
<1>2. Len(s) + 1 \in DOMAIN Append(s, m) /\ \A i \in DOMAIN s : i \in DOMAIN Append(s, m)
  BY <1>1
<1>3. QED BY <1>1, <1>2 DEF Ends

\* A caller posts, hears a message or leaves.
LEMMA RouteCare ==
    ASSUME TypeOK, CareInv, NEW r \in Req, Route(r)
    PROVE  CareInv'
<1>1. /\ out \in [Req -> Seq(Message)] /\ prefillQ \in Seq(Req) /\ cancelQ \in Seq(Req)
      /\ caller \in [Req -> {"idle", "waiting", "done", "error", "left"}]
      /\ Len(prefillQ) \in Nat /\ Len(cancelQ) \in Nat
      /\ DOMAIN prefillQ = 1 .. Len(prefillQ) /\ DOMAIN cancelQ = 1 .. Len(cancelQ)
  BY DEF TypeOK
<1>2. UNCHANGED <<pendingOut, running, finished>>
  BY DEF Route, Post, Hear, Leave, batchVars
<1>3. ASSUME cancelQ' = Append(cancelQ, r), caller'[r] \in {"error", "left"},
             \A q \in Req : q # r => caller'[q] = caller[q]
      PROVE  \A i \in DOMAIN cancelQ' : caller'[cancelQ'[i]] \in {"error", "left"}
  <2>1. ASSUME NEW i \in DOMAIN cancelQ'
        PROVE  cancelQ'[i] = r \/ (cancelQ'[i] \in Req /\ caller[cancelQ'[i]] \in {"error", "left"})
    <3>1. i \in 1 .. Len(cancelQ) + 1 BY <1>1, <1>3, <2>1
    <3>2. CASE i = Len(cancelQ) + 1 BY <1>1, <1>3, <3>2
    <3>3. CASE i # Len(cancelQ) + 1
      <4>1. i \in DOMAIN cancelQ /\ cancelQ'[i] = cancelQ[i]
        BY <1>1, <1>3, <3>1, <3>3
      <4>2. QED BY <1>1, <4>1 DEF CareInv
    <3>4. QED BY <3>2, <3>3
  <2>2. QED BY <1>3, <2>1
<1>4. CASE Post(r)
  <2>1. /\ caller[r] = "idle" /\ caller' = [caller EXCEPT ![r] = "waiting"]
        /\ prefillQ' = Append(prefillQ, r) /\ UNCHANGED <<out, cancelQ>>
    BY <1>4 DEF Post
  <2>2. ASSUME NEW q \in Req, q = r \/ \E i \in DOMAIN prefillQ : prefillQ[i] = q
        PROVE  \E i \in DOMAIN prefillQ' : prefillQ'[i] = q
    <3>1. /\ DOMAIN prefillQ' = 1 .. Len(prefillQ) + 1
          /\ prefillQ'[Len(prefillQ) + 1] = r
          /\ \A i \in 1 .. Len(prefillQ) : prefillQ'[i] = prefillQ[i]
      BY <1>1, <2>1
    <3>2. Len(prefillQ) + 1 \in DOMAIN prefillQ'
          /\ \A i \in DOMAIN prefillQ : i \in DOMAIN prefillQ'
      BY <1>1, <3>1
    <3>3. QED BY <1>1, <2>2, <3>1, <3>2
  <2>3. NobodyForgotten'
    <3>1. \A q \in Req : q # r => caller'[q] = caller[q] BY <1>1, <2>1
    <3>2. QED BY <1>2, <2>1, <2>2, <3>1 DEF CareInv, NobodyForgotten
  <2>4. \A i \in DOMAIN cancelQ : caller'[cancelQ[i]] \in {"error", "left"}
    BY <1>1, <2>1 DEF CareInv
  <2>5. QED BY <1>2, <2>1, <2>3, <2>4 DEF CareInv
<1>5. CASE Hear(r)
  <2> DEFINE m == Head(out[r])
  <2>1. /\ caller[r] = "waiting" /\ out[r] # <<>>
        /\ caller' = [caller EXCEPT ![r] = IF m.kind = "audio" THEN @ ELSE m.kind]
        /\ cancelQ' = IF m.kind = "error" THEN Append(cancelQ, r) ELSE cancelQ
        /\ out' = [out EXCEPT ![r] = Tail(@)] /\ UNCHANGED prefillQ
    BY <1>5 DEF Hear
  <2>2. m \in Message /\ m.kind \in {"audio", "done", "error"}
    <3>1. out[r] \in Seq(Message) /\ out[r] # <<>> BY <1>1, <2>1
    <3>2. m \in Message BY <3>1
    <3> HIDE DEF m
    <3>3. QED BY <3>2 DEF Message
  <2>3. \A q \in Req : q # r => caller'[q] = caller[q] /\ out'[q] = out[q]
    BY <1>1, <2>1
  <2>4. caller'[r] = "waiting" /\ Ends(out[r]) => Ends(out'[r])
    <3>1. SUFFICES ASSUME m.kind = "audio", Ends(out[r]) PROVE Ends(Tail(out[r]))
      <4> HIDE DEF m
      <4>1. QED BY <1>1, <2>1, <2>2
    <3>2. PICK i \in DOMAIN out[r] : out[r][i].kind # "audio" BY <3>1 DEF Ends
    <3>3. out[r] \in Seq(Message) /\ Len(out[r]) \in Nat /\ DOMAIN out[r] = 1 .. Len(out[r])
      BY <1>1
    <3>4. i # 1 BY <2>1, <3>1, <3>2, <3>3
    <3>5. i - 1 \in DOMAIN Tail(out[r]) /\ Tail(out[r])[i - 1] = out[r][i]
      BY <2>1, <3>2, <3>3, <3>4
    <3>6. QED BY <3>2, <3>5 DEF Ends
  <2>5. NobodyForgotten'
    <3>1. ASSUME NEW q \in Req, caller'[q] = "waiting"
          PROVE  caller[q] = "waiting" /\ (Ends(out[q]) => Ends(out'[q]))
      BY <2>1, <2>3, <2>4, <3>1
    <3>2. QED BY <1>2, <2>1, <3>1 DEF CareInv, NobodyForgotten
  <2>6. \A i \in DOMAIN cancelQ' : caller'[cancelQ'[i]] \in {"error", "left"}
    <3> HIDE DEF m
    <3>1. CASE m.kind = "error"
      <4>1. caller'[r] = "error" /\ cancelQ' = Append(cancelQ, r)
        BY <1>1, <2>1, <3>1
      <4>2. QED BY <1>3, <2>3, <4>1
    <3>2. CASE m.kind # "error"
      <4>1. \A i \in DOMAIN cancelQ : cancelQ[i] \in Req /\ cancelQ[i] # r
        BY <1>1, <2>1 DEF CareInv
      <4>2. QED BY <2>1, <2>3, <3>2, <4>1 DEF CareInv
    <3>3. QED BY <3>1, <3>2
  <2>7. QED BY <1>2, <2>5, <2>6 DEF CareInv
<1>6. CASE Leave(r)
  <2>1. /\ caller' = [caller EXCEPT ![r] = "left"]
        /\ cancelQ' = Append(cancelQ, r) /\ UNCHANGED <<out, prefillQ>>
    BY <1>6 DEF Leave
  <2>2. caller'[r] = "left" /\ \A q \in Req : q # r => caller'[q] = caller[q]
    BY <1>1, <2>1
  <2>3. NobodyForgotten' BY <1>2, <2>1, <2>2 DEF CareInv, NobodyForgotten
  <2>4. QED BY <1>2, <1>3, <2>1, <2>2, <2>3 DEF CareInv
<1>7. QED BY <1>4, <1>5, <1>6 DEF Route

\* The worker takes requests and cancellations off their queues.
LEMMA QueueCare ==
    ASSUME IInv, CareInv, Admit \/ Cancel
    PROVE  CareInv'
<1>1. /\ out \in [Req -> Seq(Message)] /\ prefillQ \in Seq(Req) /\ cancelQ \in Seq(Req)
      /\ \A i \in DOMAIN cancelQ : cancelQ[i] \in Req
  BY DEF IInv, TypeOK
<1>2. CASE Admit
  <2>1. PICK r \in Req :
           /\ prefillQ # <<>> /\ r = Head(prefillQ) /\ prefillQ' = Tail(prefillQ)
           /\ UNCHANGED <<caller, cancelQ, finished>>
           /\ \/ /\ out' = [out EXCEPT ![r] = Append(@, Error)]
                 /\ running' = running \ {r} /\ pendingOut' = pendingOut \ {r}
              \/ /\ running' = running \union {r}
                 /\ pendingOut' = pendingOut \union {r} /\ UNCHANGED out
    BY <1>2, AdmitFacts
  <2>2. ASSUME NEW q \in Req, q # r, \E i \in DOMAIN prefillQ : prefillQ[i] = q
        PROVE  \E i \in DOMAIN prefillQ' : prefillQ'[i] = q
    <3>1. PICK i \in DOMAIN prefillQ : prefillQ[i] = q BY <2>2
    <3>2. Len(prefillQ) \in Nat /\ DOMAIN prefillQ = 1 .. Len(prefillQ) /\ r = prefillQ[1]
      BY <1>1, <2>1
    <3>3. i # 1 BY <2>2, <3>1, <3>2
    <3>4. i - 1 \in DOMAIN prefillQ' /\ prefillQ'[i - 1] = prefillQ[i]
      BY <1>1, <2>1, <3>1, <3>2, <3>3
    <3>5. QED BY <3>1, <3>4
  <2>3. r \in pendingOut' \/ Ends(out'[r])
    <3>1. CASE out' = [out EXCEPT ![r] = Append(@, Error)]
      <4>1. out'[r] = Append(out[r], Error) /\ out[r] \in Seq(Message)
        BY <1>1, <3>1
      <4>2. Error.kind # "audio" BY DEF Error
      <4>3. Ends(Append(out[r], Error)) BY <4>1, <4>2, AppendEnds
      <4>4. QED BY <4>1, <4>3
    <3>2. CASE pendingOut' = pendingOut \union {r} BY <3>2
    <3>3. QED BY <2>1, <3>1, <3>2
  <2>4. \A q \in Req : q # r =>
            out'[q] = out[q] /\ (q \in pendingOut <=> q \in pendingOut')
    BY <1>1, <2>1
  <2>5. ASSUME NEW q \in Req, caller'[q] = "waiting"
        PROVE  \/ \E i \in DOMAIN prefillQ' : prefillQ'[i] = q
               \/ q \in pendingOut'
               \/ Ends(out'[q])
    <3>1. CASE q = r BY <2>3, <3>1
    <3>2. CASE q # r
      <4>1. caller[q] = "waiting" BY <2>1, <2>5
      <4>2. \/ \E i \in DOMAIN prefillQ : prefillQ[i] = q
            \/ q \in pendingOut
            \/ Ends(out[q])
        BY <4>1 DEF CareInv, NobodyForgotten
      <4>3. CASE \E i \in DOMAIN prefillQ : prefillQ[i] = q
        BY <2>2, <3>2, <4>3
      <4>4. CASE q \in pendingOut \/ Ends(out[q])
        BY <2>4, <3>2, <4>4
      <4>5. QED BY <4>2, <4>3, <4>4
    <3>3. QED BY <3>1, <3>2
  <2>6. pendingOut' \subseteq running' \union finished' BY <2>1 DEF CareInv
  <2>7. NobodyForgotten' BY <2>5 DEF NobodyForgotten
  <2>8. QED BY <2>1, <2>6, <2>7 DEF CareInv
<1>3. CASE Cancel
  <2>1. PICK r \in Req :
           /\ cancelQ # <<>> /\ r = Head(cancelQ) /\ cancelQ' = Tail(cancelQ)
           /\ running' \in {running, running \ {r}} /\ pendingOut' = pendingOut \ {r}
           /\ UNCHANGED <<caller, out, prefillQ, finished>>
    BY <1>1, <1>3 DEF Cancel, routeVars
  <2>2. caller[r] \in {"error", "left"}
    <3>1. 1 \in DOMAIN cancelQ /\ r = cancelQ[1] BY <1>1, <2>1
    <3>2. QED BY <3>1 DEF CareInv
  <2>3. ASSUME NEW i \in DOMAIN cancelQ'
        PROVE  caller[cancelQ'[i]] \in {"error", "left"}
    <3>1. i + 1 \in DOMAIN cancelQ /\ cancelQ'[i] = cancelQ[i + 1]
      BY <1>1, <2>1, <2>3
    <3>2. QED BY <3>1 DEF CareInv
  <2>4. NobodyForgotten' BY <2>1, <2>2 DEF CareInv, NobodyForgotten
  <2>5. pendingOut' \subseteq running' \union finished' BY <2>1 DEF CareInv
  <2>6. QED BY <2>1, <2>3, <2>4, <2>5 DEF CareInv
<1>4. QED BY <1>2, <1>3

\* A step ends requests, or the worker, and a tick tells those that ended.
LEMMA SpeechCare ==
    ASSUME IInv, StreamInv, CareInv, Step \/ Deliver
    PROVE  CareInv'
<1>1. /\ out \in [Req -> Seq(Message)] /\ Error.kind # "audio" /\ Done.kind # "audio"
  BY DEF IInv, TypeOK, Error, Done
<1>2. CASE Step /\ StepRaises
  <2>1. /\ out' = [r \in Req |-> IF r \in pendingOut THEN Append(out[r], Error) ELSE out[r]]
        /\ pendingOut' = {} /\ UNCHANGED <<caller, prefillQ, cancelQ>>
    BY <1>2 DEF Step, Die, queueVars
  <2>2. \A r \in Req : r \in pendingOut \/ Ends(out[r]) => Ends(out'[r])
    BY <1>1, <2>1, AppendEnds
  <2>3. NobodyForgotten' BY <2>1, <2>2 DEF CareInv, NobodyForgotten
  <2>4. QED BY <2>1, <2>3 DEF CareInv
<1>3. CASE Step /\ ~StepRaises
  <2>1. Decode /\ finished = {}
    BY <1>3 DEF Step, StreamInv, TalkInv
  <2>2. PICK gone \in SUBSET running :
           /\ running' = running \ gone /\ finished' = gone
           /\ UNCHANGED <<caller, out, prefillQ, pendingOut>>
    BY <2>1, DecodeFacts
  <2>3. UNCHANGED cancelQ BY <2>1 DEF Decode, queueVars
  <2>4. NobodyForgotten' BY <2>2 DEF CareInv, NobodyForgotten
  <2>5. pendingOut' \subseteq running' \union finished' BY <2>1, <2>2 DEF CareInv
  <2>6. QED BY <2>2, <2>3, <2>4, <2>5 DEF CareInv
<1>4. CASE Deliver
  <2>1. PICK sent :
           /\ \A r \in Req : sent[r] = out[r] \/ \E m : sent[r] = Append(out[r], m) /\ m \in Message
           /\ out' = [r \in Req |-> IF r \notin pendingOut THEN out[r]
                                    ELSE IF r \in finished THEN Append(sent[r], Done)
                                    ELSE sent[r]]
           /\ pendingOut' = pendingOut \ finished /\ finished' = {}
           /\ UNCHANGED <<caller, prefillQ, running>>
    <3>1. PICK live \in SUBSET running, final \in SUBSET Req :
              LET upto(r) == IF r \in live THEN Total(r) - Stride ELSE Total(r)
                  talk(r) == IF r \in live \union final
                             THEN Append(out[r], Audio(From(r), upto(r))) ELSE out[r]
              IN  /\ \A r \in live : LiveChunk(r)
                  /\ out' = [r \in Req |->
                               IF r \notin pendingOut THEN out[r]
                               ELSE IF r \in finished THEN Append(talk(r), Done)
                               ELSE talk(r)]
                  /\ pendingOut' = pendingOut \ finished /\ finished' = {}
                  /\ UNCHANGED <<caller, prefillQ, running>>
      BY <1>4, DeliverFacts
    <3> DEFINE upto(r) == IF r \in live THEN Total(r) - Stride ELSE Total(r)
               talk(r) == IF r \in live \union final
                          THEN Append(out[r], Audio(From(r), upto(r))) ELSE out[r]
    <3>2. /\ out' = [r \in Req |->
                       IF r \notin pendingOut THEN out[r]
                       ELSE IF r \in finished THEN Append([q \in Req |-> talk(q)][r], Done)
                       ELSE [q \in Req |-> talk(q)][r]]
          /\ pendingOut' = pendingOut \ finished /\ finished' = {}
          /\ UNCHANGED <<caller, prefillQ, running>>
      BY <3>1
    <3>3. ASSUME NEW r \in Req
          PROVE  Audio(From(r), upto(r)) \in Message
      <4>1. Total(r) \in Nat /\ From(r) \in Nat /\ yielded[r] \in Nat /\ Stride \in Nat
        BY WindowFacts, AudioAssumption DEF IInv, TypeOK
      <4>2. r \in live => Total(r) > yielded[r] + Stride BY <3>1 DEF LiveChunk
      <4>3. upto(r) \in Nat BY <4>1, <4>2
      <4>4. QED BY <4>1, <4>3 DEF Audio, Message
    <3>4. \A r \in Req : talk(r) = out[r] \/ \E m : talk(r) = Append(out[r], m) /\ m \in Message
      BY <3>3
    <3> HIDE DEF talk
    <3>5. QED BY <3>2, <3>4
  <2>2. UNCHANGED cancelQ BY <1>4 DEF Deliver, queueVars
  <2>3. ASSUME NEW r \in Req
        PROVE  sent[r] \in Seq(Message) /\ (Ends(out[r]) => Ends(sent[r]))
    <3>1. out[r] \in Seq(Message) BY <1>1
    <3>2. ASSUME NEW m \in Message, sent[r] = Append(out[r], m)
          PROVE  sent[r] \in Seq(Message) /\ (Ends(out[r]) => Ends(sent[r]))
      <4>1. sent[r] \in Seq(Message) BY <3>1, <3>2
      <4>2. Ends(out[r]) => Ends(Append(out[r], m)) BY <3>1, AppendEnds
      <4>3. QED BY <3>2, <4>1, <4>2
    <3>3. QED BY <2>1, <3>1, <3>2
  <2>4. ASSUME NEW r \in Req, r \notin pendingOut'
        PROVE  r \in pendingOut \/ Ends(out[r]) => Ends(out'[r])
    BY <1>1, <2>1, <2>3, <2>4, AppendEnds
  <2>5. ASSUME NEW r \in Req, Ends(out[r])
        PROVE  Ends(out'[r])
    BY <1>1, <2>1, <2>3, <2>5, AppendEnds
  <2>6. NobodyForgotten' BY <2>1, <2>4, <2>5 DEF CareInv, NobodyForgotten
  <2>7. pendingOut' \subseteq running' \union finished' BY <2>1 DEF CareInv
  <2>8. QED BY <2>1, <2>2, <2>6, <2>7 DEF CareInv
<1>5. QED BY <1>2, <1>3, <1>4

\* No admission, cancellation, eviction or tick loses track of a caller that
\* waits; what is left for EveryoneServed is that the worker gets there.
THEOREM NobodyEverForgotten == Spec => []NobodyForgotten
<1>1. Init => CareInv BY DEF Init, CareInv, NobodyForgotten
<1>2. IInv /\ StreamInv /\ CareInv /\ [Next]_vars => CareInv'
  <2>1. ASSUME CareInv, AdmitDone \/ CancelDone \/ UNCHANGED vars PROVE CareInv'
    <3>1. UNCHANGED <<caller, out, prefillQ, cancelQ, pendingOut, running, finished>>
      BY <2>1 DEF AdmitDone, CancelDone, vars, routeVars, queueVars, batchVars
    <3>2. QED BY <2>1, <3>1 DEF CareInv, NobodyForgotten
  <2>2. IInv => TypeOK BY DEF IInv
  <2>3. QED BY <2>1, <2>2, RouteCare, QueueCare, SpeechCare DEF Next, Worker
<1>3. CareInv => NobodyForgotten BY DEF CareInv
<1>4. QED BY <1>1, <1>2, <1>3, BatchHolds, StreamsHold, PTL DEF Spec
=============================================================================
