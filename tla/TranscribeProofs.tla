-------------------------- MODULE TranscribeProofs --------------------------
(* Safety of the indic-transcribe recogniser, for every number of streams,  *)
(* any sizes of blocks, chunks and batches and any faults: what the loop    *)
(* does to a session and what the worker does to it are two relations, each *)
(* with its own invariant, and neither disturbs the other's.                *)
EXTENDS Transcribe, TLAPS, FiniteSetTheorems

(* What a handler of the event loop may do to a session ... *)
LoopStep(s, t) ==
    /\ t.owner = s.owner /\ t.lang = s.lang /\ t.taken = s.taken /\ t.hand = s.hand
    /\ t.buf = s.buf /\ t.done = s.done /\ t.text = s.text /\ t.gated = s.gated
    /\ t.silent = s.silent /\ t.harmed = s.harmed
    /\ t.open => s.open
    /\ s.ask => t.ask /\ t.in = s.in
    /\ ~t.ask => t.in >= s.in
    /\ t.taken <= t.in
    /\ t.mute >= s.mute
    /\ s.heard => t.heard
    /\ (VadOn /\ ~s.heard => s.mute = s.in) => (VadOn /\ ~t.heard => t.mute = t.in)
    /\ s.in + s.cut = s.got => t.in + t.cut = t.got
    /\ t.cut # s.cut => s.owner \in Endpoint /\ t.heard

(* ... and what the worker may. *)
WorkStep(s, t) ==
    /\ t.owner = s.owner /\ t.lang = s.lang /\ t.in = s.in /\ t.heard = s.heard
    /\ t.ask = s.ask /\ t.mute = s.mute /\ t.got = s.got /\ t.cut = s.cut
    /\ t.open => s.open
    /\ t.text => s.text \/ s.open

----------------------------------------------------------------------------
(* Records *)

LEMMA NewSessionType ==
    ASSUME NEW c \in Stream, NEW l \in Lang
    PROVE  NewSession(c, l) \in Session
BY DEF NewSession, Session

LEMMA FieldTypes ==
    ASSUME NEW s \in Session
    PROVE  /\ s.owner \in Stream /\ s.lang \in Lang
           /\ s.in \in Nat /\ s.taken \in Nat /\ s.hand \in Nat /\ s.buf \in Nat
           /\ s.quiet \in Nat /\ s.mute \in Nat /\ s.gated \in Nat
           /\ s.got \in Nat /\ s.cut \in Nat
           /\ s.heard \in BOOLEAN /\ s.ask \in BOOLEAN /\ s.done \in BOOLEAN
           /\ s.text \in BOOLEAN /\ s.open \in BOOLEAN /\ s.silent \in BOOLEAN
           /\ s.harmed \in BOOLEAN
BY DEF Session

LEMMA ObserveStep ==
    ASSUME NEW s \in Session, NEW n \in Nat, NEW speech \in BOOLEAN, s.taken <= s.in
    PROVE  /\ Observe(s, n, speech) \in Session
           /\ LoopStep(s, Observe(s, n, speech))
           /\ Observe(s, n, speech).ask = s.ask
           /\ Observe(s, n, speech).in = s.in
           /\ Observe(s, n, speech).got = s.got /\ Observe(s, n, speech).cut = s.cut
           /\ Observe(s, n, speech).mute = s.mute
           /\ Observe(s, n, speech).open = s.open
           /\ VadOn /\ speech => Observe(s, n, speech).heard
<1> DEFINE o == Observe(s, n, speech)
           q == IF speech THEN 0 ELSE s.quiet + n
           h == s.heard \/ speech
<1>1. q \in Nat /\ h \in BOOLEAN
  BY FieldTypes
<1>2. CASE VadOn
  <2>1. o = [[s EXCEPT !.heard = h] EXCEPT !.quiet = q]
    BY <1>2 DEF Observe, Session
  <2>2. [s EXCEPT !.heard = h] \in Session
    BY <1>1 DEF Session
  <2>3. o \in Session
    BY <1>1, <2>1, <2>2 DEF Session
  <2>4. QED BY <1>2, <2>3, FieldTypes DEF Observe, LoopStep, Session
<1>3. CASE ~VadOn
  <2>1. o = [s EXCEPT !.heard = TRUE]
    BY <1>3 DEF Observe
  <2>2. o \in Session
    BY <2>1 DEF Session
  <2>3. QED BY <1>3, <2>1, <2>2, FieldTypes DEF LoopStep, Session
<1>4. QED BY <1>2, <1>3

LEMMA AcceptStep ==
    ASSUME NEW s \in Session, NEW n \in Nat, NEW speech \in BOOLEAN,
           s.taken <= s.in, ~s.ask, VadOn /\ ~s.heard => ~speech
    PROVE  /\ Accept(s, n, speech) \in Session
           /\ LoopStep(s, Accept(s, n, speech))
           /\ Accept(s, n, speech).ask = s.ask
           /\ Accept(s, n, speech).open = s.open
<1> DEFINE a == Accept(s, n, speech)
           m == IF speech \/ s.mute # s.in THEN s.mute ELSE s.mute + n
           u == [[s EXCEPT !.in = s.in + n] EXCEPT !.got = s.got + n]
<1>1. m \in Nat /\ s.in + n \in Nat /\ s.got + n \in Nat
  BY FieldTypes
<1>2. a = [u EXCEPT !.mute = m]
  BY DEF Accept, Session
<1>3. u \in Session
  BY <1>1 DEF Session
<1>4. a \in Session
  BY <1>1, <1>2, <1>3 DEF Session
<1>5. /\ a.in = s.in + n /\ a.got = s.got + n /\ a.mute = m /\ a.cut = s.cut
      /\ a.owner = s.owner /\ a.lang = s.lang /\ a.taken = s.taken /\ a.hand = s.hand
      /\ a.buf = s.buf /\ a.done = s.done /\ a.text = s.text /\ a.gated = s.gated
      /\ a.silent = s.silent /\ a.harmed = s.harmed /\ a.open = s.open
      /\ a.heard = s.heard /\ a.ask = s.ask
  BY DEF Accept, Session
<1>6. QED BY <1>1, <1>4, <1>5, FieldTypes DEF LoopStep

LEMMA FinalizeStep ==
    ASSUME NEW s \in Session, NEW drop \in BOOLEAN, s.taken <= s.in, ~s.ask,
           drop => VadOn /\ s.heard /\ s.owner \in Endpoint
    PROVE  /\ Finalize(s, drop) \in Session
           /\ LoopStep(s, Finalize(s, drop))
           /\ Finalize(s, drop).ask
           /\ Finalize(s, drop).open = s.open
           /\ Finalize(s, drop).lang = s.lang
<1> DEFINE f == Finalize(s, drop)
           n == IF drop THEN Excess(s) ELSE 0
           u == [[s EXCEPT !.ask = TRUE] EXCEPT !.in = s.in - n]
<1>1. n \in Nat /\ s.in - n \in Nat /\ s.taken <= s.in - n /\ s.cut + n \in Nat
  <2>1. Needed(s) \in Nat
    BY FieldTypes, AudioAssumption DEF Needed
  <2>2. QED BY <2>1, FieldTypes DEF Excess, Pending
<1> HIDE DEF n
<1>2. f = [u EXCEPT !.cut = s.cut + n]
  BY DEF Finalize, Session, n
<1>3. u \in Session
  BY <1>1 DEF Session
<1>4. f \in Session
  BY <1>1, <1>2, <1>3 DEF Session
<1>5. /\ f.in = s.in - n /\ f.cut = s.cut + n /\ f.ask
      /\ f.owner = s.owner /\ f.lang = s.lang /\ f.taken = s.taken /\ f.hand = s.hand
      /\ f.buf = s.buf /\ f.done = s.done /\ f.text = s.text /\ f.gated = s.gated
      /\ f.silent = s.silent /\ f.harmed = s.harmed /\ f.open = s.open
      /\ f.heard = s.heard /\ f.mute = s.mute /\ f.got = s.got
  BY <1>2 DEF Session
<1>6. drop => s.heard /\ s.owner \in Endpoint
  OBVIOUS
<1>7. ~drop => n = 0
  BY DEF n
<1>8. s.in + s.cut = s.got => f.in + f.cut = f.got
  BY <1>1, <1>5, FieldTypes
<1>9. QED BY <1>1, <1>4, <1>5, <1>6, <1>7, <1>8, FieldTypes DEF LoopStep

LEMMA ShutType ==
    ASSUME NEW s \in Session
    PROVE  [s EXCEPT !.open = FALSE] \in Session
BY DEF Session

LEMMA ShutStep ==
    ASSUME NEW s \in Session, s.taken <= s.in
    PROVE  /\ [s EXCEPT !.open = FALSE] \in Session
           /\ LoopStep(s, [s EXCEPT !.open = FALSE])
           /\ ~[s EXCEPT !.open = FALSE].open
           /\ [s EXCEPT !.open = FALSE].ask = s.ask
           /\ [s EXCEPT !.open = FALSE].lang = s.lang
<1>1. [s EXCEPT !.open = FALSE] \in Session
  BY DEF Session
<1>2. QED BY <1>1, FieldTypes DEF LoopStep, Session

LEMMA LoopStepSame ==
    ASSUME NEW s \in Session, s.taken <= s.in
    PROVE  LoopStep(s, s)
BY FieldTypes DEF LoopStep

LEMMA LoopStepTrans ==
    ASSUME NEW s \in Session, NEW t \in Session, NEW u \in Session,
           LoopStep(s, t), LoopStep(t, u)
    PROVE  LoopStep(s, u)
<1>1. u.cut # s.cut => s.owner \in Endpoint /\ u.heard
  <2>1. CASE t.cut # s.cut
    BY <2>1 DEF LoopStep
  <2>2. CASE t.cut = s.cut
    <3> SUFFICES ASSUME u.cut # t.cut PROVE s.owner \in Endpoint /\ u.heard
      BY <2>2
    <3>1. QED BY FieldTypes DEF LoopStep
  <2>3. QED BY <2>1, <2>2
<1>2. s.in + s.cut = s.got => u.in + u.cut = u.got
  BY DEF LoopStep
<1>3. (VadOn /\ ~s.heard => s.mute = s.in) => (VadOn /\ ~u.heard => u.mute = u.in)
  BY DEF LoopStep
<1>4. QED BY <1>1, <1>2, <1>3, FieldTypes DEF LoopStep

----------------------------------------------------------------------------
(* Sequences of sessions *)

SessionsTyped(f) == f \in Seq(Session) /\ \A i \in DOMAIN f : f[i].taken <= f[i].in

Fresh(c, s) ==
    /\ s.owner = c /\ s.in = 0 /\ s.taken = 0 /\ s.hand = 0 /\ s.buf = 0 /\ s.mute = 0
    /\ s.gated = 0 /\ s.got = 0 /\ s.cut = 0
    /\ ~s.ask /\ ~s.done /\ ~s.text /\ ~s.silent /\ ~s.harmed

(* A handler of stream c turns the sessions into f. *)
LoopChange(c, f) ==
    /\ f \in Seq(Session) /\ Len(f) \in {Len(sess), Len(sess) + 1}
    /\ \A i \in DOMAIN sess :
           LoopStep(sess[i], f[i]) /\ (sess[i].owner # c => f[i] = sess[i])
    /\ \A i \in DOMAIN f \ DOMAIN sess : Fresh(c, f[i])

LEMMA SeqElement ==
    ASSUME NEW S, NEW q \in Seq(S), NEW i \in DOMAIN q
    PROVE  q[i] \in S
OBVIOUS

LEMMA WiderSeq ==
    ASSUME NEW S, NEW T, S \subseteq T, NEW q \in Seq(S)
    PROVE  q \in Seq(T)
<1>1. \A i \in 1 .. Len(q) : q[i] \in T
  BY SeqElement
<1>2. q = [i \in 1 .. Len(q) |-> q[i]] /\ Len(q) \in Nat
  OBVIOUS
<1>3. QED BY <1>1, <1>2

LEMMA SameChange ==
    ASSUME SessionsTyped(sess), NEW c \in Stream
    PROVE  LoopChange(c, sess)
<1>1. \A i \in DOMAIN sess : sess[i] \in Session
  BY DEF SessionsTyped
<1>2. QED BY <1>1, LoopStepSame DEF LoopChange, SessionsTyped

LEMMA UpdateChange ==
    ASSUME SessionsTyped(sess), NEW c \in Stream, NEW i \in DOMAIN sess, sess[i].owner = c,
           NEW t \in Session, LoopStep(sess[i], t)
    PROVE  /\ LoopChange(c, [sess EXCEPT ![i] = t])
           /\ Len([sess EXCEPT ![i] = t]) = Len(sess)
<1> DEFINE f == [sess EXCEPT ![i] = t]
<1>1. /\ f \in Seq(Session) /\ Len(f) = Len(sess) /\ DOMAIN f = DOMAIN sess
      /\ \A j \in DOMAIN sess : f[j] = IF j = i THEN t ELSE sess[j]
  BY DEF SessionsTyped
<1>2. \A j \in DOMAIN sess : sess[j] \in Session /\ sess[j].taken <= sess[j].in
  BY DEF SessionsTyped
<1>3. \A j \in DOMAIN sess : LoopStep(sess[j], f[j])
  BY <1>1, <1>2, LoopStepSame
<1>4. QED BY <1>1, <1>3 DEF LoopChange

LEMMA CloseFacts ==
    ASSUME NEW f \in Seq(Session), NEW S
    PROVE  /\ Close(f, S) \in Seq(Session) /\ Len(Close(f, S)) = Len(f)
           /\ DOMAIN Close(f, S) = DOMAIN f
           /\ \A i \in DOMAIN f :
                  Close(f, S)[i] = IF i \in S THEN [f[i] EXCEPT !.open = FALSE] ELSE f[i]
<1>1. \A i \in DOMAIN f : f[i] \in Session /\ [f[i] EXCEPT !.open = FALSE] \in Session
  BY SeqElement, ShutType
<1>2. DOMAIN f = 1 .. Len(f) /\ Len(f) \in Nat
  OBVIOUS
<1>3. QED BY <1>1, <1>2 DEF Close

LEMMA CloseChange ==
    ASSUME SessionsTyped(sess), NEW c \in Stream, NEW f, LoopChange(c, f), NEW S,
           \A i \in S \cap DOMAIN sess : sess[i].owner = c
    PROVE  LoopChange(c, Close(f, S))
<1> DEFINE g == Close(f, S)
<1>1. /\ g \in Seq(Session) /\ Len(g) = Len(f) /\ DOMAIN g = DOMAIN f
      /\ \A i \in DOMAIN f : g[i] = IF i \in S THEN [f[i] EXCEPT !.open = FALSE] ELSE f[i]
  BY CloseFacts DEF LoopChange
<1>2. /\ f \in Seq(Session) /\ Len(f) \in {Len(sess), Len(sess) + 1} /\ sess \in Seq(Session)
      /\ \A i \in DOMAIN sess : LoopStep(sess[i], f[i])
      /\ \A i \in DOMAIN sess : sess[i].owner # c => f[i] = sess[i]
      /\ \A i \in DOMAIN f \ DOMAIN sess : Fresh(c, f[i])
  BY DEF LoopChange, SessionsTyped
<1>3. DOMAIN sess \subseteq DOMAIN f
  BY <1>2
<1>4. ASSUME NEW i \in DOMAIN sess
      PROVE  LoopStep(sess[i], g[i]) /\ (sess[i].owner # c => g[i] = sess[i])
  <2>1. sess[i] \in Session /\ f[i] \in Session /\ g[i] \in Session
    BY <1>1, <1>2, <1>3, SeqElement
  <2>2. f[i].taken <= f[i].in /\ LoopStep(sess[i], f[i])
    BY <1>2 DEF LoopStep
  <2>3. LoopStep(f[i], g[i])
    BY <1>1, <1>3, <2>1, <2>2, ShutStep, LoopStepSame
  <2>4. LoopStep(sess[i], g[i])
    BY <2>1, <2>2, <2>3, LoopStepTrans
  <2>5. QED BY <1>1, <1>2, <1>3, <2>4
<1>5. ASSUME NEW i \in DOMAIN g \ DOMAIN sess
      PROVE  Fresh(c, g[i])
  <2>1. Fresh(c, f[i]) /\ f[i] \in Session
    BY <1>1, <1>2, SeqElement
  <2>2. [f[i] EXCEPT !.open = FALSE] \in Session /\ Fresh(c, [f[i] EXCEPT !.open = FALSE])
    BY <2>1 DEF Fresh, Session
  <2>3. QED BY <1>1, <2>1, <2>2
<1>6. QED BY <1>1, <1>2, <1>4, <1>5 DEF LoopChange

LEMMA AppendChange ==
    ASSUME SessionsTyped(sess), NEW c \in Stream, NEW f, LoopChange(c, f), Len(f) = Len(sess),
           NEW s \in Session, Fresh(c, s)
    PROVE  /\ LoopChange(c, Append(f, s))
           /\ Len(Append(f, s)) = Len(sess) + 1
           /\ DOMAIN Append(f, s) = 1 .. Len(sess) + 1
           /\ Append(f, s)[Len(f) + 1] = s
           /\ \A i \in DOMAIN sess : Append(f, s)[i] = f[i]
<1> DEFINE g == Append(f, s)
<1>1. f \in Seq(Session) /\ sess \in Seq(Session) /\ DOMAIN f = DOMAIN sess
  BY DEF LoopChange, SessionsTyped
<1>2. /\ g \in Seq(Session) /\ Len(g) = Len(sess) + 1 /\ DOMAIN g = 1 .. Len(sess) + 1
      /\ g[Len(sess) + 1] = s
      /\ \A i \in DOMAIN sess : g[i] = f[i]
  BY <1>1
<1>3. DOMAIN g \ DOMAIN sess = {Len(sess) + 1}
  BY <1>1, <1>2
<1>4. QED BY <1>1, <1>2, <1>3 DEF LoopChange

LEMMA NewSessionFresh ==
    ASSUME NEW c \in Stream, NEW l \in Lang
    PROVE  /\ Fresh(c, NewSession(c, l)) /\ NewSession(c, l).lang = l
           /\ NewSession(c, l).open /\ ~NewSession(c, l).heard
BY DEF Fresh, NewSession

----------------------------------------------------------------------------
(* The inductive invariant *)

Cut == {"gone", "broken", "left", "late"}

\* What the event loop knows of a stream.
CurrentInv(c) ==
    /\ cur[c] # 0 => sess[cur[c]].owner = c
    /\ conn[c] \in {"greeting", "open"} =>
           cur[c] # 0 /\ sess[cur[c]].lang = lang[c] /\ ~sess[cur[c]].ask
TurnsInv(c) ==
    /\ conn[c] \in {"new", "accepting", "finished"} => turns[c] = {}
    /\ \A i \in turns[c] : sess[i].owner = c
    /\ \A i \in DOMAIN sess : sess[i].owner = c /\ sess[i].open =>
           i \in turns[c] /\ conn[c] \in {"greeting", "open", "closing", "gone"}
    /\ \A i \in DOMAIN sess : sess[i].owner = c /\ sess[i].text =>
           \/ i \in turns[c] \/ conn[c] \in Cut
           \/ \E k \in DOMAIN committed[c] : committed[c][k] = i
QueueInv(c) == \A k \in DOMAIN outbox[c] : sess[outbox[c][k]].owner = c
StreamInv(c) == CurrentInv(c) /\ TurnsInv(c) /\ QueueInv(c)

HoldInv ==
    /\ hold.at # "free" => conn[hold.by] = "open"
    /\ hold.at = "seen" /\ hold.speech /\ VadOn => sess[cur[hold.by]].heard
RoomInv == Cardinality(Live(sess)) <= MaxSessions

\* The books the worker keeps of a session.
Books(s) ==
    /\ s.done => s.ask /\ s.taken = s.in /\ s.hand = 0
    /\ s.harmed \/ s.silent \/ s.buf + s.hand = s.taken
    /\ s.buf + s.hand <= s.taken
    /\ s.silent => s.done
    /\ s.text => s.buf > 0
    /\ VadOn /\ ~s.heard => s.mute = s.in
    /\ s.gated <= s.mute
    /\ s.in + s.cut = s.got
    /\ s.cut > 0 => s.owner \in Endpoint /\ s.heard
BooksInv == \A i \in DOMAIN sess : Books(sess[i])

\* Where the sessions of a tick are.
StageInv ==
    /\ wpc \notin {"scan", "gate"} => cand = {}
    /\ wpc \in {"idle", "route"} => due = {}
    /\ cand \cap due = {}
    /\ \A i \in cand \cup due : ~sess[i].done
    /\ \A i \in cand : ~sess[i].ask => Pending(sess[i]) >= Needed(sess[i])
    /\ \A i \in DOMAIN sess : sess[i].hand > 0 => wpc = "push" /\ i \in due
    /\ wpc \in {"push", "decode"} => \A i \in last : sess[i].ask /\ sess[i].taken = sess[i].in
    /\ wpc = "decode" => \A i \in due : sess[i].buf > 0
GateInv ==
    wpc = "gate" =>
        /\ now \in DOMAIN sess /\ now \notin cand \cup due /\ ~sess[now].done
        /\ VadOn
        /\ ~sess[now].ask => sess[now].mute >= sess[now].taken + Needed(sess[now])

IInv ==
    /\ TypeOK
    /\ \A c \in Stream : StreamInv(c)
    /\ HoldInv /\ RoomInv /\ BooksInv /\ StageInv /\ GateInv

----------------------------------------------------------------------------
(* The loop's steps leave the worker's invariants alone *)

LEMMA LoopBooks ==
    ASSUME NEW s \in Session, NEW t \in Session, LoopStep(s, t), Books(s)
    PROVE  Books(t)
BY FieldTypes DEF LoopStep, Books

LEMMA FreshBooks ==
    ASSUME NEW c, NEW s \in Session, Fresh(c, s)
    PROVE  Books(s)
BY DEF Fresh, Books

LEMMA LoopKeepsWorker ==
    ASSUME TypeOK, BooksInv, StageInv, GateInv, NEW c \in Stream,
           LoopChange(c, sess'), UNCHANGED workerVars
    PROVE  BooksInv' /\ StageInv' /\ GateInv'
<1>1. /\ sess \in Seq(Session) /\ sess' \in Seq(Session) /\ DOMAIN sess \subseteq DOMAIN sess'
      /\ cand \subseteq DOMAIN sess /\ due \subseteq DOMAIN sess /\ last \subseteq DOMAIN sess
  <2>1. sess \in Seq(Session) /\ DOMAIN sess = 1 .. Len(sess)
    BY DEF TypeOK
  <2>2. /\ cand \subseteq 1 .. Len(sess) /\ due \subseteq 1 .. Len(sess)
        /\ last \subseteq 1 .. Len(sess)
    BY DEF TypeOK
  <2>3. sess' \in Seq(Session) /\ Len(sess') \in {Len(sess), Len(sess) + 1}
    BY DEF LoopChange
  <2>4. DOMAIN sess \subseteq DOMAIN sess'
    BY <2>1, <2>3
  <2>5. QED BY <2>1, <2>2, <2>3, <2>4
<1>2. \A i \in DOMAIN sess : sess[i] \in Session /\ sess'[i] \in Session
  BY <1>1, SeqElement
<1>3. \A i \in DOMAIN sess : LoopStep(sess[i], sess'[i])
  BY DEF LoopChange
<1>4. \A i \in DOMAIN sess' \ DOMAIN sess : sess'[i] \in Session /\ Fresh(c, sess'[i])
  BY <1>1, SeqElement DEF LoopChange
<1>5. BooksInv'
  <2> SUFFICES ASSUME NEW i \in DOMAIN sess' PROVE Books(sess'[i])
    BY DEF BooksInv
  <2>1. CASE i \in DOMAIN sess
    BY <1>2, <1>3, <2>1, LoopBooks DEF BooksInv
  <2>2. CASE i \notin DOMAIN sess
    BY <1>4, <2>2, FreshBooks
  <2>3. QED BY <2>1, <2>2
<1>6. \A i \in DOMAIN sess :
         /\ sess'[i].taken = sess[i].taken /\ sess'[i].hand = sess[i].hand
         /\ sess'[i].buf = sess[i].buf /\ sess'[i].done = sess[i].done
         /\ sess[i].ask => sess'[i].ask /\ sess'[i].in = sess[i].in
         /\ ~sess'[i].ask => sess'[i].in >= sess[i].in
         /\ sess'[i].mute >= sess[i].mute
  BY <1>3 DEF LoopStep
<1>7. \A i \in DOMAIN sess : Needed(sess'[i]) = Needed(sess[i])
  BY <1>6 DEF Needed
<1>8. \A i \in DOMAIN sess :
         /\ sess[i].in \in Nat /\ sess[i].taken \in Nat /\ sess'[i].in \in Nat
         /\ sess'[i].taken \in Nat /\ sess[i].mute \in Nat /\ sess'[i].mute \in Nat
         /\ sess[i].ask \in BOOLEAN /\ sess'[i].ask \in BOOLEAN
         /\ Needed(sess[i]) \in Nat
  BY <1>2, FieldTypes, AudioAssumption DEF Needed
<1>9. wpc' = wpc /\ cand' = cand /\ now' = now /\ due' = due /\ last' = last
  BY DEF workerVars
<1>10. StageInv'
  <2>1. \A i \in cand : ~sess'[i].ask => Pending(sess'[i]) >= Needed(sess'[i])
    <3> SUFFICES ASSUME NEW i \in cand, ~sess'[i].ask
                 PROVE  Pending(sess'[i]) >= Needed(sess'[i])
      OBVIOUS
    <3>1. i \in DOMAIN sess /\ ~sess[i].ask
      BY <1>1, <1>6
    <3>2. Pending(sess[i]) >= Needed(sess[i])
      BY <3>1 DEF StageInv
    <3>3. sess'[i].in >= sess[i].in /\ sess'[i].taken = sess[i].taken
      BY <1>6, <3>1
    <3>4. QED BY <1>7, <1>8, <3>1, <3>2, <3>3 DEF Pending
  <2>2. \A i \in DOMAIN sess' : sess'[i].hand > 0 => wpc = "push" /\ i \in due
    BY <1>4, <1>6 DEF StageInv, Fresh
  <2>3. QED BY <1>1, <1>6, <1>9, <2>1, <2>2 DEF StageInv
<1>11. GateInv'
  BY <1>1, <1>6, <1>7, <1>8, <1>9 DEF GateInv
<1>12. QED BY <1>5, <1>10, <1>11

----------------------------------------------------------------------------
(* What a tick does to one session *)

LEMMA TakeBounds ==
    ASSUME NEW s \in Session, s.taken <= s.in
    PROVE  /\ Take(s) \in Nat /\ s.taken + Take(s) <= s.in
           /\ Take(s) <= Needed(s) /\ Needed(s) \in Nat
           /\ IsLast(s) => s.taken + Take(s) = s.in
BY FieldTypes, AudioAssumption DEF Take, Pending, Needed, IsLast

LEMMA HurtStep ==
    ASSUME NEW s \in Session, s.taken <= s.in, Books(s), NEW lost \in BOOLEAN,
           s.hand > 0 => lost
    PROVE  /\ Hurt(s, lost) \in Session /\ WorkStep(s, Hurt(s, lost)) /\ Books(Hurt(s, lost))
           /\ Hurt(s, lost).taken = s.taken /\ Hurt(s, lost).hand = 0
           /\ Hurt(s, lost).done = s.done
<1> DEFINE t == Hurt(s, lost)
           h == s.harmed \/ lost
<1>1. t = [[s EXCEPT !.hand = 0] EXCEPT !.harmed = h]
  BY DEF Hurt, Session
<1>2. [s EXCEPT !.hand = 0] \in Session /\ h \in BOOLEAN
  BY FieldTypes DEF Session
<1> HIDE DEF h
<1>3. t \in Session
  BY <1>1, <1>2 DEF Session
<1>4. /\ t.hand = 0 /\ t.harmed = h
      /\ t.got = s.got /\ t.cut = s.cut
      /\ t.owner = s.owner /\ t.lang = s.lang /\ t.in = s.in /\ t.taken = s.taken
      /\ t.buf = s.buf /\ t.heard = s.heard /\ t.ask = s.ask /\ t.done = s.done
      /\ t.text = s.text /\ t.open = s.open /\ t.mute = s.mute /\ t.gated = s.gated
      /\ t.silent = s.silent
  BY <1>1 DEF Session
<1>5. WorkStep(s, t)
  BY <1>4 DEF WorkStep
<1>6. Books(t)
  BY <1>4, FieldTypes DEF Books, h
<1>7. QED BY <1>3, <1>4, <1>5, <1>6

LEMMA DrainedStep ==
    ASSUME NEW s \in Session, s.taken <= s.in, Books(s), s.ask, s.hand = 0
    PROVE  /\ Drained(s) \in Session /\ WorkStep(s, Drained(s)) /\ Books(Drained(s))
           /\ Drained(s).taken = s.in /\ Drained(s).hand = 0
<1> DEFINE t == Drained(s)
<1>1. t = [[[s EXCEPT !.taken = s.in] EXCEPT !.done = TRUE] EXCEPT !.silent = TRUE]
  BY DEF Drained, Session
<1>2. [s EXCEPT !.taken = s.in] \in Session
  BY FieldTypes DEF Session
<1>3. [[s EXCEPT !.taken = s.in] EXCEPT !.done = TRUE] \in Session
  BY <1>2 DEF Session
<1> DEFINE u == [[s EXCEPT !.taken = s.in] EXCEPT !.done = TRUE]
<1>4. t \in Session
  <2>1. u \in Session /\ t = [u EXCEPT !.silent = TRUE]
    BY <1>1, <1>3
  <2> HIDE DEF t, u
  <2>2. QED BY <2>1 DEF Session
<1>5. /\ t.taken = s.in /\ t.done /\ t.silent
      /\ t.got = s.got /\ t.cut = s.cut
      /\ t.owner = s.owner /\ t.lang = s.lang /\ t.in = s.in /\ t.hand = s.hand
      /\ t.buf = s.buf /\ t.heard = s.heard /\ t.ask = s.ask
      /\ t.text = s.text /\ t.open = s.open /\ t.mute = s.mute /\ t.gated = s.gated
  BY DEF Drained, Session
<1>6. WorkStep(s, t)
  BY <1>5 DEF WorkStep
<1>7. Books(t)
  BY <1>5, FieldTypes DEF Books
<1>8. QED BY <1>4, <1>5, <1>6, <1>7

LEMMA SkippedStep ==
    ASSUME NEW s \in Session, s.taken <= s.in, Books(s), ~s.done, s.hand = 0,
           s.mute >= s.taken + Needed(s)
    PROVE  /\ Skipped(s) \in Session /\ WorkStep(s, Skipped(s)) /\ Books(Skipped(s))
           /\ Skipped(s).taken <= s.in /\ Skipped(s).hand = 0
<1> DEFINE t == Skipped(s)
           k == Take(s)
<1>1. k \in Nat /\ s.taken + k <= s.in /\ s.taken + k <= s.mute
  <2>1. k \in Nat /\ s.taken + k <= s.in /\ k <= Needed(s) /\ Needed(s) \in Nat
    BY TakeBounds
  <2> HIDE DEF k
  <2>2. QED BY <2>1, FieldTypes
<1> HIDE DEF k
<1>2. t = [[[s EXCEPT !.taken = s.taken + k] EXCEPT !.buf = s.buf + k] EXCEPT !.gated = s.taken + k]
  BY DEF Skipped, Session, k
<1>3. [s EXCEPT !.taken = s.taken + k] \in Session
  BY <1>1, FieldTypes DEF Session
<1>4. s.taken + k \in Nat /\ s.buf + k \in Nat
  BY <1>1, FieldTypes
<1>5. [[s EXCEPT !.taken = s.taken + k] EXCEPT !.buf = s.buf + k] \in Session
  BY <1>3, <1>4 DEF Session
<1>6. t \in Session
  BY <1>2, <1>4, <1>5 DEF Session
<1>7. /\ t.taken = s.taken + k /\ t.buf = s.buf + k /\ t.gated = s.taken + k
      /\ t.got = s.got /\ t.cut = s.cut
      /\ t.owner = s.owner /\ t.lang = s.lang /\ t.in = s.in /\ t.hand = s.hand
      /\ t.heard = s.heard /\ t.ask = s.ask /\ t.done = s.done
      /\ t.text = s.text /\ t.open = s.open /\ t.mute = s.mute /\ t.silent = s.silent
      /\ t.harmed = s.harmed
  BY DEF Skipped, Session, k
<1>8. WorkStep(s, t)
  BY <1>7 DEF WorkStep
<1>9. Books(t)
  BY <1>1, <1>7, FieldTypes DEF Books
<1>10. QED BY <1>1, <1>6, <1>7, <1>8, <1>9

LEMMA TakenStep ==
    ASSUME NEW s \in Session, s.taken <= s.in, Books(s), ~s.done, s.hand = 0
    PROVE  /\ Taken(s) \in Session /\ WorkStep(s, Taken(s)) /\ Books(Taken(s))
           /\ Taken(s).taken <= s.in /\ Taken(s).done = s.done
           /\ IsLast(s) => Taken(s).ask /\ Taken(s).taken = s.in
<1> DEFINE t == Taken(s)
           k == Take(s)
<1>1. k \in Nat /\ s.taken + k <= s.in /\ (IsLast(s) => s.ask /\ s.taken + k = s.in)
  BY TakeBounds DEF IsLast
<1> HIDE DEF k
<1>2. t = [[s EXCEPT !.taken = s.taken + k] EXCEPT !.hand = k]
  BY DEF Taken, Session, k
<1>3. [s EXCEPT !.taken = s.taken + k] \in Session
  BY <1>1, FieldTypes DEF Session
<1>4. t \in Session
  BY <1>1, <1>2, <1>3 DEF Session
<1>5. /\ t.taken = s.taken + k /\ t.hand = k
      /\ t.got = s.got /\ t.cut = s.cut
      /\ t.owner = s.owner /\ t.lang = s.lang /\ t.in = s.in /\ t.buf = s.buf
      /\ t.heard = s.heard /\ t.ask = s.ask /\ t.done = s.done /\ t.gated = s.gated
      /\ t.text = s.text /\ t.open = s.open /\ t.mute = s.mute /\ t.silent = s.silent
      /\ t.harmed = s.harmed
  BY DEF Taken, Session, k
<1>6. WorkStep(s, t)
  BY <1>5 DEF WorkStep
<1>7. Books(t)
  BY <1>1, <1>5, FieldTypes DEF Books
<1>8. QED BY <1>1, <1>4, <1>5, <1>6, <1>7

LEMMA PushedStep ==
    ASSUME NEW s \in Session, s.taken <= s.in, Books(s)
    PROVE  /\ Pushed(s) \in Session /\ WorkStep(s, Pushed(s)) /\ Books(Pushed(s))
           /\ Pushed(s).taken = s.taken /\ Pushed(s).hand = 0 /\ Pushed(s).done = s.done
<1> DEFINE t == Pushed(s)
           b == s.buf + s.hand
<1>1. t = [[s EXCEPT !.hand = 0] EXCEPT !.buf = b]
  BY DEF Pushed, Session
<1>2. b \in Nat
  BY FieldTypes
<1>3. [s EXCEPT !.hand = 0] \in Session
  BY DEF Session
<1> HIDE DEF b
<1>4. t \in Session
  BY <1>1, <1>2, <1>3 DEF Session
<1>5. /\ t.buf = b /\ t.hand = 0
      /\ t.got = s.got /\ t.cut = s.cut
      /\ t.owner = s.owner /\ t.lang = s.lang /\ t.in = s.in /\ t.taken = s.taken
      /\ t.heard = s.heard /\ t.ask = s.ask /\ t.done = s.done /\ t.gated = s.gated
      /\ t.text = s.text /\ t.open = s.open /\ t.mute = s.mute /\ t.silent = s.silent
      /\ t.harmed = s.harmed
  BY <1>1 DEF Session
<1>6. WorkStep(s, t)
  BY <1>5 DEF WorkStep
<1>7. Books(t)
  BY <1>5, FieldTypes DEF Books, b
<1>8. QED BY <1>4, <1>5, <1>6, <1>7

LEMMA DecodedStep ==
    ASSUME NEW s \in Session, s.taken <= s.in, Books(s), s.hand = 0, s.buf > 0, s.open,
           NEW text \in BOOLEAN, NEW end \in BOOLEAN, end => s.ask /\ s.taken = s.in
    PROVE  /\ Decoded(s, text, end) \in Session /\ WorkStep(s, Decoded(s, text, end))
           /\ Books(Decoded(s, text, end))
           /\ Decoded(s, text, end).taken = s.taken /\ Decoded(s, text, end).hand = 0
<1> DEFINE t == Decoded(s, text, end)
           d == s.done \/ end
<1>1. t = [[s EXCEPT !.text = text] EXCEPT !.done = d]
  BY DEF Decoded, Session
<1>2. [s EXCEPT !.text = text] \in Session /\ d \in BOOLEAN
  BY FieldTypes DEF Session
<1> HIDE DEF d
<1>3. t \in Session
  BY <1>1, <1>2 DEF Session
<1>4. /\ t.text = text /\ t.done = d
      /\ t.got = s.got /\ t.cut = s.cut
      /\ t.owner = s.owner /\ t.lang = s.lang /\ t.in = s.in /\ t.taken = s.taken
      /\ t.heard = s.heard /\ t.ask = s.ask /\ t.hand = s.hand /\ t.gated = s.gated
      /\ t.buf = s.buf /\ t.open = s.open /\ t.mute = s.mute /\ t.silent = s.silent
      /\ t.harmed = s.harmed
  BY <1>1 DEF Session
<1>5. WorkStep(s, t)
  BY <1>4 DEF WorkStep
<1>6. Books(t)
  BY <1>4, FieldTypes DEF Books, d
<1>7. QED BY <1>3, <1>4, <1>5, <1>6

LEMMA BrokenStep ==
    ASSUME NEW s \in Session, s.taken <= s.in, Books(s), s.hand = 0
    PROVE  /\ Broken(s) \in Session /\ WorkStep(s, Broken(s)) /\ Books(Broken(s))
           /\ Broken(s).taken = s.taken /\ Broken(s).hand = 0
<1> DEFINE t == Broken(s)
<1>1. t = [[s EXCEPT !.open = FALSE] EXCEPT !.harmed = TRUE]
  BY DEF Broken, Session
<1>2. [s EXCEPT !.open = FALSE] \in Session
  BY DEF Session
<1>3. t \in Session
  BY <1>1, <1>2 DEF Session
<1>4. /\ ~t.open /\ t.harmed
      /\ t.got = s.got /\ t.cut = s.cut
      /\ t.owner = s.owner /\ t.lang = s.lang /\ t.in = s.in /\ t.taken = s.taken
      /\ t.heard = s.heard /\ t.ask = s.ask /\ t.hand = s.hand /\ t.gated = s.gated
      /\ t.buf = s.buf /\ t.text = s.text /\ t.mute = s.mute /\ t.silent = s.silent
      /\ t.done = s.done
  BY DEF Broken, Session
<1>5. WorkStep(s, t)
  BY <1>4 DEF WorkStep
<1>6. Books(t)
  BY <1>4, FieldTypes DEF Books
<1>7. QED BY <1>3, <1>4, <1>5, <1>6

LEMMA WorkStepSame ==
    ASSUME NEW s \in Session
    PROVE  WorkStep(s, s)
BY DEF WorkStep

----------------------------------------------------------------------------
(* The worker's steps leave the loop's invariants alone *)

WorkChange ==
    /\ sess' \in Seq(Session) /\ Len(sess') = Len(sess) /\ DOMAIN sess' = DOMAIN sess
    /\ \A i \in DOMAIN sess : WorkStep(sess[i], sess'[i]) /\ sess'[i].taken <= sess'[i].in

LEMMA LiveFinite ==
    ASSUME NEW f \in Seq(Session)
    PROVE  IsFiniteSet(Live(f))
<1>1. IsFiniteSet(1 .. Len(f))
  BY FS_Interval
<1>2. Live(f) \subseteq 1 .. Len(f)
  BY DEF Live
<1>3. QED BY <1>1, <1>2, FS_Subset

LEMMA FewerLive ==
    ASSUME TypeOK, RoomInv, sess' \in Seq(Session), Live(sess') \subseteq Live(sess)
    PROVE  RoomInv'
<1>1. IsFiniteSet(Live(sess)) /\ IsFiniteSet(Live(sess'))
  BY LiveFinite DEF TypeOK
<1>2. /\ Cardinality(Live(sess')) <= Cardinality(Live(sess))
      /\ Cardinality(Live(sess')) \in Nat /\ Cardinality(Live(sess)) \in Nat
  BY <1>1, FS_Subset, FS_CardinalityType
<1>3. QED BY <1>2, AudioAssumption DEF RoomInv

LEMMA WorkKeepsStreams ==
    ASSUME TypeOK, \A c \in Stream : CurrentInv(c) /\ TurnsInv(c), HoldInv, RoomInv,
           WorkChange, UNCHANGED <<conn, lang, cur, turns, committed, hold>>
    PROVE  (\A c \in Stream : CurrentInv(c) /\ TurnsInv(c))' /\ HoldInv' /\ RoomInv'
<1>1. /\ sess \in Seq(Session) /\ DOMAIN sess' = DOMAIN sess
      /\ \A c \in Stream : cur[c] # 0 => cur[c] \in DOMAIN sess
      /\ \A c \in Stream : turns[c] \subseteq DOMAIN sess
      /\ hold.by \in Stream
  <2>1. sess \in Seq(Session) /\ DOMAIN sess = 1 .. Len(sess) /\ DOMAIN sess' = DOMAIN sess
    BY DEF TypeOK, WorkChange
  <2>2. cur \in [Stream -> 0 .. Len(sess)] /\ turns \in [Stream -> SUBSET (1 .. Len(sess))]
    BY DEF TypeOK
  <2>3. hold.by \in Stream
    BY DEF TypeOK
  <2>4. QED BY <2>1, <2>2, <2>3
<1>2. \A i \in DOMAIN sess :
         /\ sess'[i].owner = sess[i].owner /\ sess'[i].lang = sess[i].lang
         /\ sess'[i].ask = sess[i].ask /\ sess'[i].heard = sess[i].heard
         /\ sess'[i].open => sess[i].open
         /\ sess'[i].text => sess[i].text \/ sess[i].open
  BY DEF WorkChange, WorkStep
<1>3. ASSUME NEW c \in Stream PROVE CurrentInv(c)'
  BY <1>1, <1>2 DEF CurrentInv
<1>4. ASSUME NEW c \in Stream PROVE TurnsInv(c)'
  BY <1>1, <1>2 DEF TurnsInv
<1>5. HoldInv'
  BY <1>1, <1>2 DEF HoldInv, CurrentInv
<1>6. Live(sess') \subseteq Live(sess)
  BY <1>1, <1>2 DEF Live
<1>7. QED BY <1>3, <1>4, <1>5, <1>6, FewerLive DEF WorkChange

LEMMA WorkKeepsQueues ==
    ASSUME TypeOK, \A c \in Stream : QueueInv(c), WorkChange, UNCHANGED outbox
    PROVE  (\A c \in Stream : QueueInv(c))'
<1>1. \A c \in Stream : \A k \in DOMAIN outbox[c] : outbox[c][k] \in DOMAIN sess
  BY SeqElement DEF TypeOK
<1>2. QED BY <1>1 DEF QueueInv, WorkChange, WorkStep

LEMMA WorkTypes ==
    ASSUME TypeOK, WorkChange, UNCHANGED <<conn, lang, cur, turns, committed, fed, hold>>,
           outbox' \in [Stream -> Seq(1 .. Len(sess))],
           wpc' \in {"idle", "scan", "gate", "push", "decode", "route"},
           cand' \subseteq DOMAIN sess, due' \subseteq DOMAIN sess, last' \subseteq DOMAIN sess,
           now' \in 0 .. Len(sess), finals' \in Seq(1 .. Len(sess))
    PROVE  TypeOK'
<1>1. DOMAIN sess = 1 .. Len(sess)
  BY DEF TypeOK
<1>2. \A i \in DOMAIN sess' : sess'[i].taken <= sess'[i].in
  BY DEF WorkChange
<1>3. QED BY <1>1, <1>2 DEF TypeOK, WorkChange

LEMMA UpdateWork ==
    ASSUME TypeOK, BooksInv, NEW i \in DOMAIN sess, NEW t \in Session,
           WorkStep(sess[i], t), t.taken <= t.in, Books(t), sess' = [sess EXCEPT ![i] = t]
    PROVE  /\ WorkChange /\ BooksInv'
           /\ \A j \in DOMAIN sess : sess'[j] = IF j = i THEN t ELSE sess[j]
<1>1. sess \in Seq(Session) /\ \A j \in DOMAIN sess : sess[j].taken <= sess[j].in
  BY DEF TypeOK
<1>2. /\ sess' \in Seq(Session) /\ Len(sess') = Len(sess) /\ DOMAIN sess' = DOMAIN sess
      /\ \A j \in DOMAIN sess : sess'[j] = IF j = i THEN t ELSE sess[j]
  BY <1>1
<1>3. \A j \in DOMAIN sess : WorkStep(sess[j], sess'[j]) /\ sess'[j].taken <= sess'[j].in
  BY <1>1, <1>2, SeqElement, WorkStepSame
<1>4. BooksInv'
  BY <1>2 DEF BooksInv
<1>5. QED BY <1>2, <1>3, <1>4 DEF WorkChange

LEMMA SameWork ==
    ASSUME TypeOK, BooksInv, UNCHANGED sess
    PROVE  WorkChange /\ BooksInv'
<1>1. \A i \in DOMAIN sess : WorkStep(sess[i], sess[i])
  BY SeqElement, WorkStepSame DEF TypeOK
<1>2. QED BY <1>1 DEF TypeOK, WorkChange, BooksInv

LEMMA Indices ==
    ASSUME TypeOK
    PROVE  /\ sess \in Seq(Session) /\ DOMAIN sess = 1 .. Len(sess) /\ Len(sess) \in Nat
           /\ cand \subseteq DOMAIN sess /\ due \subseteq DOMAIN sess
           /\ last \subseteq DOMAIN sess /\ finals \in Seq(1 .. Len(sess))
           /\ now \in 0 .. Len(sess) /\ outbox \in [Stream -> Seq(1 .. Len(sess))]
           /\ wpc \in {"idle", "scan", "gate", "push", "decode", "route"}
           /\ \A i \in DOMAIN sess : sess[i] \in Session /\ sess[i].taken <= sess[i].in
BY SeqElement DEF TypeOK

----------------------------------------------------------------------------
(* The worker's steps *)

TickInv == BooksInv /\ StageInv /\ GateInv
TickEffect == TypeOK' /\ WorkChange /\ TickInv'

LEMMA TickStep ==
    ASSUME TypeOK, TickInv, Tick
    PROVE  TickEffect
<1> USE Indices
<1>1. /\ wpc = "idle" /\ wpc' = "scan" /\ cand' = {i \in DOMAIN sess : Ready(sess[i])}
      /\ UNCHANGED <<conn, lang, cur, turns, outbox, committed, fed, hold, sess, now, due, last, finals>>
  BY DEF Tick, streamVars
<1>2. WorkChange /\ BooksInv'
  BY <1>1, SameWork DEF TickInv
<1>3. TypeOK'
  BY <1>1, <1>2, WorkTypes
<1>4. \A i \in cand' : ~sess[i].done /\ (~sess[i].ask => Pending(sess[i]) >= Needed(sess[i]))
  BY <1>1 DEF Ready
<1>5. StageInv'
  BY <1>1, <1>4 DEF StageInv, TickInv
<1>6. GateInv'
  BY <1>1 DEF GateInv
<1>7. QED BY <1>2, <1>3, <1>5, <1>6 DEF TickEffect, TickInv

LEMMA LookStep ==
    ASSUME TypeOK, TickInv, NEW i \in DOMAIN sess, Look(i)
    PROVE  TickEffect
<1> USE Indices
<1>1. /\ wpc = "scan" /\ i \in cand /\ cand' = cand \ {i}
      /\ UNCHANGED <<conn, lang, cur, turns, outbox, committed, fed, hold, sess, last, finals>>
  BY DEF Look, First, streamVars
<1>2. WorkChange /\ BooksInv'
  BY <1>1, SameWork DEF TickInv
<1>3. i \notin due /\ ~sess[i].done /\ (~sess[i].ask => Pending(sess[i]) >= Needed(sess[i]))
  BY <1>1 DEF StageInv, TickInv
<1>4. CASE SkipsGpu(sess[i]) /\ wpc' = "gate" /\ now' = i /\ UNCHANGED due
  <2>1. TypeOK'
    BY <1>1, <1>2, <1>4, WorkTypes
  <2>2. StageInv'
    BY <1>1, <1>4 DEF StageInv, TickInv
  <2>3. VadOn /\ sess[i].mute = sess[i].in
    BY <1>4 DEF SkipsGpu, TickInv, BooksInv, Books
  <2>4. ~sess[i].ask => sess[i].mute >= sess[i].taken + Needed(sess[i])
    BY <1>3, <2>3, FieldTypes, TakeBounds DEF Pending
  <2>5. GateInv'
    BY <1>1, <1>3, <1>4, <2>3, <2>4 DEF GateInv
  <2>6. QED BY <1>2, <2>1, <2>2, <2>5 DEF TickEffect, TickInv
<1>5. CASE ~SkipsGpu(sess[i]) /\ due' = due \cup {i} /\ UNCHANGED <<wpc, now>>
  <2>1. TypeOK'
    BY <1>1, <1>2, <1>5, WorkTypes
  <2>2. StageInv'
    BY <1>1, <1>3, <1>5 DEF StageInv, TickInv
  <2>3. GateInv'
    BY <1>1, <1>5 DEF GateInv
  <2>4. QED BY <1>2, <2>1, <2>2, <2>3 DEF TickEffect, TickInv
<1>6. QED BY <1>4, <1>5 DEF Look

LEMMA TickFailsStep ==
    ASSUME TypeOK, TickInv, TickFails, UNCHANGED <<streamVars, hold>>
    PROVE  TickEffect
<1> USE Indices
<1> DEFINE Lost(i) == Held(i) \/ \E k \in DOMAIN finals : finals[k] = i
<1>1. /\ sess' = [i \in DOMAIN sess |-> Hurt(sess[i], Lost(i))]
      /\ wpc' = "idle" /\ cand' = {} /\ now' = 0 /\ due' = {} /\ last' = {} /\ finals' = <<>>
      /\ UNCHANGED <<conn, lang, cur, turns, outbox, committed, fed, hold>>
  BY DEF TickFails, streamVars
<1>2. ASSUME NEW i \in DOMAIN sess
      PROVE  /\ Hurt(sess[i], Lost(i)) \in Session /\ WorkStep(sess[i], Hurt(sess[i], Lost(i)))
             /\ Books(Hurt(sess[i], Lost(i))) /\ Hurt(sess[i], Lost(i)).hand = 0
             /\ Hurt(sess[i], Lost(i)).taken = sess[i].taken
  <2>1. Lost(i) \in BOOLEAN /\ (sess[i].hand > 0 => Lost(i))
    BY DEF Held
  <2>2. Books(sess[i])
    BY DEF TickInv, BooksInv
  <2> HIDE DEF Lost
  <2>3. QED BY <2>1, <2>2, HurtStep
<1> HIDE DEF Lost
<1>3. /\ DOMAIN sess' = DOMAIN sess /\ sess' \in Seq(Session) /\ Len(sess') = Len(sess)
      /\ \A i \in DOMAIN sess : sess'[i] = Hurt(sess[i], Lost(i))
  BY <1>1, <1>2
<1>4. \A i \in DOMAIN sess : Hurt(sess[i], Lost(i)).in = sess[i].in
  BY <1>2 DEF WorkStep
<1>5. WorkChange
  BY <1>2, <1>3, <1>4 DEF WorkChange
<1>6. BooksInv'
  BY <1>2, <1>3 DEF BooksInv
<1>7. TypeOK'
  BY <1>1, <1>5, WorkTypes
<1>8. \A i \in DOMAIN sess' : ~(sess'[i].hand > 0)
  BY <1>2, <1>3
<1>9. StageInv' /\ GateInv'
  BY <1>1, <1>8 DEF StageInv, GateInv
<1>10. QED BY <1>5, <1>6, <1>7, <1>9 DEF TickEffect, TickInv

LEMMA GateStep ==
    ASSUME TypeOK, TickInv, NEW i \in DOMAIN sess, Gate(i)
    PROVE  TickEffect
<1> USE Indices
<1>1. /\ wpc = "gate" /\ i = now
      /\ UNCHANGED <<conn, lang, cur, turns, outbox, committed, fed, hold>>
  BY DEF Gate, streamVars
<1>2. /\ i \notin cand /\ i \notin due /\ ~sess[i].done /\ VadOn
      /\ ~sess[i].ask => sess[i].mute >= sess[i].taken + Needed(sess[i])
  BY <1>1 DEF TickInv, GateInv
<1>3. sess[i].hand = 0 /\ Books(sess[i]) /\ sess[i] \in Session /\ sess[i].taken <= sess[i].in
  BY <1>1, FieldTypes DEF TickInv, StageInv, BooksInv
\* Both ways on leave the chunks in hand where they are: nowhere.
<1>4. ASSUME NEW t \in Session, WorkStep(sess[i], t), t.taken <= t.in, Books(t), t.hand = 0,
             sess' = [sess EXCEPT ![i] = t], wpc' = "scan", now' = 0,
             UNCHANGED <<cand, due, last>>, finals' \in Seq(1 .. Len(sess))
      PROVE  TickEffect
  <2>1. /\ WorkChange /\ BooksInv'
        /\ \A j \in DOMAIN sess : sess'[j] = IF j = i THEN t ELSE sess[j]
    BY <1>4, UpdateWork DEF TickInv
  <2>2. TypeOK'
    BY <1>1, <1>4, <2>1, WorkTypes
  <2>3. \A j \in DOMAIN sess' : ~(sess'[j].hand > 0)
    BY <1>1, <1>4, <2>1 DEF TickInv, StageInv, WorkChange
  <2>4. \A j \in cand \cup due : sess'[j] = sess[j]
    BY <1>2, <2>1
  <2>5. StageInv'
    BY <1>1, <1>4, <2>3, <2>4 DEF TickInv, StageInv
  <2>6. GateInv'
    BY <1>4 DEF GateInv
  <2>7. QED BY <2>1, <2>2, <2>5, <2>6 DEF TickEffect, TickInv
<1>5. CASE /\ sess[i].ask /\ sess' = [sess EXCEPT ![i] = Drained(@)]
           /\ finals' = Append(finals, i) /\ wpc' = "scan" /\ now' = 0
           /\ UNCHANGED <<cand, due, last>>
  <2>1. /\ Drained(sess[i]) \in Session /\ WorkStep(sess[i], Drained(sess[i]))
        /\ Books(Drained(sess[i])) /\ Drained(sess[i]).hand = 0
        /\ Drained(sess[i]).taken = sess[i].in
    BY <1>3, <1>5, DrainedStep
  <2>2. Drained(sess[i]).taken <= Drained(sess[i]).in
    BY <2>1, FieldTypes DEF WorkStep
  <2>3. finals' \in Seq(1 .. Len(sess))
    BY <1>5
  <2>4. QED BY <1>4, <1>5, <2>1, <2>2, <2>3
<1>6. CASE /\ ~sess[i].ask /\ sess' = [sess EXCEPT ![i] = Skipped(@)]
           /\ wpc' = "scan" /\ now' = 0 /\ UNCHANGED <<cand, due, last, finals>>
  <2>1. /\ Skipped(sess[i]) \in Session /\ WorkStep(sess[i], Skipped(sess[i]))
        /\ Books(Skipped(sess[i])) /\ Skipped(sess[i]).hand = 0
        /\ Skipped(sess[i]).taken <= sess[i].in
    BY <1>2, <1>3, <1>6, SkippedStep
  <2>2. Skipped(sess[i]).taken <= Skipped(sess[i]).in
    BY <2>1 DEF WorkStep
  <2>3. QED BY <1>4, <1>6, <2>1, <2>2
<1>7. CASE TickFails
  BY <1>7, TickFailsStep DEF Gate
<1>8. QED BY <1>5, <1>6, <1>7 DEF Gate

LEMMA TakeChunksStep ==
    ASSUME TypeOK, TickInv, TakeChunks
    PROVE  TickEffect
<1> USE Indices
<1>1. /\ wpc = "scan" /\ cand' = {} /\ wpc' \in {"route", "push"} /\ (due # {} => wpc' = "push")
      /\ (due = {} => wpc' = "route")
      /\ last' = {i \in due : IsLast(sess[i])}
      /\ sess' = [i \in DOMAIN sess |-> IF i \in due THEN Taken(sess[i]) ELSE sess[i]]
      /\ UNCHANGED <<conn, lang, cur, turns, outbox, committed, fed, hold, now, due, finals>>
  BY DEF TakeChunks, streamVars
<1>2. \A i \in DOMAIN sess : sess[i].hand = 0 /\ Books(sess[i])
  BY <1>1, FieldTypes DEF TickInv, StageInv, BooksInv
<1>3. ASSUME NEW i \in due
      PROVE  /\ Taken(sess[i]) \in Session /\ WorkStep(sess[i], Taken(sess[i]))
             /\ Books(Taken(sess[i])) /\ Taken(sess[i]).taken <= sess[i].in
             /\ ~Taken(sess[i]).done
             /\ IsLast(sess[i]) => Taken(sess[i]).ask /\ Taken(sess[i]).taken = sess[i].in
  <2>1. ~sess[i].done /\ i \in DOMAIN sess
    BY DEF TickInv, StageInv
  <2>2. QED BY <1>2, <2>1, TakenStep
<1>4. /\ DOMAIN sess' = DOMAIN sess /\ sess' \in Seq(Session) /\ Len(sess') = Len(sess)
      /\ \A i \in DOMAIN sess : sess'[i] = IF i \in due THEN Taken(sess[i]) ELSE sess[i]
  BY <1>1, <1>3
<1>5. \A i \in due : Taken(sess[i]).in = sess[i].in
  BY <1>3 DEF WorkStep
<1>6. WorkChange
  BY <1>3, <1>4, <1>5, WorkStepSame DEF WorkChange
<1>7. BooksInv'
  BY <1>2, <1>3, <1>4 DEF BooksInv
<1>8. TypeOK'
  BY <1>1, <1>6, WorkTypes
<1>9. \A i \in DOMAIN sess' : sess'[i].hand > 0 => i \in due
  BY <1>2, <1>4
<1>10. \A i \in last' : sess'[i].ask /\ sess'[i].taken = sess'[i].in
  BY <1>1, <1>3, <1>4, <1>5
<1>11. \A i \in due : ~sess'[i].done
  BY <1>3, <1>4
<1>12. StageInv'
  BY <1>1, <1>9, <1>10, <1>11 DEF StageInv
<1>13. GateInv'
  BY <1>1 DEF GateInv
<1>14. QED BY <1>6, <1>7, <1>8, <1>12, <1>13 DEF TickEffect, TickInv

LEMMA PushStep ==
    ASSUME TypeOK, TickInv, NEW i \in DOMAIN sess, Push(i)
    PROVE  TickEffect
<1> USE Indices
<1>1. CASE sess[i].open /\ sess' = [sess EXCEPT ![i] = Pushed(@)] /\ UNCHANGED workerVars
  <2>1. /\ wpc = "push"
        /\ UNCHANGED <<conn, lang, cur, turns, outbox, committed, fed, hold, wpc, cand, now, due, last, finals>>
    BY <1>1 DEF Push, workerVars, streamVars
  <2>2. /\ Pushed(sess[i]) \in Session /\ WorkStep(sess[i], Pushed(sess[i]))
        /\ Books(Pushed(sess[i])) /\ Pushed(sess[i]).taken = sess[i].taken
        /\ Pushed(sess[i]).hand = 0 /\ Pushed(sess[i]).done = sess[i].done
    BY PushedStep DEF TickInv, BooksInv
  <2>3. /\ Pushed(sess[i]).in = sess[i].in /\ Pushed(sess[i]).ask = sess[i].ask
    BY <2>2 DEF WorkStep
  <2>4. /\ WorkChange /\ BooksInv'
        /\ \A j \in DOMAIN sess : sess'[j] = IF j = i THEN Pushed(sess[i]) ELSE sess[j]
    BY <1>1, <2>2, <2>3, UpdateWork DEF TickInv
  <2>5. TypeOK'
    BY <2>1, <2>4, WorkTypes
  <2>6. cand = {}
    BY <2>1 DEF TickInv, StageInv
  <2>7. \A j \in DOMAIN sess' : sess'[j].hand > 0 => j \in due
    BY <2>1, <2>2, <2>4 DEF TickInv, StageInv, WorkChange
  <2>8. \A j \in DOMAIN sess : /\ sess'[j].done = sess[j].done /\ sess'[j].ask = sess[j].ask
                              /\ sess'[j].taken = sess[j].taken /\ sess'[j].in = sess[j].in
    BY <2>2, <2>3, <2>4
  <2>9. StageInv'
    <3>1. /\ \A j \in due : ~sess'[j].done
          /\ \A j \in last : sess'[j].ask /\ sess'[j].taken = sess'[j].in
      BY <2>1, <2>8 DEF TickInv, StageInv
    <3>2. wpc' = "push" /\ cand' = {} /\ due' = due /\ last' = last
      BY <2>1, <2>6
    <3>3. QED BY <2>7, <3>1, <3>2 DEF StageInv
  <2>10. GateInv'
    BY <2>1 DEF GateInv
  <2>11. QED BY <2>4, <2>5, <2>9, <2>10 DEF TickEffect, TickInv
<1>2. CASE TickFails
  BY <1>2, TickFailsStep DEF Push
<1>3. QED BY <1>1, <1>2 DEF Push

LEMMA EncodeStep ==
    ASSUME TypeOK, TickInv, Encode \/ EncodeFails
    PROVE  TickEffect
<1> USE Indices
<1>1. CASE Encode
  <2>1. /\ wpc = "push" /\ due' = {i \in due : sess[i].buf > 0}
        /\ wpc' \in {"route", "decode"} /\ (wpc' = "route" => due' = {})
        /\ \A i \in due : ~(sess[i].hand > 0)
        /\ UNCHANGED <<conn, lang, cur, turns, outbox, committed, fed, hold, sess, cand, now, last, finals>>
    BY <1>1 DEF Encode, streamVars, Held
  <2>2. WorkChange /\ BooksInv'
    BY <2>1, SameWork DEF TickInv
  <2>3. TypeOK'
    BY <2>1, <2>2, WorkTypes
  <2>4. StageInv'
    BY <2>1 DEF TickInv, StageInv
  <2>5. GateInv'
    BY <2>1 DEF GateInv
  <2>6. QED BY <2>2, <2>3, <2>4, <2>5 DEF TickEffect, TickInv
<1>2. CASE EncodeFails
  BY <1>2, TickFailsStep DEF EncodeFails
<1>3. QED BY <1>1, <1>2

LEMMA DecodeStep ==
    ASSUME TypeOK, TickInv, NEW i \in DOMAIN sess, Decode(i)
    PROVE  TickEffect
<1> USE Indices
<1>1. /\ wpc = "decode" /\ i \in due /\ due' = due \ {i}
      /\ wpc' \in {"route", "decode"} /\ (wpc' = "route" => due' = {})
      /\ UNCHANGED <<conn, lang, cur, turns, outbox, committed, fed, hold, cand, now, last>>
  BY DEF Decode, First, streamVars
<1>2. /\ cand = {} /\ sess[i].buf > 0 /\ \A j \in DOMAIN sess : ~(sess[j].hand > 0)
      /\ i \in last => sess[i].ask /\ sess[i].taken = sess[i].in
  BY <1>1 DEF TickInv, StageInv
<1>3. sess[i].hand = 0 /\ Books(sess[i])
  BY <1>2, FieldTypes DEF TickInv, BooksInv
<1>4. ASSUME NEW t \in Session, WorkStep(sess[i], t), t.taken = sess[i].taken, Books(t), t.hand = 0,
             sess' = [sess EXCEPT ![i] = t], finals' \in Seq(1 .. Len(sess))
      PROVE  TickEffect
  <2>1. t.in = sess[i].in /\ t.ask = sess[i].ask
    BY <1>4 DEF WorkStep
  <2>2. /\ WorkChange /\ BooksInv'
        /\ \A j \in DOMAIN sess : sess'[j] = IF j = i THEN t ELSE sess[j]
    BY <1>4, <2>1, UpdateWork DEF TickInv
  <2>3. TypeOK'
    BY <1>1, <1>4, <2>2, WorkTypes
  <2>4. \A j \in DOMAIN sess' : ~(sess'[j].hand > 0)
    BY <1>2, <1>4, <2>2 DEF WorkChange
  <2>5. \A j \in due' : sess'[j] = sess[j]
    BY <1>1, <2>2
  <2>6. \A j \in last : sess'[j].ask /\ sess'[j].taken = sess'[j].in
    BY <1>1, <1>4, <2>1, <2>2 DEF TickInv, StageInv
  <2>7. StageInv'
    BY <1>1, <1>2, <2>4, <2>5, <2>6 DEF TickInv, StageInv
  <2>8. GateInv'
    BY <1>1 DEF GateInv
  <2>9. QED BY <2>2, <2>3, <2>7, <2>8 DEF TickEffect, TickInv
<1>5. CASE /\ sess[i].open
           /\ \E t \in {sess[i].text, TRUE} : sess' = [sess EXCEPT ![i] = Decoded(@, t, i \in last)]
           /\ finals' = IF i \in last THEN Append(finals, i) ELSE finals
  <2>1. PICK t \in {sess[i].text, TRUE} : sess' = [sess EXCEPT ![i] = Decoded(sess[i], t, i \in last)]
    BY <1>5
  <2>2. t \in BOOLEAN /\ (i \in last) \in BOOLEAN
    <3>1. sess[i].text \in BOOLEAN
      BY FieldTypes
    <3>2. t \in BOOLEAN
      BY <2>1, <3>1
    <3>3. QED BY <3>2
  <2>3. /\ Decoded(sess[i], t, i \in last) \in Session
        /\ WorkStep(sess[i], Decoded(sess[i], t, i \in last))
        /\ Books(Decoded(sess[i], t, i \in last)) /\ Decoded(sess[i], t, i \in last).hand = 0
        /\ Decoded(sess[i], t, i \in last).taken = sess[i].taken
    <3> DEFINE end == i \in last
    <3>1. /\ sess[i] \in Session /\ sess[i].taken <= sess[i].in /\ Books(sess[i])
          /\ sess[i].open /\ sess[i].buf > 0 /\ sess[i].hand = 0
      BY <1>2, <1>3, <1>5
    <3>2. end \in BOOLEAN /\ (end => sess[i].ask /\ sess[i].taken = sess[i].in)
      BY <1>2, <2>2
    <3> HIDE DEF end
    <3>3. /\ Decoded(sess[i], t, end) \in Session
          /\ WorkStep(sess[i], Decoded(sess[i], t, end))
          /\ Books(Decoded(sess[i], t, end)) /\ Decoded(sess[i], t, end).hand = 0
          /\ Decoded(sess[i], t, end).taken = sess[i].taken
      BY <2>2, <3>1, <3>2, DecodedStep
    <3>4. QED BY <3>3 DEF end
  <2>4. finals' \in Seq(1 .. Len(sess))
    <3>1. Append(finals, i) \in Seq(1 .. Len(sess))
      OBVIOUS
    <3>2. QED BY <1>5, <3>1
  <2>5. QED BY <1>4, <2>1, <2>3, <2>4
<1>6. CASE sess' = [sess EXCEPT ![i] = Broken(@)] /\ UNCHANGED finals
  <2>1. /\ Broken(sess[i]) \in Session /\ WorkStep(sess[i], Broken(sess[i]))
        /\ Books(Broken(sess[i])) /\ Broken(sess[i]).hand = 0
        /\ Broken(sess[i]).taken = sess[i].taken
    BY <1>3, BrokenStep
  <2>2. QED BY <1>4, <1>6, <2>1
<1>7. QED BY <1>5, <1>6 DEF Decode

LEMMA RouteStep ==
    ASSUME TypeOK, TickInv, Route \/ EndTick
    PROVE  TickEffect
<1> USE Indices
<1>1. CASE Route
  <2> DEFINE i == Head(finals)
             c == sess[i].owner
  <2>1. /\ wpc = "route" /\ finals # <<>> /\ finals' = Tail(finals)
        /\ outbox' = [outbox EXCEPT ![c] = IF i \in turns[c] THEN Append(@, i) ELSE @]
        /\ wpc' \in {"route", "idle"} /\ last' \in {last, {}}
        /\ UNCHANGED <<conn, lang, cur, turns, committed, fed, hold, sess, cand, now, due>>
    BY <1>1 DEF Route
  <2>2. i \in 1 .. Len(sess) /\ finals' \in Seq(1 .. Len(sess))
    BY <2>1
  <2>3. c \in Stream
    BY <2>2, FieldTypes
  <2>4. outbox' \in [Stream -> Seq(1 .. Len(sess))]
    <3>1. outbox[c] \in Seq(1 .. Len(sess)) /\ Append(outbox[c], i) \in Seq(1 .. Len(sess))
      BY <2>2, <2>3
    <3>2. QED BY <2>1, <2>3, <3>1
  <2>5. WorkChange /\ BooksInv'
    BY <2>1, SameWork DEF TickInv
  <2>6. TypeOK'
    BY <2>1, <2>2, <2>4, <2>5, WorkTypes
  <2>7. StageInv'
    BY <2>1 DEF TickInv, StageInv
  <2>8. GateInv'
    BY <2>1 DEF GateInv
  <2>9. QED BY <2>5, <2>6, <2>7, <2>8 DEF TickEffect, TickInv
<1>2. CASE EndTick
  <2>1. /\ wpc = "route" /\ wpc' = "idle" /\ last' = {}
        /\ UNCHANGED <<conn, lang, cur, turns, outbox, committed, fed, hold, sess, cand, now, due, finals>>
    BY <1>2 DEF EndTick, streamVars
  <2>2. WorkChange /\ BooksInv'
    BY <2>1, SameWork DEF TickInv
  <2>3. TypeOK'
    BY <2>1, <2>2, WorkTypes
  <2>4. StageInv'
    BY <2>1 DEF TickInv, StageInv
  <2>5. GateInv'
    BY <2>1 DEF GateInv
  <2>6. QED BY <2>2, <2>3, <2>4, <2>5 DEF TickEffect, TickInv
<1>3. QED BY <1>1, <1>2

LEMMA WorkerStep ==
    ASSUME IInv, Worker
    PROVE  IInv'
<1> USE Indices DEF IInv
<1>1. TickInv
  BY DEF TickInv
<1>2. TickEffect
  BY <1>1, TickStep, LookStep, GateStep, TakeChunksStep, PushStep, EncodeStep, DecodeStep,
     RouteStep DEF Worker
<1>3. UNCHANGED <<conn, lang, cur, turns, committed, hold>>
  <2>1. CASE Tick \/ TakeChunks \/ Encode \/ EncodeFails \/ EndTick
    BY <2>1 DEF Tick, TakeChunks, Encode, EncodeFails, EndTick, streamVars
  <2>2. CASE Route
    BY <2>2 DEF Route
  <2>3. CASE \E i \in DOMAIN sess : Look(i) \/ Gate(i) \/ Push(i) \/ Decode(i)
    BY <2>3 DEF Look, Gate, Push, Decode, streamVars
  <2>4. QED BY <2>1, <2>2, <2>3 DEF Worker
<1>4. (\A c \in Stream : CurrentInv(c) /\ TurnsInv(c))' /\ HoldInv' /\ RoomInv'
  BY <1>2, <1>3, WorkKeepsStreams DEF TickEffect, StreamInv
<1>5. (\A c \in Stream : QueueInv(c))'
  <2>1. CASE Tick \/ TakeChunks \/ Encode \/ EncodeFails \/ EndTick
    <3>1. UNCHANGED outbox
      BY <2>1 DEF Tick, TakeChunks, Encode, EncodeFails, EndTick, streamVars
    <3>2. QED BY <1>2, <3>1, WorkKeepsQueues DEF TickEffect, StreamInv
  <2>2. CASE \E i \in DOMAIN sess : Look(i) \/ Gate(i) \/ Push(i) \/ Decode(i)
    <3>1. UNCHANGED outbox
      BY <2>2 DEF Look, Gate, Push, Decode, streamVars
    <3>2. QED BY <1>2, <3>1, WorkKeepsQueues DEF TickEffect, StreamInv
  <2>3. CASE Route
    <3> DEFINE i == Head(finals)
               d == sess[i].owner
    <3>1. /\ finals # <<>> /\ UNCHANGED sess
          /\ outbox' = [outbox EXCEPT ![d] = IF i \in turns[d] THEN Append(@, i) ELSE @]
      BY <2>3 DEF Route
    <3>2. i \in DOMAIN sess /\ d \in Stream
      BY <3>1, FieldTypes
    <3> SUFFICES ASSUME NEW c \in Stream, NEW k \in DOMAIN outbox'[c]
                 PROVE  sess[outbox'[c][k]].owner = c
      BY <3>1 DEF QueueInv
    <3>3. outbox[c] \in Seq(1 .. Len(sess))
      OBVIOUS
    <3>4. \A j \in DOMAIN outbox[c] : sess[outbox[c][j]].owner = c
      BY DEF StreamInv, QueueInv
    <3> HIDE DEF i
    <3>5. CASE outbox'[c] = outbox[c]
      BY <3>4, <3>5
    <3>6. CASE c = d /\ outbox'[c] = Append(outbox[c], i)
      <4>1. outbox'[c][k] = i \/ (k \in DOMAIN outbox[c] /\ outbox'[c][k] = outbox[c][k])
        BY <3>2, <3>3, <3>6
      <4>2. QED BY <3>4, <3>6, <4>1
    <3>7. QED BY <3>1, <3>2, <3>5, <3>6
  <2>4. QED BY <2>1, <2>2, <2>3 DEF Worker
<1>6. QED BY <1>2, <1>4, <1>5 DEF TickEffect, TickInv, StreamInv

----------------------------------------------------------------------------
(* The handlers of the loop: what they do to their own stream *)

States == {"new", "accepting", "greeting", "open", "closing"} \cup Ended

Effect(c) ==
    /\ LoopChange(c, sess') /\ StreamInv(c)' /\ RoomInv'
    /\ conn' \in [Stream -> States]
    /\ cur' \in [Stream -> 0 .. Len(sess')]
    /\ turns' \in [Stream -> SUBSET (1 .. Len(sess'))]
    /\ outbox' \in [Stream -> Seq(1 .. Len(sess'))]
Elsewhere(c) ==
    \A d \in Stream \ {c} :
        /\ conn'[d] = conn[d] /\ lang'[d] = lang[d] /\ cur'[d] = cur[d]
        /\ turns'[d] = turns[d] /\ outbox'[d] = outbox[d] /\ committed'[d] = committed[d]

LEMMA Wider ==
    ASSUME TypeOK, NEW c \in Stream, NEW f, LoopChange(c, f)
    PROVE  /\ cur \in [Stream -> 0 .. Len(f)]
           /\ turns \in [Stream -> SUBSET (1 .. Len(f))]
           /\ outbox \in [Stream -> Seq(1 .. Len(f))]
           /\ committed \in [Stream -> Seq(1 .. Len(f))]
           /\ cand \subseteq 1 .. Len(f) /\ due \subseteq 1 .. Len(f)
           /\ last \subseteq 1 .. Len(f) /\ now \in 0 .. Len(f)
           /\ finals \in Seq(1 .. Len(f))
           /\ DOMAIN sess \subseteq DOMAIN f
           /\ SessionsTyped(f)
<1>1. /\ Len(sess) \in Nat /\ Len(f) \in Nat /\ Len(sess) <= Len(f)
      /\ f \in Seq(Session) /\ sess \in Seq(Session)
  BY DEF TypeOK, LoopChange
<1>2. 1 .. Len(sess) \subseteq 1 .. Len(f) /\ 0 .. Len(sess) \subseteq 0 .. Len(f)
  BY <1>1
<1>3. Seq(1 .. Len(sess)) \subseteq Seq(1 .. Len(f))
  BY <1>2, WiderSeq
<1>4. \A i \in DOMAIN f : f[i].taken <= f[i].in
  <2> SUFFICES ASSUME NEW i \in DOMAIN f PROVE f[i].taken <= f[i].in
    OBVIOUS
  <2>1. CASE i \in DOMAIN sess
    BY <2>1 DEF LoopChange, LoopStep
  <2>2. CASE i \notin DOMAIN sess
    BY <2>2 DEF LoopChange, Fresh
  <2>3. QED BY <2>1, <2>2
<1>5. cur \in [Stream -> 0 .. Len(f)]
  BY <1>2 DEF TypeOK
<1>6. turns \in [Stream -> SUBSET (1 .. Len(f))]
  BY <1>2 DEF TypeOK
<1>7. outbox \in [Stream -> Seq(1 .. Len(f))] /\ committed \in [Stream -> Seq(1 .. Len(f))]
      /\ finals \in Seq(1 .. Len(f))
  BY <1>3 DEF TypeOK
<1>8. cand \subseteq 1 .. Len(f) /\ due \subseteq 1 .. Len(f)
      /\ last \subseteq 1 .. Len(f) /\ now \in 0 .. Len(f)
  BY <1>2 DEF TypeOK
<1>9. QED BY <1>1, <1>2, <1>4, <1>5, <1>6, <1>7, <1>8 DEF SessionsTyped

LEMMA OthersKept ==
    ASSUME TypeOK, NEW c \in Stream, NEW d \in Stream, d # c, StreamInv(d),
           LoopChange(c, sess'), Elsewhere(c)
    PROVE  StreamInv(d)'
<1>1. /\ conn'[d] = conn[d] /\ lang'[d] = lang[d] /\ cur'[d] = cur[d]
      /\ turns'[d] = turns[d] /\ outbox'[d] = outbox[d] /\ committed'[d] = committed[d]
  BY DEF Elsewhere
<1>2. /\ cur[d] # 0 => cur[d] \in DOMAIN sess
      /\ turns[d] \subseteq DOMAIN sess
      /\ DOMAIN sess \subseteq DOMAIN sess'
      /\ \A k \in DOMAIN outbox[d] : outbox[d][k] \in DOMAIN sess
  <2>1. /\ DOMAIN sess = 1 .. Len(sess) /\ cur[d] \in 0 .. Len(sess)
        /\ turns[d] \subseteq 1 .. Len(sess) /\ outbox[d] \in Seq(1 .. Len(sess))
    BY DEF TypeOK
  <2>2. DOMAIN sess \subseteq DOMAIN sess'
    BY Wider
  <2>3. QED BY <2>1, <2>2, SeqElement
<1>3. \A i \in DOMAIN sess : sess[i].owner = d => sess'[i] = sess[i]
  BY DEF LoopChange
<1>4. \A i \in DOMAIN sess' : sess'[i].owner = d => i \in DOMAIN sess /\ sess[i].owner = d
  BY DEF LoopChange, LoopStep, Fresh
<1>5. CurrentInv(d)'
  BY <1>1, <1>2, <1>3 DEF StreamInv, CurrentInv
<1>6. TurnsInv(d)'
  BY <1>1, <1>2, <1>3, <1>4 DEF StreamInv, TurnsInv
<1>7. QueueInv(d)'
  BY <1>1, <1>2, <1>3 DEF StreamInv, QueueInv
<1>8. QED BY <1>5, <1>6, <1>7 DEF StreamInv

\* The facts of LoopChange a handler needs.
LEMMA ChangeFacts ==
    ASSUME TypeOK, NEW c \in Stream, NEW f, LoopChange(c, f)
    PROVE  /\ f \in Seq(Session) /\ SessionsTyped(sess)
           /\ \A i \in DOMAIN f : f[i] \in Session
           /\ \A i \in DOMAIN sess :
                  /\ i \in DOMAIN f /\ f[i].owner = sess[i].owner
                  /\ f[i].lang = sess[i].lang /\ f[i].text = sess[i].text
                  /\ f[i].open => sess[i].open
           /\ \A i \in DOMAIN f \ DOMAIN sess : f[i].owner = c /\ ~f[i].text /\ ~f[i].ask
<1>1. SessionsTyped(sess) /\ DOMAIN sess \subseteq DOMAIN f
  BY Wider DEF TypeOK, SessionsTyped
<1>2. QED BY <1>1, SeqElement DEF LoopChange, LoopStep, Fresh

LEMMA EndEffect ==
    ASSUME TypeOK, RoomInv, NEW c \in Stream, StreamInv(c),
           NEW f, LoopChange(c, f), Len(f) = Len(sess), NEW how \in Cut \cup {"finished"},
           how = "finished" => turns[c] = {} /\ conn[c] \notin Cut,
           End(c, f, how), UNCHANGED committed, \A d \in Stream \ {c} : lang'[d] = lang[d]
    PROVE  Effect(c) /\ Elsewhere(c)
<1>1. /\ conn' = [conn EXCEPT ![c] = how] /\ sess' = Close(f, turns[c])
      /\ turns' = [turns EXCEPT ![c] = {}] /\ outbox' = [outbox EXCEPT ![c] = <<>>]
      /\ cur' = cur
  BY DEF End, Retired
<1>2. /\ conn \in [Stream -> States] /\ turns \in [Stream -> SUBSET (1 .. Len(sess))]
      /\ outbox \in [Stream -> Seq(1 .. Len(sess))] /\ cur \in [Stream -> 0 .. Len(sess)]
      /\ sess \in Seq(Session) /\ DOMAIN sess = 1 .. Len(sess)
  BY DEF TypeOK, States
<1>3. f \in Seq(Session) /\ DOMAIN f = DOMAIN sess
  BY <1>2 DEF LoopChange
<1>4. /\ Len(sess') = Len(sess) /\ DOMAIN sess' = DOMAIN sess /\ sess' \in Seq(Session)
      /\ \A i \in DOMAIN sess :
             sess'[i] = IF i \in turns[c] THEN [f[i] EXCEPT !.open = FALSE] ELSE f[i]
  BY <1>1, <1>3, CloseFacts
<1>5. \A i \in turns[c] : sess[i].owner = c
  BY DEF StreamInv, TurnsInv
<1>6. LoopChange(c, sess')
  BY <1>1, <1>5, CloseChange, ChangeFacts
<1>7. \A i \in DOMAIN sess :
         /\ sess'[i].owner = sess[i].owner /\ sess'[i].text = sess[i].text
         /\ sess'[i].open => sess[i].open
  BY <1>6, ChangeFacts
<1>8. \A i \in turns[c] : ~sess'[i].open
  BY <1>2, <1>3, <1>4, SeqElement, ShutStep, ChangeFacts DEF Session
<1>9. /\ conn'[c] = how /\ turns'[c] = {} /\ outbox'[c] = <<>> /\ committed'[c] = committed[c]
      /\ cur'[c] = cur[c] /\ (cur[c] # 0 => cur[c] \in DOMAIN sess)
  BY <1>1, <1>2
<1>10. CurrentInv(c)'
  BY <1>7, <1>9 DEF CurrentInv, Cut, StreamInv
<1>11. TurnsInv(c)'
  <2>1. \A i \in DOMAIN sess : ~(sess'[i].owner = c /\ sess'[i].open)
    BY <1>7, <1>8 DEF StreamInv, TurnsInv
  <2>2. \A i \in DOMAIN sess : sess'[i].owner = c /\ sess'[i].text =>
           how \in Cut \/ \E k \in DOMAIN committed[c] : committed[c][k] = i
    BY <1>7 DEF StreamInv, TurnsInv
  <2>3. QED BY <1>4, <1>9, <2>1, <2>2 DEF TurnsInv, Cut
<1>12. QueueInv(c)'
  BY <1>9 DEF QueueInv
<1>13. RoomInv'
  <2>1. Live(sess') \subseteq Live(sess)
    BY <1>4, <1>7 DEF Live
  <2>2. QED BY <1>4, <2>1, FewerLive
<1>14. /\ conn' \in [Stream -> States]
       /\ cur' \in [Stream -> 0 .. Len(sess')]
       /\ turns' \in [Stream -> SUBSET (1 .. Len(sess'))]
       /\ outbox' \in [Stream -> Seq(1 .. Len(sess'))]
  <2>1. how \in States /\ <<>> \in Seq(1 .. Len(sess))
    BY DEF Cut, States, Ended
  <2>2. QED BY <1>1, <1>2, <1>4, <2>1
<1>15. Elsewhere(c)
  BY <1>1, <1>2 DEF Elsewhere
<1>16. QED BY <1>6, <1>10, <1>11, <1>12, <1>13, <1>14, <1>15 DEF Effect, StreamInv

\* A new turn: f is what the handler made of the sessions before it.
LEMMA StartEffect ==
    ASSUME TypeOK, RoomInv, NEW c \in Stream, StreamInv(c),
           NEW f, LoopChange(c, f), Len(f) = Len(sess),
           NEW t \in Session, Fresh(c, t), t.lang = lang'[c],
           NEW rest \in SUBSET turns[c],
           \A i \in turns[c] \ rest : ~f[i].open /\ ~f[i].text,
           Room(f), sess' = Append(f, t),
           cur' = [cur EXCEPT ![c] = Len(f) + 1],
           turns' = [turns EXCEPT ![c] = rest \cup {Len(f) + 1}],
           conn' \in [Stream -> States], conn'[c] \in {"greeting", "open"},
           conn[c] \notin Cut,
           \A d \in Stream \ {c} : conn'[d] = conn[d] /\ lang'[d] = lang[d],
           UNCHANGED <<outbox, committed>>
    PROVE  Effect(c) /\ Elsewhere(c)
<1>2. /\ turns \in [Stream -> SUBSET (1 .. Len(sess))]
      /\ outbox \in [Stream -> Seq(1 .. Len(sess))] /\ cur \in [Stream -> 0 .. Len(sess)]
      /\ sess \in Seq(Session) /\ DOMAIN sess = 1 .. Len(sess) /\ Len(sess) \in Nat
  BY DEF TypeOK
<1>3. f \in Seq(Session) /\ DOMAIN f = DOMAIN sess
  BY <1>2 DEF LoopChange
<1>4. /\ LoopChange(c, sess') /\ Len(sess') = Len(sess) + 1
      /\ DOMAIN sess' = 1 .. Len(sess) + 1 /\ sess'[Len(sess) + 1] = t
      /\ \A i \in DOMAIN sess : sess'[i] = f[i]
  BY <1>2, AppendChange, ChangeFacts
<1>5. \A i \in DOMAIN sess :
         /\ sess'[i].owner = sess[i].owner /\ sess'[i].text = sess[i].text
         /\ sess'[i].open => sess[i].open
  BY <1>4, ChangeFacts
<1> DEFINE n == Len(sess) + 1
<1>6. n \notin DOMAIN sess /\ n \in DOMAIN sess' /\ n # 0 /\ DOMAIN sess' = DOMAIN sess \cup {n}
  BY <1>2, <1>4
<1>7. /\ cur'[c] = n /\ turns'[c] = rest \cup {n} /\ outbox'[c] = outbox[c]
      /\ committed'[c] = committed[c]
  BY <1>2
<1>8. sess'[n] = t /\ t.owner = c /\ ~t.ask /\ ~t.text
  BY <1>4 DEF Fresh
<1> HIDE DEF n
<1>9. CurrentInv(c)'
  BY <1>6, <1>7, <1>8 DEF CurrentInv
<1>10. TurnsInv(c)'
  <2>1. turns[c] \subseteq DOMAIN sess /\ rest \subseteq turns[c]
    BY <1>2
  <2>2. /\ \A i \in turns[c] : sess[i].owner = c
        /\ \A i \in DOMAIN sess : sess[i].owner = c /\ sess[i].open => i \in turns[c]
        /\ \A i \in DOMAIN sess : sess[i].owner = c /\ sess[i].text =>
               i \in turns[c] \/ \E k \in DOMAIN committed[c] : committed[c][k] = i
    BY DEF StreamInv, TurnsInv
  <2>3. \A i \in turns[c] \ rest : ~sess'[i].open /\ ~sess'[i].text
    BY <1>4, <2>1
  <2>4. \A i \in turns'[c] : sess'[i].owner = c
    BY <1>5, <1>7, <1>8, <2>1, <2>2
  <2>5. \A i \in DOMAIN sess' : sess'[i].owner = c /\ sess'[i].open => i \in turns'[c]
    BY <1>5, <1>6, <1>7, <2>2, <2>3
  <2>6. \A i \in DOMAIN sess' : sess'[i].owner = c /\ sess'[i].text =>
           i \in turns'[c] \/ \E k \in DOMAIN committed'[c] : committed'[c][k] = i
    BY <1>5, <1>6, <1>7, <1>8, <2>2, <2>3
  <2>7. QED BY <2>4, <2>5, <2>6 DEF TurnsInv
<1>11. QueueInv(c)'
  <2>1. \A k \in DOMAIN outbox[c] : outbox[c][k] \in DOMAIN sess
    BY <1>2, SeqElement
  <2>2. QED BY <1>5, <1>7, <2>1 DEF StreamInv, QueueInv
<1>12. RoomInv'
  <2>1. Live(sess') \subseteq Live(f) \cup {n}
    BY <1>3, <1>4, <1>6 DEF Live
  <2>2. IsFiniteSet(Live(f)) /\ IsFiniteSet(Live(f) \cup {n})
    BY <1>3, LiveFinite, FS_AddElement
  <2>3. /\ Cardinality(Live(sess')) <= Cardinality(Live(f) \cup {n})
        /\ Cardinality(Live(f) \cup {n}) <= Cardinality(Live(f)) + 1
        /\ Cardinality(Live(f)) \in Nat
        /\ Cardinality(Live(f) \cup {n}) \in Nat /\ Cardinality(Live(sess')) \in Nat
    <3>1. /\ Cardinality(Live(f)) \in Nat
          /\ Cardinality(Live(f) \cup {n}) \in {Cardinality(Live(f)), Cardinality(Live(f)) + 1}
      BY <2>2, FS_AddElement, FS_CardinalityType
    <3>2. IsFiniteSet(Live(sess')) /\ Cardinality(Live(sess')) <= Cardinality(Live(f) \cup {n})
      BY <2>1, <2>2, FS_Subset
    <3>3. Cardinality(Live(sess')) \in Nat
      BY <3>2, FS_CardinalityType
    <3>4. QED BY <3>1, <3>2, <3>3
  <2>4. QED BY <2>3, AudioAssumption DEF Room, RoomInv
<1>13. /\ cur' \in [Stream -> 0 .. Len(sess')]
       /\ turns' \in [Stream -> SUBSET (1 .. Len(sess'))]
       /\ outbox' \in [Stream -> Seq(1 .. Len(sess'))]
  <2>1. /\ cur \in [Stream -> 0 .. Len(sess')]
        /\ turns \in [Stream -> SUBSET (1 .. Len(sess'))]
        /\ outbox \in [Stream -> Seq(1 .. Len(sess'))]
    BY <1>4, Wider
  <2>2. Len(f) + 1 \in 1 .. Len(sess')
    BY <1>2, <1>4
  <2>3. rest \cup {Len(f) + 1} \in SUBSET (1 .. Len(sess'))
    BY <2>1, <2>2
  <2>4. Len(f) + 1 \in 0 .. Len(sess')
    BY <2>2
  <2>5. cur' \in [Stream -> 0 .. Len(sess')]
    BY <2>1, <2>4
  <2>6. turns' \in [Stream -> SUBSET (1 .. Len(sess'))]
    BY <2>1, <2>3
  <2>7. QED BY <2>1, <2>5, <2>6
<1>14. Elsewhere(c)
  BY <1>2 DEF Elsewhere
<1>15. QED BY <1>4, <1>9, <1>10, <1>11, <1>12, <1>13, <1>14 DEF Effect, StreamInv

\* No turn begins or ends: f is what the handler made of the sessions.
LEMMA KeepEffect ==
    ASSUME TypeOK, RoomInv, NEW c \in Stream, StreamInv(c),
           LoopChange(c, sess'), Len(sess') = Len(sess), NEW how \in States,
           how \in {"greeting", "open"} =>
               cur[c] # 0 /\ sess'[cur[c]].lang = lang[c] /\ ~sess'[cur[c]].ask,
           how \in {"new", "accepting", "finished"} => turns[c] = {},
           turns[c] # {} => how \in {"greeting", "open", "closing", "gone"},
           conn[c] \notin Cut,
           conn' = [conn EXCEPT ![c] = how],
           UNCHANGED <<lang, cur, turns, outbox, committed>>
    PROVE  Effect(c) /\ Elsewhere(c)
<1>1. /\ conn \in [Stream -> States] /\ turns \in [Stream -> SUBSET (1 .. Len(sess))]
      /\ outbox \in [Stream -> Seq(1 .. Len(sess))] /\ cur \in [Stream -> 0 .. Len(sess)]
      /\ sess \in Seq(Session) /\ DOMAIN sess = 1 .. Len(sess)
  BY DEF TypeOK, States
<1>2. DOMAIN sess' = DOMAIN sess /\ sess' \in Seq(Session)
  BY <1>1 DEF LoopChange
<1>3. \A i \in DOMAIN sess :
         /\ sess'[i].owner = sess[i].owner /\ sess'[i].text = sess[i].text
         /\ sess'[i].open => sess[i].open
  BY ChangeFacts
<1>4. /\ conn'[c] = how /\ turns'[c] = turns[c] /\ outbox'[c] = outbox[c]
      /\ committed'[c] = committed[c] /\ cur'[c] = cur[c] /\ lang'[c] = lang[c]
  BY <1>1
<1>5. /\ cur[c] # 0 => cur[c] \in DOMAIN sess
      /\ turns[c] \subseteq DOMAIN sess
      /\ \A k \in DOMAIN outbox[c] : outbox[c][k] \in DOMAIN sess
  <2>1. cur[c] \in 0 .. Len(sess) /\ turns[c] \subseteq 1 .. Len(sess)
        /\ outbox[c] \in Seq(1 .. Len(sess))
    BY <1>1
  <2>2. QED BY <1>1, <2>1, SeqElement
<1>6. CurrentInv(c)'
  BY <1>3, <1>4, <1>5 DEF StreamInv, CurrentInv
<1>7. TurnsInv(c)'
  BY <1>2, <1>3, <1>4, <1>5 DEF StreamInv, TurnsInv
<1>8. QueueInv(c)'
  BY <1>3, <1>4, <1>5 DEF StreamInv, QueueInv
<1>9. RoomInv'
  <2>1. Live(sess') \subseteq Live(sess)
    BY <1>2, <1>3 DEF Live
  <2>2. QED BY <1>2, <2>1, FewerLive
<1>10. Elsewhere(c)
  BY <1>1 DEF Elsewhere
<1>11. QED BY <1>1, <1>6, <1>7, <1>8, <1>9, <1>10 DEF Effect, StreamInv

LEMMA RotateEffect ==
    ASSUME TypeOK, RoomInv, NEW c \in Stream, StreamInv(c), conn[c] = "open",
           NEW f, LoopChange(c, f), Len(f) = Len(sess),
           NEW rest \in SUBSET turns[c],
           \A i \in turns[c] \ rest : ~f[i].open /\ ~f[i].text,
           NEW l \in Lang, Rotate(c, l, f, rest),
           lang' = [lang EXCEPT ![c] = l], UNCHANGED committed
    PROVE  Effect(c) /\ Elsewhere(c)
<1>1. /\ conn \in [Stream -> States] /\ lang'[c] = l
      /\ \A d \in Stream \ {c} : lang'[d] = lang[d]
  BY DEF TypeOK, States
<1>2. CASE StartTurn(c, l, f, rest) /\ UNCHANGED <<conn, outbox>>
  <2>1. /\ Room(f) /\ sess' = Append(f, NewSession(c, l))
        /\ cur' = [cur EXCEPT ![c] = Len(f) + 1]
        /\ turns' = [turns EXCEPT ![c] = rest \cup {Len(f) + 1}]
        /\ UNCHANGED <<conn, outbox>>
    BY <1>2 DEF StartTurn
  <2>2. /\ NewSession(c, l) \in Session /\ Fresh(c, NewSession(c, l))
        /\ NewSession(c, l).lang = lang'[c]
    BY <1>1, NewSessionType, NewSessionFresh
  <2>3. conn[c] \notin Cut
    BY DEF Cut
  <2>4. QED BY <1>1, <2>1, <2>2, <2>3, StartEffect
<1>3. CASE End(c, f, "broken")
  <2>1. "broken" \in Cut
    BY DEF Cut
  <2>2. QED BY <1>1, <1>3, <2>1, EndEffect
<1>4. QED BY <1>2, <1>3 DEF Rotate

LEMMA HandlerStep ==
    ASSUME IInv, NEW c \in Stream, Effect(c), Elsewhere(c), HoldInv',
           lang' \in [Stream -> Lang], fed' \in [Stream -> Nat],
           committed' \in [Stream -> Seq(1 .. Len(sess'))],
           hold' \in [at : {"free", "read", "seen", "queued"}, by : Stream, n : Nat, speech : BOOLEAN],
           UNCHANGED workerVars
    PROVE  IInv'
<1>1. TypeOK /\ \A d \in Stream : StreamInv(d)
  BY DEF IInv
<1>2. LoopChange(c, sess')
  BY DEF Effect
<1>3. BooksInv' /\ StageInv' /\ GateInv'
  BY <1>2, LoopKeepsWorker DEF IInv
<1>4. ASSUME NEW d \in Stream PROVE StreamInv(d)'
  BY <1>1, <1>2, OthersKept DEF Effect
<1>5. TypeOK'
  <2>1. /\ cand \subseteq 1 .. Len(sess') /\ due \subseteq 1 .. Len(sess')
        /\ last \subseteq 1 .. Len(sess') /\ now \in 0 .. Len(sess')
        /\ finals \in Seq(1 .. Len(sess')) /\ SessionsTyped(sess')
    BY <1>1, <1>2, Wider
  <2>2. /\ conn' \in [Stream -> {"new", "accepting", "greeting", "open", "closing"} \cup Ended]
        /\ wpc \in {"idle", "scan", "gate", "push", "decode", "route"}
    BY <1>1 DEF Effect, States, TypeOK
  <2>3. /\ wpc' = wpc /\ cand' = cand /\ now' = now /\ due' = due /\ last' = last
        /\ finals' = finals
    BY DEF workerVars
  <2>4. /\ cur' \in [Stream -> 0 .. Len(sess')]
        /\ turns' \in [Stream -> SUBSET (1 .. Len(sess'))]
        /\ outbox' \in [Stream -> Seq(1 .. Len(sess'))]
    BY DEF Effect
  <2>5. QED BY <2>1, <2>2, <2>3, <2>4 DEF TypeOK, SessionsTyped
<1>6. QED BY <1>3, <1>4, <1>5 DEF IInv, Effect

LEMMA QuietStep ==
    ASSUME IInv, NEW c \in Stream, Effect(c), Elsewhere(c), LoopFree,
           lang' \in [Stream -> Lang],
           committed' = committed \/ committed' \in [Stream -> Seq(1 .. Len(sess'))],
           fed' \in [Stream -> Nat], UNCHANGED <<hold, workerVars>>
    PROVE  IInv'
<1>1. LoopChange(c, sess') /\ TypeOK
  BY DEF Effect, IInv
<1>2. committed' \in [Stream -> Seq(1 .. Len(sess'))]
  BY <1>1, Wider
<1>3. hold' \in [at : {"free", "read", "seen", "queued"}, by : Stream, n : Nat, speech : BOOLEAN]
  BY <1>1 DEF TypeOK
<1>4. HoldInv'
  BY DEF HoldInv, LoopFree
<1>5. QED BY <1>2, <1>3, <1>4, HandlerStep

LEMMA Facts ==
    ASSUME IInv, NEW c \in Stream
    PROVE  /\ TypeOK /\ RoomInv /\ StreamInv(c) /\ SessionsTyped(sess)
           /\ lang \in [Stream -> Lang] /\ lang[c] \in Lang /\ fed \in [Stream -> Nat]
           /\ conn \in [Stream -> States] /\ LoopChange(c, sess)
           /\ [conn EXCEPT ![c] = conn[c]] = conn /\ [lang EXCEPT ![c] = lang[c]] = lang
<1>1. TypeOK /\ SessionsTyped(sess)
  BY DEF IInv, TypeOK, SessionsTyped
<1>2. /\ lang \in [Stream -> Lang] /\ fed \in [Stream -> Nat] /\ conn \in [Stream -> States]
  BY <1>1 DEF TypeOK, States
<1>3. QED BY <1>1, <1>2, SameChange DEF IInv

LEMMA CurrentFacts ==
    ASSUME IInv, NEW c \in Stream, conn[c] \in {"greeting", "open"}
    PROVE  /\ cur[c] \in DOMAIN sess /\ sess[cur[c]] \in Session
           /\ sess[cur[c]].taken <= sess[cur[c]].in
           /\ sess[cur[c]].owner = c /\ sess[cur[c]].lang = lang[c] /\ ~sess[cur[c]].ask
<1>1. cur[c] # 0 /\ sess[cur[c]].owner = c /\ sess[cur[c]].lang = lang[c] /\ ~sess[cur[c]].ask
  BY DEF IInv, StreamInv, CurrentInv
<1>2. cur[c] \in 0 .. Len(sess) /\ sess \in Seq(Session) /\ DOMAIN sess = 1 .. Len(sess)
  BY DEF IInv, TypeOK
<1>3. cur[c] \in DOMAIN sess
  BY <1>1, <1>2
<1>4. QED BY <1>1, <1>2, <1>3, SeqElement DEF IInv, TypeOK

\* The current session becomes t.
LEMMA UpdateEffect ==
    ASSUME IInv, NEW c \in Stream, conn[c] = "open",
           NEW t \in Session, LoopStep(sess[cur[c]], t), sess' = [sess EXCEPT ![cur[c]] = t],
           NEW how \in {"open", "closing"}, how = "open" => ~t.ask,
           conn' = [conn EXCEPT ![c] = how],
           UNCHANGED <<lang, cur, turns, outbox, committed>>
    PROVE  Effect(c) /\ Elsewhere(c) /\ sess'[cur[c]] = t
<1>1. /\ cur[c] \in DOMAIN sess /\ sess[cur[c]].owner = c /\ sess[cur[c]].lang = lang[c]
      /\ sess[cur[c]] \in Session
  BY CurrentFacts
<1>2. LoopChange(c, sess') /\ Len(sess') = Len(sess)
  BY <1>1, UpdateChange, Facts
<1>3. cur[c] # 0
  BY <1>1, Facts DEF TypeOK
<1>4. sess'[cur[c]] = t /\ t.lang = lang[c]
  BY <1>1, Facts DEF SessionsTyped, LoopStep
<1>5. how \in States /\ conn[c] \notin Cut
  BY DEF States, Cut
<1>6. QED BY <1>2, <1>3, <1>4, <1>5, KeepEffect, Facts

----------------------------------------------------------------------------
(* The handlers one by one *)

LEMMA ConnectStep ==
    ASSUME IInv, NEW c \in Stream, Connect(c) \/ Greet(c)
    PROVE  IInv'
<1> USE Facts
<1>1. CASE Connect(c)
  <2> DEFINE how == IF Room(sess) THEN "accepting" ELSE "refused"
  <2>1. /\ conn[c] = "new" /\ LoopFree /\ conn' = [conn EXCEPT ![c] = how]
        /\ UNCHANGED <<lang, cur, turns, outbox, committed, fed, hold, sess, workerVars>>
    BY <1>1 DEF Connect
  <2>2. turns[c] = {}
    BY <2>1 DEF StreamInv, TurnsInv
  <2>3. how \in States /\ how \notin {"greeting", "open"} /\ conn[c] \notin Cut
    BY <2>1 DEF States, Ended, Cut
  <2> HIDE DEF how
  <2>4. Effect(c) /\ Elsewhere(c)
    BY <2>1, <2>2, <2>3, KeepEffect
  <2>5. QED BY <2>1, <2>4, QuietStep
<1>2. CASE Greet(c)
  <2>1. PICK how \in {"open", "gone"} :
           /\ conn[c] = "greeting" /\ LoopFree /\ conn' = [conn EXCEPT ![c] = how]
           /\ UNCHANGED <<lang, cur, turns, outbox, committed, fed, hold, sess, workerVars>>
    BY <1>2 DEF Greet
  <2>2. cur[c] # 0 /\ sess[cur[c]].lang = lang[c] /\ ~sess[cur[c]].ask
    BY <2>1 DEF StreamInv, CurrentInv
  <2>3. how \in States /\ conn[c] \notin Cut
    BY <2>1 DEF States, Ended, Cut
  <2>4. Effect(c) /\ Elsewhere(c)
    BY <2>1, <2>2, <2>3, KeepEffect
  <2>5. QED BY <2>1, <2>4, QuietStep
<1>3. QED BY <1>1, <1>2

LEMMA StartStep ==
    ASSUME IInv, NEW c \in Stream, Start(c)
    PROVE  IInv'
<1> USE Facts
<1>1. /\ conn[c] = "accepting" /\ LoopFree /\ conn[c] \notin Cut
      /\ UNCHANGED <<lang, outbox, committed, fed, hold, workerVars>>
  BY DEF Start, Cut
<1>2. turns[c] = {}
  BY <1>1 DEF StreamInv, TurnsInv
<1>3. CASE StartTurn(c, lang[c], sess, {}) /\ conn' = [conn EXCEPT ![c] = "greeting"]
  <2>1. /\ Room(sess) /\ sess' = Append(sess, NewSession(c, lang[c]))
        /\ cur' = [cur EXCEPT ![c] = Len(sess) + 1]
        /\ turns' = [turns EXCEPT ![c] = {} \cup {Len(sess) + 1}]
    BY <1>3 DEF StartTurn
  <2>2. /\ NewSession(c, lang[c]) \in Session /\ Fresh(c, NewSession(c, lang[c]))
        /\ NewSession(c, lang[c]).lang = lang'[c]
    BY <1>1, NewSessionType, NewSessionFresh
  <2>3. /\ conn' \in [Stream -> States] /\ conn'[c] \in {"greeting", "open"}
        /\ \A d \in Stream \ {c} : conn'[d] = conn[d] /\ lang'[d] = lang[d]
    BY <1>1, <1>3 DEF States
  <2>4. {} \in SUBSET turns[c] /\ \A i \in turns[c] \ {} : ~sess[i].open /\ ~sess[i].text
    BY <1>2
  <2>5. Effect(c) /\ Elsewhere(c)
    BY <1>1, <2>1, <2>2, <2>3, <2>4, StartEffect
  <2>6. QED BY <1>1, <2>5, QuietStep
<1>4. CASE conn' = [conn EXCEPT ![c] = "refused"] /\ UNCHANGED <<cur, turns, sess>>
  <2>1. "refused" \in States
    BY DEF States, Ended
  <2>2. Effect(c) /\ Elsewhere(c)
    BY <1>1, <1>2, <1>4, <2>1, KeepEffect
  <2>3. QED BY <1>1, <2>2, QuietStep
<1>5. QED BY <1>3, <1>4 DEF Start

LEMMA CommitStep ==
    ASSUME IInv, NEW c \in Stream, Commit(c)
    PROVE  IInv'
<1> DEFINE i == cur[c]
           t == Finalize(sess[i], FALSE)
           f == [sess EXCEPT ![i] = t]
<1>1. /\ conn[c] = "open" /\ LoopFree /\ Rotate(c, lang[c], f, turns[c])
      /\ UNCHANGED <<lang, committed, fed, hold, workerVars>>
  BY DEF Commit
<1>2. /\ TypeOK /\ RoomInv /\ StreamInv(c) /\ SessionsTyped(sess) /\ lang[c] \in Lang
      /\ lang \in [Stream -> Lang] /\ fed \in [Stream -> Nat]
      /\ [lang EXCEPT ![c] = lang[c]] = lang
  BY Facts
<1>3. /\ i \in DOMAIN sess /\ sess[i] \in Session /\ sess[i].owner = c
      /\ sess[i].taken <= sess[i].in /\ ~sess[i].ask
  BY <1>1, CurrentFacts
<1>4. t \in Session /\ LoopStep(sess[i], t)
  BY <1>3, FinalizeStep
<1> HIDE DEF i, t
<1>5. LoopChange(c, f) /\ Len(f) = Len(sess)
  BY <1>2, <1>3, <1>4, UpdateChange
<1> HIDE DEF f
<1>6. Effect(c) /\ Elsewhere(c)
  BY <1>1, <1>2, <1>5, RotateEffect
<1>7. QED BY <1>1, <1>2, <1>6, QuietStep

LEMMA SwitchStep ==
    ASSUME IInv, NEW c \in Stream, NEW l \in Lang, Switch(c, l)
    PROVE  IInv'
<1> DEFINE i == cur[c]
<1>1. /\ conn[c] = "open" /\ LoopFree /\ lang' = [lang EXCEPT ![c] = l]
      /\ UNCHANGED <<committed, fed, hold, workerVars>>
  BY DEF Switch
<1>2. /\ TypeOK /\ RoomInv /\ StreamInv(c) /\ SessionsTyped(sess)
      /\ lang' \in [Stream -> Lang] /\ fed \in [Stream -> Nat] /\ LoopChange(c, sess)
  BY <1>1, Facts
<1>3. /\ i \in DOMAIN sess /\ sess[i] \in Session /\ sess[i].owner = c
      /\ sess[i].taken <= sess[i].in /\ ~sess[i].ask
  BY <1>1, CurrentFacts
<1>4. CASE Rotate(c, l, [sess EXCEPT ![i] = Finalize(@, FALSE)], turns[c])
  <2> DEFINE t == Finalize(sess[i], FALSE)
             f == [sess EXCEPT ![i] = t]
  <2>1. t \in Session /\ LoopStep(sess[i], t)
    BY <1>3, FinalizeStep
  <2>2. Rotate(c, l, f, turns[c])
    BY <1>4
  <2> HIDE DEF i, t
  <2>3. LoopChange(c, f) /\ Len(f) = Len(sess)
    BY <1>2, <1>3, <2>1, UpdateChange
  <2> HIDE DEF f
  <2>4. Effect(c) /\ Elsewhere(c)
    BY <1>1, <1>2, <2>2, <2>3, RotateEffect
  <2>5. QED BY <1>1, <1>2, <2>4, QuietStep
<1>5. CASE sess[i].in = 0 /\ Rotate(c, l, Close(sess, {i}), turns[c] \ {i})
  <2> DEFINE f == Close(sess, {i})
  <2>1. /\ f \in Seq(Session) /\ Len(f) = Len(sess)
        /\ \A j \in DOMAIN sess :
               f[j] = IF j \in {i} THEN [sess[j] EXCEPT !.open = FALSE] ELSE sess[j]
    <3> DEFINE S == {i}
    <3>1. sess \in Seq(Session)
      BY <1>2 DEF SessionsTyped
    <3> HIDE DEF S
    <3>2. /\ Close(sess, S) \in Seq(Session) /\ Len(Close(sess, S)) = Len(sess)
          /\ \A j \in DOMAIN sess :
                 Close(sess, S)[j] = IF j \in S THEN [sess[j] EXCEPT !.open = FALSE] ELSE sess[j]
      BY <3>1, CloseFacts
    <3>3. QED BY <3>2 DEF S
  <2>2. \A j \in {i} \cap DOMAIN sess : sess[j].owner = c
    BY <1>3
  <2>3. LoopChange(c, f)
    BY <1>2, <2>2, CloseChange
  <2>4. f[i] = [sess[i] EXCEPT !.open = FALSE]
    BY <1>3, <2>1
  <2>5. ~f[i].open /\ f[i].text = sess[i].text
    BY <1>3, <2>4 DEF Session
  <2>6. ~sess[i].text
    BY <1>3, <1>5, FieldTypes DEF IInv, BooksInv, Books
  <2> HIDE DEF f
  <2>7. turns[c] \ {i} \in SUBSET turns[c]
    OBVIOUS
  <2>8. \A j \in turns[c] \ (turns[c] \ {i}) : ~f[j].open /\ ~f[j].text
    BY <2>5, <2>6
  <2>9. Rotate(c, l, f, turns[c] \ {i})
    BY <1>5 DEF f
  <2>10. Effect(c) /\ Elsewhere(c)
    BY <1>1, <1>2, <2>1, <2>3, <2>7, <2>8, <2>9, RotateEffect
  <2>11. QED BY <1>1, <1>2, <2>10, QuietStep
<1>6. QED BY <1>4, <1>5 DEF Switch

LEMMA StopStep ==
    ASSUME IInv, NEW c \in Stream, Stop(c)
    PROVE  IInv'
<1> USE Facts, CurrentFacts
<1> DEFINE t == Finalize(sess[cur[c]], FALSE)
<1>1. /\ conn[c] = "open" /\ LoopFree /\ conn' = [conn EXCEPT ![c] = "closing"]
      /\ UNCHANGED <<lang, cur, turns, outbox, committed, fed, hold, workerVars>>
  BY DEF Stop
<1>2. sess' = [sess EXCEPT ![cur[c]] = t]
  BY <1>1 DEF Stop
<1>3. t \in Session /\ LoopStep(sess[cur[c]], t)
  BY <1>1, FinalizeStep
<1>4. Effect(c) /\ Elsewhere(c)
  BY <1>1, <1>2, <1>3, UpdateEffect
<1>5. QED BY <1>1, <1>4, QuietStep

LEMMA EndStep ==
    ASSUME IInv, NEW c \in Stream, Finish(c) \/ Late(c) \/ Leave(c)
    PROVE  IInv'
<1> USE Facts
<1>1. PICK how \in {"finished", "late", "left"} :
         /\ LoopFree /\ conn[c] \in {"open", "closing"} /\ End(c, sess, how)
         /\ how = "finished" => turns[c] = {}
         /\ UNCHANGED <<lang, committed, fed, hold, workerVars>>
  BY DEF Finish, Late, Leave, Awaited
<1>2. how \in Cut \cup {"finished"} /\ conn[c] \notin Cut
  BY <1>1 DEF Cut
<1>3. Effect(c) /\ Elsewhere(c)
  BY <1>1, <1>2, EndEffect
<1>4. QED BY <1>1, <1>3, QuietStep

LEMMA PumpStep ==
    ASSUME IInv, NEW c \in Stream, Pump(c)
    PROVE  IInv'
<1> DEFINE i == Head(outbox[c])
<1>1. /\ LoopFree /\ conn[c] \in {"open", "closing"} /\ outbox[c] # <<>>
      /\ committed' = [committed EXCEPT ![c] = IF sess[i].text THEN Append(@, i) ELSE @]
      /\ turns' = [turns EXCEPT ![c] = @ \ {i}]
      /\ sess' = Close(sess, {i})
      /\ outbox' = [outbox EXCEPT ![c] = Tail(@)]
      /\ UNCHANGED <<conn, lang, cur, fed, hold, workerVars>>
  BY DEF Pump
<1>2. /\ TypeOK /\ RoomInv /\ StreamInv(c) /\ SessionsTyped(sess) /\ LoopChange(c, sess)
      /\ lang \in [Stream -> Lang] /\ fed \in [Stream -> Nat] /\ conn \in [Stream -> States]
  BY Facts
<1>3. /\ outbox \in [Stream -> Seq(1 .. Len(sess))] /\ turns \in [Stream -> SUBSET (1 .. Len(sess))]
      /\ committed \in [Stream -> Seq(1 .. Len(sess))] /\ cur \in [Stream -> 0 .. Len(sess)]
      /\ sess \in Seq(Session) /\ DOMAIN sess = 1 .. Len(sess)
      /\ outbox[c] \in Seq(1 .. Len(sess)) /\ committed[c] \in Seq(1 .. Len(sess))
  BY <1>2 DEF TypeOK
<1>4. i \in 1 .. Len(sess) /\ Tail(outbox[c]) \in Seq(1 .. Len(sess)) /\ i = outbox[c][1]
      /\ 1 \in DOMAIN outbox[c]
  BY <1>1, <1>3
<1>5. sess[i].owner = c
  BY <1>2, <1>4 DEF StreamInv, QueueInv
<1> HIDE DEF i
<1>6. /\ Len(sess') = Len(sess) /\ DOMAIN sess' = DOMAIN sess /\ sess' \in Seq(Session)
      /\ \A j \in DOMAIN sess :
             sess'[j] = IF j \in {i} THEN [sess[j] EXCEPT !.open = FALSE] ELSE sess[j]
  <2> DEFINE S == {i}
  <2>1. sess' = Close(sess, S) /\ sess \in Seq(Session)
    BY <1>1, <1>3
  <2> HIDE DEF S
  <2>2. /\ Len(sess') = Len(sess) /\ DOMAIN sess' = DOMAIN sess /\ sess' \in Seq(Session)
        /\ \A j \in DOMAIN sess :
               sess'[j] = IF j \in S THEN [sess[j] EXCEPT !.open = FALSE] ELSE sess[j]
    BY <2>1, CloseFacts
  <2>3. QED BY <2>2 DEF S
<1>7. LoopChange(c, sess')
  <2>1. \A j \in {i} \cap DOMAIN sess : sess[j].owner = c
    BY <1>5
  <2>2. QED BY <1>1, <1>2, <2>1, CloseChange
<1>8. \A j \in DOMAIN sess :
         /\ sess'[j].owner = sess[j].owner /\ sess'[j].lang = sess[j].lang
         /\ sess'[j].text = sess[j].text /\ (sess'[j].open => sess[j].open)
  BY <1>2, <1>7, ChangeFacts
<1>9. sess[i] \in Session /\ sess[i].text \in BOOLEAN
  BY <1>3, <1>4, SeqElement, FieldTypes
<1>10. \A j \in DOMAIN sess : sess'[j].ask = sess[j].ask
  BY <1>6, <1>9 DEF Session
<1>11. ~sess'[i].open
  BY <1>3, <1>4, <1>6, <1>9 DEF Session
<1>12. /\ conn'[c] = conn[c] /\ lang'[c] = lang[c] /\ cur'[c] = cur[c]
       /\ turns'[c] = turns[c] \ {i} /\ outbox'[c] = Tail(outbox[c])
       /\ committed'[c] = IF sess[i].text THEN Append(committed[c], i) ELSE committed[c]
  BY <1>1, <1>3
<1>13. CurrentInv(c)'
  <2>1. cur[c] # 0 => cur[c] \in DOMAIN sess
    BY <1>3
  <2>2. QED BY <1>2, <1>8, <1>10, <1>12, <2>1 DEF StreamInv, CurrentInv
<1>14. \A j : (\E k \in DOMAIN committed[c] : committed[c][k] = j)
                => \E k \in DOMAIN committed'[c] : committed'[c][k] = j
  <2>1. \A k \in DOMAIN committed[c] :
           /\ k \in DOMAIN Append(committed[c], i)
           /\ Append(committed[c], i)[k] = committed[c][k]
    BY <1>3, <1>4
  <2>2. committed'[c] = committed[c] \/ committed'[c] = Append(committed[c], i)
    BY <1>12
  <2>3. QED BY <2>1, <2>2
<1>15. sess[i].text => \E k \in DOMAIN committed'[c] : committed'[c][k] = i
  <2> HAVE sess[i].text
  <2>1. committed'[c] = Append(committed[c], i)
    BY <1>12
  <2>2. /\ Len(committed[c]) + 1 \in DOMAIN Append(committed[c], i)
        /\ Append(committed[c], i)[Len(committed[c]) + 1] = i
    BY <1>3, <1>4
  <2>3. QED BY <2>1, <2>2
<1>16. TurnsInv(c)'
  <2>1. turns[c] \subseteq DOMAIN sess
    BY <1>3
  <2>2. /\ \A j \in turns[c] : sess[j].owner = c
        /\ \A j \in DOMAIN sess : sess[j].owner = c /\ sess[j].open => j \in turns[c]
        /\ \A j \in DOMAIN sess : sess[j].owner = c /\ sess[j].text =>
               j \in turns[c] \/ \E k \in DOMAIN committed[c] : committed[c][k] = j
    BY <1>1, <1>2 DEF StreamInv, TurnsInv, Cut
  <2>3. \A j \in turns'[c] : sess'[j].owner = c
    BY <1>8, <1>12, <2>1, <2>2
  <2>4. \A j \in DOMAIN sess' : sess'[j].owner = c /\ sess'[j].open => j \in turns'[c]
    BY <1>6, <1>8, <1>11, <1>12, <2>2
  <2>5. ASSUME NEW j \in DOMAIN sess', sess'[j].owner = c, sess'[j].text
        PROVE  j \in turns'[c] \/ \E k \in DOMAIN committed'[c] : committed'[c][k] = j
    <3>1. j \in DOMAIN sess /\ sess[j].owner = c /\ sess[j].text
      BY <1>6, <1>8, <2>5
    <3>2. CASE j = i
      BY <1>15, <3>1, <3>2
    <3>3. CASE j # i
      BY <1>12, <1>14, <2>2, <3>1, <3>3
    <3>4. QED BY <3>2, <3>3
  <2>6. conn'[c] \in {"open", "closing"}
    BY <1>1, <1>12
  <2>7. QED BY <2>3, <2>4, <2>5, <2>6 DEF TurnsInv
<1>17. QueueInv(c)'
  <2>1. \A k \in DOMAIN Tail(outbox[c]) :
           k + 1 \in DOMAIN outbox[c] /\ Tail(outbox[c])[k] = outbox[c][k + 1]
    BY <1>1, <1>3
  <2>2. \A k \in DOMAIN outbox[c] : outbox[c][k] \in DOMAIN sess /\ sess[outbox[c][k]].owner = c
    BY <1>2, <1>3, SeqElement DEF StreamInv, QueueInv
  <2>3. QED BY <1>8, <1>12, <2>1, <2>2 DEF QueueInv
<1>18. RoomInv'
  <2>1. Live(sess') \subseteq Live(sess)
    BY <1>6, <1>8 DEF Live
  <2>2. QED BY <1>2, <1>6, <2>1, FewerLive
<1>19. /\ conn' \in [Stream -> States] /\ cur' \in [Stream -> 0 .. Len(sess')]
       /\ turns' \in [Stream -> SUBSET (1 .. Len(sess'))]
       /\ outbox' \in [Stream -> Seq(1 .. Len(sess'))]
  BY <1>1, <1>2, <1>3, <1>4, <1>6
<1>20. committed' \in [Stream -> Seq(1 .. Len(sess'))]
  <2>1. Append(committed[c], i) \in Seq(1 .. Len(sess))
    BY <1>3, <1>4
  <2>2. QED BY <1>1, <1>3, <1>6, <2>1
<1>21. Elsewhere(c)
  BY <1>1, <1>2, <1>3 DEF Elsewhere
<1>22. Effect(c)
  BY <1>7, <1>13, <1>16, <1>17, <1>18, <1>19 DEF Effect, StreamInv
<1>23. QED BY <1>1, <1>2, <1>20, <1>21, <1>22, QuietStep

HoldType == [at : {"free", "read", "seen", "queued"}, by : Stream, n : Nat, speech : BOOLEAN]

LEMMA FeedsStep ==
    ASSUME IInv, NEW c \in Stream, NEW n \in Sizes, NEW speech \in BOOLEAN, Feed(c, n, speech)
    PROVE  IInv'
<1> DEFINE s == sess[cur[c]]
           t == FeedStep("read", s, n, speech)
<1>1. /\ conn[c] = "open" /\ LoopFree /\ fed' = [fed EXCEPT ![c] = @ + n]
      /\ UNCHANGED <<lang, committed, workerVars>>
  BY DEF Feed
<1>2. /\ TypeOK /\ RoomInv /\ StreamInv(c) /\ SessionsTyped(sess) /\ LoopChange(c, sess)
      /\ lang \in [Stream -> Lang] /\ fed \in [Stream -> Nat]
      /\ [conn EXCEPT ![c] = conn[c]] = conn
  BY Facts
<1>3. n \in Nat /\ fed' \in [Stream -> Nat]
  BY <1>1, <1>2, AudioAssumption
<1>4. s \in Session /\ s.owner = c /\ s.taken <= s.in /\ ~s.ask /\ cur[c] \in DOMAIN sess
  BY <1>1, CurrentFacts
<1>5. CASE /\ sess' = [sess EXCEPT ![cur[c]] = t]
           /\ hold' = [at |-> "seen", by |-> c, n |-> n, speech |-> speech]
           /\ UNCHANGED <<conn, cur, turns, outbox>>
  <2>1. /\ t \in Session /\ LoopStep(s, t) /\ ~t.ask /\ (VadOn /\ speech => t.heard)
    BY <1>3, <1>4, ObserveStep DEF FeedStep
  <2> HIDE DEF s, t
  <2>2. conn' = [conn EXCEPT ![c] = "open"]
    BY <1>1, <1>2, <1>5
  <2>3. LoopStep(sess[cur[c]], t)
    BY <2>1 DEF s
  <2>4. Effect(c) /\ Elsewhere(c) /\ sess'[cur[c]] = t
    BY <1>1, <1>5, <2>1, <2>2, <2>3, UpdateEffect
  <2>5. hold' \in HoldType /\ hold'.by = c /\ hold'.speech = speech
    BY <1>3, <1>5 DEF HoldType
  <2>6. HoldInv'
    BY <1>1, <1>5, <2>1, <2>4, <2>5 DEF HoldInv
  <2>7. committed' \in [Stream -> Seq(1 .. Len(sess'))]
    BY <1>1, <1>2, <2>4, Wider DEF Effect
  <2>8. QED BY <1>1, <1>2, <1>3, <2>4, <2>5, <2>6, <2>7, HandlerStep DEF HoldType
<1>6. CASE End(c, sess, "broken") /\ UNCHANGED hold
  <2>1. "broken" \in Cut /\ conn[c] \notin Cut
    BY <1>1 DEF Cut
  <2>2. Effect(c) /\ Elsewhere(c)
    BY <1>1, <1>2, <1>6, <2>1, EndEffect
  <2>3. QED BY <1>1, <1>2, <1>3, <1>6, <2>2, QuietStep
<1>7. QED BY <1>5, <1>6 DEF Feed

LEMMA PostStep ==
    ASSUME IInv, NEW c \in Stream, NEW n \in Sizes, NEW speech \in BOOLEAN, Post(c, n, speech)
    PROVE  IInv'
<1> DEFINE s == NewSession(c, lang[c])
           t == FeedStep("read", s, n, speech)
<1>1. /\ conn[c] = "new" /\ LoopFree /\ fed' = [fed EXCEPT ![c] = n]
      /\ UNCHANGED <<lang, outbox, committed, workerVars>>
  BY DEF Post
<1>2. /\ TypeOK /\ RoomInv /\ StreamInv(c) /\ SessionsTyped(sess) /\ LoopChange(c, sess)
      /\ lang \in [Stream -> Lang] /\ lang[c] \in Lang /\ fed \in [Stream -> Nat]
      /\ conn \in [Stream -> States]
  BY Facts
<1>3. n \in Nat /\ fed' \in [Stream -> Nat]
  BY <1>1, <1>2, AudioAssumption
<1>4. turns[c] = {} /\ conn[c] \notin Cut
  BY <1>1, <1>2 DEF StreamInv, TurnsInv, Cut
<1>5. CASE /\ Room(sess) /\ sess' = Append(sess, t)
           /\ cur' = [cur EXCEPT ![c] = Len(sess) + 1]
           /\ turns' = [turns EXCEPT ![c] = {Len(sess) + 1}]
           /\ conn' = [conn EXCEPT ![c] = "open"]
           /\ hold' = [at |-> "seen", by |-> c, n |-> n, speech |-> speech]
  <2>1. s \in Session /\ Fresh(c, s) /\ s.lang = lang[c]
    BY <1>2, NewSessionType, NewSessionFresh
  <2>2. /\ t \in Session /\ LoopStep(s, t) /\ t.ask = s.ask /\ t.in = s.in /\ t.mute = s.mute
        /\ t.got = s.got /\ t.cut = s.cut
        /\ (VadOn /\ speech => t.heard)
    BY <1>3, <2>1, ObserveStep DEF FeedStep, Fresh
  <2> HIDE DEF s, t
  <2>3. Fresh(c, t) /\ t.lang = lang'[c]
    BY <1>1, <2>1, <2>2 DEF Fresh, LoopStep
  <2>4. /\ conn' \in [Stream -> States] /\ conn'[c] \in {"greeting", "open"} /\ conn'[c] = "open"
        /\ \A d \in Stream \ {c} : conn'[d] = conn[d] /\ lang'[d] = lang[d]
    BY <1>1, <1>2, <1>5 DEF States
  <2>5. /\ {} \in SUBSET turns[c] /\ \A i \in turns[c] \ {} : ~sess[i].open /\ ~sess[i].text
        /\ turns' = [turns EXCEPT ![c] = {} \cup {Len(sess) + 1}]
    BY <1>4, <1>5
  <2>6. Effect(c) /\ Elsewhere(c)
    BY <1>1, <1>2, <1>4, <1>5, <2>2, <2>3, <2>4, <2>5, StartEffect
  <2>7. sess'[Len(sess) + 1] = t /\ cur'[c] = Len(sess) + 1
    BY <1>2, <1>5 DEF SessionsTyped, TypeOK
  <2>8. hold' \in HoldType /\ hold'.by = c /\ hold'.speech = speech
    BY <1>3, <1>5 DEF HoldType
  <2>9. HoldInv'
    BY <2>2, <2>4, <2>7, <2>8 DEF HoldInv
  <2>10. committed' \in [Stream -> Seq(1 .. Len(sess'))]
    BY <1>1, <1>2, <2>6, Wider DEF Effect
  <2>11. QED BY <1>1, <1>2, <1>3, <2>6, <2>8, <2>9, <2>10, HandlerStep DEF HoldType
<1>6. CASE conn' = [conn EXCEPT ![c] = "refused"] /\ UNCHANGED <<cur, turns, hold, sess>>
  <2>1. "refused" \in States
    BY DEF States, Ended
  <2>2. Effect(c) /\ Elsewhere(c)
    BY <1>1, <1>2, <1>4, <1>6, <2>1, KeepEffect
  <2>3. QED BY <1>1, <1>2, <1>3, <1>6, <2>2, QuietStep
<1>7. QED BY <1>5, <1>6 DEF Post

LEMMA EnqueueStep ==
    ASSUME IInv, NEW c \in Stream, Enqueue(c)
    PROVE  IInv'
<1> DEFINE s == sess[cur[c]]
           t == FeedStep("seen", s, hold.n, hold.speech)
<1>1. /\ hold.at = "seen" /\ hold.by = c /\ hold' = [hold EXCEPT !.at = "queued"]
      /\ sess' = [sess EXCEPT ![cur[c]] = t]
      /\ UNCHANGED <<conn, lang, cur, turns, outbox, committed, fed, workerVars>>
  BY DEF Enqueue, streamVars
<1>2. /\ TypeOK /\ RoomInv /\ StreamInv(c) /\ SessionsTyped(sess) /\ LoopChange(c, sess)
      /\ lang \in [Stream -> Lang] /\ fed \in [Stream -> Nat]
      /\ [conn EXCEPT ![c] = conn[c]] = conn
  BY Facts
<1>3. hold \in HoldType /\ hold.n \in Nat /\ hold.speech \in BOOLEAN
  BY <1>2 DEF TypeOK, HoldType
<1>4. conn[c] = "open" /\ (VadOn /\ ~s.heard => ~hold.speech)
  BY <1>1 DEF IInv, HoldInv
<1>5. s \in Session /\ s.owner = c /\ s.taken <= s.in /\ ~s.ask /\ cur[c] \in DOMAIN sess
  BY <1>4, CurrentFacts
<1>6. t \in Session /\ LoopStep(s, t) /\ ~t.ask
  BY <1>3, <1>4, <1>5, AcceptStep DEF FeedStep
<1> HIDE DEF t
<1>7. Effect(c) /\ Elsewhere(c)
  BY <1>1, <1>2, <1>4, <1>6, UpdateEffect
<1>8. hold' \in HoldType /\ hold'.at = "queued" /\ hold'.by = c
  BY <1>1, <1>3 DEF HoldType
<1>9. HoldInv'
  BY <1>1, <1>4, <1>8 DEF HoldInv
<1>10. committed' \in [Stream -> Seq(1 .. Len(sess'))]
  BY <1>1, <1>2, <1>7, Wider DEF Effect
<1>11. QED BY <1>1, <1>2, <1>7, <1>8, <1>9, <1>10, HandlerStep DEF HoldType

LEMMA SettleStep ==
    ASSUME IInv, NEW c \in Stream, Settle(c)
    PROVE  IInv'
<1> DEFINE s == sess[cur[c]]
           Asked(drop) == [sess EXCEPT ![cur[c]] = Finalize(s, drop)]
<1>1. /\ hold.at = "queued" /\ hold.by = c /\ hold' = Idle
      /\ UNCHANGED <<lang, committed, fed, workerVars>>
  BY DEF Settle
<1>2. /\ TypeOK /\ RoomInv /\ StreamInv(c) /\ SessionsTyped(sess) /\ LoopChange(c, sess)
      /\ lang \in [Stream -> Lang] /\ lang[c] \in Lang /\ fed \in [Stream -> Nat]
      /\ [conn EXCEPT ![c] = conn[c]] = conn /\ [lang EXCEPT ![c] = lang[c]] = lang
  BY Facts
<1>3. conn[c] = "open"
  BY <1>1 DEF IInv, HoldInv
<1>4. s \in Session /\ s.owner = c /\ s.taken <= s.in /\ ~s.ask /\ s.lang = lang[c]
      /\ cur[c] \in DOMAIN sess
  BY <1>3, CurrentFacts
<1>5. hold' \in HoldType /\ hold'.at = "free"
  BY <1>1, StreamAssumption DEF HoldType, Idle
<1>6. HoldInv'
  BY <1>5 DEF HoldInv
<1>7. SUFFICES Effect(c) /\ Elsewhere(c)
  <2>1. ASSUME Effect(c) /\ Elsewhere(c) PROVE committed' \in [Stream -> Seq(1 .. Len(sess'))]
    BY <1>1, <1>2, <2>1, Wider DEF Effect
  <2>2. QED BY <1>1, <1>2, <1>5, <1>6, <2>1, HandlerStep DEF HoldType
<1>8. CASE /\ sess' = Asked(FALSE) /\ conn' = [conn EXCEPT ![c] = "closing"]
           /\ UNCHANGED <<cur, turns, outbox>>
  <2>1. Finalize(s, FALSE) \in Session /\ LoopStep(s, Finalize(s, FALSE))
    BY <1>4, FinalizeStep
  <2>2. QED BY <1>1, <1>3, <1>8, <2>1, UpdateEffect
<1>9. CASE Rotate(c, lang[c], Asked(TurnOver(c, s)), turns[c])
  <2> DEFINE drop == TurnOver(c, s)
             t == Finalize(s, drop)
             f == [sess EXCEPT ![cur[c]] = t]
  <2>1. drop \in BOOLEAN /\ (drop => VadOn /\ s.heard /\ s.owner \in Endpoint)
    BY <1>4 DEF TurnOver, Endpointed
  <2>2. t \in Session /\ LoopStep(s, t)
    <3> HIDE DEF drop
    <3>1. QED BY <1>4, <2>1, FinalizeStep
  <2>3. Rotate(c, lang[c], f, turns[c])
    BY <1>9
  <2> HIDE DEF t, drop
  <2>4. LoopChange(c, f) /\ Len(f) = Len(sess)
    BY <1>2, <1>4, <2>2, UpdateChange
  <2> HIDE DEF f, s
  <2>5. QED BY <1>1, <1>2, <1>3, <2>3, <2>4, RotateEffect
<1>10. CASE UNCHANGED <<conn, cur, turns, outbox, sess>>
  <2>1. "open" \in States /\ conn[c] \notin Cut /\ conn' = [conn EXCEPT ![c] = "open"]
    BY <1>2, <1>3, <1>10 DEF States, Cut
  <2>2. cur[c] # 0 /\ sess'[cur[c]].lang = lang[c] /\ ~sess'[cur[c]].ask
    BY <1>2, <1>4, <1>10 DEF SessionsTyped
  <2>3. LoopChange(c, sess') /\ Len(sess') = Len(sess)
    BY <1>2, <1>10
  <2>4. QED BY <1>1, <1>2, <1>3, <1>10, <2>1, <2>2, <2>3, KeepEffect
<1>11. QED BY <1>8, <1>9, <1>10 DEF Settle

----------------------------------------------------------------------------
(* The theorems *)

LEMMA InitInv == Init => IInv
<1> SUFFICES ASSUME Init PROVE IInv
  OBVIOUS
<1>1. /\ sess = <<>> /\ Len(sess) = 0 /\ DOMAIN sess = {} /\ sess \in Seq(Session)
      /\ finals = <<>> /\ wpc = "idle" /\ cand = {} /\ due = {} /\ last = {} /\ now = 0
      /\ hold = Idle
  BY DEF Init
<1>2. hold \in [at : {"free", "read", "seen", "queued"}, by : Stream, n : Nat, speech : BOOLEAN]
      /\ hold.at = "free"
  BY <1>1, StreamAssumption DEF Idle
<1>3. \A S : <<>> \in Seq(S)
  OBVIOUS
<1>4. TypeOK
  <2>1. /\ conn \in [Stream -> {"new", "accepting", "greeting", "open", "closing"} \cup Ended]
        /\ lang \in [Stream -> Lang] /\ cur \in [Stream -> 0 .. Len(sess)]
        /\ turns \in [Stream -> SUBSET (1 .. Len(sess))] /\ fed \in [Stream -> Nat]
    BY <1>1, StreamAssumption DEF Init
  <2>2. /\ outbox \in [Stream -> Seq(1 .. Len(sess))]
        /\ committed \in [Stream -> Seq(1 .. Len(sess))]
    BY <1>3 DEF Init
  <2>3. QED BY <1>1, <1>2, <1>3, <2>1, <2>2 DEF TypeOK
<1>5. ASSUME NEW c \in Stream PROVE StreamInv(c)
  <2>1. conn[c] = "new" /\ cur[c] = 0 /\ turns[c] = {} /\ outbox[c] = <<>>
    BY DEF Init
  <2>2. QED BY <1>1, <2>1 DEF StreamInv, CurrentInv, TurnsInv, QueueInv
<1>6. RoomInv
  <2>1. Live(sess) = {}
    BY <1>1 DEF Live
  <2>2. QED BY <2>1, FS_EmptySet, AudioAssumption DEF RoomInv
<1>7. HoldInv /\ BooksInv /\ StageInv /\ GateInv
  BY <1>1, <1>2 DEF HoldInv, BooksInv, StageInv, GateInv
<1>8. QED BY <1>4, <1>5, <1>6, <1>7 DEF IInv

LEMMA NextInv == IInv /\ [Next]_vars => IInv'
<1> SUFFICES ASSUME IInv, [Next]_vars PROVE IInv'
  OBVIOUS
<1>1. CASE Worker
  BY <1>1, WorkerStep
<1>2. ASSUME NEW c \in Stream, Handler(c)
      PROVE  IInv'
  <2>1. CASE Connect(c) \/ Greet(c)
    BY <2>1, ConnectStep
  <2>2. CASE Start(c) \/ Commit(c) \/ Stop(c) \/ Pump(c)
    BY <2>2, StartStep, CommitStep, StopStep, PumpStep
  <2>3. CASE Enqueue(c) \/ Settle(c)
    BY <2>3, EnqueueStep, SettleStep
  <2>4. CASE Finish(c) \/ Late(c) \/ Leave(c)
    BY <2>4, EndStep
  <2>5. CASE \E n \in Sizes, speech \in BOOLEAN : Feed(c, n, speech) \/ Post(c, n, speech)
    BY <2>5, FeedsStep, PostStep
  <2>6. CASE \E l \in Lang : Switch(c, l)
    BY <2>6, SwitchStep
  <2>7. QED BY <1>2, <2>1, <2>2, <2>3, <2>4, <2>5, <2>6 DEF Handler
<1>3. CASE UNCHANGED vars
  <2>1. /\ conn' = conn /\ lang' = lang /\ cur' = cur /\ turns' = turns /\ outbox' = outbox
        /\ committed' = committed /\ fed' = fed /\ hold' = hold /\ sess' = sess
        /\ wpc' = wpc /\ cand' = cand /\ now' = now /\ due' = due /\ last' = last
        /\ finals' = finals
    BY <1>3 DEF vars, streamVars, workerVars
  <2>2. TypeOK' /\ RoomInv' /\ HoldInv'
    BY <2>1 DEF IInv, TypeOK, RoomInv, HoldInv
  <2>3. BooksInv' /\ StageInv' /\ GateInv'
    BY <2>1 DEF IInv, BooksInv, StageInv, GateInv
  <2>4. \A c \in Stream : StreamInv(c)'
    BY <2>1 DEF IInv, StreamInv, CurrentInv, TurnsInv, QueueInv
  <2>5. QED BY <2>2, <2>3, <2>4 DEF IInv
<1>4. QED BY <1>1, <1>2, <1>3 DEF Next

\* In every reachable state the loop's view of each stream, the worker's books
\* of each session and the stage of the tick agree.
THEOREM Invariant == Spec => []IInv
BY InitInv, NextInv, PTL DEF Spec

\* Every handler and every step of a tick keeps the types of the state.
THEOREM RecogniserTypes == Spec => []TypeOK
<1>1. IInv => TypeOK
  BY DEF IInv
<1>2. QED BY <1>1, Invariant, PTL

\* Between ticks, no session that may still speak has audio that was taken from
\* its queue and is not in its buffer, the audio of the silence gate included.
THEOREM BuffersStayAligned == Spec => []BufferAligned
<1>1. IInv => BufferAligned
  <2> SUFFICES ASSUME IInv, wpc = "idle", NEW i \in DOMAIN sess, ~sess[i].done, ~sess[i].harmed
               PROVE  sess[i].buf = sess[i].taken
    BY DEF BufferAligned
  <2>1. sess[i] \in Session
    BY SeqElement DEF IInv, TypeOK
  <2>2. Books(sess[i]) /\ ~(sess[i].hand > 0)
    BY DEF IInv, BooksInv, StageInv
  <2>3. sess[i].hand = 0 /\ sess[i].buf + sess[i].hand = sess[i].taken
    BY <2>1, <2>2, FieldTypes DEF Books
  <2>4. QED BY <2>1, <2>3, FieldTypes
<1>2. QED BY <1>1, Invariant, PTL

\* A turn decoded to its end was given every sample it was fed but those that the
\* endpoint discarded, and none is discarded on a stream without endpoints.
THEOREM TurnsAreWhole == Spec => []WholeTurn
<1>1. IInv => WholeTurn
  <2> SUFFICES ASSUME IInv, NEW i \in DOMAIN sess
               PROVE  LET s == sess[i]
                      IN  /\ s.done /\ ~s.silent /\ ~s.harmed => s.buf + s.cut = s.got
                          /\ s.cut > 0 => s.owner \in Endpoint /\ s.heard
    BY DEF WholeTurn
  <2>1. sess[i] \in Session /\ Books(sess[i])
    BY SeqElement DEF IInv, TypeOK, BooksInv
  <2>2. QED BY <2>1, FieldTypes DEF Books
<1>2. QED BY <1>1, Invariant, PTL

\* No chunk with speech in it is passed over by the silence gate, whenever the
\* loop feeds a block between the worker's test and its take.
THEOREM GateSkipsSilence == Spec => []OnlySilenceIsGated
<1>1. IInv => OnlySilenceIsGated
  BY DEF IInv, BooksInv, Books, OnlySilenceIsGated
<1>2. QED BY <1>1, Invariant, PTL

\* The turn an open stream feeds is one that was not asked to finish, in the
\* language the last update asked for.
THEOREM LanguageIsHonoured == Spec => []LanguageHonoured
<1>1. IInv => LanguageHonoured
  BY DEF IInv, StreamInv, CurrentInv, LanguageHonoured
<1>2. QED BY <1>1, Invariant, PTL

\* The engine never holds more sessions than it allows, and each is a turn of a
\* stream in progress, or of one whose handshake failed.
THEOREM SessionsHaveOwners == Spec => []NoOrphans
<1>1. IInv => NoOrphans
  <2> SUFFICES ASSUME IInv PROVE NoOrphans
    OBVIOUS
  <2>1. RoomInv
    BY DEF IInv
  <2>2. ASSUME NEW i \in Live(sess)
        PROVE  /\ i \in turns[sess[i].owner]
               /\ conn[sess[i].owner] \in {"greeting", "open", "closing", "gone"}
    <3>1. i \in DOMAIN sess /\ sess[i].open
      BY DEF Live
    <3>2. sess[i].owner \in Stream
      BY <3>1, SeqElement, FieldTypes DEF IInv, TypeOK
    <3>3. TurnsInv(sess[i].owner)
      BY <3>2 DEF IInv, StreamInv
    <3>4. QED BY <3>1, <3>3 DEF TurnsInv
  <2>3. QED BY <2>1, <2>2 DEF NoOrphans, RoomInv
<1>2. QED BY <1>1, Invariant, PTL

\* A stream that ended after waiting for its turns has every turn with words in
\* the transcript, whichever of its sessions the worker finished first.
THEOREM StopLosesNoTurn == Spec => []StopKeepsEveryTurn
<1>1. IInv => StopKeepsEveryTurn
  <2> SUFFICES ASSUME IInv, NEW i \in DOMAIN sess, conn[sess[i].owner] = "finished", sess[i].text
               PROVE  \E k \in DOMAIN committed[sess[i].owner] : committed[sess[i].owner][k] = i
    BY DEF StopKeepsEveryTurn
  <2>1. sess[i].owner \in Stream
    BY SeqElement, FieldTypes DEF IInv, TypeOK
  <2>2. TurnsInv(sess[i].owner)
    BY <2>1 DEF IInv, StreamInv
  <2>3. QED BY <2>2 DEF TurnsInv, Cut
<1>2. QED BY <1>1, Invariant, PTL
=============================================================================
