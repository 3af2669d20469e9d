--------------------------- MODULE PluginProofs ----------------------------
(***************************************************************************)
(* Proofs about PluginNodeSystem and GoPluginSystem, for any callers,      *)
(* files, pipe capacity, pool size and number of cores, any workers of the *)
(* Go plugin and any capacity of its channel.                              *)
(***************************************************************************)
EXTENDS PluginNodeSystem, GoPluginSystem, SequenceTheorems, FiniteSetTheorems, TLAPS

-----------------------------------------------------------------------------
(* Sequences of units. *)

(* Appending to the second of two concatenated sequences, and taking the   *)
(* head off the first, act on the whole.                                   *)
LEMMA ConcatAppend ==
    ASSUME NEW S, NEW s \in Seq(S), NEW t \in Seq(S), NEW u \in S
    PROVE  s \o Append(t, u) = Append(s \o t, u)
OBVIOUS

(* Taking the head off the first of two concatenated sequences takes it off the whole. *)
LEMMA TailConcat ==
    ASSUME NEW S, NEW s \in Seq(S), NEW t \in Seq(S), s # <<>>
    PROVE  Tail(s) \o t = Tail(s \o t) /\ Head(s) = (s \o t)[1] /\ s \o t # <<>>
OBVIOUS

(* Moving the head of the second to the end of the first changes nothing.  *)
LEMMA ShiftConcat ==
    ASSUME NEW S, NEW s \in Seq(S), NEW t \in Seq(S), t # <<>>
    PROVE  Append(s, Head(t)) \o Tail(t) = s \o t
<1>1. /\ Append(s, Head(t)) \in Seq(S) /\ Tail(t) \in Seq(S)
      /\ Len(Append(s, Head(t)) \o Tail(t)) = Len(s \o t)
  OBVIOUS
<1>2. \A i \in 1..Len(s \o t) : (Append(s, Head(t)) \o Tail(t))[i] = (s \o t)[i]
  BY <1>1
<1>. QED
  BY <1>1, <1>2, SeqEqual

(* The messages of a framed wire are those whose frames are complete, and  *)
(* what is left after them is the wire from the next frame on.             *)
Framed(s) ==
    \A i \in 1..Len(s) :
        IF i % 2 = 1 THEN s[i].unit = "header"
        ELSE s[i].unit = "payload" /\ s[i - 1] = Header(s[i].msg)

(* A payload unit over messages M carries one of them. *)
LEMMA FrameUnitMessage ==
    ASSUME NEW M, NEW u \in FrameUnit(M), u.unit = "payload"
    PROVE  u.msg \in M
BY DEF FrameUnit

(* StdinData parses one message of M out of each whole frame over M. *)
LEMMA FramesType ==
    ASSUME NEW M, NEW b \in Seq(FrameUnit(M)), Framed(b)
    PROVE  /\ Frames(b) \in Seq(M)
           /\ Len(Frames(b)) = Len(b) \div 2
<1>1. \A i \in 1..(Len(b) \div 2) : b[2 * i].msg \in M
  <2>. TAKE i \in 1..(Len(b) \div 2)
  <2>1. 2 * i \in 1..Len(b) /\ (2 * i) % 2 = 0
    OBVIOUS
  <2>2. b[2 * i].unit = "payload" /\ b[2 * i] \in FrameUnit(M)
    BY <2>1 DEF Framed
  <2>. QED
    BY <2>2, FrameUnitMessage
<1>. QED
  BY <1>1 DEF Frames

(* A prefix of a framed sequence is framed. *)
LEMMA FramedPrefix ==
    ASSUME NEW M, NEW s \in Seq(FrameUnit(M)), Framed(s), NEW n \in 0..Len(s)
    PROVE  SubSeq(s, 1, n) \in Seq(FrameUnit(M)) /\ Framed(SubSeq(s, 1, n))
BY DEF Framed

(* What is left of a sequence after dropping its first j elements. *)
LEMMA SubSeqTail ==
    ASSUME NEW S, NEW s \in Seq(S), NEW j \in 0..Len(s)
    PROVE  /\ SubSeq(s, j + 1, Len(s)) \in Seq(S)
           /\ Len(SubSeq(s, j + 1, Len(s))) = Len(s) - j
           /\ \A i \in 1..(Len(s) - j) : SubSeq(s, j + 1, Len(s))[i] = s[j + i]
<1>1. \A i \in (j + 1)..Len(s) : s[i] \in S
  OBVIOUS
<1>2. j + 1 \in Int /\ Len(s) \in Int
  OBVIOUS
<1>. QED
  BY <1>1, <1>2, SubSeqProperties

(* Appending changes the parity of the length and sets the last element. *)
LEMMA AppendParity ==
    ASSUME NEW S, NEW s \in Seq(S), NEW u \in S
    PROVE  /\ Append(s, u)[Len(Append(s, u))] = u
           /\ Len(s) % 2 = 0 => Len(Append(s, u)) % 2 = 1
           /\ Len(s) % 2 = 1 => Len(Append(s, u)) % 2 = 0
<1>1. Len(Append(s, u)) = Len(s) + 1 /\ Append(s, u)[Len(s) + 1] = u
  BY AppendProperties
<1>2. Len(s) \in Nat
  OBVIOUS
<1>. QED
  BY <1>1, <1>2

(* Taking an even number away keeps the parity. *)
LEMMA EvenShift ==
    ASSUME NEW x \in Nat, NEW j \in 0..x, j % 2 = 0
    PROVE  (x - j) % 2 = x % 2
OBVIOUS

(* Dropping whole frames off the front keeps a sequence framed. *)
LEMMA FramedDrop ==
    ASSUME NEW M, NEW s \in Seq(FrameUnit(M)), Framed(s),
           NEW j \in 0..Len(s), j % 2 = 0,
           NEW t, t = SubSeq(s, j + 1, Len(s))
    PROVE  /\ t \in Seq(FrameUnit(M)) /\ Framed(t)
           /\ Len(t) % 2 = Len(s) % 2
           /\ Len(s) % 2 = 1 => t[Len(t)] = s[Len(s)]
<1>1. t \in Seq(FrameUnit(M)) /\ Len(t) = Len(s) - j
  BY SubSeqTail
<1>2. \A i \in 1..Len(t) : t[i] = s[j + i]
  BY <1>1, SubSeqTail
<1>3. Len(t) % 2 = Len(s) % 2
  <2>1. Len(s) \in Nat
    OBVIOUS
  <2>. QED
    BY <1>1, <2>1, EvenShift
<1>4. Len(s) % 2 = 1 => t[Len(t)] = s[Len(s)]
  <2>1. Len(s) % 2 = 1 => Len(t) \in 1..Len(t) /\ j + Len(t) = Len(s)
    BY <1>1
  <2>. QED
    BY <1>2, <2>1
<1>5. ASSUME NEW i \in 1..Len(t)
      PROVE  IF i % 2 = 1 THEN t[i].unit = "header"
             ELSE t[i].unit = "payload" /\ t[i - 1] = Header(t[i].msg)
  <2>1. (j + i) % 2 = i % 2 /\ j + i \in 1..Len(s)
    BY <1>1
  <2>2. t[i] = s[j + i]
    BY <1>2
  <2>3. i % 2 # 1 => i - 1 \in 1..Len(t) /\ j + (i - 1) = (j + i) - 1
    BY <1>1
  <2>4. i % 2 # 1 => t[i - 1] = s[(j + i) - 1]
    BY <1>2, <2>3
  <2>. QED
    BY <2>1, <2>2, <2>4 DEF Framed
<1>. QED
  BY <1>1, <1>3, <1>4, <1>5 DEF Framed

(* A header after a whole frame, or the announced payload after its header, keeps it framed. *)
LEMMA FramedAppend ==
    ASSUME NEW M, NEW s \in Seq(FrameUnit(M)), Framed(s), NEW u \in FrameUnit(M),
           \/ Len(s) % 2 = 0 /\ u.unit = "header"
           \/ Len(s) % 2 = 1 /\ u.unit = "payload" /\ s[Len(s)] = Header(u.msg)
    PROVE  Append(s, u) \in Seq(FrameUnit(M)) /\ Framed(Append(s, u))
<1>. DEFINE t == Append(s, u)
<1>1. /\ t \in Seq(FrameUnit(M)) /\ Len(t) = Len(s) + 1 /\ t[Len(s) + 1] = u
      /\ \A i \in 1..Len(s) : t[i] = s[i]
  BY AppendProperties
<1>. HIDE DEF t
<1>2. ASSUME NEW i \in 1..Len(t)
      PROVE  IF i % 2 = 1 THEN t[i].unit = "header"
             ELSE t[i].unit = "payload" /\ t[i - 1] = Header(t[i].msg)
  <2>1. CASE i <= Len(s)
    <3>1. i \in 1..Len(s) /\ t[i] = s[i] /\ (i % 2 # 1 => i - 1 \in 1..Len(s))
      BY <1>1, <2>1
    <3>. QED
      BY <1>1, <3>1 DEF Framed
  <2>2. CASE i = Len(s) + 1
    <3>1. t[i] = u /\ i - 1 = Len(s) /\ (i % 2 # 1 => t[i - 1] = s[Len(s)])
      BY <1>1, <2>2
    <3>. QED
      BY <2>2, <3>1
  <2>. QED
    BY <1>1, <2>1, <2>2
<1>. QED
  BY <1>1, <1>2 DEF Framed, t

(* One data event: parsing what was buffered and the n units read leaves   *)
(* the wire without the whole frames among them.                           *)
LEMMA DataEvent ==
    ASSUME NEW S, NEW r \in Seq(S), NEW s \in Seq(S), NEW n \in 1..Len(s),
           NEW b, b = r \o SubSeq(s, 1, n)
    PROVE  /\ b = SubSeq(r \o s, 1, Len(r) + n)
           /\ Partial(b) \o SubSeq(s, n + 1, Len(s))
                  = SubSeq(r \o s, 2 * (Len(b) \div 2) + 1, Len(r \o s))
<1>. DEFINE w == r \o s
            q == SubSeq(s, n + 1, Len(s))
<1>1. /\ b \in Seq(S) /\ Len(b) = Len(r) + n
      /\ w \in Seq(S) /\ Len(w) = Len(r) + Len(s)
      /\ \A i \in 1..Len(b) : b[i] = w[i]
  OBVIOUS
<1>2. b = SubSeq(w, 1, Len(r) + n)
  <2>1. /\ SubSeq(w, 1, Len(r) + n) \in Seq(S)
        /\ Len(SubSeq(w, 1, Len(r) + n)) = Len(b)
        /\ \A i \in 1..Len(b) : SubSeq(w, 1, Len(r) + n)[i] = w[i]
    BY <1>1
  <2>. QED
    BY <1>1, <2>1, SeqEqual
<1>3. q \in Seq(S) /\ Len(q) = Len(s) - n
  BY SubSeqTail
<1>4. \A i \in 1..Len(q) : q[i] = w[Len(b) + i]
  <2>1. \A i \in 1..Len(q) : q[i] = s[n + i]
    BY <1>3, SubSeqTail
  <2>. QED
    BY <1>1, <1>3, <2>1
<1>. HIDE DEF w, q
<1>5. PICK k \in 0..Len(b) : k = 2 * (Len(b) \div 2)
  BY <1>1
<1>6. PICK p : p = Partial(b)
  OBVIOUS
<1>7. p = SubSeq(b, k + 1, Len(b))
  BY <1>5, <1>6 DEF Partial
<1>8. p \in Seq(S) /\ Len(p) = Len(b) - k
  BY <1>1, <1>7, SubSeqTail
<1>9. \A i \in 1..Len(p) : p[i] = w[k + i]
  <2>1. \A i \in 1..(Len(b) - k) : p[i] = b[k + i]
    BY <1>1, <1>7, SubSeqTail
  <2>2. \A i \in 1..Len(p) : i \in 1..(Len(b) - k) /\ k + i \in 1..Len(b)
    BY <1>1, <1>8
  <2>. QED
    BY <1>1, <2>1, <2>2
<1>10. PICK z : z = SubSeq(w, k + 1, Len(w))
  OBVIOUS
<1>11. k \in 0..Len(w)
  BY <1>1
<1>12. z \in Seq(S) /\ Len(z) = Len(w) - k
  BY <1>1, <1>10, <1>11, SubSeqTail
<1>13. \A i \in 1..Len(z) : z[i] = w[k + i]
  BY <1>1, <1>10, <1>11, <1>12, SubSeqTail
<1>14. p \o q \in Seq(S) /\ Len(p \o q) = Len(z)
  <2>1. p \o q \in Seq(S) /\ Len(p \o q) = Len(p) + Len(q)
    BY <1>3, <1>8, ConcatProperties
  <2>. QED
    BY <1>1, <1>3, <1>8, <1>12, <2>1
<1>15. ASSUME NEW i \in 1..Len(z) PROVE (p \o q)[i] = z[i]
  <2>1. CASE i \in 1..Len(p)
    <3>1. (p \o q)[i] = p[i]
      BY <1>3, <1>8, <2>1
    <3>. QED
      BY <1>9, <1>13, <2>1, <3>1
  <2>2. CASE i \notin 1..Len(p)
    <3>1. i - Len(p) \in 1..Len(q) /\ Len(b) + (i - Len(p)) = k + i
      BY <1>1, <1>3, <1>8, <1>12, <2>2
    <3>2. (p \o q)[i] = q[i - Len(p)]
      <4>1. i \in 1..(Len(p) + Len(q))
        BY <1>1, <1>3, <1>8, <1>12
      <4>2. ~(i <= Len(p))
        BY <1>1, <1>8, <2>2
      <4>3. (p \o q)[i] = IF i <= Len(p) THEN p[i] ELSE q[i - Len(p)]
        BY <1>3, <1>8, <4>1, ConcatProperties
      <4>. QED
        BY <4>2, <4>3
    <3>3. q[i - Len(p)] = w[k + i]
      BY <1>4, <3>1
    <3>. QED
      BY <1>13, <3>2, <3>3
  <2>. QED
    BY <2>1, <2>2
<1>16. p \o q = z
  BY <1>12, <1>14, <1>15, SeqEqual
<1>. QED
  BY <1>2, <1>5, <1>6, <1>10, <1>16 DEF w, q

-----------------------------------------------------------------------------
(* The host, whatever the plugin.                                          *)

(* Every request asked for is a message. *)
LEMMA AskedIsMessage == HostTypeOK => Asked \subseteq Message
BY DEF HostTypeOK, Asked, RequestOf, Message

(* A request stays asked for: ids are never reused or taken back. *)
LEMMA HostAsks ==
    ASSUME HostTypeOK, IdsOwned, HostStep
    PROVE  Asked \subseteq Asked'
<1>1. CASE \E c \in Callers : DrawId(c)
  BY <1>1 DEF DrawId, Asked, RequestOf, IdsOwned, HostTypeOK
<1>2. CASE ~ \E c \in Callers : DrawId(c)
  BY <1>2 DEF HostStep, CallerStep, ReaderStep, callerVars, Asked, RequestOf,
     StoreCallback, Lock, FillSendBuf, WriteHeader, WritePayload, Unlock, Receive,
     StartFails, ReadInitHeader, ReadInitPayload, NewPluginFails, ReadHeader, ReadPayload,
     Dispatch, ReaderEOF, HostExit, HostKilled
<1>. QED
  BY <1>1, <1>2

(* CreateServiceCode: the atomic add gives every caller an id of its own.  *)
LEMMA HostIds ==
    ASSUME HostTypeOK, IdsOwned, HostStep
    PROVE  IdsOwned'
<1>. USE DEF IdsOwned, HostTypeOK
<1>1. ASSUME NEW c \in Callers, DrawId(c) PROVE IdsOwned'
  BY <1>1 DEF DrawId, Goto
<1>2. ASSUME NEW c \in Callers, StoreCallback(c) PROVE IdsOwned'
  BY <1>2 DEF StoreCallback, Goto
<1>3. ASSUME NEW c \in Callers,
             Lock(c) \/ FillSendBuf(c) \/ WriteHeader(c) \/ WritePayload(c)
               \/ Unlock(c) \/ Receive(c)
      PROVE IdsOwned'
  BY <1>3 DEF Lock, FillSendBuf, WriteHeader, WritePayload, Unlock, Receive, Goto
<1>4. CASE Dispatch
  BY <1>4 DEF Dispatch
<1>5. CASE HostExit \/ HostKilled \/ (ReaderStep /\ ~Dispatch)
  BY <1>5 DEF HostExit, HostKilled, ReaderStep, StartFails, ReadInitHeader, ReadInitPayload,
              NewPluginFails, ReadHeader, ReadPayload, ReaderEOF, callerVars
<1>. QED
  BY <1>1, <1>2, <1>3, <1>4, <1>5 DEF HostStep, CallerStep

(* CreateServiceCode: Plugin.mu guards the send buffer.                    *)
LEMMA HostSendBuf ==
    ASSUME HostTypeOK, SendBufGuarded, HostStep
    PROVE  SendBufGuarded'
<1>. USE DEF SendBufGuarded, Critical, HostTypeOK, RequestOf
<1>1. ASSUME NEW c \in Callers, DrawId(c) PROVE SendBufGuarded'
  BY <1>1 DEF DrawId, Goto
<1>2. ASSUME NEW c \in Callers, StoreCallback(c) \/ Receive(c) PROVE SendBufGuarded'
  BY <1>2 DEF StoreCallback, Receive, Goto
<1>3. ASSUME NEW c \in Callers, Lock(c) PROVE SendBufGuarded'
  BY <1>3, NoneAssumption DEF Lock, Goto
<1>4. ASSUME NEW c \in Callers, FillSendBuf(c) PROVE SendBufGuarded'
  BY <1>4 DEF FillSendBuf, Goto
<1>5. ASSUME NEW c \in Callers, WriteHeader(c) \/ WritePayload(c) PROVE SendBufGuarded'
  BY <1>5 DEF WriteHeader, WritePayload, Goto
<1>6. ASSUME NEW c \in Callers, Unlock(c) PROVE SendBufGuarded'
  BY <1>6 DEF Unlock, Goto
<1>7. CASE HostExit \/ HostKilled \/ ReaderStep
  BY <1>7 DEF HostExit, HostKilled, ReaderStep, StartFails, ReadInitHeader, ReadInitPayload,
              NewPluginFails, ReadHeader, ReadPayload, Dispatch, ReaderEOF, callerVars
<1>. QED
  BY <1>1, <1>2, <1>3, <1>4, <1>5, <1>6, <1>7 DEF HostStep, CallerStep

(* The reader hands a caller the code of the request with the caller's id. *)
LEMMA HostAnswers ==
    ASSUME HostTypeOK, IdsOwned, AnswersOwnFile, HostStep,
           readerPc = "dispatch" => recvBuf \in Asked
    PROVE  AnswersOwnFile'
<1>. USE DEF IdsOwned, AnswersOwnFile, HostTypeOK
<1>1. ASSUME NEW c \in Callers, CallerStep(c) PROVE AnswersOwnFile'
  BY <1>1 DEF CallerStep, DrawId, StoreCallback, Lock, FillSendBuf, WriteHeader,
              WritePayload, Unlock, Receive
<1>2. CASE Dispatch
  <2>1. CASE recvBuf.id \notin DOMAIN pending
    BY <1>2, <2>1 DEF Dispatch
  <2>2. CASE recvBuf.id \in DOMAIN pending
    <3>1. PICK c \in Callers : recvBuf = RequestOf(c) /\ idOf[c] # 0
      BY <1>2 DEF Dispatch, Asked
    <3>2. idOf[pending[recvBuf.id]] = recvBuf.id /\ pending[recvBuf.id] \in Callers
      BY <2>2 DEF IdsOwned
    <3>3. pending[recvBuf.id] = c /\ recvBuf.file = fileOf[c]
      BY <3>1, <3>2 DEF IdsOwned, RequestOf
    <3>. QED
      BY <1>2, <2>2, <3>3 DEF Dispatch
  <2>. QED
    BY <2>1, <2>2
<1>3. CASE HostExit \/ HostKilled \/ (ReaderStep /\ ~Dispatch)
  BY <1>3 DEF HostExit, HostKilled, ReaderStep, StartFails, ReadInitHeader, ReadInitPayload,
              NewPluginFails, ReadHeader, ReadPayload, ReaderEOF, callerVars
<1>. QED
  BY <1>1, <1>2, <1>3 DEF HostStep

(* The host's own variables keep their types.                              *)
LEMMA HostTypes ==
    ASSUME HostTypeOK, HostStep,
           readerPc = "dispatch" => recvBuf \in Asked,
           ReadPayload => recvBuf' \in Asked
    PROVE  HostTypeOK'
<1>. USE DEF HostTypeOK
<1>1. ASSUME NEW c \in Callers, CallerStep(c) PROVE HostTypeOK'
  <2>1. CASE DrawId(c)
    BY <2>1 DEF DrawId, Goto, CallerSteps, readerVars, pipeVars
  <2>2. CASE StoreCallback(c)
    BY <2>2 DEF StoreCallback, Goto, CallerSteps, readerVars, pipeVars
  <2>3. CASE Lock(c) \/ Unlock(c) \/ Receive(c)
    BY <2>3 DEF Lock, Unlock, Receive, Goto, CallerSteps, readerVars, pipeVars
  <2>4. CASE FillSendBuf(c)
    BY <2>4 DEF FillSendBuf, Goto, CallerSteps, RequestOf, Message, readerVars, pipeVars
  <2>5. CASE WriteHeader(c) \/ WritePayload(c)
    BY <2>5 DEF WriteHeader, WritePayload, Goto, CallerSteps, readerVars
  <2>. QED
    BY <1>1, <2>1, <2>2, <2>3, <2>4, <2>5 DEF CallerStep
<1>2. CASE ReadPayload
  <2>1. recvBuf' \in Message
    BY <1>2, AskedIsMessage
  <2>. QED
    BY <1>2, <2>1 DEF ReadPayload, callerVars
<1>3. CASE Dispatch
  <2>1. recvBuf \in Message
    BY <1>3, AskedIsMessage DEF Dispatch
  <2>. QED
    BY <1>3, <2>1 DEF Dispatch, Message
<1>4. CASE \/ HostExit \/ HostKilled \/ StartFails \/ ReadInitHeader \/ ReadInitPayload
           \/ NewPluginFails \/ ReadHeader \/ ReaderEOF
  BY <1>4 DEF HostExit, HostKilled, StartFails, ReadInitHeader, ReadInitPayload,
      NewPluginFails, ReadHeader, ReaderEOF, callerVars, readerVars
<1>. QED
  BY <1>1, <1>2, <1>3, <1>4 DEF HostStep, ReaderStep

-----------------------------------------------------------------------------
(* The invariant holds initially. *)

(* Init establishes every part of the invariant. *)
LEMMA InitIInv == Init => IInv
<1>. SUFFICES ASSUME Init PROVE IInv
  OBVIOUS
<1>. USE DEF Init, PipesInit, HostInit, NodeInit
<1>1. TypeOK
  BY DEF TypeOK, HostTypeOK, CallerSteps
<1>2. IdsOwned /\ SendBufGuarded /\ AnswersOwnFile
  BY DEF IdsOwned, SendBufGuarded, Critical, AnswersOwnFile
<1>3. PluginHoldsAsked
  BY DEF PluginHoldsAsked
<1>4. Wire = <<>> /\ OutStream = <<>>
  BY DEF Wire, OutStream
<1>5. WireFramed
  BY <1>4 DEF WireFramed, FramesIntact
<1>6. OutFramed /\ ReaderOK
  BY <1>4 DEF OutFramed, ReaderOK, InitLeft, HeaderRead
<1>. QED
  BY <1>1, <1>2, <1>3, <1>5, <1>6 DEF IInv

-----------------------------------------------------------------------------
(* A step changes who asked for what only when a caller draws its id.      *)

(* Every request asked for is a message. *)
LEMMA AskedType == TypeOK => Asked \subseteq Message
BY DEF TypeOK, HostTypeOK, Asked, RequestOf, Message

(* Only DrawId (the atomic add) changes the counter and the callers' ids. *)
LEMMA OnlyDrawIdDraws ==
    ASSUME [Next]_vars, ~ \E c \in Callers : DrawId(c)
    PROVE  UNCHANGED <<idOf, fileOf, reqId>>
BY DEF Next, HostStep, NodeStep, CallerStep, ReaderStep, vars, hostVars, callerVars, readerVars,
       StoreCallback, Lock, FillSendBuf, WriteHeader, WritePayload, Unlock, Receive,
       StartFails, ReadInitHeader, ReadInitPayload, NewPluginFails, ReadHeader, ReadPayload,
       Dispatch, ReaderEOF, HostExit, HostKilled

(* A request stays asked for: ids are never reused or taken back. *)
LEMMA AskedGrows ==
    ASSUME IInv, [Next]_vars
    PROVE  Asked \subseteq Asked'
<1>1. CASE \E c \in Callers : DrawId(c)
  BY <1>1 DEF DrawId, Asked, RequestOf, IInv, IdsOwned, TypeOK, HostTypeOK
<1>2. CASE ~ \E c \in Callers : DrawId(c)
  BY <1>2, OnlyDrawIdDraws DEF Asked, RequestOf
<1>. QED
  BY <1>1, <1>2

-----------------------------------------------------------------------------
(* Each part of the invariant is kept by every step. *)

(* A step is one of the plugin, which leaves the host's variables alone, or one of the host. *)
LEMMA HostFrame ==
    ASSUME [Next]_vars
    PROVE  \/ UNCHANGED hostVars /\ (NodeStep \/ UNCHANGED vars)
           \/ HostStep /\ UNCHANGED nodeVars
BY DEF Next, vars, hostVars, nodeVars

(* CreateServiceCode: the atomic add gives every caller an id of its own. *)
LEMMA IdsOwnedStep ==
    ASSUME IInv, [Next]_vars
    PROVE  IdsOwned'
<1>. USE DEF IInv, IdsOwned, TypeOK, HostTypeOK
<1>1. CASE UNCHANGED hostVars
  BY <1>1 DEF hostVars
<1>2. CASE HostStep
  BY <1>2, HostIds DEF IInv, TypeOK
<1>. QED
  BY <1>1, <1>2, HostFrame

(* CreateServiceCode: Plugin.mu guards the send buffer. *)
LEMMA SendBufGuardedStep ==
    ASSUME IInv, [Next]_vars
    PROVE  SendBufGuarded'
<1>. USE DEF IInv, SendBufGuarded, Critical, TypeOK, HostTypeOK, RequestOf
<1>1. CASE UNCHANGED hostVars
  BY <1>1 DEF hostVars
<1>2. CASE HostStep
  BY <1>2, HostSendBuf DEF IInv, TypeOK
<1>. QED
  BY <1>1, <1>2, HostFrame

(* The reader hands a caller the code of the request with the caller's id. *)
LEMMA AnswersOwnFileStep ==
    ASSUME IInv, [Next]_vars
    PROVE  AnswersOwnFile'
<1>. USE DEF IInv, AnswersOwnFile, TypeOK, HostTypeOK
<1>1. CASE UNCHANGED hostVars
  BY <1>1 DEF hostVars
<1>2. CASE HostStep
  BY <1>2, HostAnswers DEF IInv, TypeOK, ReaderOK
<1>. QED
  BY <1>1, <1>2, HostFrame

(* What a data event parses are requests. *)
LEMMA ParsedAsked ==
    ASSUME IInv, NEW n \in 1..Len(stdin)
    PROVE  LET b == recvBuffer \o SubSeq(stdin, 1, n)
           IN  /\ b \in Seq(FrameUnit(Asked)) /\ Framed(b)
               /\ Len(b) \in Nat /\ Len(b) = Len(recvBuffer) + n
               /\ Frames(b) \in Seq(Asked) /\ Len(Frames(b)) = Len(b) \div 2
               /\ Partial(b) \o SubSeq(stdin, n + 1, Len(stdin))
                     = SubSeq(Wire, 2 * (Len(b) \div 2) + 1, Len(Wire))
<1>. DEFINE b == recvBuffer \o SubSeq(stdin, 1, n)
<1>1. /\ stdin \in Seq(Unit) /\ recvBuffer \in Seq(Unit)
      /\ Wire \in Seq(FrameUnit(Asked)) /\ Framed(Wire)
      /\ Wire = recvBuffer \o stdin
  BY DEF IInv, TypeOK, WireFramed, FramesIntact, Framed, Wire
<1>2. Len(recvBuffer) + n \in 0..Len(Wire) /\ Len(b) = Len(recvBuffer) + n
  BY <1>1
<1>3. /\ b = SubSeq(Wire, 1, Len(recvBuffer) + n)
      /\ Partial(b) \o SubSeq(stdin, n + 1, Len(stdin))
            = SubSeq(Wire, 2 * (Len(b) \div 2) + 1, Len(Wire))
  BY <1>1, DataEvent, ZenonT(40)
<1>. HIDE DEF b
<1>4. b \in Seq(FrameUnit(Asked)) /\ Framed(b)
  BY <1>1, <1>2, <1>3, FramedPrefix
<1>5. Frames(b) \in Seq(Asked) /\ Len(Frames(b)) = Len(b) \div 2
  BY <1>4, FramesType
<1>6. Len(b) \in Nat
  BY <1>4
<1>. QED
  BY <1>2, <1>3, <1>4, <1>5, <1>6 DEF b

(* The pool fits the workers, and an idle worker has a rank in it. *)
LEMMA PoolBound ==
    ASSUME TypeOK
    PROVE  Pool \subseteq AllWorkers
<1>1. cpus \in Nat \ {0} /\ EnvWorkers \in 0..4
  BY CpuAssumption DEF TypeOK, MaxWorkers
<1>2. WorkerHalves \in 2..8
  BY <1>1 DEF WorkerHalves
<1>3. WorkerHalves \div 2 \in 1..4
  BY <1>2
<1>. QED
  BY <1>3 DEF Pool, AllWorkers, MaxWorkers

(* The idle workers are finitely many, and each has a rank among them. *)
LEMMA IdleRanks ==
    ASSUME TypeOK
    PROVE  /\ Idle \subseteq AllWorkers
           /\ Cardinality(Idle) \in Nat
           /\ \A w \in Idle : Rank(w) \in Nat \ {0}
<1>1. Idle \subseteq AllWorkers
  BY PoolBound DEF Idle
<1>2. IsFiniteSet(AllWorkers)
  <2>1. 1 \in Int /\ MaxWorkers \in Int
    BY DEF MaxWorkers
  <2>. QED
    BY <2>1, FS_Interval DEF AllWorkers
<1>3. IsFiniteSet(Idle) /\ Cardinality(Idle) \in Nat
  BY <1>1, <1>2, FS_Subset, FS_CardinalityType
<1>4. ASSUME NEW w \in Idle PROVE Rank(w) \in Nat \ {0}
  <2>. DEFINE before == {v \in Idle : v <= w}
  <2>1. IsFiniteSet(before) /\ Cardinality(before) \in Nat
    BY <1>3, FS_Subset, FS_CardinalityType
  <2>2. w \in before
    BY <1>1 DEF AllWorkers, MaxWorkers
  <2>3. Cardinality(before) # 0
    BY <2>1, <2>2, FS_EmptySet
  <2>. QED
    BY <2>1, <2>3 DEF Rank
<1>. QED
  BY <1>1, <1>3, <1>4

(* What the plugin holds stays asked for while the plugin does nothing. *)
LEMMA HoldsMonotonic ==
    ASSUME PluginHoldsAsked, Asked \subseteq Asked', UNCHANGED <<task, taskQueue, outbox>>
    PROVE  PluginHoldsAsked'
<1>1. task' \in [AllWorkers -> SUBSET Asked']
  BY DEF PluginHoldsAsked
<1>2. taskQueue' \in Seq(Asked')
  BY SeqMonotonic DEF PluginHoldsAsked
<1>3. \A w \in AllWorkers : outbox'[w] \in Seq(Asked')
  BY SeqMonotonic DEF PluginHoldsAsked
<1>. QED
  BY <1>1, <1>2, <1>3 DEF PluginHoldsAsked

(* Tasks, queue and outboxes of the plugin hold nothing but requests of the host. *)
LEMMA PluginHoldsAskedStep ==
    ASSUME IInv, [Next]_vars
    PROVE  PluginHoldsAsked'
<1>0. Asked \subseteq Asked'
  BY AskedGrows
<1>1. CASE UNCHANGED <<task, taskQueue, outbox>>
  BY <1>0, <1>1, HoldsMonotonic DEF IInv
<1>2. CASE UNCHANGED hostVars /\ NodeStep
  <2>0. Asked' = Asked
    BY <1>2 DEF hostVars, Asked, RequestOf
  <2>. USE DEF IInv, PluginHoldsAsked
  <2>1. ASSUME NEW n \in 1..Len(stdin), StdinData(n) PROVE PluginHoldsAsked'
    <3>. DEFINE ms == Frames(recvBuffer \o SubSeq(stdin, 1, n))
    <3>1. ms \in Seq(Asked)
      BY ParsedAsked
    <3>2. /\ task' = [w \in AllWorkers |->
                        IF Dealt(w, ms) THEN task[w] \cup {ms[Rank(w)]} ELSE task[w]]
          /\ taskQueue' = taskQueue \o SubSeq(ms, Cardinality(Idle) + 1, Len(ms))
          /\ outbox' = outbox
      BY <2>1 DEF StdinData
    <3>. HIDE DEF ms
    <3>3. \A w \in AllWorkers : Dealt(w, ms) => ms[Rank(w)] \in Asked
      <4>1. \A w \in Idle : Rank(w) \in Nat \ {0}
        BY IdleRanks
      <4>. QED
        BY <3>1, <4>1 DEF Dealt
    <3>4. task' \in [AllWorkers -> SUBSET Asked]
      BY <3>2, <3>3
    <3>5. SubSeq(ms, Cardinality(Idle) + 1, Len(ms)) \in Seq(Asked)
      <4>1. Cardinality(Idle) \in Nat
        BY IdleRanks
      <4>. QED
        BY <3>1, <4>1
    <3>6. taskQueue' \in Seq(Asked)
      BY <3>2, <3>5
    <3>. QED
      BY <2>0, <3>2, <3>4, <3>6
  <2>2. ASSUME NEW w \in AllWorkers, NEW m \in task[w], WorkerDone(w, m)
        PROVE  PluginHoldsAsked'
    BY <2>0, <2>2 DEF WorkerDone
  <2>3. ASSUME NEW w \in AllWorkers, HandleAck(w)
        PROVE  PluginHoldsAsked'
    <3>1. CASE taskQueue = <<>>
      BY <2>0, <2>3, <3>1 DEF HandleAck
    <3>2. CASE taskQueue # <<>>
      <4>1. Head(taskQueue) \in Asked /\ Tail(taskQueue) \in Seq(Asked)
        BY <3>2
      <4>. QED
        BY <2>0, <2>3, <3>2, <4>1 DEF HandleAck
    <3>. QED
      BY <3>1, <3>2
  <2>4. ASSUME NEW w \in AllWorkers, Forward(w)
        PROVE  PluginHoldsAsked'
    BY <2>0, <2>4 DEF Forward
  <2>. QED
    BY <1>0, <1>1, <1>2, <2>1, <2>2, <2>3, <2>4
    DEF NodeStep, MainStep, WorkerStep, WorkerThrows, Boot, BootThrows, StdinEnd, MainWrite,
        MainWriteFails, nodeVars
<1>. QED
  BY <1>1, <1>2, HostFrame DEF vars, nodeVars

(* FramesIntact is Framed of the wire. *)
LEMMA FramedIsIntact == FramesIntact <=> Framed(Wire)
BY DEF FramesIntact, Framed

(* More messages, more units. *)
LEMMA FrameUnitGrows ==
    ASSUME NEW A, NEW B, A \subseteq B
    PROVE  FrameUnit(A) \subseteq FrameUnit(B)
BY DEF FrameUnit

(* Requests: the mutex keeps a header and its payload together, parsing takes whole frames. *)
LEMMA WireFramedStep ==
    ASSUME IInv, [Next]_vars
    PROVE  WireFramed'
<1>0. Asked \subseteq Asked' /\ FrameUnit(Asked) \subseteq FrameUnit(Asked')
  BY AskedGrows, FrameUnitGrows
<1>1. /\ Wire \in Seq(FrameUnit(Asked)) /\ Framed(Wire)
      /\ Wire \in Seq(FrameUnit(Asked'))
      /\ stdin \in Seq(Unit) /\ recvBuffer \in Seq(Unit)
  BY <1>0, FramedIsIntact, SeqMonotonic DEF IInv, WireFramed, TypeOK
<1>2. ASSUME UNCHANGED <<stdin, recvBuffer>>,
             \A c \in Callers : pc'[c] = "writePayload" <=> pc[c] = "writePayload",
             UNCHANGED <<idOf, fileOf>>, PluginUp' => PluginUp
      PROVE  WireFramed'
  <2>1. Wire' = Wire /\ \A c \in Callers : RequestOf(c)' = RequestOf(c)
    BY <1>2 DEF Wire, RequestOf
  <2>. QED
    BY <1>0, <1>1, <1>2, <2>1 DEF IInv, WireFramed, FramesIntact
<1>3. CASE UNCHANGED hostVars /\ (NodeStep \/ UNCHANGED vars)
  <2>1. UNCHANGED <<pc, idOf, fileOf>>
    BY <1>3 DEF hostVars
  <2>2. ASSUME NEW n \in 1..Len(stdin), StdinData(n) PROVE WireFramed'
    <3>. DEFINE b == recvBuffer \o SubSeq(stdin, 1, n)
                j == 2 * (Len(b) \div 2)
    <3>1. /\ Wire' = SubSeq(Wire, j + 1, Len(Wire))
          /\ Len(b) \in Nat /\ Len(b) = Len(recvBuffer) + n
      <4>1. Wire' = Partial(b) \o SubSeq(stdin, n + 1, Len(stdin))
        BY <2>2 DEF StdinData, Wire
      <4>. QED
        BY <4>1, ParsedAsked
    <3>2. Len(Wire) = Len(recvBuffer) + Len(stdin)
      BY <1>1 DEF Wire
    <3>3. j \in 0..Len(Wire) /\ j % 2 = 0
      BY <1>1, <3>1, <3>2
    <3>. HIDE DEF b, j
    <3>4. /\ Wire' \in Seq(FrameUnit(Asked')) /\ Framed(Wire')
          /\ Len(Wire') % 2 = Len(Wire) % 2
          /\ Len(Wire) % 2 = 1 => Wire'[Len(Wire')] = Wire[Len(Wire)]
      BY <1>1, <3>1, <3>3, FramedDrop, ZenonT(40)
    <3>5. \A c \in Callers : RequestOf(c)' = RequestOf(c)
      BY <2>1 DEF RequestOf
    <3>6. PluginUp' = PluginUp
      BY <2>2 DEF StdinData, PluginUp
    <3>. QED
      BY <2>1, <3>4, <3>5, <3>6, FramedIsIntact DEF IInv, WireFramed, Framed, FramesIntact
  <2>3. CASE UNCHANGED <<stdin, recvBuffer>> /\ (PluginUp' => PluginUp)
    BY <1>2, <2>1, <2>3
  <2>4. CASE UNCHANGED vars
    BY <2>3, <2>4 DEF vars, pipeVars, nodeVars, PluginUp
  <2>. QED
    BY <1>3, <2>2, <2>3, <2>4
    DEF NodeStep, MainStep, WorkerStep, WorkerThrows, WorkerDone, Boot, BootThrows, StdinEnd,
        MainWrite, MainWriteFails, HandleAck, Forward, nodeVars, pipeVars, PluginUp, NodeRuns
<1>4. CASE HostStep /\ UNCHANGED nodeVars
  <2>1. ASSUME NEW c \in Callers, DrawId(c) PROVE WireFramed'
    <3>1. Wire' = Wire /\ PluginUp' = PluginUp
      BY <1>4, <2>1 DEF DrawId, Wire, nodeVars, pipeVars, PluginUp
    <3>2. \A d \in Callers : d # c => pc'[d] = pc[d] /\ RequestOf(d)' = RequestOf(d)
      BY <2>1 DEF DrawId, Goto, RequestOf, IInv, TypeOK, HostTypeOK
    <3>3. pc[c] # "writePayload" /\ pc'[c] # "writePayload"
      BY <2>1 DEF DrawId, Goto, IInv, TypeOK, HostTypeOK
    <3>. QED
      BY <1>1, <3>1, <3>2, <3>3 DEF IInv, WireFramed, FramesIntact
  <2>2. ASSUME NEW c \in Callers, WriteHeader(c) PROVE WireFramed'
    <3>1. CASE ~PluginUp
      BY <1>2, <1>4, <2>2, <3>1
      DEF WriteHeader, Goto, IInv, TypeOK, HostTypeOK, nodeVars, PluginUp
    <3>2. CASE PluginUp
      <4>1. /\ pc[c] = "writeHeader" /\ pc' = [pc EXCEPT ![c] = "writePayload"]
            /\ stdin' = Append(stdin, Header(sendBuf)) /\ recvBuffer' = recvBuffer
            /\ UNCHANGED <<idOf, fileOf, plugin>>
        BY <1>4, <2>2, <3>2 DEF WriteHeader, Goto, nodeVars
      <4>2. sendBuf = RequestOf(c) /\ \A d \in Callers : pc[d] # "writePayload"
        BY <4>1 DEF IInv, SendBufGuarded, Critical
      <4>3. Header(sendBuf) \in FrameUnit(Asked') /\ Header(sendBuf) \in Unit
        BY <4>2 DEF Header, RequestOf, FrameUnit, Unit, IInv, TypeOK, HostTypeOK
      <4>4. Wire' = Append(Wire, Header(sendBuf))
        BY <1>1, <4>1, <4>3, ConcatAppend DEF Wire
      <4>5. Len(Wire) % 2 = 0
        BY <1>1, <3>2, <4>2 DEF IInv, WireFramed
      <4>6. Wire' \in Seq(FrameUnit(Asked')) /\ Framed(Wire')
        BY <1>1, <4>3, <4>4, <4>5, FramedAppend DEF Header
      <4>7. Len(Wire') % 2 = 1 /\ Wire'[Len(Wire')] = Header(sendBuf)
        BY <1>1, <4>3, <4>4, <4>5, AppendParity
      <4>8. pc'[c] = "writePayload" /\ RequestOf(c)' = RequestOf(c)
        BY <4>1 DEF RequestOf, IInv, TypeOK, HostTypeOK
      <4>. QED
        BY <4>2, <4>6, <4>7, <4>8, FramedIsIntact DEF WireFramed, Framed, FramesIntact
    <3>. QED
      BY <3>1, <3>2
  <2>3. ASSUME NEW c \in Callers, WritePayload(c) PROVE WireFramed'
    <3>0. /\ pc[c] = "writePayload" /\ pc' = [pc EXCEPT ![c] = "unlock"]
          /\ recvBuffer' = recvBuffer /\ UNCHANGED <<idOf, fileOf, plugin>>
      BY <1>4, <2>3 DEF WritePayload, Goto, nodeVars
    <3>1. CASE ~PluginUp
      <4>1. Wire' = Wire /\ ~PluginUp'
        BY <2>3, <3>0, <3>1 DEF WritePayload, Wire, PluginUp
      <4>. QED
        BY <1>1, <4>1, FramedIsIntact DEF WireFramed, IInv, FramesIntact
    <3>2. CASE PluginUp
      <4>1. stdin' = Append(stdin, Payload(sendBuf))
        BY <2>3, <3>2 DEF WritePayload
      <4>2. sendBuf = RequestOf(c) /\ \A d \in Callers : pc[d] = "writePayload" => d = c
        BY <3>0 DEF IInv, SendBufGuarded, Critical
      <4>3. sendBuf \in Asked
        BY <3>0, <4>2 DEF Asked, IInv, IdsOwned
      <4>4. sendBuf \in Message /\ sendBuf \in Asked'
        BY <1>0, <4>3, AskedType DEF IInv
      <4>5. Payload(sendBuf) \in FrameUnit(Asked') /\ Payload(sendBuf) \in Unit
        BY <4>4 DEF Payload, FrameUnit, Unit
      <4>6. Wire' = Append(Wire, Payload(sendBuf))
        BY <1>1, <3>0, <4>1, <4>5, ConcatAppend DEF Wire
      <4>7. Len(Wire) % 2 = 1 /\ Wire[Len(Wire)] = Header(sendBuf)
        BY <3>0, <3>2, <4>2 DEF IInv, WireFramed
      <4>8. Wire' \in Seq(FrameUnit(Asked')) /\ Framed(Wire')
        BY <1>1, <4>5, <4>6, <4>7, FramedAppend DEF Payload
      <4>9. Len(Wire') % 2 = 0
        BY <1>1, <4>5, <4>6, <4>7, AppendParity
      <4>10. \A d \in Callers : pc'[d] # "writePayload"
        BY <3>0, <4>2 DEF IInv, TypeOK, HostTypeOK
      <4>. QED
        BY <4>8, <4>9, <4>10, FramedIsIntact DEF WireFramed, Framed, FramesIntact
    <3>. QED
      BY <3>1, <3>2
  <2>4. ASSUME NEW c \in Callers,
               StoreCallback(c) \/ Lock(c) \/ FillSendBuf(c) \/ Unlock(c) \/ Receive(c)
        PROVE  WireFramed'
    BY <1>2, <1>4, <2>4
    DEF StoreCallback, Lock, FillSendBuf, Unlock, Receive, Goto, pipeVars, nodeVars, PluginUp,
        IInv, TypeOK, HostTypeOK
  <2>5. CASE HostExit \/ HostKilled \/ ReaderStep
    BY <1>2, <1>4, <2>5
    DEF HostExit, HostKilled, ReaderStep, StartFails, ReadInitHeader, ReadInitPayload,
        NewPluginFails, ReadHeader, ReadPayload, Dispatch, ReaderEOF, callerVars, nodeVars, PluginUp
  <2>. QED
    BY <1>4, <2>1, <2>2, <2>3, <2>4, <2>5 DEF HostStep, CallerStep
<1>. QED
  BY <1>3, <1>4, HostFrame

(* The reader dispatches only what a payload of the stream carried. *)
LEMMA ReaderOKStep ==
    ASSUME IInv, [Next]_vars
    PROVE  ReaderOK'
<1>. USE DEF IInv, ReaderOK
<1>0. Asked \subseteq Asked'
  BY AskedGrows
<1>1. CASE UNCHANGED hostVars /\ (NodeStep \/ UNCHANGED vars)
  <2>1. UNCHANGED host
    BY <1>1 DEF NodeStep, MainStep, WorkerStep, WorkerThrows, WorkerDone, Boot, BootThrows, StdinData,
        StdinEnd, MainWrite, MainWriteFails, HandleAck, Forward, vars, pipeVars
  <2>. QED
    BY <1>0, <1>1, <2>1 DEF hostVars
<1>2. CASE HostStep /\ UNCHANGED nodeVars
  <2>1. ASSUME NEW c \in Callers, CallerStep(c) PROVE ReaderOK'
    BY <1>0, <2>1 DEF CallerStep, DrawId, StoreCallback, Lock, FillSendBuf, WriteHeader, WritePayload,
        Unlock, Receive, readerVars, pipeVars
  <2>2. CASE ReadPayload
    <3>1. /\ stdout \in Seq(Unit) /\ stdout # <<>> /\ readerPc = "payload" /\ mainOut \in Seq(Unit)
      BY <2>2 DEF ReadPayload, TypeOK
    <3>2. Head(stdout) = OutStream[1] /\ OutStream # <<>>
      BY <3>1, TailConcat DEF OutStream
    <3>3. /\ OutStream \in Seq(InitUnit \cup FrameUnit(Asked))
          /\ OutStream[1].unit = "payload"
      <4>1. InitLeft = 0 /\ HeaderRead = 1
        BY <3>1 DEF InitLeft, HeaderRead
      <4>2. OutStream \in Seq(InitUnit \cup FrameUnit(Asked)) /\ 1 \in 1..Len(OutStream)
        BY <3>2 DEF OutFramed
      <4>3. (1 + 1) % 2 # 1
        OBVIOUS
      <4>. QED
        BY <4>1, <4>2, <4>3 DEF OutFramed
    <3>4. OutStream[1] \in FrameUnit(Asked)
      BY <3>2, <3>3 DEF InitUnit, InitFrame
    <3>5. Head(stdout).msg \in Asked
      BY <3>2, <3>3, <3>4, FrameUnitMessage
    <3>. QED
      BY <1>0, <2>2, <3>5 DEF ReadPayload
  <2>3. CASE Dispatch \/ ReaderEOF \/ ReadHeader
    BY <1>0, <2>3 DEF Dispatch, ReaderEOF, ReadHeader, readerVars
  <2>4. CASE HostExit \/ HostKilled \/ StartFails \/ ReadInitHeader \/ ReadInitPayload \/ NewPluginFails
    BY <1>0, <2>4 DEF HostExit, HostKilled, StartFails, ReadInitHeader, ReadInitPayload,
                NewPluginFails, readerVars, HostUp
  <2>. QED
    BY <1>2, <2>1, <2>2, <2>3, <2>4 DEF HostStep, ReaderStep
<1>. QED
  BY <1>1, <1>2, HostFrame

(* The stream of responses when nothing is read or written. *)
LEMMA OutUnchanged ==
    ASSUME IInv, Asked \subseteq Asked',
           UNCHANGED <<stdout, mainOut, readerPc, mainPc>>,
           plugin' = plugin \/ plugin' = "exited",
           plugin' = "starting" /\ host' = "running" => host = "running"
    PROVE  OutFramed'
<1>1. OutStream' = OutStream /\ InitLeft' = InitLeft /\ HeaderRead' = HeaderRead
  BY DEF OutStream, InitLeft, HeaderRead
<1>2. FrameUnit(Asked) \subseteq FrameUnit(Asked')
  BY FrameUnitGrows
<1>3. InitUnit \cup FrameUnit(Asked) \subseteq InitUnit \cup FrameUnit(Asked')
  BY <1>2
<1>4. OutStream' \in Seq(InitUnit \cup FrameUnit(Asked'))
  BY <1>1, <1>3, SeqMonotonic DEF IInv, OutFramed
<1>. QED
  BY <1>1, <1>4 DEF IInv, OutFramed

(* Reading a unit off stdout shifts the stream by one. *)
LEMMA OutRead ==
    ASSUME IInv, Asked' = Asked, stdout # <<>>, stdout' = Tail(stdout),
           UNCHANGED <<mainOut, plugin, mainPc>>, plugin # "starting",
           HeaderRead' = 1 - HeaderRead,
           InitLeft' = IF InitLeft = 0 THEN 0 ELSE InitLeft - 1
    PROVE  OutFramed'
<1>1. /\ stdout \in Seq(Unit) /\ mainOut \in Seq(Unit)
      /\ OutStream \in Seq(InitUnit \cup FrameUnit(Asked))
  BY DEF IInv, TypeOK, OutFramed
<1>2. OutStream' = Tail(OutStream) /\ OutStream # <<>>
  BY <1>1, TailConcat DEF OutStream
<1>3. /\ OutStream' \in Seq(InitUnit \cup FrameUnit(Asked'))
      /\ Len(OutStream') = Len(OutStream) - 1
      /\ \A i \in 1..Len(OutStream') : OutStream'[i] = OutStream[i + 1]
  BY <1>1, <1>2
<1>4. HeaderRead \in 0..1 /\ InitLeft \in 0..2 /\ Len(OutStream) \in Nat
  BY <1>1 DEF HeaderRead, InitLeft
<1>5. (Len(OutStream') + HeaderRead') % 2 = 0
  <2>1. (Len(OutStream) + HeaderRead) % 2 = 0
    BY DEF IInv, OutFramed
  <2>. QED
    BY <1>3, <1>4, <2>1
<1>6. ASSUME NEW i \in 1..Len(OutStream'), i > InitLeft'
      PROVE  OutStream'[i].unit = (IF (i + HeaderRead') % 2 = 1 THEN "header" ELSE "payload")
  <2>1. /\ i + 1 \in 1..Len(OutStream) /\ i + 1 > InitLeft
        /\ ((i + 1) + HeaderRead) % 2 = (i + HeaderRead') % 2
    BY <1>3, <1>4, <1>6
  <2>2. OutStream'[i] = OutStream[i + 1]
    BY <1>3
  <2>. QED
    BY <2>1, <2>2 DEF IInv, OutFramed
<1>7. plugin' = "running" => Len(OutStream') >= InitLeft'
  BY <1>2, <1>3, <1>4 DEF IInv, OutFramed
<1>. QED
  BY <1>3, <1>5, <1>6, <1>7 DEF IInv, OutFramed

(* Responses: each event of the plugin adds a whole frame behind those the host reads. *)
LEMMA OutFramedStep ==
    ASSUME IInv, [Next]_vars
    PROVE  OutFramed'
<1>0. Asked \subseteq Asked'
  BY AskedGrows
<1>1. CASE UNCHANGED hostVars /\ (NodeStep \/ UNCHANGED vars)
  <2>0. Asked' = Asked /\ UNCHANGED <<readerPc, recvBuf>>
    BY <1>1 DEF hostVars, Asked, RequestOf
  <2>1. CASE Boot
    <3>1. /\ stdout' = stdout /\ mainOut' = InitFrame /\ mainPc' = "writing"
          /\ plugin = "starting" /\ plugin' = "running"
      BY <2>1 DEF Boot
    <3>2. stdout = <<>> /\ readerPc = "initHeader"
      <4>1. OutStream = <<>> /\ readerPc = "initHeader"
        BY <3>1 DEF IInv, OutFramed
      <4>2. stdout \in Seq(Unit) /\ mainOut \in Seq(Unit)
        BY DEF IInv, TypeOK
      <4>. QED
        BY <4>1, <4>2, ConcatEqualIffEmpty DEF OutStream
    <3>3. /\ OutStream' = InitFrame /\ InitFrame \in Seq(InitUnit)
          /\ Len(InitFrame) = 2 /\ InitFrame # <<>>
      BY <3>1, <3>2 DEF OutStream, InitFrame, InitUnit
    <3>4. OutStream' \in Seq(InitUnit \cup FrameUnit(Asked'))
      BY <3>3, SeqMonotonic
    <3>5. HeaderRead' = 0 /\ InitLeft' = 2
      BY <2>0, <3>2 DEF HeaderRead, InitLeft
    <3>. QED
      BY <3>1, <3>3, <3>4, <3>5 DEF OutFramed
  <2>2. ASSUME NEW w \in AllWorkers, Forward(w) PROVE OutFramed'
    <3>. DEFINE m == Head(outbox[w])
    <3>1. /\ outbox[w] # <<>> /\ mainOut' = Frame(m) /\ stdout' = stdout
          /\ plugin = "running" /\ plugin' = plugin /\ mainPc' = "writing" /\ mainPc = "loop"
      BY <2>2 DEF Forward, NodeRuns, pipeVars
    <3>2. m \in Asked /\ m \in Message
      <4>1. outbox[w] \in Seq(Asked)
        BY DEF IInv, PluginHoldsAsked
      <4>. QED
        BY <3>1, <4>1, AskedType DEF IInv
    <3>. HIDE DEF m
    <3>3. mainOut = <<>>
      BY <3>1 DEF IInv, OutFramed
    <3>4. stdout \in Seq(Unit) /\ OutStream = stdout
      BY <3>3, ConcatEmptySeq DEF OutStream, IInv, TypeOK
    <3>5. /\ Header(m) \in FrameUnit(Asked) /\ Payload(m) \in FrameUnit(Asked)
          /\ Header(m).unit = "header" /\ Payload(m).unit = "payload"
      BY <3>2 DEF Header, Payload, FrameUnit, Message
    <3>6. OutStream' = OutStream \o <<Header(m), Payload(m)>>
      BY <3>1, <3>4 DEF OutStream, Frame
    <3>7. OutStream \in Seq(InitUnit \cup FrameUnit(Asked))
      BY DEF IInv, OutFramed
    <3>8. /\ OutStream' \in Seq(InitUnit \cup FrameUnit(Asked'))
          /\ Len(OutStream') = Len(OutStream) + 2
          /\ \A i \in 1..Len(OutStream) : OutStream'[i] = OutStream[i]
          /\ OutStream'[Len(OutStream) + 1] = Header(m)
          /\ OutStream'[Len(OutStream) + 2] = Payload(m)
      BY <2>0, <3>5, <3>6, <3>7
    <3>9. /\ HeaderRead' = HeaderRead /\ InitLeft' = InitLeft
          /\ HeaderRead \in 0..1 /\ InitLeft \in 0..2 /\ Len(OutStream) \in Nat
      BY <2>0, <3>7 DEF HeaderRead, InitLeft
    <3>10. (Len(OutStream) + HeaderRead) % 2 = 0 /\ Len(OutStream) >= InitLeft
      BY <3>1 DEF IInv, OutFramed
    <3>11. (Len(OutStream') + HeaderRead') % 2 = 0 /\ Len(OutStream') >= InitLeft'
      BY <3>8, <3>9, <3>10
    <3>12. ASSUME NEW i \in 1..Len(OutStream'), i > InitLeft'
           PROVE  OutStream'[i].unit = (IF (i + HeaderRead') % 2 = 1 THEN "header" ELSE "payload")
      <4>1. CASE i \in 1..Len(OutStream)
        <5>1. OutStream'[i] = OutStream[i]
          BY <3>8, <4>1
        <5>. QED
          BY <3>9, <3>12, <4>1, <5>1 DEF IInv, OutFramed
      <4>2. CASE i = Len(OutStream) + 1
        <5>1. (i + HeaderRead') % 2 = 1
          BY <3>9, <3>10, <4>2
        <5>. QED
          BY <3>5, <3>8, <4>2, <5>1
      <4>3. CASE i = Len(OutStream) + 2
        <5>1. (i + HeaderRead') % 2 = 0
          BY <3>9, <3>10, <4>3
        <5>. QED
          BY <3>5, <3>8, <4>3, <5>1
      <4>. QED
        BY <3>8, <3>9, <4>1, <4>2, <4>3
    <3>13. mainOut' # <<>>
      BY <3>1 DEF Frame
    <3>. QED
      BY <3>1, <3>8, <3>11, <3>12, <3>13 DEF OutFramed
  <2>3. CASE MainWrite
    <3>1. /\ mainOut # <<>> /\ stdout' = Append(stdout, Head(mainOut)) /\ mainOut' = Tail(mainOut)
          /\ plugin = "running" /\ plugin' = plugin
          /\ mainPc' = IF Len(mainOut) = 1 THEN "loop" ELSE "writing"
      BY <2>3 DEF MainWrite, NodeRuns, IInv, OutFramed
    <3>2. stdout \in Seq(Unit) /\ mainOut \in Seq(Unit)
      BY DEF IInv, TypeOK
    <3>3. OutStream' = OutStream
      BY <3>1, <3>2, ShiftConcat DEF OutStream
    <3>4. mainPc' = "loop" <=> mainOut' = <<>>
      <4>1. /\ Len(mainOut) \in Nat /\ Tail(mainOut) \in Seq(Unit)
            /\ Len(Tail(mainOut)) = Len(mainOut) - 1
        BY <3>1, <3>2
      <4>2. Tail(mainOut) = <<>> <=> Len(Tail(mainOut)) = 0
        BY <4>1, EmptySeq
      <4>3. mainPc' = "loop" <=> Len(mainOut) = 1
        BY <3>1
      <4>. QED
        BY <3>1, <4>1, <4>2, <4>3
    <3>5. mainPc' \in {"loop", "writing"}
      BY <3>1
    <3>6. HeaderRead' = HeaderRead /\ InitLeft' = InitLeft
      BY <2>0 DEF HeaderRead, InitLeft
    <3>. QED
      BY <2>0, <3>1, <3>3, <3>4, <3>5, <3>6 DEF IInv, OutFramed
  <2>4. CASE /\ UNCHANGED <<stdout, mainOut, mainPc, host>>
             /\ plugin' = plugin \/ plugin' = "exited"
    BY <2>0, <2>4, OutUnchanged
  <2>. QED
    BY <1>1, <2>1, <2>2, <2>3, <2>4
    DEF NodeStep, MainStep, WorkerStep, WorkerThrows, WorkerDone, BootThrows, StdinEnd, StdinData,
        MainWriteFails, HandleAck, nodeVars, pipeVars, vars
<1>2. CASE HostStep /\ UNCHANGED nodeVars
  <2>0. UNCHANGED <<mainOut, mainPc>>
    BY <1>2 DEF nodeVars
  <2>1. CASE ReadInitHeader \/ ReadInitPayload \/ ReadHeader \/ ReadPayload
    <3>1. Asked' = Asked
      BY <2>1 DEF ReadInitHeader, ReadInitPayload, ReadHeader, ReadPayload, callerVars, Asked, RequestOf
    <3>2. stdout # <<>> /\ stdout' = Tail(stdout) /\ plugin' = plugin
      BY <2>1 DEF ReadInitHeader, ReadInitPayload, ReadHeader, ReadPayload
    <3>3. plugin # "starting"
      <4>1. stdout \in Seq(Unit) /\ mainOut \in Seq(Unit)
        BY DEF IInv, TypeOK
      <4>2. OutStream # <<>>
        BY <3>2, <4>1, TailConcat DEF OutStream
      <4>. QED
        BY <4>2 DEF IInv, OutFramed
    <3>4. HeaderRead' = 1 - HeaderRead /\ InitLeft' = IF InitLeft = 0 THEN 0 ELSE InitLeft - 1
      BY <2>1 DEF ReadInitHeader, ReadInitPayload, ReadHeader, ReadPayload, HeaderRead, InitLeft
    <3>. QED
      BY <2>0, <3>1, <3>2, <3>3, <3>4, OutRead
  <2>2. CASE Dispatch
    <3>1. /\ readerPc = "dispatch" /\ readerPc' \in {"header", "dispatch"}
          /\ UNCHANGED <<stdout, plugin>> /\ (host' = "running" => host = "running")
      BY <2>2 DEF Dispatch
    <3>2. HeaderRead' = HeaderRead /\ InitLeft' = InitLeft /\ OutStream' = OutStream
      BY <2>0, <3>1 DEF HeaderRead, InitLeft, OutStream
    <3>3. Asked' = Asked
      BY <2>2 DEF Dispatch, Asked, RequestOf
    <3>4. plugin # "starting"
      BY <3>1 DEF IInv, OutFramed
    <3>. QED
      BY <2>0, <3>1, <3>2, <3>3, <3>4 DEF IInv, OutFramed
  <2>3. ASSUME NEW c \in Callers, CallerStep(c) PROVE OutFramed'
    BY <1>0, <2>0, <2>3, OutUnchanged
    DEF CallerStep, DrawId, StoreCallback, Lock, FillSendBuf, WriteHeader, WritePayload,
        Unlock, Receive, readerVars, pipeVars
  <2>4. CASE ReaderEOF \/ HostExit \/ HostKilled \/ StartFails \/ NewPluginFails
    BY <1>0, <2>0, <2>4, OutUnchanged
    DEF ReaderEOF, HostExit, HostKilled, StartFails, NewPluginFails, readerVars
  <2>. QED
    BY <1>2, <2>1, <2>2, <2>3, <2>4 DEF HostStep, ReaderStep
<1>. QED
  BY <1>1, <1>2, HostFrame

(* Types.  The host's own variables, then what the plugin and the pipes hold. *)
LEMMA HostTypeStep ==
    ASSUME IInv, [Next]_vars
    PROVE  HostTypeOK'
<1>. USE DEF IInv, TypeOK, HostTypeOK
<1>1. CASE UNCHANGED hostVars /\ (NodeStep \/ UNCHANGED vars)
  <2>1. host' = host /\ plugin' \in {"starting", "running", "exited"}
    BY <1>1 DEF NodeStep, MainStep, WorkerStep, WorkerThrows, WorkerDone, Boot, BootThrows,
        StdinData, StdinEnd, MainWrite, MainWriteFails, HandleAck, Forward, vars, pipeVars
  <2>. QED
    BY <1>1, <2>1 DEF hostVars
<1>2. CASE HostStep
  <2>1. ReadPayload => recvBuf' \in Asked
    <3>. SUFFICES ASSUME ReadPayload PROVE recvBuf' \in Asked
      OBVIOUS
    <3>1. readerPc' = "dispatch"
      BY DEF ReadPayload
    <3>2. recvBuf' \in Asked'
      BY <3>1, ReaderOKStep DEF ReaderOK
    <3>3. Asked' = Asked
      BY DEF ReadPayload, callerVars, Asked, RequestOf
    <3>. QED
      BY <3>2, <3>3
  <2>. QED
    BY <1>2, <2>1, HostTypes DEF IInv, TypeOK, ReaderOK
<1>. QED
  BY <1>1, <1>2, HostFrame

PipeTypeOK ==
    /\ stdin \in Seq(Unit) /\ stdout \in Seq(Unit)
    /\ mainOut \in Seq(Unit) /\ recvBuffer \in Seq(Unit)

(* Both pipes, the parse buffer and the pending write hold units of the protocol. *)
LEMMA PipeTypeStep ==
    ASSUME IInv, [Next]_vars
    PROVE  PipeTypeOK'
<1>0. PipeTypeOK
  BY DEF IInv, TypeOK, PipeTypeOK
<1>1. CASE UNCHANGED <<stdin, stdout, mainOut, recvBuffer>>
  BY <1>0, <1>1 DEF PipeTypeOK
<1>2. CASE UNCHANGED hostVars /\ NodeStep
  <2>1. CASE Boot
    <3>1. InitFrame \in Seq(Unit)
      BY DEF InitFrame, InitUnit, Unit
    <3>. QED
      BY <1>0, <2>1, <3>1 DEF Boot, PipeTypeOK
  <2>2. ASSUME NEW n \in 1..Len(stdin), StdinData(n) PROVE PipeTypeOK'
    <3>. DEFINE b == recvBuffer \o SubSeq(stdin, 1, n)
    <3>1. b \in Seq(Unit) /\ Len(b) \in Nat /\ n \in 0..Len(stdin)
      BY <1>0 DEF PipeTypeOK
    <3>2. recvBuffer' = Partial(b) /\ stdin' = SubSeq(stdin, n + 1, Len(stdin))
          /\ UNCHANGED <<stdout, mainOut>>
      BY <2>2 DEF StdinData
    <3>. HIDE DEF b
    <3>3. 2 * (Len(b) \div 2) \in 0..Len(b)
      BY <3>1
    <3>4. Partial(b) \in Seq(Unit)
      BY <3>1, <3>3, SubSeqTail DEF Partial
    <3>5. SubSeq(stdin, n + 1, Len(stdin)) \in Seq(Unit)
      BY <1>0, <3>1, SubSeqTail DEF PipeTypeOK
    <3>. QED
      BY <1>0, <3>2, <3>4, <3>5 DEF PipeTypeOK
  <2>3. ASSUME NEW w \in AllWorkers, Forward(w) PROVE PipeTypeOK'
    <3>. DEFINE m == Head(outbox[w])
    <3>1. outbox[w] \in Seq(Message) /\ outbox[w] # <<>>
      BY <2>3 DEF Forward, IInv, TypeOK
    <3>2. m \in Message
      BY <3>1
    <3>. HIDE DEF m
    <3>3. Header(m) \in Unit /\ Payload(m) \in Unit
      BY <3>2 DEF Header, Payload, Unit, FrameUnit, Message
    <3>4. mainOut' = Frame(m)
      BY <2>3 DEF Forward, m
    <3>. QED
      BY <1>0, <2>3, <3>3, <3>4 DEF Forward, Frame, PipeTypeOK, pipeVars
  <2>4. CASE MainWrite
    <3>1. mainOut # <<>>
      BY <2>4 DEF MainWrite, NodeRuns, IInv, OutFramed
    <3>. QED
      BY <1>0, <2>4, <3>1 DEF MainWrite, PipeTypeOK
  <2>. QED
    BY <1>1, <1>2, <2>1, <2>2, <2>3, <2>4
    DEF NodeStep, MainStep, WorkerStep, WorkerThrows, WorkerDone, BootThrows, StdinEnd,
        MainWriteFails, HandleAck, nodeVars, pipeVars
<1>3. CASE HostStep /\ UNCHANGED nodeVars
  <2>1. ASSUME NEW c \in Callers, CallerStep(c) PROVE PipeTypeOK'
    <3>1. CASE WriteHeader(c) \/ WritePayload(c)
      <4>1. sendBuf = RequestOf(c)
        BY <3>1 DEF WriteHeader, WritePayload, IInv, SendBufGuarded
      <4>2. Header(sendBuf) \in Unit /\ Payload(sendBuf) \in Unit
        BY <4>1 DEF RequestOf, Header, Payload, Unit, FrameUnit, Message, IInv, TypeOK, HostTypeOK
      <4>3. Append(stdin, Header(sendBuf)) \in Seq(Unit) /\ Append(stdin, Payload(sendBuf)) \in Seq(Unit)
        BY <1>0, <4>2 DEF PipeTypeOK
      <4>. QED
        BY <1>0, <1>3, <3>1, <4>3 DEF WriteHeader, WritePayload, PipeTypeOK, nodeVars
    <3>. QED
      BY <1>1, <1>3, <2>1, <3>1
      DEF CallerStep, DrawId, StoreCallback, Lock, FillSendBuf, Unlock, Receive, pipeVars, nodeVars
  <2>2. CASE ReadInitHeader \/ ReadInitPayload \/ ReadHeader \/ ReadPayload
    <3>1. /\ stdout # <<>> /\ stdout' = Tail(stdout)
          /\ UNCHANGED <<stdin, mainOut, recvBuffer>>
      BY <1>3, <2>2 DEF ReadInitHeader, ReadInitPayload, ReadHeader, ReadPayload, nodeVars
    <3>2. Tail(stdout) \in Seq(Unit)
      BY <1>0, <3>1 DEF PipeTypeOK
    <3>. QED
      BY <1>0, <3>1, <3>2 DEF PipeTypeOK
  <2>3. CASE \/ HostExit \/ HostKilled \/ StartFails \/ NewPluginFails \/ Dispatch \/ ReaderEOF
    BY <1>1, <1>3, <2>3
    DEF HostExit, HostKilled, StartFails, NewPluginFails, Dispatch, ReaderEOF, nodeVars
  <2>. QED
    BY <1>3, <2>1, <2>2, <2>3 DEF HostStep, ReaderStep
<1>. QED
  BY <1>1, <1>2, <1>3, HostFrame DEF vars, pipeVars, nodeVars

(* Every variable keeps its type across a step. *)
LEMMA TypeOKStep ==
    ASSUME IInv, [Next]_vars
    PROVE  TypeOK'
<1>1. HostTypeOK' /\ PipeTypeOK'
  BY HostTypeStep, PipeTypeStep
<1>2. /\ task' \in [AllWorkers -> SUBSET Message]
      /\ taskQueue' \in Seq(Message)
      /\ outbox' \in [AllWorkers -> Seq(Message)]
  <2>1. Asked' \subseteq Message
    BY <1>1 DEF HostTypeOK, Asked, RequestOf, Message
  <2>2. /\ task' \in [AllWorkers -> SUBSET Asked']
        /\ taskQueue' \in Seq(Asked')
        /\ outbox' \in [AllWorkers -> Seq(Asked')]
    BY PluginHoldsAskedStep DEF PluginHoldsAsked
  <2>3. taskQueue' \in Seq(Message) /\ \A w \in AllWorkers : outbox'[w] \in Seq(Message)
    BY <2>1, <2>2, SeqMonotonic
  <2>. QED
    BY <2>1, <2>2, <2>3
<1>3. /\ cpus' \in CpuCounts /\ mainPc' \in {"boot", "loop", "writing"}
      /\ busy' \in [AllWorkers -> BOOLEAN]
      /\ acks' \in [AllWorkers -> Nat]
  <2>. USE DEF IInv, TypeOK
  <2>1. CASE UNCHANGED nodeVars
    BY <2>1 DEF nodeVars
  <2>2. CASE NodeStep
    <3>1. ASSUME NEW n \in 1..Len(stdin), StdinData(n)
          PROVE  /\ UNCHANGED <<cpus, mainPc, acks>>
                 /\ busy' \in [AllWorkers -> BOOLEAN]
      <4>1. \A ms : \A w \in AllWorkers : (busy[w] \/ Dealt(w, ms)) \in BOOLEAN
        BY Zenon DEF Dealt
      <4>. QED
        BY <3>1, <4>1, Zenon DEF StdinData
    <3>2. ASSUME NEW w \in AllWorkers, HandleAck(w)
          PROVE  /\ UNCHANGED <<cpus, mainPc>> /\ busy' \in [AllWorkers -> BOOLEAN]
                 /\ acks' \in [AllWorkers -> Nat]
      <4>1. acks[w] - 1 \in Nat
        BY <3>2 DEF HandleAck
      <4>2. acks' \in [AllWorkers -> Nat]
        BY <3>2, <4>1 DEF HandleAck
      <4>3. busy' = busy \/ busy' = [busy EXCEPT ![w] = FALSE]
        BY <3>2 DEF HandleAck
      <4>. QED
        BY <3>2, <4>2, <4>3 DEF HandleAck
    <3>3. CASE /\ UNCHANGED <<cpus, busy>> /\ acks' \in [AllWorkers -> Nat]
               /\ mainPc' \in {mainPc, "loop", "writing"}
      BY <3>3
    <3>4. ASSUME NEW w \in AllWorkers, WorkerStep(w)
          PROVE  UNCHANGED <<cpus, mainPc, busy>> /\ acks' \in [AllWorkers -> Nat]
      BY <3>4 DEF WorkerStep, WorkerDone
    <3>5. ASSUME \/ Boot \/ BootThrows \/ StdinEnd \/ MainWrite \/ MainWriteFails
                 \/ \E w \in AllWorkers : Forward(w) \/ WorkerThrows(w)
          PROVE  UNCHANGED <<cpus, busy, acks>> /\ mainPc' \in {mainPc, "loop", "writing"}
      BY <3>5 DEF Boot, BootThrows, StdinEnd, MainWrite, MainWriteFails, Forward, WorkerThrows, nodeVars
    <3>. QED
      BY <2>2, <3>1, <3>2, <3>3, <3>4, <3>5 DEF NodeStep, MainStep
  <2>. QED
    BY <2>1, <2>2, HostFrame DEF vars
<1>. QED
  BY <1>1, <1>2, <1>3 DEF TypeOK, PipeTypeOK

-----------------------------------------------------------------------------
(* The results. *)

(* IInv is an invariant of every behaviour of the system, whatever the      *)
(* interleaving of callers, reader, plugin main thread and workers.         *)
THEOREM Invariance == Spec => []IInv
<1>1. Init => IInv
  BY InitIInv
<1>2. IInv /\ [Next]_vars => IInv'
  BY TypeOKStep, IdsOwnedStep, SendBufGuardedStep, PluginHoldsAskedStep, WireFramedStep,
     OutFramedStep, ReaderOKStep, AnswersOwnFileStep DEF IInv
<1>. QED
  BY <1>1, <1>2, PTL DEF Spec

(* Every variable keeps its type. *)
THEOREM TypeCorrect == Spec => []TypeOK
<1>1. IInv => TypeOK
  BY DEF IInv
<1>. QED
  BY <1>1, Invariance, PTL

(* A caller is only ever answered with the code of the file it asked for. *)
THEOREM AnswersAreOwn == Spec => []AnswersOwnFile
<1>1. IInv => AnswersOwnFile
  BY DEF IInv
<1>. QED
  BY <1>1, Invariance, PTL

(* What the plugin reads is always a sequence of whole frames. *)
THEOREM FramesStayIntact == Spec => []FramesIntact
<1>1. IInv => FramesIntact
  BY DEF IInv, WireFramed
<1>. QED
  BY <1>1, Invariance, PTL

-----------------------------------------------------------------------------
(* The pool. *)

(* A worker is free; or busy with one task; or busy, its task done and the *)
(* acknowledgement on its way.                                             *)
WorkerState(w) ==
    \/ task[w] = {} /\ acks[w] = 0
    \/ busy[w] /\ acks[w] = 0 /\ \E m : task[w] = {m}
    \/ busy[w] /\ acks[w] = 1 /\ task[w] = {}

PoolInv ==
    /\ DOMAIN busy = AllWorkers /\ DOMAIN task = AllWorkers /\ DOMAIN acks = AllWorkers
    /\ \A w \in AllWorkers : WorkerState(w)

LEMMA PoolStep == PoolInv /\ [Next]_vars => PoolInv'
<1>. SUFFICES ASSUME PoolInv, [Next]_vars PROVE PoolInv'
  OBVIOUS
<1>. USE DEF PoolInv, WorkerState
<1>1. CASE UNCHANGED <<busy, task, acks>>
  BY <1>1
<1>2. ASSUME NEW n \in 1..Len(stdin), StdinData(n) PROVE PoolInv'
  <2>. DEFINE ms == Frames(recvBuffer \o SubSeq(stdin, 1, n))
  <2>1. /\ busy' = [w \in AllWorkers |-> busy[w] \/ Dealt(w, ms)]
        /\ task' = [w \in AllWorkers |->
                       IF Dealt(w, ms) THEN task[w] \cup {ms[Rank(w)]} ELSE task[w]]
        /\ acks' = acks
    BY <1>2 DEF StdinData
  <2>. SUFFICES ASSUME NEW w \in AllWorkers PROVE WorkerState(w)'
    BY <2>1
  <2>2. CASE Dealt(w, ms)
    <3>1. task[w] = {} /\ acks[w] = 0
      BY <2>2 DEF Dealt, Idle
    <3>2. busy'[w] /\ task'[w] = {ms[Rank(w)]} /\ acks'[w] = 0
      BY <2>1, <2>2, <3>1
    <3>. QED
      BY <3>2
  <2>3. CASE ~Dealt(w, ms)
    <3>1. task'[w] = task[w] /\ acks'[w] = acks[w]
      BY <2>1, <2>3
    <3>2. busy[w] => busy'[w]
      BY <2>1
    <3>. QED
      BY <3>1, <3>2
  <2>. QED
    BY <2>2, <2>3
<1>3. ASSUME NEW v \in AllWorkers, NEW m \in task[v], WorkerDone(v, m) PROVE PoolInv'
  <2>1. busy[v] /\ task[v] = {m} /\ acks[v] = 0
    OBVIOUS
  <2>2. busy' = busy /\ task' = [task EXCEPT ![v] = @ \ {m}] /\ acks' = [acks EXCEPT ![v] = @ + 1]
    BY <1>3 DEF WorkerDone
  <2>3. task'[v] = {} /\ acks'[v] = 1
    BY <2>1, <2>2
  <2>. QED
    BY <2>1, <2>2, <2>3
<1>4. ASSUME NEW v \in AllWorkers, HandleAck(v) PROVE PoolInv'
  <2>1. busy[v] /\ task[v] = {} /\ acks[v] = 1 /\ acks' = [acks EXCEPT ![v] = @ - 1]
    BY <1>4 DEF HandleAck
  <2>2. acks'[v] = 0
    BY <2>1
  <2>3. CASE taskQueue = <<>>
    BY <1>4, <2>1, <2>2, <2>3, ZenonT(40) DEF HandleAck
  <2>4. CASE taskQueue # <<>>
    <3>1. busy' = busy /\ task' = [task EXCEPT ![v] = @ \cup {Head(taskQueue)}]
      BY <1>4, <2>4 DEF HandleAck
    <3>2. task'[v] = {Head(taskQueue)}
      BY <2>1, <3>1
    <3>. QED
      BY <2>1, <2>2, <3>1, <3>2
  <2>. QED
    BY <2>3, <2>4
<1>. QED
  BY <1>1, <1>2, <1>3, <1>4 DEF Next, NodeStep, MainStep, Boot, BootThrows, StdinEnd, MainWrite, MainWriteFails,
     Forward, WorkerStep, WorkerThrows, vars, nodeVars

(* A worker has one task at a time, and the main thread knows (the busy    *)
(* flag, the queue and the null message of setupWorker).                   *)
THEOREM WorkersTakeTurns == Spec => []OneTaskPerWorker
<1>1. Init => PoolInv
  BY DEF Init, NodeInit, PoolInv, WorkerState
<1>2. PoolInv => OneTaskPerWorker
  <2>. SUFFICES ASSUME PoolInv, NEW w \in AllWorkers
                PROVE  Cardinality(task[w]) + acks[w] <= 1 /\ (task[w] # {} => busy[w])
    BY DEF OneTaskPerWorker
  <2>1. CASE task[w] = {}
    BY <2>1, FS_EmptySet DEF PoolInv, WorkerState
  <2>2. ASSUME NEW m, task[w] = {m} PROVE Cardinality(task[w]) + acks[w] <= 1
    <3>1. Cardinality({m}) = 1
      BY FS_Singleton
    <3>2. acks[w] = 0
      BY <2>2 DEF PoolInv, WorkerState
    <3>. QED
      BY <2>2, <3>1, <3>2
  <2>. QED
    BY <2>1, <2>2 DEF PoolInv, WorkerState
<1>. QED
  BY <1>1, <1>2, PoolStep, PTL DEF Spec

-----------------------------------------------------------------------------
(* Every response is expected.  Between a caller's write and the reader's  *)
(* dispatch a request is in one place only, and its callback is stored.    *)

(* Callers whose request is not in the pipe yet. *)
Unsent == {"store", "lock", "fill", "writeHeader", "writePayload"}

(* Calls and callbacks: nobody has an answer before the callback is        *)
(* stored, nor while it is; who is done has one; no callback is missed.    *)
CallsInv ==
    /\ \A c \in Callers : pc[c] \in {"idle", "store"} => answer[c] = None
    /\ \A c \in Callers : pc[c] \in Unsent \ {"store"} => idOf[c] \in DOMAIN pending
    /\ \A i \in DOMAIN pending : answer[pending[i]] = None
    /\ \A c \in Callers : pc[c] = "done" => answer[c] # None
    /\ host # "panic"

(* The messages F between a caller's write and the reader's dispatch each  *)
(* have their callback stored, and none is of a caller still to write.     *)
FlightInv(F) ==
    /\ F \subseteq Asked
    /\ \A m \in F : m.id \in DOMAIN pending
    /\ \A c \in Callers : pc[c] \in Unsent => RequestOf(c) \notin F
    /\ host = "running" /\ readerPc = "dispatch" => recvBuf \in F

(* Messages in a stream of units, and in a queue. *)
Carried(s) == {s[i].msg : i \in {j \in 1..Len(s) : s[j].unit = "payload"}}
CarriedOnce(s) ==
    \A i, j \in 1..Len(s) : s[i].unit = "payload" /\ s[j].unit = "payload" /\ s[i].msg = s[j].msg => i = j
Listed(q) == {q[i] : i \in 1..Len(q)}
ListedOnce(q) == \A i, j \in 1..Len(q) : q[i] = q[j] => i = j

Received == IF readerPc = "dispatch" THEN {recvBuf} ELSE {}

Held(w) == task[w] \cup Listed(outbox[w])
InFlight ==
    Carried(Wire) \cup Listed(taskQueue) \cup (UNION {Held(w) : w \in AllWorkers})
        \cup Carried(OutStream) \cup Received

OneCopy ==
    /\ CarriedOnce(Wire) /\ ListedOnce(taskQueue) /\ CarriedOnce(OutStream)
    /\ \A w \in AllWorkers : ListedOnce(outbox[w]) /\ task[w] \cap Listed(outbox[w]) = {}
    /\ \A v, w \in AllWorkers : v # w => Held(v) \cap Held(w) = {}
    /\ Carried(Wire) \cap Listed(taskQueue) = {}
    /\ \A w \in AllWorkers : Held(w) \cap (Carried(Wire) \cup Listed(taskQueue)) = {}
    /\ (Carried(OutStream) \cup Received) \cap
          (Carried(Wire) \cup Listed(taskQueue) \cup UNION {Held(w) : w \in AllWorkers}) = {}
    /\ Carried(OutStream) \cap Received = {}

NodeFlight == CallsInv /\ FlightInv(InFlight) /\ OneCopy

-----------------------------------------------------------------------------
(* Messages in streams and queues: what appending, dropping and joining do. *)

(* One unit more: a message more if it is a payload. *)
LEMMA CarriedAppend ==
    ASSUME NEW S, NEW s \in Seq(S), NEW u \in S, CarriedOnce(s),
           u.unit = "payload" => u.msg \notin Carried(s)
    PROVE  /\ Carried(Append(s, u)) = Carried(s) \cup (IF u.unit = "payload" THEN {u.msg} ELSE {})
           /\ CarriedOnce(Append(s, u))
<1>. DEFINE t == Append(s, u)
            n == Len(s) + 1
<1>1. /\ Len(s) \in Nat /\ Len(t) = n /\ t[n] = u
      /\ \A i \in 1..Len(s) : t[i] = s[i]
  BY AppendProperties
<1>. HIDE DEF t
<1>2. 1..Len(t) = (1..Len(s)) \cup {n} /\ n \notin 1..Len(s)
  BY <1>1
<1>3. Carried(t) = Carried(s) \cup (IF u.unit = "payload" THEN {u.msg} ELSE {})
  BY <1>1, <1>2 DEF Carried
<1>4. CarriedOnce(t)
  BY <1>1, <1>2 DEF CarriedOnce, Carried
<1>. QED
  BY <1>3, <1>4 DEF t

(* Units taken off the front carry their messages away. *)
LEMMA CarriedDrop ==
    ASSUME NEW S, NEW s \in Seq(S), NEW j \in 0..Len(s), CarriedOnce(s),
           NEW t, t = SubSeq(s, j + 1, Len(s))
    PROVE  t \in Seq(S) /\ Carried(t) \subseteq Carried(s) /\ CarriedOnce(t)
<1>1. t \in Seq(S) /\ Len(t) = Len(s) - j /\ Len(s) \in Nat /\ \A i \in 1..Len(t) : t[i] = s[j + i]
  BY SubSeqTail
<1>2. \A i \in 1..Len(t) : j + i \in 1..Len(s)
  BY <1>1
<1>3. Carried(t) \subseteq Carried(s)
  BY <1>1, <1>2 DEF Carried
<1>4. ASSUME NEW i \in 1..Len(t), NEW k \in 1..Len(t),
             t[i].unit = "payload", t[k].unit = "payload", t[i].msg = t[k].msg
      PROVE  i = k
  <2>1. j + i = j + k
    BY <1>1, <1>2, <1>4 DEF CarriedOnce
  <2>. QED
    BY <2>1
<1>. QED
  BY <1>1, <1>3, <1>4 DEF CarriedOnce

(* What is cut off the front is carried no more. *)
LEMMA CarriedGone ==
    ASSUME NEW S, NEW s \in Seq(S), NEW j \in 0..Len(s), CarriedOnce(s),
           NEW i \in 1..j, s[i].unit = "payload"
    PROVE  s[i].msg \in Carried(s) \ Carried(SubSeq(s, j + 1, Len(s)))
<1>0. PICK t : t = SubSeq(s, j + 1, Len(s))
  OBVIOUS
<1>1. Len(t) = Len(s) - j /\ Len(s) \in Nat /\ \A k \in 1..Len(t) : t[k] = s[j + k]
  BY <1>0, SubSeqTail
<1>2. i \in 1..Len(s) /\ \A k \in 1..Len(t) : j + k \in 1..Len(s)
  BY <1>1
<1>3. ASSUME NEW k \in 1..Len(t), t[k].unit = "payload", t[k].msg = s[i].msg PROVE FALSE
  <2>1. i = j + k
    BY <1>1, <1>2, <1>3 DEF CarriedOnce
  <2>. QED
    BY <1>1, <2>1
<1>. QED
  BY <1>0, <1>2, <1>3 DEF Carried

(* The same of one item taken off the front. *)
LEMMA CarriedTail ==
    ASSUME NEW S, NEW s \in Seq(S), s # <<>>, CarriedOnce(s)
    PROVE  /\ Carried(Tail(s)) \subseteq Carried(s) /\ CarriedOnce(Tail(s))
           /\ Head(s).unit = "payload" => Head(s).msg \in Carried(s) \ Carried(Tail(s))
<1>1. PICK t : t = Tail(s)
  OBVIOUS
<1>2. PICK j \in 0..Len(s) : j = 1
  OBVIOUS
<1>3. t = SubSeq(s, j + 1, Len(s)) /\ Head(s) = s[1] /\ 1 \in 1..j
  BY <1>1, <1>2
<1>4. Carried(t) \subseteq Carried(s) /\ CarriedOnce(t)
  BY <1>3, CarriedDrop
<1>5. j \in 1..j
  BY <1>2
<1>6. s[j].unit = "payload" => s[j].msg \in Carried(s) \ Carried(t)
  BY <1>3, <1>5, CarriedGone
<1>. QED
  BY <1>1, <1>2, <1>3, <1>4, <1>6

(* The same of a queue. *)
LEMMA ListedAppend ==
    ASSUME NEW S, NEW q \in Seq(S), NEW m \in S, ListedOnce(q), m \notin Listed(q)
    PROVE  Listed(Append(q, m)) = Listed(q) \cup {m} /\ ListedOnce(Append(q, m))
<1>. DEFINE t == Append(q, m)
            n == Len(q) + 1
<1>1. /\ Len(q) \in Nat /\ Len(t) = n /\ t[n] = m
      /\ \A i \in 1..Len(q) : t[i] = q[i]
  BY AppendProperties
<1>. HIDE DEF t
<1>2. 1..Len(t) = (1..Len(q)) \cup {n} /\ n \notin 1..Len(q)
  BY <1>1
<1>. QED
  BY <1>1, <1>2 DEF Listed, ListedOnce, t

(* A queue without its first items lists no item it did not, and each      *)
(* once.                                                                   *)
LEMMA ListedDrop ==
    ASSUME NEW S, NEW q \in Seq(S), NEW j \in 0..Len(q), ListedOnce(q),
           NEW t, t = SubSeq(q, j + 1, Len(q))
    PROVE  t \in Seq(S) /\ Listed(t) \subseteq Listed(q) /\ ListedOnce(t)
<1>1. t \in Seq(S) /\ Len(t) = Len(q) - j /\ Len(q) \in Nat /\ \A i \in 1..Len(t) : t[i] = q[j + i]
  BY SubSeqTail
<1>2. \A i \in 1..Len(t) : j + i \in 1..Len(q)
  BY <1>1
<1>3. Listed(t) \subseteq Listed(q)
  BY <1>1, <1>2 DEF Listed
<1>4. ASSUME NEW i \in 1..Len(t), NEW k \in 1..Len(t), t[i] = t[k]
      PROVE  i = k
  <2>1. j + i = j + k
    BY <1>1, <1>2, <1>4 DEF ListedOnce
  <2>. QED
    BY <2>1
<1>. QED
  BY <1>1, <1>3, <1>4 DEF ListedOnce

(* What is cut off the front of a queue is listed no more. *)
LEMMA ListedGone ==
    ASSUME NEW S, NEW q \in Seq(S), NEW j \in 0..Len(q), ListedOnce(q),
           NEW i \in 1..j
    PROVE  q[i] \in Listed(q) \ Listed(SubSeq(q, j + 1, Len(q)))
<1>0. PICK t : t = SubSeq(q, j + 1, Len(q))
  OBVIOUS
<1>1. Len(t) = Len(q) - j /\ Len(q) \in Nat /\ \A k \in 1..Len(t) : t[k] = q[j + k]
  BY <1>0, SubSeqTail
<1>2. i \in 1..Len(q) /\ \A k \in 1..Len(t) : j + k \in 1..Len(q)
  BY <1>1
<1>3. ASSUME NEW k \in 1..Len(t), t[k] = q[i] PROVE FALSE
  <2>1. i = j + k
    BY <1>1, <1>2, <1>3 DEF ListedOnce
  <2>. QED
    BY <1>1, <2>1
<1>. QED
  BY <1>0, <1>2, <1>3 DEF Listed

(* The same of one item taken off the front. *)
LEMMA ListedTail ==
    ASSUME NEW S, NEW q \in Seq(S), q # <<>>, ListedOnce(q)
    PROVE  /\ Listed(Tail(q)) \subseteq Listed(q) /\ ListedOnce(Tail(q))
           /\ Head(q) \in Listed(q) \ Listed(Tail(q))
<1>1. PICK t : t = Tail(q)
  OBVIOUS
<1>2. PICK j \in 0..Len(q) : j = 1
  OBVIOUS
<1>3. t = SubSeq(q, j + 1, Len(q)) /\ Head(q) = q[1] /\ 1 \in 1..j
  BY <1>1, <1>2
<1>4. Listed(t) \subseteq Listed(q) /\ ListedOnce(t)
  BY <1>3, ListedDrop
<1>5. q[1] \in Listed(q) \ Listed(t)
  BY <1>3, ListedGone
<1>. QED
  BY <1>1, <1>3, <1>4, <1>5

(* Queues with nothing in common, put together, list each item once. *)
LEMMA ListedConcat ==
    ASSUME NEW S, NEW q \in Seq(S), NEW r \in Seq(S), ListedOnce(q), ListedOnce(r),
           Listed(q) \cap Listed(r) = {}
    PROVE  Listed(q \o r) = Listed(q) \cup Listed(r) /\ ListedOnce(q \o r)
<1>. DEFINE t == q \o r
<1>1. /\ Len(q) \in Nat /\ Len(r) \in Nat /\ Len(t) = Len(q) + Len(r)
      /\ \A i \in 1..Len(q) : i \in 1..Len(t) /\ t[i] = q[i]
      /\ \A i \in 1..Len(r) : Len(q) + i \in 1..Len(t) /\ t[Len(q) + i] = r[i]
  OBVIOUS
<1>. HIDE DEF t
<1>2. ASSUME NEW i \in 1..Len(t), i \notin 1..Len(q)
      PROVE  i - Len(q) \in 1..Len(r) /\ t[i] = r[i - Len(q)]
  <2>1. i - Len(q) \in 1..Len(r) /\ Len(q) + (i - Len(q)) = i
    BY <1>1, <1>2
  <2>. QED
    BY <1>1, <2>1
<1>3. Listed(t) = Listed(q) \cup Listed(r)
  <2>1. \A i \in 1..Len(q) : q[i] \in Listed(t)
    BY <1>1 DEF Listed
  <2>2. \A i \in 1..Len(r) : r[i] \in Listed(t)
    BY <1>1 DEF Listed
  <2>3. \A i \in 1..Len(t) : t[i] \in Listed(q) \cup Listed(r)
    BY <1>1, <1>2 DEF Listed
  <2>. QED
    BY <2>1, <2>2, <2>3 DEF Listed
<1>4. ASSUME NEW i \in 1..Len(t), NEW j \in 1..Len(t), t[i] = t[j] PROVE i = j
  <2>1. CASE i \in 1..Len(q) /\ j \in 1..Len(q)
    BY <1>1, <1>4, <2>1 DEF ListedOnce
  <2>2. CASE i \notin 1..Len(q) /\ j \notin 1..Len(q)
    <3>1. i - Len(q) = j - Len(q)
      BY <1>2, <1>4, <2>2 DEF ListedOnce
    <3>. QED
      BY <1>1, <3>1
  <2>3. \A k \in 1..Len(t) : IF k \in 1..Len(q) THEN t[k] \in Listed(q) ELSE t[k] \in Listed(r)
    BY <1>1, <1>2 DEF Listed
  <2>. QED
    BY <1>4, <2>1, <2>2, <2>3
<1>. QED
  BY <1>3, <1>4 DEF ListedOnce, t

-----------------------------------------------------------------------------
(* Calls and callbacks, whatever the plugin.                               *)

(* What the host's invariant needs of a step. *)
LEMMA HostCallsStep ==
    ASSUME HostTypeOK, IdsOwned, CallsInv, HostStep,
           NEW F, FlightInv(F)
    PROVE  CallsInv'
<1>. USE DEF HostTypeOK, CallsInv, Unsent, Goto
<1>1. ASSUME NEW c \in Callers, DrawId(c) PROVE CallsInv'
  BY <1>1 DEF DrawId, IdsOwned, pipeVars
<1>2. ASSUME NEW c \in Callers, StoreCallback(c) PROVE CallsInv'
  BY <1>2 DEF StoreCallback, pipeVars
<1>3. ASSUME NEW c \in Callers, Lock(c) \/ FillSendBuf(c) \/ Unlock(c) \/ Receive(c) PROVE CallsInv'
  BY <1>3 DEF Lock, FillSendBuf, Unlock, Receive, pipeVars
<1>4. ASSUME NEW c \in Callers, WriteHeader(c) \/ WritePayload(c) PROVE CallsInv'
  BY <1>4 DEF WriteHeader, WritePayload
<1>5. CASE Dispatch
  <2>. DEFINE r == recvBuf
  <2>1. /\ r \in F /\ r.id \in DOMAIN pending /\ r \in Asked
        /\ pending' = [i \in DOMAIN pending \ {r.id} |-> pending[i]]
        /\ answer' = [answer EXCEPT ![pending[r.id]] = r.file]
        /\ UNCHANGED <<host, pc, idOf>>
    BY <1>5 DEF Dispatch, FlightInv
  <2>2. PICK c \in Callers : r = RequestOf(c) /\ idOf[c] # 0
    BY <2>1 DEF Asked
  <2>3. pending[r.id] = c /\ r.id = idOf[c] /\ r.file = fileOf[c] /\ r.file # None
    BY <2>1, <2>2, NoneAssumption DEF IdsOwned, RequestOf
  <2>4. \A d \in Callers : pc[d] \in Unsent \ {"store"} => idOf[d] \in DOMAIN pending \ {r.id}
    BY <2>1, <2>2, <2>3 DEF FlightInv, IdsOwned
  <2>5. pc[c] \notin {"idle", "store"}
    BY <2>1, <2>2 DEF FlightInv, IdsOwned
  <2>6. \A i \in DOMAIN pending \ {r.id} : pending[i] # c
    BY <2>3 DEF IdsOwned
  <2>. QED
    BY <2>1, <2>3, <2>4, <2>5, <2>6
<1>6. CASE HostExit \/ HostKilled \/ (ReaderStep /\ ~Dispatch)
  BY <1>6 DEF HostExit, HostKilled, ReaderStep, StartFails, ReadInitHeader, ReadInitPayload,
              NewPluginFails, ReadHeader, ReadPayload, ReaderEOF, callerVars
<1>. QED
  BY <1>1, <1>2, <1>3, <1>4, <1>5, <1>6 DEF HostStep, CallerStep

(* Messages come into flight by WritePayload and leave it by Dispatch. *)
LEMMA HostFlightStep ==
    ASSUME HostTypeOK, IdsOwned, CallsInv, HostStep, Asked \subseteq Asked',
           NEW F, FlightInv(F), NEW G,
           host' = "running" /\ readerPc' = "dispatch" => recvBuf' \in G,
           \/ G \subseteq F /\ ~Dispatch
           \/ Dispatch /\ G \subseteq F \ {recvBuf}
           \/ \E c \in Callers : WritePayload(c) /\ G \subseteq F \cup {RequestOf(c)}
    PROVE  FlightInv(G)'
<1>. USE DEF HostTypeOK, FlightInv, Unsent, Goto
<1>0. \A m \in F : m \in Asked /\ \E d \in Callers : m = RequestOf(d) /\ idOf[d] # 0
  BY DEF Asked
<1>1. ASSUME NEW c \in Callers, DrawId(c) PROVE FlightInv(G)'
  <2>1. G \subseteq F
    BY <1>1 DEF DrawId, Dispatch, WritePayload, readerVars
  <2>2. RequestOf(c)' \notin F /\ \A d \in Callers \ {c} : RequestOf(d)' = RequestOf(d) /\ pc'[d] = pc[d]
    BY <1>1 DEF DrawId, RequestOf, IdsOwned
  <2>. QED
    BY <1>1, <2>1, <2>2 DEF DrawId
<1>2. ASSUME NEW c \in Callers, StoreCallback(c) PROVE FlightInv(G)'
  <2>1. pc[c] = "store" /\ pc' = [pc EXCEPT ![c] = "lock"] /\ pc'[c] = "lock"
    BY <1>2 DEF StoreCallback
  <2>2. ~Dispatch /\ \A d \in Callers : ~WritePayload(d)
    BY <2>1 DEF Dispatch, WritePayload
  <2>3. G \subseteq F
    BY <2>2
  <2>. QED
    BY <1>2, <2>3 DEF StoreCallback, RequestOf
<1>3. ASSUME NEW c \in Callers, Lock(c) \/ FillSendBuf(c) \/ Unlock(c) \/ Receive(c) PROVE FlightInv(G)'
  BY <1>3 DEF Lock, FillSendBuf, Unlock, Receive, RequestOf, Dispatch, WritePayload, readerVars
<1>4. ASSUME NEW c \in Callers, WriteHeader(c) PROVE FlightInv(G)'
  BY <1>4 DEF WriteHeader, RequestOf, Dispatch, WritePayload, readerVars
<1>5. ASSUME NEW c \in Callers, WritePayload(c) PROVE FlightInv(G)'
  <2>1. \A d \in Callers : WritePayload(d) => d = c
    BY <1>5 DEF WritePayload
  <2>2. G \subseteq F \cup {RequestOf(c)}
    BY <1>5, <2>1 DEF WritePayload, Dispatch, readerVars
  <2>3. /\ RequestOf(c) \in Asked' /\ RequestOf(c).id \in DOMAIN pending
        /\ \A d \in Callers \ {c} : pc[d] \in Unsent => RequestOf(c) # RequestOf(d)
    BY <1>5 DEF WritePayload, RequestOf, IdsOwned, CallsInv, Asked
  <2>. QED
    BY <1>5, <2>2, <2>3 DEF WritePayload, RequestOf
<1>6. CASE Dispatch
  <2>1. /\ recvBuf \in F /\ recvBuf.id \in DOMAIN pending /\ G \subseteq F \ {recvBuf}
        /\ pending' = [i \in DOMAIN pending \ {recvBuf.id} |-> pending[i]]
        /\ readerPc' = "header" /\ UNCHANGED <<pc, idOf, fileOf>>
    BY <1>6 DEF Dispatch, WritePayload
  <2>2. \A m \in F : m.id = recvBuf.id => m = recvBuf
    BY <1>0, <2>1 DEF IdsOwned, RequestOf
  <2>. QED
    BY <2>1, <2>2 DEF RequestOf
<1>7. CASE HostExit \/ HostKilled \/ (ReaderStep /\ ~Dispatch)
  BY <1>7 DEF HostExit, HostKilled, ReaderStep, StartFails, ReadInitHeader, ReadInitPayload,
              NewPluginFails, ReadHeader, ReadPayload, ReaderEOF, callerVars, RequestOf, WritePayload
<1>. QED
  BY <1>1, <1>2, <1>3, <1>4, <1>5, <1>6, <1>7 DEF HostStep, CallerStep

(* A step of the plugin changes nothing of the host's. *)
LEMMA PluginFlightStep ==
    ASSUME CallsInv, UNCHANGED <<hostVars, host>>, NEW F, FlightInv(F), NEW G, G \subseteq F,
           host = "running" /\ readerPc = "dispatch" => recvBuf \in G
    PROVE  CallsInv' /\ FlightInv(G)'
<1>1. Asked' = Asked /\ \A c \in Callers : RequestOf(c)' = RequestOf(c)
  BY DEF hostVars, Asked, RequestOf
<1>. QED
  BY <1>1 DEF CallsInv, FlightInv, hostVars, Unsent

-----------------------------------------------------------------------------
(* A data event deals frames.                                              *)

(* workers.find: an idle worker's rank is its own and at most their number. *)
LEMMA RankOfItsOwn ==
    ASSUME TypeOK
    PROVE  \A v, w \in Idle : Rank(w) <= Cardinality(Idle) /\ (Rank(v) = Rank(w) => v = w)
<1>1. /\ Idle \subseteq AllWorkers /\ IsFiniteSet(Idle)
      /\ \A w \in Idle : w \in Int
  <2>1. Idle \subseteq AllWorkers /\ AllWorkers \subseteq Int
    BY PoolBound DEF Idle, AllWorkers
  <2>2. IsFiniteSet(AllWorkers)
    <3>1. 1 \in Int /\ MaxWorkers \in Int
      BY DEF MaxWorkers
    <3>. QED
      BY <3>1, FS_Interval DEF AllWorkers
  <2>. QED
    BY <2>1, <2>2, FS_Subset
<1>. DEFINE upTo(w) == {v \in Idle : v <= w}
<1>2. \A w \in Idle : IsFiniteSet(upTo(w)) /\ Cardinality(upTo(w)) <= Cardinality(Idle)
  BY <1>1, FS_Subset
<1>3. ASSUME NEW v \in Idle, NEW w \in Idle, v < w PROVE Rank(v) # Rank(w)
  <2>1. upTo(v) \subseteq upTo(w) /\ w \in upTo(w) /\ w \notin upTo(v)
    BY <1>1, <1>3
  <2>2. upTo(v) # upTo(w) /\ IsFiniteSet(upTo(w))
    BY <1>2, <2>1
  <2>3. Cardinality(upTo(v)) # Cardinality(upTo(w))
    BY <2>1, <2>2, FS_Subset
  <2>. QED
    BY <2>3 DEF Rank
<1>4. \A w \in Idle : Rank(w) <= Cardinality(Idle)
  BY <1>2 DEF Rank
<1>. HIDE DEF upTo
<1>5. \A v, w \in Idle : v = w \/ v < w \/ w < v
  BY <1>1
<1>. QED
  BY <1>3, <1>4, <1>5

(* Of the frames parsed, each idle worker gets one of its own, the queue   *)
(* the rest.                                                               *)
LEMMA Dealing ==
    ASSUME TypeOK, NEW M, NEW ms \in Seq(M), ListedOnce(ms)
    PROVE  /\ SubSeq(ms, Cardinality(Idle) + 1, Len(ms)) \in Seq(M)
           /\ Listed(SubSeq(ms, Cardinality(Idle) + 1, Len(ms))) \subseteq Listed(ms)
           /\ ListedOnce(SubSeq(ms, Cardinality(Idle) + 1, Len(ms)))
           /\ \A w \in AllWorkers : Dealt(w, ms) =>
                  ms[Rank(w)] \in Listed(ms) \ Listed(SubSeq(ms, Cardinality(Idle) + 1, Len(ms)))
           /\ \A v, w \in AllWorkers :
                  Dealt(v, ms) /\ Dealt(w, ms) /\ ms[Rank(v)] = ms[Rank(w)] => v = w
<1>. PICK rest : rest = SubSeq(ms, Cardinality(Idle) + 1, Len(ms))
  OBVIOUS
<1>1. /\ Cardinality(Idle) \in Nat /\ Len(ms) \in Nat
      /\ \A w \in AllWorkers : Dealt(w, ms) =>
             w \in Idle /\ Rank(w) \in 1..Len(ms) /\ Rank(w) <= Cardinality(Idle)
  BY IdleRanks, RankOfItsOwn DEF Dealt
<1>2. \A v, w \in AllWorkers :
          Dealt(v, ms) /\ Dealt(w, ms) /\ ms[Rank(v)] = ms[Rank(w)] => v = w
  <2>1. \A v, w \in AllWorkers :
            Dealt(v, ms) /\ Dealt(w, ms) /\ ms[Rank(v)] = ms[Rank(w)] => Rank(v) = Rank(w)
    BY <1>1 DEF ListedOnce
  <2>. QED
    BY <1>1, <2>1, RankOfItsOwn
<1>3. CASE Cardinality(Idle) <= Len(ms)
  <2>1. PICK k \in 0..Len(ms) : k = Cardinality(Idle)
    BY <1>1, <1>3
  <2>2. rest = SubSeq(ms, k + 1, Len(ms))
    BY <2>1
  <2>3. rest \in Seq(M) /\ Listed(rest) \subseteq Listed(ms) /\ ListedOnce(rest)
    BY <2>2, ListedDrop
  <2>4. \A i \in 1..k : ms[i] \in Listed(ms) \ Listed(rest)
    BY <2>2, ListedGone
  <2>. QED
    BY <1>1, <1>2, <2>1, <2>3, <2>4
<1>4. CASE Cardinality(Idle) > Len(ms)
  <2>1. rest = <<>> /\ rest \in Seq(M) /\ Listed(rest) = {} /\ ListedOnce(rest)
    <3>1. PICK k \in Nat : k = Cardinality(Idle) + 1 /\ k > Len(ms)
      BY <1>1, <1>4
    <3>2. rest = SubSeq(ms, k, Len(ms)) /\ \A i \in k..Len(ms) : ms[i] \in M
      BY <1>1, <3>1
    <3>3. rest \in Seq(M) /\ Len(rest) = 0
      BY <1>1, <3>1, <3>2, SubSeqProperties
    <3>. QED
      BY <3>3 DEF Listed, ListedOnce
  <2>2. \A i \in 1..Len(ms) : ms[i] \in Listed(ms)
    BY DEF Listed
  <2>. QED
    BY <1>1, <1>2, <2>1, <2>2
<1>. QED
  BY <1>1, <1>3, <1>4

(* The frames of a framed wire's front are messages that leave it.         *)
LEMMA FramesLeave ==
    ASSUME NEW M, NEW s \in Seq(FrameUnit(M)), Framed(s), CarriedOnce(s),
           NEW n \in 0..Len(s)
    PROVE  /\ ListedOnce(Frames(SubSeq(s, 1, n)))
           /\ Listed(Frames(SubSeq(s, 1, n)))
                 \subseteq Carried(s) \ Carried(SubSeq(s, 2 * (n \div 2) + 1, Len(s)))
<1>. PICK b : b = SubSeq(s, 1, n)
  OBVIOUS
<1>. PICK j \in 0..Len(s) : j = 2 * (n \div 2)
  OBVIOUS
<1>. PICK t : t = SubSeq(s, j + 1, Len(s))
  OBVIOUS
<1>0. ASSUME NEW k \in 1..j, s[k].unit = "payload" PROVE s[k].msg \in Carried(s) \ Carried(t)
  BY <1>0, CarriedGone
<1>1. Len(b) = n /\ \A i \in 1..n : b[i] = s[i]
  OBVIOUS
<1>2. Len(Frames(b)) = Len(b) \div 2 /\ \A i \in 1..(Len(b) \div 2) : Frames(b)[i] = b[2 * i].msg
  BY <1>1 DEF Frames
<1>3. ASSUME NEW i \in 1..Len(Frames(b))
      PROVE  /\ 2 * i \in 1..j /\ 2 * i \in 1..Len(s)
             /\ Frames(b)[i] = s[2 * i].msg /\ s[2 * i].unit = "payload"
  <2>1. 2 * i \in 1..n /\ 2 * i \in 1..j /\ (2 * i) % 2 = 0 /\ 2 * i \in 1..Len(s)
    BY <1>1, <1>2
  <2>2. Frames(b)[i] = b[2 * i].msg
    BY <1>2
  <2>. QED
    BY <1>1, <2>1, <2>2 DEF Framed
<1>4. ListedOnce(Frames(b))
  <2>. SUFFICES ASSUME NEW i \in 1..Len(Frames(b)), NEW k \in 1..Len(Frames(b)), Frames(b)[i] = Frames(b)[k]
                PROVE  i = k
    BY DEF ListedOnce
  <2>1. 2 * i = 2 * k
    BY <1>3 DEF CarriedOnce
  <2>. QED
    BY <1>1, <1>2, <2>1
<1>5. ASSUME NEW i \in 1..Len(Frames(b)) PROVE Frames(b)[i] \in Carried(s) \ Carried(t)
  <2>1. PICK k \in 1..j : k = 2 * i
    BY <1>3
  <2>2. s[k].unit = "payload" /\ Frames(b)[i] = s[k].msg
    BY <1>3, <2>1
  <2>. QED
    BY <1>0, <2>2
<1>. QED
  BY <1>4, <1>5 DEF Listed

-----------------------------------------------------------------------------
(* The host's steps copy no message.                                       *)

(* The streams are sequences of units, of which those of the initialization *)
(* message carry nothing.                                                  *)
LEMMA StreamTypes ==
    ASSUME IInv
    PROVE  /\ Wire \in Seq(Unit) /\ OutStream \in Seq(Unit)
           /\ stdin \in Seq(Unit) /\ stdout \in Seq(Unit) /\ mainOut \in Seq(Unit) /\ recvBuffer \in Seq(Unit)
           /\ taskQueue \in Seq(Asked) /\ task \in [AllWorkers -> SUBSET Asked]
           /\ outbox \in [AllWorkers -> Seq(Asked)]
BY DEF IInv, TypeOK, PluginHoldsAsked, Wire, OutStream

(* Nothing but the reader's buffer changes, or is emptied.                 *)
LEMMA KeepStep ==
    ASSUME OneCopy, UNCHANGED <<stdin, recvBuffer, taskQueue, task, outbox, stdout, mainOut>>,
           Received' \subseteq Received
    PROVE  OneCopy' /\ InFlight' \subseteq InFlight /\ (Received' = {} => InFlight' \subseteq InFlight \ Received)
<1>1. /\ Wire' = Wire /\ OutStream' = OutStream /\ \A w \in AllWorkers : Held(w)' = Held(w)
      /\ taskQueue' = taskQueue /\ task' = task /\ outbox' = outbox
  BY DEF Wire, OutStream, Held
<1>2. OneCopy'
  BY <1>1 DEF OneCopy
<1>3. InFlight' \subseteq InFlight
  BY <1>1 DEF InFlight
<1>. QED
  BY <1>1, <1>2, <1>3 DEF OneCopy, InFlight

(* A caller writes a header, or its request.                               *)
LEMMA WireGrows ==
    ASSUME IInv, OneCopy, FlightInv(InFlight), UNCHANGED nodeVars,
           NEW c \in Callers, WriteHeader(c) \/ WritePayload(c)
    PROVE  /\ OneCopy' /\ Received' = Received
           /\ WriteHeader(c) => InFlight' \subseteq InFlight
           /\ WritePayload(c) => InFlight' \subseteq InFlight \cup {RequestOf(c)}
<1>1. /\ UNCHANGED <<recvBuffer, taskQueue, task, outbox, stdout, mainOut, readerPc, recvBuf>>
      /\ sendBuf = RequestOf(c) /\ c \in Callers /\ pc[c] \in {"writeHeader", "writePayload"}
  BY DEF nodeVars, WriteHeader, WritePayload, readerVars, IInv, SendBufGuarded
<1>2. Received' = Received
  BY <1>1 DEF Received
<1>3. CASE ~PluginUp
  <2>1. stdin' = stdin
    BY <1>3 DEF WriteHeader, WritePayload
  <2>. QED
    BY <1>1, <1>2, <2>1, KeepStep
<1>4. CASE PluginUp
  <2>1. PICK u : /\ stdin' = Append(stdin, u)
                 /\ \/ WriteHeader(c) /\ ~WritePayload(c) /\ u = Header(RequestOf(c))
                    \/ WritePayload(c) /\ ~WriteHeader(c) /\ u = Payload(RequestOf(c))
    BY <1>1, <1>4 DEF WriteHeader, WritePayload
  <2>2. RequestOf(c) \in Message /\ RequestOf(c) \notin InFlight
    BY <1>1 DEF RequestOf, Message, IInv, TypeOK, HostTypeOK, FlightInv, Unsent
  <2>3. u \in Unit /\ (u.unit = "payload" => u.msg = RequestOf(c) /\ WritePayload(c))
    BY <2>1, <2>2 DEF Unit, FrameUnit, Header, Payload, Message
  <2>4. Wire' = Append(Wire, u) /\ Wire \in Seq(Unit)
    BY <1>1, <2>1, <2>3, StreamTypes, ConcatAppend DEF Wire
  <2>5. CarriedOnce(Wire) /\ (u.unit = "payload" => u.msg \notin Carried(Wire))
    BY <2>2, <2>3 DEF OneCopy, InFlight
  <2>6. /\ Carried(Append(Wire, u)) = Carried(Wire) \cup (IF u.unit = "payload" THEN {u.msg} ELSE {})
        /\ CarriedOnce(Append(Wire, u))
    BY <2>3, <2>4, <2>5, CarriedAppend
  <2>7. /\ Carried(Wire') = Carried(Wire) \cup (IF u.unit = "payload" THEN {u.msg} ELSE {})
        /\ CarriedOnce(Wire')
    BY <2>4, <2>6
  <2>8. OutStream' = OutStream /\ \A w \in AllWorkers : Held(w)' = Held(w)
    BY <1>1 DEF OutStream, Held
  <2>9. InFlight' = InFlight \cup (IF u.unit = "payload" THEN {u.msg} ELSE {})
    BY <1>1, <1>2, <2>7, <2>8 DEF InFlight
  <2>10. OneCopy'
    BY <1>1, <1>2, <2>2, <2>3, <2>7, <2>8 DEF OneCopy, InFlight
  <2>11. (WriteHeader(c) => u.unit # "payload")
    BY <2>1 DEF Header
  <2>. QED
    BY <1>2, <2>3, <2>9, <2>10, <2>11
<1>. QED
  BY <1>3, <1>4

(* The host reads a unit: it is the first of the stream, and gone.         *)
LEMMA StreamRead ==
    ASSUME IInv, OneCopy, UNCHANGED nodeVars, stdout # <<>>, stdout' = Tail(stdout), stdin' = stdin,
           readerPc # "dispatch",
           \/ readerPc' # "dispatch"
           \/ readerPc' = "dispatch" /\ Head(stdout).unit = "payload" /\ recvBuf' = Head(stdout).msg
    PROVE  OneCopy' /\ InFlight' \subseteq InFlight
<1>1. UNCHANGED <<stdin, recvBuffer, taskQueue, task, outbox, mainOut>>
  BY DEF nodeVars
<1>2. /\ OutStream \in Seq(Unit) /\ OutStream # <<>> /\ OutStream' = Tail(OutStream)
      /\ Head(OutStream) = Head(stdout)
  <2>1. /\ Tail(stdout) \o mainOut = Tail(stdout \o mainOut) /\ Head(stdout) = (stdout \o mainOut)[1]
        /\ stdout \o mainOut # <<>> /\ stdout \o mainOut \in Seq(Unit)
    BY StreamTypes, TailConcat, SMTT(30)
  <2>2. (stdout \o mainOut)[1] = Head(stdout \o mainOut)
    BY <2>1
  <2>. QED
    BY <1>1, <2>1, <2>2 DEF OutStream
<1>3. PICK o : o = OutStream
  OBVIOUS
<1>4. /\ Carried(Tail(o)) \subseteq Carried(o) /\ CarriedOnce(Tail(o))
      /\ Head(o).unit = "payload" => Head(o).msg \in Carried(o) \ Carried(Tail(o))
  <2>1. o \in Seq(Unit) /\ o # <<>> /\ CarriedOnce(o)
    BY <1>2, <1>3 DEF OneCopy
  <2>. QED
    BY <2>1, CarriedTail
<1>5. Carried(OutStream') \subseteq Carried(OutStream) /\ CarriedOnce(OutStream')
  BY <1>2, <1>3, <1>4
<1>6. Received' \subseteq Carried(OutStream) \ Carried(OutStream')
  BY <1>2, <1>3, <1>4 DEF Received
<1>7. Wire' = Wire /\ \A w \in AllWorkers : Held(w)' = Held(w)
  BY <1>1 DEF Wire, Held
<1>. QED
  BY <1>1, <1>5, <1>6, <1>7 DEF OneCopy, InFlight

(* A step of the host keeps one copy of a message at most: it only puts a  *)
(* request on its way when it draws a new id.                              *)
LEMMA HostOneCopyStep ==
    ASSUME IInv, IInv', NodeFlight, HostStep, UNCHANGED nodeVars, Asked \subseteq Asked'
    PROVE  NodeFlight'
<1>. DEFINE moves == \/ InFlight' \subseteq InFlight /\ ~Dispatch
                     \/ Dispatch /\ InFlight' \subseteq InFlight \ {recvBuf}
                     \/ \E c \in Callers : WritePayload(c) /\ InFlight' \subseteq InFlight \cup {RequestOf(c)}
<1>1. OneCopy' /\ moves
  <2>. USE DEF NodeFlight
  <2>1. ASSUME NEW c \in Callers, WriteHeader(c) PROVE OneCopy' /\ moves
    <3>1. ~Dispatch
      BY <2>1 DEF WriteHeader, Dispatch, readerVars, IInv, TypeOK, HostTypeOK, Goto
    <3>. QED
      BY <2>1, <3>1, WireGrows
  <2>2. ASSUME NEW c \in Callers, WritePayload(c) PROVE OneCopy' /\ moves
    BY <2>2, WireGrows
  <2>3. CASE ReadInitHeader \/ ReadInitPayload \/ ReadHeader \/ ReadPayload
    <3>1. /\ stdout # <<>> /\ stdout' = Tail(stdout) /\ stdin' = stdin
          /\ readerPc \in {"initHeader", "initPayload", "header", "payload"}
          /\ readerPc' # "dispatch" \/ (ReadPayload /\ readerPc = "payload" /\ recvBuf' = Head(stdout).msg /\ readerPc' = "dispatch")
      BY <2>3 DEF ReadInitHeader, ReadInitPayload, ReadHeader, ReadPayload
    <3>2. readerPc = "payload" => Head(stdout).unit = "payload"
      <4>. SUFFICES ASSUME readerPc = "payload" PROVE Head(stdout).unit = "payload"
        OBVIOUS
      <4>1. InitLeft = 0 /\ HeaderRead = 1
        BY DEF InitLeft, HeaderRead
      <4>2. OutStream # <<>> /\ OutStream[1] = Head(stdout) /\ OutStream \in Seq(Unit)
        BY <3>1, StreamTypes, TailConcat DEF OutStream
      <4>3. 1 \in 1..Len(OutStream) /\ (1 + 1) % 2 # 1
        BY <4>2
      <4>. QED
        BY <4>1, <4>2, <4>3 DEF IInv, OutFramed
    <3>3. OneCopy' /\ InFlight' \subseteq InFlight
      BY <3>1, <3>2, StreamRead
    <3>4. ~Dispatch
      BY <3>1 DEF Dispatch
    <3>. QED
      BY <3>3, <3>4
  <2>4. CASE Dispatch
    <3>1. /\ readerPc = "dispatch" /\ readerPc' = "header"
          /\ UNCHANGED <<stdin, recvBuffer, taskQueue, task, outbox, stdout, mainOut>>
      BY <2>4 DEF Dispatch, nodeVars, FlightInv
    <3>2. Received' = {} /\ Received = {recvBuf}
      BY <3>1 DEF Received
    <3>3. OneCopy' /\ InFlight' \subseteq InFlight \ Received
      BY <3>1, <3>2, KeepStep
    <3>. QED
      BY <2>4, <3>2, <3>3
  <2>5. ASSUME UNCHANGED <<stdin, stdout, readerPc, recvBuf>>, ~Dispatch PROVE OneCopy' /\ moves
    <3>1. Received' \subseteq Received /\ UNCHANGED <<recvBuffer, taskQueue, task, outbox, mainOut>>
      BY <2>5 DEF Received, nodeVars
    <3>2. OneCopy' /\ InFlight' \subseteq InFlight
      BY <2>5, <3>1, KeepStep
    <3>. QED
      BY <2>5, <3>2
  <2>6. ASSUME NEW c \in Callers, CallerStep(c), ~WriteHeader(c), ~WritePayload(c)
        PROVE  OneCopy' /\ moves
    <3>1. UNCHANGED <<stdin, stdout, readerPc, recvBuf>>
      BY <2>6 DEF CallerStep, DrawId, StoreCallback, Lock, FillSendBuf, Unlock, Receive, readerVars, pipeVars
    <3>. QED
      BY <2>4, <2>5, <3>1
  <2>7. CASE StartFails \/ NewPluginFails \/ ReaderEOF \/ HostExit \/ HostKilled
    <3>1. UNCHANGED <<stdin, stdout, readerPc, recvBuf>>
      BY <2>7 DEF StartFails, NewPluginFails, ReaderEOF, HostExit, HostKilled, readerVars
    <3>. QED
      BY <2>4, <2>5, <3>1
  <2>. QED
    BY <2>1, <2>2, <2>3, <2>4, <2>6, <2>7 DEF HostStep, ReaderStep, CallerStep
<1>2. PICK F : F = InFlight
  OBVIOUS
<1>3. PICK G : G = InFlight'
  OBVIOUS
<1>4. host' = "running" /\ readerPc' = "dispatch" => recvBuf' \in G
  BY <1>3 DEF InFlight, Received
<1>5. HostTypeOK /\ IdsOwned /\ CallsInv /\ FlightInv(F)
  BY <1>2 DEF IInv, TypeOK, NodeFlight
<1>6. \/ G \subseteq F /\ ~Dispatch
      \/ Dispatch /\ G \subseteq F \ {recvBuf}
      \/ \E c \in Callers : WritePayload(c) /\ G \subseteq F \cup {RequestOf(c)}
  BY <1>1, <1>2, <1>3
<1>7. CallsInv' /\ FlightInv(G)'
  BY <1>4, <1>5, <1>6, HostCallsStep, HostFlightStep
<1>8. FlightInv(InFlight)'
  BY <1>3, <1>7 DEF FlightInv
<1>. QED
  BY <1>1, <1>7, <1>8 DEF NodeFlight

-----------------------------------------------------------------------------
(* The plugin's steps copy no message.                                     *)

(* InFlight, place by place. *)
LEMMA InFlightPlaces ==
    \A m : m \in InFlight <=>
        \/ m \in Carried(Wire) \/ m \in Listed(taskQueue) \/ \E w \in AllWorkers : m \in Held(w)
        \/ m \in Carried(OutStream) \/ m \in Received
BY DEF InFlight

(* A data event: the frames leave the wire, each for one worker or the queue. *)
LEMMA StdinDataCopies ==
    ASSUME IInv, OneCopy, UNCHANGED hostVars, NEW n \in 1..Len(stdin), StdinData(n)
    PROVE  OneCopy' /\ InFlight' \subseteq InFlight
<1>. DEFINE b == recvBuffer \o SubSeq(stdin, 1, n)
            ms == Frames(b)
            rest == SubSeq(ms, Cardinality(Idle) + 1, Len(ms))
<1>0. TypeOK /\ Received' = Received /\ OutStream' = OutStream /\ outbox' = outbox
  BY DEF StdinData, hostVars, Received, OutStream, IInv
<1>1. /\ ms \in Seq(Asked) /\ ListedOnce(ms)
      /\ Listed(ms) \subseteq Carried(Wire) \ Carried(Wire')
      /\ Carried(Wire') \subseteq Carried(Wire) /\ CarriedOnce(Wire')
  <2>1. /\ b \in Seq(FrameUnit(Asked)) /\ Len(b) = Len(recvBuffer) + n /\ Len(b) \in Nat
        /\ ms \in Seq(Asked)
        /\ Partial(b) \o SubSeq(stdin, n + 1, Len(stdin)) = SubSeq(Wire, 2 * (Len(b) \div 2) + 1, Len(Wire))
    BY ParsedAsked
  <2>2. b = SubSeq(Wire, 1, Len(recvBuffer) + n) /\ Len(Wire) = Len(recvBuffer) + Len(stdin)
    <3>1. PICK c : c = b
      OBVIOUS
    <3>. QED
      BY <3>1, StreamTypes, DataEvent DEF Wire
  <2>3. Wire' = Partial(b) \o SubSeq(stdin, n + 1, Len(stdin))
    BY DEF StdinData, Wire
  <2>4. Wire \in Seq(FrameUnit(Asked)) /\ Framed(Wire) /\ CarriedOnce(Wire)
    BY FramedIsIntact DEF IInv, WireFramed, OneCopy
  <2>5. PICK k \in 0..Len(Wire) : k = Len(recvBuffer) + n
    BY <2>1, <2>2, StreamTypes
  <2>6. PICK j \in 0..Len(Wire) : j = 2 * (Len(b) \div 2)
    BY <2>1, <2>2, <2>5
  <2>7. PICK s : s = Wire
    OBVIOUS
  <2>8. PICK t : t = Wire'
    OBVIOUS
  <2>9. b = SubSeq(s, 1, k) /\ t = SubSeq(s, j + 1, Len(s))
    BY <2>1, <2>2, <2>3, <2>5, <2>6, <2>7, <2>8
  <2>10. PICK c : c = b
    OBVIOUS
  <2>11. ListedOnce(Frames(c)) /\ Listed(Frames(c)) \subseteq Carried(s) \ Carried(t)
    <3>1. s \in Seq(FrameUnit(Asked)) /\ Framed(s) /\ CarriedOnce(s) /\ k \in 0..Len(s) /\ j \in 0..Len(s)
      BY <2>4, <2>7
    <3>2. c = SubSeq(s, 1, k) /\ j = 2 * (k \div 2) /\ t = SubSeq(s, j + 1, Len(s))
      BY <2>1, <2>5, <2>6, <2>9, <2>10
    <3>. QED
      BY <3>1, <3>2, FramesLeave
  <2>12. Carried(t) \subseteq Carried(s) /\ CarriedOnce(t)
    BY <2>4, <2>6, <2>7, <2>9, CarriedDrop
  <2>. QED
    BY <2>1, <2>7, <2>8, <2>10, <2>11, <2>12
<1>2. /\ task' = [w \in AllWorkers |-> IF Dealt(w, ms) THEN task[w] \cup {ms[Rank(w)]} ELSE task[w]]
      /\ taskQueue' = taskQueue \o rest
  BY Zenon DEF StdinData
<1>. HIDE DEF ms
<1>3. /\ rest \in Seq(Asked) /\ Listed(rest) \subseteq Listed(ms) /\ ListedOnce(rest)
      /\ \A w \in AllWorkers : Dealt(w, ms) => ms[Rank(w)] \in Listed(ms) \ Listed(rest)
      /\ \A v, w \in AllWorkers : Dealt(v, ms) /\ Dealt(w, ms) /\ ms[Rank(v)] = ms[Rank(w)] => v = w
  <2>1. PICK r : r = SubSeq(ms, Cardinality(Idle) + 1, Len(ms))
    OBVIOUS
  <2>2. PICK fs : fs = ms
    OBVIOUS
  <2>3. fs \in Seq(Asked) /\ ListedOnce(fs) /\ r = SubSeq(fs, Cardinality(Idle) + 1, Len(fs))
    BY <1>1, <2>1, <2>2
  <2>4. /\ r \in Seq(Asked) /\ Listed(r) \subseteq Listed(fs) /\ ListedOnce(r)
        /\ \A w \in AllWorkers : Dealt(w, fs) => fs[Rank(w)] \in Listed(fs) \ Listed(r)
        /\ \A v, w \in AllWorkers : Dealt(v, fs) /\ Dealt(w, fs) /\ fs[Rank(v)] = fs[Rank(w)] => v = w
    BY <1>0, <2>3, Dealing
  <2>. QED
    BY <2>1, <2>2, <2>4
<1>. HIDE DEF rest
<1>4. Listed(taskQueue') = Listed(taskQueue) \cup Listed(rest) /\ ListedOnce(taskQueue')
  <2>1. taskQueue \in Seq(Asked) /\ ListedOnce(taskQueue) /\ Listed(taskQueue) \cap Listed(rest) = {}
    BY <1>1, <1>3, StreamTypes DEF OneCopy
  <2>. QED
    BY <1>2, <1>3, <2>1, ListedConcat
<1>5. \A w \in AllWorkers :
         /\ Dealt(w, ms) => Held(w)' = Held(w) \cup {ms[Rank(w)]} /\ task'[w] = task[w] \cup {ms[Rank(w)]}
         /\ ~Dealt(w, ms) => Held(w)' = Held(w) /\ task'[w] = task[w]
  BY <1>0, <1>2 DEF Held
<1>6. \A w \in AllWorkers : Dealt(w, ms) => ms[Rank(w)] \in Carried(Wire)
  BY <1>1, <1>3
<1>7. \A w \in AllWorkers : Held(w)' \subseteq Held(w) \cup Carried(Wire)
  BY <1>5, <1>6
<1>8. InFlight' \subseteq InFlight
  BY <1>0, <1>1, <1>3, <1>4, <1>7 DEF InFlight
<1>9. \A v, w \in AllWorkers : v # w => Held(v)' \cap Held(w)' = {}
  BY <1>3, <1>5, <1>6 DEF OneCopy
<1>10. \A w \in AllWorkers : task'[w] \cap Listed(outbox[w]) = {}
  BY <1>5, <1>6 DEF OneCopy, Held
<1>11. Carried(Wire') \cap Listed(taskQueue') = {}
  BY <1>1, <1>3, <1>4 DEF OneCopy
<1>12. \A w \in AllWorkers : Held(w)' \cap (Carried(Wire') \cup Listed(taskQueue')) = {}
  <2>. TAKE w \in AllWorkers
  <2>1. Held(w) \cap (Carried(Wire) \cup Listed(taskQueue)) = {} /\ Carried(Wire) \cap Listed(taskQueue) = {}
    BY DEF OneCopy
  <2>. QED
    BY <1>1, <1>3, <1>4, <1>5, <2>1
<1>13. (Carried(OutStream) \cup Received) \cap
           (Carried(Wire') \cup Listed(taskQueue') \cup UNION {Held(w)' : w \in AllWorkers}) = {}
  BY <1>1, <1>3, <1>4, <1>7 DEF OneCopy
<1>. QED
  BY <1>0, <1>1, <1>4, <1>8, <1>9, <1>10, <1>11, <1>12, <1>13 DEF OneCopy

(* WorkerDone: a message goes from a worker's tasks to its answers.        *)
LEMMA WorkerDoneCopies ==
    ASSUME IInv, OneCopy, UNCHANGED hostVars, NEW w \in AllWorkers, NEW m \in task[w], WorkerDone(w, m)
    PROVE  OneCopy' /\ InFlight' \subseteq InFlight
<1>1. /\ task' = [task EXCEPT ![w] = @ \ {m}] /\ outbox' = [outbox EXCEPT ![w] = Append(@, m)]
      /\ taskQueue' = taskQueue /\ Wire' = Wire /\ OutStream' = OutStream /\ Received' = Received
  BY DEF WorkerDone, Wire, OutStream, Received, hostVars, pipeVars
<1>2. m \in Asked /\ outbox[w] \in Seq(Asked) /\ ListedOnce(outbox[w]) /\ m \notin Listed(outbox[w])
  BY StreamTypes DEF OneCopy
<1>3. Listed(outbox'[w]) = Listed(outbox[w]) \cup {m} /\ ListedOnce(outbox'[w])
  <2>1. outbox'[w] = Append(outbox[w], m)
    BY <1>1, StreamTypes
  <2>. QED
    BY <1>2, <2>1, ListedAppend
<1>4. /\ task'[w] = task[w] \ {m} /\ Held(w)' = Held(w)
      /\ \A v \in AllWorkers \ {w} : task'[v] = task[v] /\ outbox'[v] = outbox[v] /\ Held(v)' = Held(v)
  BY <1>1, <1>3, StreamTypes DEF Held
<1>5. \A v \in AllWorkers : Held(v)' = Held(v)
  BY <1>4
<1>6. \A v \in AllWorkers : ListedOnce(outbox'[v]) /\ task'[v] \cap Listed(outbox'[v]) = {}
  BY <1>3, <1>4 DEF OneCopy
<1>7. InFlight' \subseteq InFlight
  BY <1>1, <1>5 DEF InFlight
<1>. QED
  BY <1>1, <1>5, <1>6, <1>7 DEF OneCopy

(* HandleAck: the worker gets the first message of the queue, or none.     *)
LEMMA HandleAckCopies ==
    ASSUME IInv, OneCopy, UNCHANGED hostVars, NEW w \in AllWorkers, HandleAck(w)
    PROVE  OneCopy' /\ InFlight' \subseteq InFlight
<1>1. Wire' = Wire /\ OutStream' = OutStream /\ Received' = Received /\ outbox' = outbox
  BY DEF HandleAck, Wire, OutStream, Received, hostVars, pipeVars
<1>2. CASE UNCHANGED <<task, taskQueue>>
  <2>1. \A v \in AllWorkers : Held(v)' = Held(v)
    BY <1>1, <1>2 DEF Held
  <2>2. InFlight' \subseteq InFlight
    BY <1>1, <1>2, <2>1 DEF InFlight
  <2>. QED
    BY <1>1, <1>2, <2>1, <2>2 DEF OneCopy
<1>3. CASE taskQueue # <<>>
  <2>1. PICK m : m = Head(taskQueue)
    OBVIOUS
  <2>2. task' = [task EXCEPT ![w] = @ \cup {m}] /\ taskQueue' = Tail(taskQueue)
    BY <1>3, <2>1 DEF HandleAck
  <2>3. /\ Listed(taskQueue') \subseteq Listed(taskQueue) /\ ListedOnce(taskQueue')
        /\ m \in Listed(taskQueue) \ Listed(taskQueue')
    BY <1>3, <2>1, <2>2, StreamTypes, ListedTail DEF OneCopy
  <2>4. /\ task'[w] = task[w] \cup {m} /\ Held(w)' = Held(w) \cup {m}
        /\ \A v \in AllWorkers \ {w} : task'[v] = task[v] /\ Held(v)' = Held(v)
    BY <1>1, <2>2, StreamTypes DEF Held
  <2>5. \A v \in AllWorkers : m \notin Held(v)
    BY <2>3 DEF OneCopy
  <2>6. \A v \in AllWorkers : task'[v] \cap Listed(outbox[v]) = {}
    BY <2>4, <2>5 DEF OneCopy, Held
  <2>7. \A u, v \in AllWorkers : u # v => Held(u)' \cap Held(v)' = {}
    BY <2>4, <2>5 DEF OneCopy
  <2>8. m \notin Carried(Wire) /\ m \notin Carried(OutStream) /\ m \notin Received
    BY <2>3 DEF OneCopy
  <2>9. \A v \in AllWorkers : Held(v)' \cap (Carried(Wire) \cup Listed(taskQueue')) = {}
    BY <2>3, <2>4, <2>8 DEF OneCopy
  <2>10. \A v \in AllWorkers : Held(v)' \subseteq Held(v) \cup Listed(taskQueue)
    BY <2>3, <2>4
  <2>11. (Carried(OutStream) \cup Received) \cap
             (Carried(Wire) \cup Listed(taskQueue') \cup UNION {Held(v)' : v \in AllWorkers}) = {}
    BY <2>3, <2>10 DEF OneCopy
  <2>12. InFlight' \subseteq InFlight
    BY <1>1, <2>3, <2>10 DEF InFlight
  <2>. QED
    BY <1>1, <2>3, <2>6, <2>7, <2>9, <2>11, <2>12 DEF OneCopy
<1>. QED
  BY <1>2, <1>3 DEF HandleAck

(* Forward: a worker's first answer is put at the end of the stream.       *)
LEMMA ForwardCopies ==
    ASSUME IInv, OneCopy, UNCHANGED hostVars, NEW w \in AllWorkers, Forward(w)
    PROVE  OneCopy' /\ InFlight' \subseteq InFlight
<1>1. /\ Wire' = Wire /\ taskQueue' = taskQueue /\ Received' = Received /\ task' = task /\ stdout' = stdout
      /\ outbox[w] # <<>> /\ outbox' = [outbox EXCEPT ![w] = Tail(@)] /\ mainOut' = Frame(Head(outbox[w]))
      /\ plugin = "running" /\ mainPc = "loop"
  BY DEF Forward, NodeRuns, Wire, Received, hostVars, pipeVars
<1>2. PICK m : m = Head(outbox[w])
  OBVIOUS
<1>3. outbox[w] \in Seq(Asked) /\ ListedOnce(outbox[w]) /\ outbox'[w] = Tail(outbox[w])
  BY <1>1, StreamTypes DEF OneCopy
<1>4. /\ Listed(outbox'[w]) \subseteq Listed(outbox[w]) /\ ListedOnce(outbox'[w])
      /\ m \in Listed(outbox[w]) \ Listed(outbox'[w])
  BY <1>1, <1>2, <1>3, ListedTail
<1>5. m \in Asked /\ m \in Message
  BY <1>1, <1>2, <1>3, AskedType DEF IInv
<1>6. OutStream' = Append(Append(OutStream, Header(m)), Payload(m)) /\ OutStream \in Seq(Unit)
  <2>1. mainOut = <<>>
    BY <1>1 DEF IInv, OutFramed
  <2>2. OutStream = stdout /\ stdout \in Seq(Unit)
    BY <2>1, StreamTypes, ConcatEmptySeq DEF OutStream
  <2>3. stdout \o <<Header(m), Payload(m)>> = Append(Append(stdout, Header(m)), Payload(m))
    BY <2>2
  <2>. QED
    BY <1>1, <1>2, <2>2, <2>3 DEF OutStream, Frame
<1>7. Carried(OutStream') = Carried(OutStream) \cup {m} /\ CarriedOnce(OutStream')
  <2>1. /\ Header(m) \in Unit /\ Header(m).unit # "payload"
        /\ Payload(m) \in Unit /\ Payload(m).unit = "payload" /\ Payload(m).msg = m
    BY <1>5 DEF Header, Payload, Unit, FrameUnit, Message
  <2>2. PICK h : h = Header(m)
    OBVIOUS
  <2>3. PICK p : p = Payload(m)
    OBVIOUS
  <2>4. PICK s : s = Append(OutStream, h)
    OBVIOUS
  <2>5. s \in Seq(Unit) /\ Carried(s) = Carried(OutStream) /\ CarriedOnce(s)
    BY <1>6, <2>1, <2>2, <2>4, CarriedAppend DEF OneCopy
  <2>6. m \notin Carried(s)
    BY <1>4, <2>5 DEF OneCopy, Held
  <2>7. Carried(Append(s, p)) = Carried(s) \cup {m} /\ CarriedOnce(Append(s, p))
    BY <2>1, <2>3, <2>5, <2>6, CarriedAppend
  <2>. QED
    BY <1>6, <2>2, <2>3, <2>4, <2>5, <2>7
<1>8. /\ Held(w)' \subseteq Held(w) /\ m \in Held(w) /\ m \notin Held(w)'
      /\ \A v \in AllWorkers \ {w} : outbox'[v] = outbox[v] /\ Held(v)' = Held(v)
  <2>1. m \notin task[w]
    BY <1>4 DEF OneCopy
  <2>. QED
    BY <1>1, <1>4, <2>1, StreamTypes DEF Held
<1>9. \A v \in AllWorkers : Held(v)' \subseteq Held(v) /\ m \notin Held(v)'
  BY <1>8 DEF OneCopy
<1>10. \A v \in AllWorkers : ListedOnce(outbox'[v]) /\ task[v] \cap Listed(outbox'[v]) = {}
  BY <1>4, <1>8 DEF OneCopy
<1>11. \A u, v \in AllWorkers : u # v => Held(u)' \cap Held(v)' = {}
  BY <1>9 DEF OneCopy
<1>12. \A v \in AllWorkers : Held(v)' \cap (Carried(Wire) \cup Listed(taskQueue)) = {}
  BY <1>9 DEF OneCopy
<1>13. m \notin Carried(Wire) /\ m \notin Listed(taskQueue) /\ m \notin Received
  BY <1>8 DEF OneCopy
<1>14. (Carried(OutStream') \cup Received) \cap
           (Carried(Wire) \cup Listed(taskQueue) \cup UNION {Held(v)' : v \in AllWorkers}) = {}
  BY <1>7, <1>9, <1>13 DEF OneCopy
<1>15. Carried(OutStream') \cap Received = {}
  BY <1>7, <1>13 DEF OneCopy
<1>16. InFlight' \subseteq InFlight
  BY <1>1, <1>7, <1>8, <1>9 DEF InFlight
<1>. QED
  BY <1>1, <1>7, <1>10, <1>11, <1>12, <1>14, <1>15, <1>16 DEF OneCopy

(* The main thread writes a unit: it moves within the stream.              *)
LEMMA StreamShift ==
    ASSUME IInv, MainWrite
    PROVE  OutStream' = OutStream
<1>1. mainOut # <<>> /\ stdout' = Append(stdout, Head(mainOut)) /\ mainOut' = Tail(mainOut)
  BY DEF MainWrite, NodeRuns, IInv, OutFramed
<1>. QED
  BY <1>1, StreamTypes, ShiftConcat DEF OutStream

(* The initialization message carries nothing.                             *)
LEMMA BootCarries ==
    ASSUME IInv, Boot
    PROVE  Carried(OutStream') = {} /\ CarriedOnce(OutStream')
<1>1. stdout' = stdout /\ mainOut' = InitFrame /\ plugin = "starting"
  BY DEF Boot
<1>2. stdout = <<>>
  BY <1>1, StreamTypes, ConcatEqualIffEmpty DEF IInv, OutFramed, OutStream
<1>3. OutStream' = InitFrame
  BY <1>1, <1>2 DEF OutStream, InitFrame
<1>4. \A i \in 1..Len(InitFrame) : InitFrame[i].unit # "payload"
  BY DEF InitFrame
<1>. QED
  BY <1>3, <1>4 DEF Carried, CarriedOnce

(* A step of the plugin copies no message.                                 *)
LEMMA NodeCopies ==
    ASSUME IInv, OneCopy, NodeStep, UNCHANGED hostVars
    PROVE  OneCopy' /\ InFlight' \subseteq InFlight
<1>1. ASSUME NEW w \in AllWorkers, WorkerStep(w) PROVE OneCopy' /\ InFlight' \subseteq InFlight
  BY <1>1, WorkerDoneCopies DEF WorkerStep
<1>2. ASSUME NEW w \in AllWorkers, HandleAck(w) \/ Forward(w) PROVE OneCopy' /\ InFlight' \subseteq InFlight
  BY <1>2, HandleAckCopies, ForwardCopies
<1>3. ASSUME NEW n \in 1..Len(stdin), StdinData(n) PROVE OneCopy' /\ InFlight' \subseteq InFlight
  BY <1>3, StdinDataCopies
<1>0. Received' = Received
  BY DEF hostVars, Received
<1>4. CASE MainWrite \/ Boot
  <2>1. /\ Wire' = Wire /\ \A w \in AllWorkers : Held(w)' = Held(w)
        /\ taskQueue' = taskQueue /\ task' = task /\ outbox' = outbox
    BY <1>4 DEF MainWrite, Boot, Wire, Held
  <2>2. Carried(OutStream') \subseteq Carried(OutStream) /\ CarriedOnce(OutStream')
    BY <1>4, StreamShift, BootCarries DEF OneCopy
  <2>3. InFlight' \subseteq InFlight
    BY <1>0, <2>1, <2>2 DEF InFlight
  <2>. QED
    BY <1>0, <2>1, <2>2, <2>3 DEF OneCopy
<1>5. CASE BootThrows \/ StdinEnd \/ MainWriteFails \/ \E w \in AllWorkers : WorkerThrows(w)
  BY <1>0, <1>5, KeepStep DEF BootThrows, StdinEnd, MainWriteFails, WorkerThrows, nodeVars
<1>. QED
  BY <1>1, <1>2, <1>3, <1>4, <1>5 DEF NodeStep, MainStep

(* Every message has one copy and its callback, whoever takes the step.    *)
LEMMA NodeFlightStep ==
    ASSUME IInv, IInv', NodeFlight, [Next]_vars
    PROVE  NodeFlight'
<1>1. Asked \subseteq Asked'
  BY AskedGrows
<1>2. CASE HostStep /\ UNCHANGED nodeVars
  BY <1>1, <1>2, HostOneCopyStep
<1>3. CASE UNCHANGED hostVars /\ (NodeStep \/ UNCHANGED vars)
  <2>1. OneCopy' /\ InFlight' \subseteq InFlight /\ host' = host
    <3>1. CASE NodeStep
      <4>1. host' = host
        BY <3>1 DEF NodeStep, MainStep, WorkerStep, WorkerThrows, WorkerDone, Boot, BootThrows,
               StdinData, StdinEnd, MainWrite, MainWriteFails, HandleAck, Forward, pipeVars
      <4>. QED
        BY <1>3, <3>1, <4>1, NodeCopies DEF NodeFlight
    <3>2. CASE UNCHANGED vars
      <4>1. /\ UNCHANGED <<stdin, recvBuffer, taskQueue, task, outbox, stdout, mainOut>>
            /\ Received' = Received /\ host' = host
        BY <3>2 DEF vars, pipeVars, nodeVars, hostVars, Received
      <4>. QED
        BY <4>1, KeepStep DEF NodeFlight
    <3>. QED
      BY <1>3, <3>1, <3>2
  <2>2. PICK F : F = InFlight
    OBVIOUS
  <2>3. PICK G : G = InFlight'
    OBVIOUS
  <2>4. host = "running" /\ readerPc = "dispatch" => recvBuf \in G
    <3>1. recvBuf' = recvBuf /\ readerPc' = readerPc
      BY <1>3 DEF hostVars
    <3>. QED
      BY <2>3, <3>1 DEF InFlight, Received
  <2>5. CallsInv /\ FlightInv(F) /\ G \subseteq F
    BY <2>1, <2>2, <2>3 DEF NodeFlight
  <2>6. CallsInv' /\ FlightInv(G)'
    BY <1>3, <2>1, <2>4, <2>5, PluginFlightStep
  <2>7. FlightInv(InFlight)'
    BY <2>3, <2>6 DEF FlightInv
  <2>. QED
    BY <2>1, <2>6, <2>7 DEF NodeFlight
<1>. QED
  BY <1>2, <1>3, HostFrame

(* At first nothing is on its way. *)
LEMMA InitNodeFlight == Init => NodeFlight
<1>. SUFFICES ASSUME Init PROVE NodeFlight
  OBVIOUS
<1>1. /\ pc = [c \in Callers |-> "idle"] /\ answer = [c \in Callers |-> None] /\ DOMAIN pending = {}
      /\ host = "starting" /\ readerPc = "initHeader"
  BY DEF Init, PipesInit, HostInit
<1>2. /\ Wire = <<>> /\ OutStream = <<>> /\ taskQueue = <<>> /\ Received = {}
      /\ \A w \in AllWorkers : outbox[w] = <<>> /\ task[w] = {} /\ Held(w) = {}
  BY DEF Init, PipesInit, HostInit, NodeInit, Wire, OutStream, Received, Held, Listed
<1>3. Listed(<<>>) = {} /\ Carried(<<>>) = {} /\ ListedOnce(<<>>) /\ CarriedOnce(<<>>)
  BY DEF Listed, Carried, ListedOnce, CarriedOnce
<1>4. InFlight = {} /\ OneCopy
  BY <1>2, <1>3 DEF InFlight, OneCopy
<1>. QED
  BY <1>1, <1>4 DEF NodeFlight, CallsInv, FlightInv, Unsent

(* However the host, the main thread and the workers interleave, a request *)
(* or its response is in one place at a time, and no caller waits for one  *)
(* that is nowhere (call in plugin.go, pluginMain in node-plugin's         *)
(* index.ts).                                                              *)
THEOREM OneCopyInFlight == Spec => []NodeFlight
<1>1. IInv /\ IInv' /\ NodeFlight /\ [Next]_vars => NodeFlight'
  BY NodeFlightStep
<1>. QED
  BY <1>1, InitNodeFlight, Invariance, PTL DEF Spec

(* The reader goroutine finds the callback of every response: it never panics. *)
THEOREM ResponsesExpected == Spec => []EveryResponseIsExpected
<1>1. NodeFlight => EveryResponseIsExpected
  BY DEF NodeFlight, CallsInv, EveryResponseIsExpected
<1>. QED
  BY <1>1, OneCopyInFlight, PTL

-----------------------------------------------------------------------------
(* The service the protocol implements.                                    *)

(* Every step of the host is a step of the service, or none of its business. *)
LEMMA HostServes ==
    ASSUME HostTypeOK, IdsOwned, CallsInv, HostStep, NEW F, FlightInv(F)
    PROVE  Rpc!Next \/ UNCHANGED Rpc!rpcVars
<1>. USE DEF HostTypeOK, Goto, Rpc!rpcVars
<1>1. ASSUME NEW c \in Callers, DrawId(c) PROVE Rpc!Next
  <2>1. pc[c] = "idle" /\ pc' = [pc EXCEPT ![c] = "store"] /\ ServiceOf = "up" /\ ServiceOf' = "up"
        /\ UNCHANGED <<fileOf, answer>>
    BY <1>1 DEF DrawId, ServiceOf, pipeVars
  <2>2. {d \in Callers : pc'[d] # "idle"} = {d \in Callers : pc[d] # "idle"} \cup {c}
    BY <2>1
  <2>3. Rpc!Ask(c)
    BY <2>1, <2>2 DEF Rpc!Ask
  <2>. QED
    BY <2>3 DEF Rpc!Next
<1>2. ASSUME NEW c \in Callers, CallerStep(c), ~DrawId(c) PROVE UNCHANGED Rpc!rpcVars
  <2>1. /\ UNCHANGED <<fileOf, answer, host>>
        /\ \E step \in CallerSteps \ {"idle"} : pc[c] # "idle" /\ pc' = [pc EXCEPT ![c] = step]
    BY <1>2 DEF CallerStep, StoreCallback, Lock, FillSendBuf, WriteHeader, WritePayload, Unlock, Receive,
                pipeVars, CallerSteps
  <2>2. {d \in Callers : pc'[d] # "idle"} = {d \in Callers : pc[d] # "idle"}
    BY <2>1
  <2>. QED
    BY <2>1, <2>2 DEF ServiceOf
<1>3. CASE Dispatch
  <2>1. /\ recvBuf \in Asked /\ recvBuf.id \in DOMAIN pending /\ host = "running" /\ host' = host
        /\ answer' = [answer EXCEPT ![pending[recvBuf.id]] = recvBuf.file]
        /\ UNCHANGED <<pc, fileOf>>
    BY <1>3 DEF Dispatch, FlightInv
  <2>2. PICK c \in Callers : recvBuf = RequestOf(c) /\ idOf[c] # 0
    BY <2>1 DEF Asked
  <2>3. pending[recvBuf.id] = c /\ recvBuf.file = fileOf[c] /\ pc[c] # "idle" /\ answer[c] = None
    BY <2>1, <2>2 DEF IdsOwned, RequestOf, CallsInv
  <2>4. Rpc!Answer(c)
    BY <2>1, <2>3 DEF Rpc!Answer, ServiceOf
  <2>. QED
    BY <2>4 DEF Rpc!Next
<1>4. CASE ReadInitPayload
  <2>1. Rpc!Start
    BY <1>4 DEF ReadInitPayload, callerVars, Rpc!Start, ServiceOf
  <2>. QED
    BY <2>1 DEF Rpc!Next
<1>5. CASE StartFails \/ NewPluginFails \/ ReaderEOF \/ HostKilled
  <2>1. Rpc!Stop
    BY <1>5 DEF StartFails, NewPluginFails, ReaderEOF, HostKilled, HostUp, callerVars, Rpc!Stop, ServiceOf
  <2>. QED
    BY <2>1 DEF Rpc!Next
<1>6. CASE HostExit
  <2>1. \A c \in Callers : pc[c] # "idle" => answer[c] # None
    BY <1>6 DEF HostExit, CallsInv
  <2>2. Rpc!End
    BY <1>6, <2>1 DEF HostExit, callerVars, Rpc!End, ServiceOf
  <2>. QED
    BY <2>2 DEF Rpc!Next
<1>7. CASE ReadInitHeader \/ ReadHeader \/ ReadPayload
  BY <1>7 DEF ReadInitHeader, ReadHeader, ReadPayload, callerVars, ServiceOf
<1>. QED
  BY <1>1, <1>2, <1>3, <1>4, <1>5, <1>6, <1>7 DEF HostStep, ReaderStep

(* The Node system implements the service: initial states map to initial   *)
(* states, every step to a step or a stutter.                              *)
THEOREM NodeImplementsRpc == Spec => ImplementsRpcSafely
<1>1. Init => Rpc!Init
  BY DEF Init, PipesInit, HostInit, Rpc!Init, ServiceOf
<1>2. IInv /\ NodeFlight /\ [Next]_vars => [Rpc!Next]_(Rpc!rpcVars)
  <2>. SUFFICES ASSUME IInv, NodeFlight, [Next]_vars PROVE Rpc!Next \/ UNCHANGED Rpc!rpcVars
    OBVIOUS
  <2>1. CASE HostStep
    <3>1. PICK F : F = InFlight
      OBVIOUS
    <3>2. HostTypeOK /\ IdsOwned /\ CallsInv /\ FlightInv(F)
      BY <3>1 DEF IInv, TypeOK, NodeFlight
    <3>. QED
      BY <2>1, <3>2, HostServes
  <2>2. CASE UNCHANGED hostVars /\ (NodeStep \/ UNCHANGED vars)
    <3>1. host' = host
      BY <2>2 DEF NodeStep, MainStep, WorkerStep, WorkerThrows, WorkerDone, Boot, BootThrows,
           StdinData, StdinEnd, MainWrite, MainWriteFails, HandleAck, Forward, pipeVars, vars
    <3>. QED
      BY <2>2, <3>1 DEF hostVars, Rpc!rpcVars, ServiceOf
  <2>. QED
    BY <2>1, <2>2, HostFrame
<1>. QED
  BY <1>1, <1>2, Invariance, OneCopyInFlight, PTL DEF Spec, ImplementsRpcSafely, Rpc!SafeSpec

-----------------------------------------------------------------------------
(* The Go plugin: the stream of responses.                                 *)

Booting == loopPc \in {"init", "initJson"}
Writing == {"header", "payload", "unlock"}

OddLeft == (Len(stdout) + HeaderRead) % 2 = 1

Shapes ==
    /\ \E S : stdout \in Seq(S)
    /\ DOMAIN workerPc = Workers /\ DOMAIN current = Workers
    /\ readerPc \in {"initHeader", "initPayload", "header", "payload", "dispatch"}
    /\ host = "running" => readerPc \notin {"initHeader", "initPayload"}
    /\ host = "starting" => readerPc \in {"initHeader", "initPayload"}
    /\ plugin = "starting" => loopPc = "init"

(* No worker writes before the initialization message is written.          *)
InitFirst ==
    /\ loopPc = "init" => readerPc = "initHeader" /\ stdout = <<>>
    /\ loopPc = "initJson" => InitLeft = Len(stdout) + 1
    /\ Booting => tasks = <<>> /\ \A w \in Workers : workerPc[w] = "take"

WriterAlone == \A w \in Workers : workerPc[w] \in Writing => writeMu = w

(* Headers and payloads alternate behind the initialization message.       *)
Alternate ==
    \A i \in 1..Len(stdout) : i > InitLeft =>
        IF (i + HeaderRead) % 2 = 1
        THEN stdout[i].unit = "header"
        ELSE /\ stdout[i].unit = "payload"
             /\ i > InitLeft + 1 => stdout[i - 1] = Header(stdout[i].msg)

(* A payload is missing exactly when the worker with writeMu is about to   *)
(* write it, and its header came last.                                     *)
FrameOpen ==
    /\ \A w \in Workers : workerPc[w] = "payload" =>
        OddLeft /\ (Len(stdout) > InitLeft => stdout[Len(stdout)] = Header(current[w]))
    /\ plugin = "running" /\ ~Booting /\ (\A w \in Workers : workerPc[w] # "payload") => ~OddLeft

OutInv == Shapes /\ InitFirst /\ WriterAlone /\ Alternate /\ FrameOpen

-----------------------------------------------------------------------------
(* The host reads. *)

LEMMA Parity ==
    ASSUME NEW n \in Nat
    PROVE  /\ n % 2 \in {0, 1}
           /\ (n + 1) % 2 = 1 <=> n % 2 = 0
           /\ (n + 2) % 2 = n % 2
OBVIOUS

LEMMA LeftRange ==
    ASSUME Shapes
    PROVE  /\ Len(stdout) \in Nat /\ HeaderRead \in {0, 1} /\ InitLeft \in {0, 1, 2}
           /\ readerPc = "initHeader" => InitLeft = 2 /\ HeaderRead = 0
           /\ readerPc = "initPayload" => InitLeft = 1 /\ HeaderRead = 1
           /\ readerPc \in {"header", "dispatch"} => InitLeft = 0 /\ HeaderRead = 0
           /\ readerPc = "payload" => InitLeft = 0 /\ HeaderRead = 1
<1>1. Len(stdout) \in Nat
  BY DEF Shapes
<1>. QED
  BY <1>1 DEF Shapes, InitLeft, HeaderRead

(* Each unit the host reads is a header more read or a whole frame.        *)
LEMMA ReadStep ==
    ASSUME OutInv, stdout # <<>>, stdout' = Tail(stdout), Shapes',
           UNCHANGED <<loopPc, tasks, workerPc, current, writeMu, plugin>>,
           \/ readerPc = "initHeader" /\ readerPc' = "initPayload"
           \/ readerPc = "initPayload" /\ readerPc' = "header"
           \/ readerPc = "header" /\ readerPc' = "payload"
           \/ readerPc = "payload" /\ readerPc' = "dispatch"
    PROVE  OutInv'
<1>. DEFINE d == HeaderRead' - HeaderRead
<1>1. /\ Len(stdout) \in Nat \ {0} /\ Len(stdout') = Len(stdout) - 1
      /\ \A i \in 1..Len(stdout') : stdout'[i] = stdout[i + 1]
  <2>1. PICK S : stdout \in Seq(S)
    BY DEF OutInv, Shapes
  <2>. QED
    BY <2>1, HeadTailProperties
<1>2. /\ HeaderRead \in {0, 1} /\ HeaderRead' = 1 - HeaderRead
      /\ InitLeft \in {0, 1, 2} /\ InitLeft' \in {0, 1}
      /\ InitLeft' = IF InitLeft = 0 THEN 0 ELSE InitLeft - 1
  BY DEF InitLeft, HeaderRead
<1>3. \A i \in Nat : (i + HeaderRead') % 2 = ((i + 1) + HeaderRead) % 2
  BY <1>2
<1>4. OddLeft' <=> OddLeft
  BY <1>1, <1>2 DEF OddLeft
<1>5. Alternate'
  <2>. SUFFICES ASSUME NEW i \in 1..Len(stdout'), i > InitLeft'
                PROVE  IF (i + HeaderRead') % 2 = 1
                       THEN stdout'[i].unit = "header"
                       ELSE /\ stdout'[i].unit = "payload"
                            /\ i > InitLeft' + 1 => stdout'[i - 1] = Header(stdout'[i].msg)
    BY DEF Alternate, Header
  <2>1. i \in Nat /\ i + 1 \in 1..Len(stdout) /\ i + 1 > InitLeft /\ (i + 1) - 1 = i
    BY <1>1, <1>2
  <2>2. IF ((i + 1) + HeaderRead) % 2 = 1
        THEN stdout[i + 1].unit = "header"
        ELSE /\ stdout[i + 1].unit = "payload"
             /\ i + 1 > InitLeft + 1 => stdout[(i + 1) - 1] = Header(stdout[i + 1].msg)
    BY <2>1 DEF OutInv, Alternate
  <2>3. stdout'[i] = stdout[i + 1]
    BY <1>1
  <2>4. i > InitLeft' + 1 => i + 1 > InitLeft + 1 /\ stdout'[i - 1] = stdout[i]
    BY <1>1, <1>2
  <2>. QED
    BY <1>3, <2>1, <2>2, <2>3, <2>4
<1>6. FrameOpen'
  <2>1. ASSUME NEW w \in Workers, workerPc[w] = "payload", Len(stdout') > InitLeft'
        PROVE  stdout'[Len(stdout')] = Header(current[w])
    <3>1. Len(stdout) > InitLeft /\ Len(stdout') \in 1..Len(stdout') /\ Len(stdout') + 1 = Len(stdout)
      BY <1>1, <1>2, <2>1
    <3>. QED
      BY <1>1, <2>1, <3>1 DEF OutInv, FrameOpen
  <2>. QED
    BY <1>4, <2>1 DEF OutInv, FrameOpen, Booting, Header
<1>7. InitFirst'
  BY <1>1, <1>2 DEF OutInv, InitFirst, Booting
<1>. QED
  BY <1>5, <1>6, <1>7 DEF OutInv, WriterAlone

(* Everything else the host does leaves the plugin's output alone.         *)
LEMMA HostOutStep == OutInv /\ HostStep /\ UNCHANGED goVars => OutInv'
<1>. SUFFICES ASSUME OutInv, HostStep, UNCHANGED goVars PROVE OutInv'
  OBVIOUS
<1>1. UNCHANGED <<loopPc, tasks, workerPc, current, writeMu>>
  BY DEF goVars
<1>2. ASSUME ReadInitHeader \/ ReadInitPayload \/ ReadHeader \/ ReadPayload PROVE OutInv'
  <2>1. /\ stdout # <<>> /\ stdout' = Tail(stdout) /\ plugin' = plugin
        /\ \/ readerPc = "initHeader" /\ readerPc' = "initPayload" /\ host' = "starting"
           \/ readerPc = "initPayload" /\ readerPc' = "header" /\ host' = "running"
           \/ readerPc = "header" /\ readerPc' = "payload" /\ host' = "running"
           \/ readerPc = "payload" /\ readerPc' = "dispatch" /\ host' = "running"
    BY <1>2 DEF ReadInitHeader, ReadInitPayload, ReadHeader, ReadPayload
  <2>2. \E S : stdout' \in Seq(S)
    <3>1. PICK S : stdout \in Seq(S)
      BY DEF OutInv, Shapes
    <3>. QED
      BY <2>1, <3>1, HeadTailProperties
  <2>3. Shapes'
    BY <1>1, <2>1, <2>2 DEF OutInv, Shapes
  <2>. QED
    BY <1>1, <2>1, <2>3, ReadStep
<1>3. ASSUME UNCHANGED <<stdout, readerPc, host, plugin>> PROVE OutInv'
  BY <1>1, <1>3 DEF OutInv, Shapes, InitFirst, WriterAlone, Alternate, FrameOpen, OddLeft, InitLeft, HeaderRead, Booting
<1>4. ASSUME stdout' = stdout, readerPc' = readerPc, host' \notin {"starting", "running"},
             plugin' \in {plugin, "exited"}
      PROVE  OutInv'
  BY <1>1, <1>4 DEF OutInv, Shapes, InitFirst, WriterAlone, Alternate, FrameOpen, OddLeft, InitLeft, HeaderRead, Booting
<1>5. ASSUME Dispatch PROVE OutInv'
  <2>1. stdout' = stdout /\ plugin' = plugin /\ readerPc = "dispatch" /\ host = "running"
    BY <1>5 DEF Dispatch
  <2>2. readerPc' \in {"header", "dispatch"} /\ host' \in {"running", "panic"}
    BY <1>5, <2>1 DEF Dispatch
  <2>3. InitLeft' = InitLeft /\ HeaderRead' = HeaderRead
    BY <2>1, <2>2 DEF InitLeft, HeaderRead
  <2>4. loopPc # "init" /\ loopPc # "initJson"
    <3>1. InitLeft = 0 /\ Len(stdout) \in Nat
      BY <2>1, LeftRange DEF OutInv
    <3>. QED
      BY <2>1, <3>1 DEF OutInv, InitFirst
  <2>. QED
    BY <1>1, <2>1, <2>2, <2>3, <2>4 DEF OutInv, Shapes, InitFirst, WriterAlone, Alternate, FrameOpen, OddLeft, Booting
<1>6. ASSUME NEW c \in Callers, CallerStep(c) PROVE UNCHANGED <<stdout, readerPc, host, plugin>>
  BY <1>6 DEF CallerStep, DrawId, StoreCallback, Lock, FillSendBuf, WriteHeader, WritePayload, Unlock, Receive,
     pipeVars, readerVars
<1>7. ASSUME StartFails \/ NewPluginFails \/ ReaderEOF \/ HostExit \/ HostKilled
      PROVE  /\ stdout' = stdout /\ readerPc' = readerPc /\ host' \notin {"starting", "running"}
             /\ plugin' \in {plugin, "exited"}
  BY <1>7 DEF StartFails, NewPluginFails, ReaderEOF, HostExit, HostKilled, readerVars
<1>. QED
  BY <1>2, <1>3, <1>4, <1>5, <1>6, <1>7 DEF HostStep, ReaderStep

-----------------------------------------------------------------------------
(* The plugin writes. *)

LEMMA Appended ==
    ASSUME \E S : stdout \in Seq(S), NEW u, stdout' = Append(stdout, u)
    PROVE  /\ \E S : stdout' \in Seq(S)
           /\ Len(stdout) \in Nat /\ Len(stdout') = Len(stdout) + 1
           /\ \A i \in 1..Len(stdout) : stdout'[i] = stdout[i]
           /\ stdout'[Len(stdout) + 1] = u
<1>1. PICK S : stdout \in Seq(S)
  OBVIOUS
<1>2. stdout \in Seq(S \cup {u}) /\ u \in S \cup {u}
  <2>1. \A i \in 1..Len(stdout) : stdout[i] \in S \cup {u}
    BY <1>1, ElementOfSeq
  <2>2. Len(stdout) \in Nat /\ stdout = [i \in 1..Len(stdout) |-> stdout[i]]
    BY <1>1
  <2>. QED
    BY <1>1, <2>1, <2>2, SeqDef
<1>. QED
  BY <1>2, AppendProperties

(* A unit that is a header or a payload as its place demands keeps the     *)
(* order of units.                                                         *)
LEMMA AlternateStep ==
    ASSUME OutInv, NEW u, stdout' = Append(stdout, u), readerPc' = readerPc,
           Len(stdout) + 1 > InitLeft =>
               IF ~OddLeft
               THEN u.unit = "header"
               ELSE /\ u.unit = "payload"
                    /\ Len(stdout) > InitLeft => stdout[Len(stdout)] = Header(u.msg)
    PROVE  Alternate' /\ (OddLeft' <=> ~OddLeft) /\ InitLeft' = InitLeft /\ Len(stdout') = Len(stdout) + 1
<1>. DEFINE n == Len(stdout) + 1
<1>1. /\ Len(stdout) \in Nat /\ Len(stdout') = n
      /\ \A i \in 1..Len(stdout) : stdout'[i] = stdout[i]
      /\ stdout'[n] = u
  BY Appended DEF OutInv, Shapes
<1>2. InitLeft' = InitLeft /\ HeaderRead' = HeaderRead /\ HeaderRead \in {0, 1} /\ InitLeft \in {0, 1, 2}
  BY LeftRange DEF OutInv, InitLeft, HeaderRead
<1>3. /\ (n + HeaderRead) % 2 = 1 <=> ~OddLeft
      /\ OddLeft' <=> (n + HeaderRead) % 2 = 1
  <2>1. n + HeaderRead = (Len(stdout) + HeaderRead) + 1 /\ Len(stdout) + HeaderRead \in Nat
    BY <1>1, <1>2
  <2>2. /\ (Len(stdout) + HeaderRead) % 2 \in {0, 1}
        /\ ((Len(stdout) + HeaderRead) + 1) % 2 = 1 <=> (Len(stdout) + HeaderRead) % 2 = 0
    BY <2>1, Parity
  <2>. QED
    BY <1>1, <1>2, <2>1, <2>2 DEF OddLeft
<1>4. Alternate'
  <2>. SUFFICES ASSUME NEW i \in 1..n, i > InitLeft
                PROVE  IF (i + HeaderRead) % 2 = 1
                       THEN stdout'[i].unit = "header"
                       ELSE /\ stdout'[i].unit = "payload"
                            /\ i > InitLeft + 1 => stdout'[i - 1] = Header(stdout'[i].msg)
    BY <1>1, <1>2 DEF Alternate, Header
  <2>1. CASE i = n
    <3>1. (n + HeaderRead) % 2 # 1 /\ n > InitLeft + 1 =>
              n - 1 = Len(stdout) /\ stdout'[n - 1] = stdout[Len(stdout)] /\ Len(stdout) > InitLeft
      BY <1>1, <1>2
    <3>. QED
      BY <1>1, <1>3, <2>1, <3>1
  <2>2. CASE i # n
    <3>1. i \in 1..Len(stdout) /\ stdout'[i] = stdout[i]
      BY <1>1, <2>2
    <3>2. IF (i + HeaderRead) % 2 = 1
          THEN stdout[i].unit = "header"
          ELSE /\ stdout[i].unit = "payload"
               /\ i > InitLeft + 1 => stdout[i - 1] = Header(stdout[i].msg)
      BY <3>1 DEF OutInv, Alternate
    <3>3. i > InitLeft + 1 => stdout'[i - 1] = stdout[i - 1]
      BY <1>1, <1>2, <3>1
    <3>. QED
      BY <3>1, <3>2, <3>3
  <2>. QED
    BY <2>1, <2>2
<1>. QED
  BY <1>1, <1>2, <1>3, <1>4

LEMMA WriteInitStep ==
    ASSUME OutInv, UNCHANGED hostVars, WriteInitLength \/ WriteInitJson
    PROVE  OutInv'
<1>1. readerPc' = readerPc
  BY DEF hostVars
<1>2. PICK u : stdout' = Append(stdout, u)
  BY DEF WriteInitLength, WriteInitJson
<1>3. /\ UNCHANGED <<tasks, workerPc, current, writeMu, host>> /\ plugin' = "running"
      /\ loopPc \in {"init", "initJson"}
      /\ \/ loopPc = "init" /\ loopPc' = "initJson"
         \/ loopPc = "initJson" /\ loopPc' = "header"
  BY DEF WriteInitLength, WriteInitJson, workerVars, OutInv, Shapes
<1>4. InitLeft \in {1, 2} /\ Len(stdout) \in Nat
      /\ (loopPc = "init" => Len(stdout) = 0 /\ InitLeft = 2)
      /\ (loopPc = "initJson" => InitLeft = Len(stdout) + 1)
  BY <1>3, LeftRange DEF OutInv, InitFirst
<1>5. Alternate' /\ (OddLeft' <=> ~OddLeft) /\ InitLeft' = InitLeft /\ Len(stdout') = Len(stdout) + 1
  BY <1>1, <1>2, <1>3, <1>4, AlternateStep
<1>6. Shapes'
  BY <1>1, <1>2, <1>3, Appended DEF OutInv, Shapes
<1>7. InitFirst'
  BY <1>1, <1>3, <1>4, <1>5, LeftRange DEF OutInv, InitFirst, Booting
<1>8. loopPc = "initJson" => OddLeft
  <2>1. ASSUME loopPc = "initJson" PROVE Len(stdout) + HeaderRead = 1
    BY <1>4, <2>1, LeftRange DEF OutInv, Shapes
  <2>. QED
    BY <2>1 DEF OddLeft
<1>9. FrameOpen'
  BY <1>3, <1>5, <1>8 DEF OutInv, InitFirst, FrameOpen, Booting
<1>. QED
  BY <1>3, <1>5, <1>6, <1>7, <1>9 DEF OutInv, WriterAlone

(* The steps that write nothing. *)
LEMMA SilentStep ==
    ASSUME OutInv, UNCHANGED hostVars, UNCHANGED <<stdout, host>>,
           \/ LoopStep /\ ~WriteInitLength /\ ~WriteInitJson
           \/ \E w \in Workers : TakeTask(w) \/ CreateCode(w) \/ CreatePanics(w) \/ WriteResponsePanics(w)
    PROVE  OutInv'
<1>1. readerPc' = readerPc
  BY DEF hostVars
<1>. USE DEF OutInv, Shapes, InitFirst, WriterAlone, Alternate, FrameOpen, OddLeft, InitLeft, HeaderRead,
             Booting, Writing
<1>2. CASE LoopHeader \/ LoopPayload \/ Enqueue
  BY <1>1, <1>2 DEF LoopHeader, LoopPayload, Enqueue, workerVars, pipeVars
<1>3. CASE WriteInitPanics \/ LoopEOF \/ \E w \in Workers : CreatePanics(w) \/ WriteResponsePanics(w)
  BY <1>1, <1>3 DEF WriteInitPanics, LoopEOF, CreatePanics, WriteResponsePanics, goVars
<1>4. ASSUME NEW w \in Workers, TakeTask(w) PROVE OutInv'
  BY <1>1, <1>4 DEF TakeTask, At, pipeVars
<1>5. ASSUME NEW w \in Workers, CreateCode(w) PROVE OutInv'
  BY <1>1, <1>5 DEF CreateCode, At, loopVars, pipeVars
<1>. QED
  BY <1>2, <1>3, <1>4, <1>5 DEF LoopStep

LEMMA MutexStep ==
    ASSUME OutInv, UNCHANGED hostVars, NEW w \in Workers, LockWriteMu(w) \/ UnlockWriteMu(w)
    PROVE  OutInv'
<1>1. readerPc' = readerPc
  BY DEF hostVars
<1>. USE DEF OutInv, Shapes, InitFirst, WriterAlone, Alternate, FrameOpen, OddLeft, InitLeft, HeaderRead,
             Booting, Writing
<1>2. CASE LockWriteMu(w)
  BY <1>1, <1>2, FreeAssumption DEF LockWriteMu, At, loopVars, pipeVars
<1>3. CASE UnlockWriteMu(w)
  BY <1>1, <1>3, FreeAssumption DEF UnlockWriteMu, At, loopVars, pipeVars
<1>. QED
  BY <1>2, <1>3

LEMMA WriteStep ==
    ASSUME OutInv, UNCHANGED hostVars, NEW w \in Workers, WriteResponse(w)
    PROVE  OutInv'
<1>1. readerPc' = readerPc
  BY DEF hostVars
<1>2. PICK u : /\ stdout' = Append(stdout, u)
               /\ \/ workerPc[w] = "header" /\ workerPc' = [workerPc EXCEPT ![w] = "payload"] /\ u = Header(current[w])
                  \/ workerPc[w] = "payload" /\ workerPc' = [workerPc EXCEPT ![w] = "unlock"] /\ u = Payload(current[w])
  BY DEF WriteResponse, WriteUnit, At
<1>3. UNCHANGED <<loopPc, tasks, current, writeMu, host, plugin>> /\ plugin = "running"
  BY DEF WriteResponse, WriteUnit, At, loopVars
<1>4. \A v \in Workers \ {w} : workerPc[v] \notin Writing /\ workerPc'[v] = workerPc[v]
  BY <1>2 DEF OutInv, WriterAlone, Writing, Shapes
<1>5. ~Booting
  BY <1>2 DEF OutInv, InitFirst
<1>6. Header(current[w]).unit = "header" /\ Payload(current[w]).unit = "payload"
      /\ Payload(current[w]).msg = current[w]
  BY DEF Header, Payload
<1>7. /\ workerPc[w] = "header" => ~OddLeft
      /\ workerPc[w] = "payload" =>
            OddLeft /\ (Len(stdout) > InitLeft => stdout[Len(stdout)] = Header(current[w]))
  BY <1>3, <1>4, <1>5 DEF OutInv, FrameOpen, Writing
<1>8. Alternate' /\ (OddLeft' <=> ~OddLeft) /\ InitLeft' = InitLeft /\ Len(stdout') = Len(stdout) + 1
  BY <1>1, <1>2, <1>6, <1>7, AlternateStep
<1>9. stdout'[Len(stdout')] = u /\ \E S : stdout' \in Seq(S)
  BY <1>2, <1>8, Appended DEF OutInv, Shapes
<1>10. Shapes'
  BY <1>1, <1>2, <1>3, <1>9 DEF OutInv, Shapes
<1>11. workerPc'[w] = IF workerPc[w] = "header" THEN "payload" ELSE "unlock"
  BY <1>2 DEF OutInv, Shapes
<1>12. FrameOpen'
  BY <1>2, <1>3, <1>4, <1>5, <1>7, <1>8, <1>9, <1>11 DEF OutInv, FrameOpen, Booting, Header, Writing
<1>13. WriterAlone' /\ InitFirst'
  BY <1>2, <1>3, <1>4, <1>5, <1>11 DEF OutInv, WriterAlone, InitFirst, Booting, Writing
<1>. QED
  BY <1>8, <1>10, <1>12, <1>13 DEF OutInv

LEMMA OutStep == OutInv /\ [GoNext]_goSystemVars => OutInv'
<1>. SUFFICES ASSUME OutInv, [GoNext]_goSystemVars PROVE OutInv'
  OBVIOUS
<1>1. CASE HostStep /\ UNCHANGED goVars
  BY <1>1, HostOutStep
<1>2. CASE LoopStep /\ UNCHANGED hostVars
  <2>1. CASE WriteInitLength \/ WriteInitJson
    BY <1>2, <2>1, WriteInitStep
  <2>2. CASE ~WriteInitLength /\ ~WriteInitJson
    <3>1. UNCHANGED <<stdout, host>>
      BY <1>2, <2>2 DEF LoopStep, WriteInitPanics, LoopHeader, LoopPayload, Enqueue, LoopEOF, pipeVars
    <3>. QED
      BY <1>2, <2>2, <3>1, SilentStep
  <2>. QED
    BY <2>1, <2>2
<1>3. ASSUME NEW w \in Workers, GoWorkerStep(w) \/ CreatePanics(w), UNCHANGED hostVars PROVE OutInv'
  <2>1. CASE WriteResponse(w)
    BY <1>3, <2>1, WriteStep
  <2>2. CASE LockWriteMu(w) \/ UnlockWriteMu(w)
    BY <1>3, <2>2, MutexStep
  <2>3. CASE TakeTask(w) \/ CreateCode(w) \/ CreatePanics(w) \/ WriteResponsePanics(w)
    <3>1. UNCHANGED <<stdout, host>>
      BY <2>3 DEF TakeTask, CreateCode, CreatePanics, WriteResponsePanics, pipeVars
    <3>. QED
      BY <1>3, <2>3, <3>1, SilentStep
  <2>. QED
    BY <1>3, <2>1, <2>2, <2>3 DEF GoWorkerStep
<1>4. CASE UNCHANGED goSystemVars
  BY <1>4 DEF goSystemVars, pipeVars, hostVars, goVars, OutInv, Shapes, InitFirst, WriterAlone, Alternate, FrameOpen,
     OddLeft, InitLeft, HeaderRead, Booting, Writing
<1>. QED
  BY <1>1, <1>2, <1>3, <1>4 DEF GoNext, PluginStep

(* The plugin's output is in shape in every state. *)
LEMMA GoOutInvariance == GoSpec => []OutInv
<1>1. GoSystemInit => OutInv
  <2>. SUFFICES ASSUME GoSystemInit PROVE OutInv
    OBVIOUS
  <2>1. stdout = <<>> /\ loopPc = "init" /\ readerPc = "initHeader" /\ tasks = <<>> /\ host = "starting"
        /\ plugin = "starting" /\ workerPc = [w \in Workers |-> "take"] /\ DOMAIN current = Workers
    BY DEF GoSystemInit, PipesInit, HostInit, GoInit
  <2>2. <<>> \in Seq({}) /\ Len(<<>>) = 0
    OBVIOUS
  <2>. QED
    BY <2>1, <2>2 DEF OutInv, Shapes, InitFirst, WriterAlone, Alternate, FrameOpen, OddLeft, InitLeft,
       HeaderRead, Booting, Writing
<1>. QED
  BY <1>1, OutStep, PTL DEF GoSpec

(* Four workers write one stream of whole frames (writeMu of Run).         *)
THEOREM GoResponsesIntact == GoSpec => []ResponsesIntact
<1>1. OutInv => ResponsesIntact
  <2>. SUFFICES ASSUME OutInv, host = "running", NEW i \in 1..Len(stdout),
                       NEW first, first = IF readerPc = "payload" THEN 1 ELSE 0
                PROVE  IF (i + first) % 2 = 1
                       THEN stdout[i].unit = "header"
                       ELSE /\ stdout[i].unit = "payload"
                            /\ i > 1 => stdout[i - 1] = Header(stdout[i].msg)
    BY DEF ResponsesIntact
  <2>1. InitLeft = 0 /\ HeaderRead = first
    BY DEF OutInv, Shapes, InitLeft, HeaderRead
  <2>. QED
    BY <2>1 DEF OutInv, Alternate
<1>. QED
  BY <1>1, GoOutInvariance, PTL

-----------------------------------------------------------------------------
(* The Go plugin: messages on their way.  Every request is in one place    *)
(* between its caller's write and the reader's dispatch.                   *)

(* The payload of a request whose header the plugin has read comes next.   *)
HeaderTaken == IF loopPc = "payload" THEN 1 ELSE 0

(* Requests are whole frames; while the plugin lives, a payload is missing *)
(* exactly when a caller is about to write it.                             *)
InFramed ==
    /\ stdin \in Seq(FrameUnit(Message))
    /\ \A i \in 1..Len(stdin) :
          stdin[i].unit = (IF (i + HeaderTaken) % 2 = 1 THEN "header" ELSE "payload")
    /\ PluginUp =>
          ((Len(stdin) + HeaderTaken) % 2 = 1 <=> \E c \in Callers : pc[c] = "writePayload")

Reading == IF loopPc = "enqueue" THEN {readBuf} ELSE {}
Owned(w) == IF workerPc[w] \in {"create", "lock", "header", "payload"} THEN {current[w]} ELSE {}
Waiting == Carried(stdin) \cup Reading \cup Listed(tasks)

GoInFlight == Waiting \cup (UNION {Owned(w) : w \in Workers}) \cup Carried(stdout) \cup Received

GoOneCopy ==
    /\ CarriedOnce(stdin) /\ ListedOnce(tasks) /\ CarriedOnce(stdout)
    /\ Carried(stdin) \cap (Reading \cup Listed(tasks)) = {} /\ Reading \cap Listed(tasks) = {}
    /\ \A w \in Workers : Owned(w) \cap Waiting = {}
    /\ \A v, w \in Workers : v # w => Owned(v) \cap Owned(w) = {}
    /\ (Carried(stdout) \cup Received) \cap (Waiting \cup UNION {Owned(w) : w \in Workers}) = {}
    /\ Carried(stdout) \cap Received = {}

GoFlight ==
    /\ HostTypeOK /\ IdsOwned /\ SendBufGuarded /\ AnswersOwnFile
    /\ tasks \in Seq(Message)
    /\ InFramed
    /\ CallsInv /\ FlightInv(GoInFlight) /\ GoOneCopy

(* The parity of a stream's length, counting a header already taken.       *)
LEMMA InParity ==
    ASSUME NEW n \in Nat, NEW h \in {0, 1}
    PROVE  /\ (n + h) % 2 \in {0, 1}
           /\ ((n + 1) + h) % 2 = 1 <=> (n + h) % 2 # 1
           /\ ((n + 1) + (1 - h)) % 2 = (n + h) % 2
OBVIOUS

(* Every place keeps what it has at most: still one copy.                  *)
LEMMA GoKeep ==
    ASSUME GoOneCopy,
           Carried(stdin)' \subseteq Carried(stdin), CarriedOnce(stdin)',
           Reading' \subseteq Reading,
           Listed(tasks)' \subseteq Listed(tasks), ListedOnce(tasks)',
           \A w \in Workers : Owned(w)' \subseteq Owned(w),
           Carried(stdout)' \subseteq Carried(stdout), CarriedOnce(stdout)',
           Received' \subseteq Received
    PROVE  /\ GoOneCopy'
           /\ GoInFlight' \subseteq Waiting \cup (UNION {Owned(w) : w \in Workers}) \cup Carried(stdout) \cup Received'
<1>1. Waiting' \subseteq Waiting
  BY DEF Waiting
<1>2. UNION {Owned(w)' : w \in Workers} \subseteq UNION {Owned(w) : w \in Workers}
  OBVIOUS
<1>. QED
  BY <1>1, <1>2 DEF GoOneCopy, GoInFlight, Waiting

(* Nothing moves.                                                          *)
LEMMA GoStill ==
    ASSUME GoOneCopy, UNCHANGED <<stdin, stdout, goVars, readerPc, recvBuf>>
    PROVE  GoOneCopy' /\ GoInFlight' = GoInFlight
<1>1. /\ Carried(stdin)' = Carried(stdin) /\ CarriedOnce(stdin)' = CarriedOnce(stdin)
      /\ Carried(stdout)' = Carried(stdout) /\ CarriedOnce(stdout)' = CarriedOnce(stdout)
      /\ Listed(tasks)' = Listed(tasks) /\ ListedOnce(tasks)' = ListedOnce(tasks)
      /\ Reading' = Reading /\ Received' = Received /\ \A w \in Workers : Owned(w)' = Owned(w)
  BY DEF goVars, Carried, CarriedOnce, Listed, ListedOnce, Reading, Received, Owned
<1>. QED
  BY <1>1 DEF GoOneCopy, GoInFlight, Waiting

(* GoInFlight, place by place.                                             *)
LEMMA GoPlaces ==
    \A m : m \in GoInFlight <=>
        \/ m \in Carried(stdin) \/ m \in Reading \/ m \in Listed(tasks) \/ \E w \in Workers : m \in Owned(w)
        \/ m \in Carried(stdout) \/ m \in Received
BY DEF GoInFlight, Waiting

-----------------------------------------------------------------------------
(* The host's steps. *)

(* A caller writes a unit: of the requests under way, only a payload adds one. *)
LEMMA GoStdinGrows ==
    ASSUME GoFlight, UNCHANGED goVars, NEW c \in Callers, WriteHeader(c) \/ WritePayload(c)
    PROVE  /\ InFramed' /\ GoOneCopy'
           /\ WriteHeader(c) => GoInFlight' \subseteq GoInFlight
           /\ WritePayload(c) => GoInFlight' \subseteq GoInFlight \cup {RequestOf(c)}
<1>1. /\ UNCHANGED <<stdout, readerPc, recvBuf, plugin, loopPc, readBuf, tasks, workerPc, current>>
      /\ pc[c] \in {"writeHeader", "writePayload"}
      /\ sendBuf = RequestOf(c) /\ RequestOf(c) \in Message /\ mu = c
      /\ \A d \in Callers \ {c} : pc[d] \notin Critical /\ pc'[d] = pc[d]
  BY DEF WriteHeader, WritePayload, goVars, readerVars, GoFlight, SendBufGuarded, Critical, HostTypeOK,
         RequestOf, Message, Goto
<1>2. /\ HeaderTaken' = HeaderTaken /\ HeaderTaken \in {0, 1} /\ Len(stdin) \in Nat
      /\ Reading' = Reading /\ Received' = Received /\ \A w \in Workers : Owned(w)' = Owned(w)
      /\ Listed(tasks)' = Listed(tasks) /\ ListedOnce(tasks)' = ListedOnce(tasks)
      /\ Carried(stdout)' = Carried(stdout) /\ CarriedOnce(stdout)' = CarriedOnce(stdout)
  BY <1>1 DEF HeaderTaken, Reading, Received, Owned, Listed, ListedOnce, Carried, CarriedOnce, GoFlight, InFramed
<1>3. CASE ~PluginUp
  <2>1. stdin' = stdin /\ ~PluginUp'
    BY <1>1, <1>3 DEF WriteHeader, WritePayload, PluginUp
  <2>2. InFramed'
    BY <1>2, <2>1 DEF GoFlight, InFramed
  <2>3. UNCHANGED <<stdin, stdout, goVars, readerPc, recvBuf>>
    BY <1>1, <2>1
  <2>. QED
    BY <2>2, <2>3, GoStill DEF GoFlight
<1>4. CASE PluginUp
  <2>1. PICK u \in FrameUnit(Message) :
            /\ stdin' = Append(stdin, u)
            /\ \/ /\ WriteHeader(c) /\ pc[c] = "writeHeader" /\ pc'[c] = "writePayload" /\ u.unit = "header"
               \/ /\ WritePayload(c) /\ pc[c] = "writePayload" /\ pc'[c] = "unlock"
                  /\ u.unit = "payload" /\ u.msg = RequestOf(c)
    <3>1. CASE WriteHeader(c)
      <4>1. /\ stdin' = Append(stdin, Header(sendBuf)) /\ pc[c] = "writeHeader" /\ pc'[c] = "writePayload"
        BY <1>4, <3>1 DEF WriteHeader, Goto, GoFlight, HostTypeOK
      <4>2. Header(sendBuf) \in FrameUnit(Message) /\ Header(sendBuf).unit = "header"
        BY <1>1 DEF Header, FrameUnit, Message
      <4>. QED
        BY <3>1, <4>1, <4>2
    <3>2. CASE WritePayload(c)
      <4>1. /\ stdin' = Append(stdin, Payload(sendBuf)) /\ pc[c] = "writePayload" /\ pc'[c] = "unlock"
        BY <1>4, <3>2 DEF WritePayload, Goto, GoFlight, HostTypeOK
      <4>2. /\ Payload(sendBuf) \in FrameUnit(Message) /\ Payload(sendBuf).unit = "payload"
            /\ Payload(sendBuf).msg = RequestOf(c)
        BY <1>1 DEF Payload, FrameUnit
      <4>. QED
        BY <3>2, <4>1, <4>2
    <3>. QED
      BY <3>1, <3>2
  <2>2. stdin \in Seq(FrameUnit(Message))
    BY DEF GoFlight, InFramed
  <2>3. /\ stdin' \in Seq(FrameUnit(Message)) /\ Len(stdin') = Len(stdin) + 1
        /\ \A i \in 1..Len(stdin) : stdin'[i] = stdin[i]
        /\ stdin'[Len(stdin) + 1] = u
    BY <2>1, <2>2, AppendProperties
  <2>4. (Len(stdin) + HeaderTaken) % 2 = 1 <=> pc[c] = "writePayload"
    BY <1>1, <1>4 DEF GoFlight, InFramed, Critical
  <2>5. (Len(stdin') + HeaderTaken') % 2 = 1 <=> (Len(stdin) + HeaderTaken) % 2 # 1
    BY <1>2, <2>3, InParity
  <2>6. ASSUME NEW i \in 1..Len(stdin')
        PROVE  stdin'[i].unit = (IF (i + HeaderTaken') % 2 = 1 THEN "header" ELSE "payload")
    <3>1. CASE i \in 1..Len(stdin)
      BY <1>2, <2>3, <3>1 DEF GoFlight, InFramed
    <3>2. CASE i = Len(stdin')
      BY <2>1, <2>3, <2>4, <2>5, <3>2
    <3>. QED
      BY <1>2, <2>3, <3>1, <3>2
  <2>7. (\E d \in Callers : pc'[d] = "writePayload") <=> pc'[c] = "writePayload"
    BY <1>1 DEF Critical
  <2>8. InFramed'
    <3>1. PluginUp' <=> PluginUp
      BY <1>1 DEF PluginUp
    <3>2. pc'[c] = "writePayload" <=> pc[c] # "writePayload"
      BY <2>1
    <3>. QED
      BY <2>3, <2>4, <2>5, <2>6, <2>7, <3>1, <3>2 DEF InFramed
  <2>9. u.unit = "payload" => u.msg \notin GoInFlight
    BY <2>1 DEF GoFlight, FlightInv, Unsent
  <2>10. u.unit = "payload" => u.msg \notin Carried(stdin)
    BY <2>9, GoPlaces
  <2>11. /\ Carried(stdin') = Carried(stdin) \cup (IF u.unit = "payload" THEN {u.msg} ELSE {})
         /\ CarriedOnce(stdin')
    BY <2>1, <2>2, <2>10, CarriedAppend DEF GoFlight, GoOneCopy
  <2>12. GoOneCopy'
    BY <1>2, <2>9, <2>11, GoPlaces DEF GoFlight, GoOneCopy, Waiting
  <2>13. GoInFlight' \subseteq GoInFlight \cup (IF u.unit = "payload" THEN {u.msg} ELSE {})
    BY <1>2, <2>11 DEF GoInFlight, Waiting
  <2>14. ~(WriteHeader(c) /\ WritePayload(c))
    BY DEF WriteHeader, WritePayload
  <2>. QED
    BY <2>1, <2>8, <2>12, <2>13, <2>14
<1>. QED
  BY <1>3, <1>4

(* The unit the host reads as a payload is one. *)
LEMMA PayloadRead ==
    ASSUME OutInv, readerPc = "payload", stdout # <<>>
    PROVE  Head(stdout).unit = "payload"
<1>1. InitLeft = 0 /\ HeaderRead = 1
  BY DEF InitLeft, HeaderRead
<1>2. 1 \in 1..Len(stdout) /\ Head(stdout) = stdout[1] /\ (1 + 1) % 2 # 1
  BY DEF OutInv, Shapes
<1>. QED
  BY <1>1, <1>2 DEF OutInv, Alternate

(* The host reads a unit: a response moves from the stream to the reader. *)
LEMMA GoStdoutRead ==
    ASSUME GoFlight, OutInv, UNCHANGED goVars,
           ReadInitHeader \/ ReadInitPayload \/ ReadHeader \/ ReadPayload
    PROVE  /\ GoOneCopy' /\ GoInFlight' \subseteq GoInFlight
           /\ ReadPayload => recvBuf' \in GoInFlight
<1>1. /\ stdout # <<>> /\ stdout' = Tail(stdout) /\ stdin' = stdin
      /\ readerPc \in {"initHeader", "initPayload", "header", "payload"}
      /\ \/ readerPc' # "dispatch" /\ ~ReadPayload
         \/ ReadPayload /\ readerPc = "payload" /\ recvBuf' = Head(stdout).msg /\ readerPc' = "dispatch"
  BY DEF ReadInitHeader, ReadInitPayload, ReadHeader, ReadPayload
<1>2. PICK S : stdout \in Seq(S)
  BY DEF OutInv, Shapes
<1>3. /\ Carried(stdout') \subseteq Carried(stdout) /\ CarriedOnce(stdout')
      /\ Head(stdout).unit = "payload" => Head(stdout).msg \in Carried(stdout) \ Carried(stdout')
  BY <1>1, <1>2, CarriedTail DEF GoFlight, GoOneCopy
<1>4. Received = {} /\ Received' \subseteq Carried(stdout) \ Carried(stdout')
  BY <1>1, <1>3, PayloadRead DEF Received
<1>5. /\ Carried(stdin') = Carried(stdin) /\ CarriedOnce(stdin') = CarriedOnce(stdin)
      /\ Reading' = Reading /\ \A w \in Workers : Owned(w)' = Owned(w)
      /\ Listed(tasks') = Listed(tasks) /\ ListedOnce(tasks') = ListedOnce(tasks)
  BY <1>1 DEF goVars, Reading, Owned
<1>6. Waiting' = Waiting
  BY <1>5 DEF Waiting
<1>7. GoOneCopy'
  BY <1>3, <1>4, <1>5, <1>6 DEF GoFlight, GoOneCopy
<1>8. GoInFlight' \subseteq GoInFlight
  BY <1>3, <1>4, <1>5, <1>6 DEF GoInFlight
<1>9. ReadPayload => recvBuf' \in GoInFlight
  BY <1>1, <1>4 DEF Received, GoInFlight
<1>. QED
  BY <1>7, <1>8, <1>9

(* The host's step keeps the requests and responses as they should be. *)
LEMMA GoHostStep ==
    ASSUME GoFlight, OutInv, HostStep, UNCHANGED goVars
    PROVE  GoFlight'
<1>. DEFINE moves == \/ GoInFlight' \subseteq GoInFlight /\ ~Dispatch
                     \/ Dispatch /\ GoInFlight' \subseteq GoInFlight \ {recvBuf}
                     \/ \E c \in Callers : WritePayload(c) /\ GoInFlight' \subseteq GoInFlight \cup {RequestOf(c)}
<1>1. Asked \subseteq Asked' /\ Asked \subseteq Message
  BY HostAsks, AskedIsMessage DEF GoFlight
<1>2. readerPc = "dispatch" => recvBuf \in Asked
  BY GoPlaces DEF GoFlight, FlightInv, Received
<1>3. ASSUME UNCHANGED <<stdin, plugin>> \/ ~PluginUp',
             stdin' = stdin,
             (\E c \in Callers : pc[c] = "writePayload") <=> (\E c \in Callers : pc'[c] = "writePayload")
      PROVE  InFramed'
  <2>1. HeaderTaken' = HeaderTaken
    BY DEF HeaderTaken, goVars
  <2>. QED
    BY <1>3, <2>1 DEF GoFlight, InFramed, PluginUp
<1>4. ASSUME UNCHANGED <<stdin, stdout, readerPc, recvBuf>>, ~Dispatch PROVE GoOneCopy' /\ moves
  BY <1>4, GoStill DEF GoFlight
<1>5. InFramed' /\ GoOneCopy' /\ moves
  <2>1. ASSUME NEW c \in Callers, WriteHeader(c) \/ WritePayload(c) PROVE InFramed' /\ GoOneCopy' /\ moves
    <3>1. ~Dispatch
      BY <2>1 DEF WriteHeader, WritePayload, Dispatch, readerVars, GoFlight, HostTypeOK, Goto
    <3>. QED
      BY <2>1, <3>1, GoStdinGrows
  <2>2. CASE ReadInitHeader \/ ReadInitPayload \/ ReadHeader \/ ReadPayload
    <3>1. UNCHANGED <<stdin, plugin, pc>> /\ ~Dispatch
      BY <2>2 DEF ReadInitHeader, ReadInitPayload, ReadHeader, ReadPayload, callerVars, Dispatch
    <3>. QED
      BY <1>3, <2>2, <3>1, GoStdoutRead
  <2>3. CASE Dispatch
    <3>1. readerPc = "dispatch" /\ readerPc' = "header" /\ UNCHANGED <<stdin, stdout, plugin, pc>>
      BY <2>3 DEF Dispatch, GoFlight, FlightInv
    <3>2. Received' = {} /\ Received = {recvBuf}
      BY <3>1 DEF Received
    <3>3. /\ Carried(stdin)' = Carried(stdin) /\ CarriedOnce(stdin)' = CarriedOnce(stdin)
          /\ Carried(stdout)' = Carried(stdout) /\ CarriedOnce(stdout)' = CarriedOnce(stdout)
          /\ Listed(tasks)' = Listed(tasks) /\ ListedOnce(tasks)' = ListedOnce(tasks)
          /\ Reading' = Reading /\ \A w \in Workers : Owned(w)' = Owned(w)
      BY <3>1 DEF goVars, Carried, CarriedOnce, Listed, ListedOnce, Reading, Owned
    <3>4. /\ GoOneCopy'
          /\ GoInFlight' \subseteq Waiting \cup (UNION {Owned(w) : w \in Workers}) \cup Carried(stdout)
      BY <3>2, <3>3, GoKeep DEF GoFlight, GoOneCopy
    <3>5. recvBuf \notin Waiting \cup (UNION {Owned(w) : w \in Workers}) \cup Carried(stdout)
      BY <3>2 DEF GoFlight, GoOneCopy
    <3>6. GoInFlight' \subseteq GoInFlight \ {recvBuf}
      BY <3>4, <3>5 DEF GoInFlight
    <3>. QED
      BY <1>3, <2>3, <3>1, <3>4, <3>6
  <2>4. ASSUME NEW c \in Callers, CallerStep(c), ~WriteHeader(c), ~WritePayload(c)
        PROVE  InFramed' /\ GoOneCopy' /\ moves
    <3>1. /\ UNCHANGED <<stdin, stdout, plugin, readerPc, recvBuf>>
          /\ \E step \in CallerSteps \ {"writePayload"} : pc[c] # "writePayload" /\ pc' = [pc EXCEPT ![c] = step]
      BY <2>4 DEF CallerStep, DrawId, StoreCallback, Lock, FillSendBuf, Unlock, Receive, readerVars,
                  pipeVars, Goto, CallerSteps
    <3>2. (\E d \in Callers : pc[d] = "writePayload") <=> (\E d \in Callers : pc'[d] = "writePayload")
      BY <3>1 DEF GoFlight, HostTypeOK
    <3>. QED
      BY <1>3, <1>4, <2>3, <3>1, <3>2
  <2>5. CASE StartFails \/ NewPluginFails \/ ReaderEOF \/ HostExit \/ HostKilled
    <3>1. UNCHANGED <<stdin, stdout, readerPc, recvBuf, pc>> /\ (plugin' = plugin \/ plugin' = "exited")
      BY <2>5 DEF StartFails, NewPluginFails, ReaderEOF, HostExit, HostKilled, readerVars, callerVars
    <3>2. UNCHANGED <<stdin, plugin>> \/ ~PluginUp'
      BY <3>1 DEF PluginUp
    <3>3. (\E d \in Callers : pc[d] = "writePayload") <=> (\E d \in Callers : pc'[d] = "writePayload")
      BY <3>1
    <3>. QED
      BY <1>3, <1>4, <2>3, <3>1, <3>2, <3>3
  <2>. QED
    BY <2>1, <2>2, <2>3, <2>4, <2>5 DEF HostStep, ReaderStep, CallerStep
<1>6. ReadPayload => recvBuf' \in Asked
  BY GoStdoutRead DEF GoFlight, FlightInv
<1>7. HostTypeOK' /\ IdsOwned' /\ SendBufGuarded' /\ AnswersOwnFile'
  BY <1>2, <1>6, HostTypes, HostIds, HostSendBuf, HostAnswers DEF GoFlight
<1>8. PICK F : F = GoInFlight
  OBVIOUS
<1>9. PICK G : G = GoInFlight'
  OBVIOUS
<1>10. host' = "running" /\ readerPc' = "dispatch" => recvBuf' \in G
  BY <1>9 DEF GoInFlight, Received
<1>11. HostTypeOK /\ IdsOwned /\ CallsInv /\ FlightInv(F)
  BY <1>8 DEF GoFlight
<1>12. \/ G \subseteq F /\ ~Dispatch
       \/ Dispatch /\ G \subseteq F \ {recvBuf}
       \/ \E c \in Callers : WritePayload(c) /\ G \subseteq F \cup {RequestOf(c)}
  BY <1>5, <1>8, <1>9
<1>13. CallsInv' /\ FlightInv(G)'
  BY <1>1, <1>10, <1>11, <1>12, HostCallsStep, HostFlightStep
<1>14. FlightInv(GoInFlight)'
  BY <1>9, <1>13 DEF FlightInv
<1>15. tasks' = tasks
  BY DEF goVars
<1>. QED
  BY <1>5, <1>7, <1>13, <1>14, <1>15 DEF GoFlight

-----------------------------------------------------------------------------
(* The plugin's steps: each moves a message on, or loses it, and copies none. *)

(* The reading goroutine takes a header or a payload off its stdin. *)
LEMMA GoStdinRead ==
    ASSUME GoFlight, UNCHANGED hostVars, LoopHeader \/ LoopPayload
    PROVE  InFramed' /\ GoOneCopy' /\ GoInFlight' \subseteq GoInFlight
<1>1. /\ stdin # <<>> /\ stdin' = Tail(stdin)
      /\ UNCHANGED <<tasks, workerPc, current, stdout, plugin, pc, readerPc, recvBuf>>
      /\ \/ LoopHeader /\ loopPc = "header" /\ loopPc' = "payload"
         \/ LoopPayload /\ loopPc = "payload" /\ loopPc' = "enqueue" /\ readBuf' = Head(stdin).msg
  BY DEF LoopHeader, LoopPayload, workerVars, hostVars
<1>2. stdin \in Seq(FrameUnit(Message))
  BY DEF GoFlight, InFramed
<1>3. /\ stdin' \in Seq(FrameUnit(Message)) /\ Len(stdin') \in Nat /\ Len(stdin) = Len(stdin') + 1
      /\ \A i \in 1..Len(stdin') : stdin'[i] = stdin[i + 1]
      /\ Head(stdin) = stdin[1]
  BY <1>1, <1>2, HeadTailProperties
<1>4. HeaderTaken \in {0, 1} /\ HeaderTaken' = 1 - HeaderTaken
  BY <1>1 DEF HeaderTaken
<1>5. InFramed'
  <2>1. ASSUME NEW i \in 1..Len(stdin')
        PROVE  stdin'[i].unit = (IF (i + HeaderTaken') % 2 = 1 THEN "header" ELSE "payload")
    <3>1. i \in Nat /\ i + 1 \in 1..Len(stdin) /\ (i + HeaderTaken') % 2 = ((i + 1) + HeaderTaken) % 2
      BY <1>3, <1>4
    <3>. QED
      BY <1>3, <3>1 DEF GoFlight, InFramed
  <2>2. (Len(stdin') + HeaderTaken') % 2 = (Len(stdin) + HeaderTaken) % 2
    BY <1>3, <1>4
  <2>. QED
    BY <1>1, <1>3, <2>1, <2>2 DEF GoFlight, InFramed, PluginUp
<1>6. /\ Carried(stdin') \subseteq Carried(stdin) /\ CarriedOnce(stdin')
      /\ Head(stdin).unit = "payload" => Head(stdin).msg \in Carried(stdin) \ Carried(stdin')
  BY <1>1, <1>2, CarriedTail DEF GoFlight, GoOneCopy
<1>7. loopPc = "payload" => Head(stdin).unit = "payload"
  <2>1. loopPc = "payload" => HeaderTaken = 1
    BY DEF HeaderTaken
  <2>2. 1 \in 1..Len(stdin) /\ (1 + 1) % 2 # 1
    BY <1>3
  <2>. QED
    BY <1>3, <2>1, <2>2 DEF GoFlight, InFramed
<1>8. Reading = {} /\ Reading' \subseteq Carried(stdin) \ Carried(stdin')
  BY <1>1, <1>6, <1>7 DEF Reading
<1>9. /\ Listed(tasks') = Listed(tasks) /\ ListedOnce(tasks') = ListedOnce(tasks)
      /\ Carried(stdout') = Carried(stdout) /\ CarriedOnce(stdout') = CarriedOnce(stdout)
      /\ Received' = Received /\ \A w \in Workers : Owned(w)' = Owned(w)
  BY <1>1 DEF Received, Owned
<1>10. Waiting' \subseteq Waiting
  BY <1>6, <1>8, <1>9 DEF Waiting
<1>11. GoOneCopy'
  BY <1>6, <1>8, <1>9, <1>10 DEF GoFlight, GoOneCopy
<1>12. GoInFlight' \subseteq GoInFlight
  BY <1>9, <1>10 DEF GoInFlight
<1>. QED
  BY <1>5, <1>11, <1>12

(* tasks <- slices.Clone(recvBuf). *)
LEMMA EnqueueCopies ==
    ASSUME GoFlight, UNCHANGED hostVars, Enqueue
    PROVE  tasks' \in Seq(Message) /\ GoOneCopy' /\ GoInFlight' \subseteq GoInFlight
<1>1. /\ loopPc = "enqueue" /\ loopPc' = "header" /\ tasks' = Append(tasks, readBuf)
      /\ UNCHANGED <<stdin, workerPc, current, stdout, readerPc, recvBuf>>
  BY DEF Enqueue, workerVars, pipeVars, hostVars
<1>2. Reading = {readBuf} /\ Reading' = {}
  BY <1>1 DEF Reading
<1>3. readBuf \in Message
  BY <1>2, GoPlaces, AskedIsMessage DEF GoFlight, FlightInv
<1>4. tasks \in Seq(Message) /\ tasks' \in Seq(Message)
  BY <1>1, <1>3, AppendProperties DEF GoFlight
<1>5. Listed(tasks') = Listed(tasks) \cup {readBuf} /\ ListedOnce(tasks')
  BY <1>1, <1>2, <1>3, <1>4, ListedAppend DEF GoFlight, GoOneCopy
<1>6. /\ Carried(stdin') = Carried(stdin) /\ CarriedOnce(stdin') = CarriedOnce(stdin)
      /\ Carried(stdout') = Carried(stdout) /\ CarriedOnce(stdout') = CarriedOnce(stdout)
      /\ Received' = Received /\ \A w \in Workers : Owned(w)' = Owned(w)
  BY <1>1 DEF Received, Owned
<1>7. Waiting' = Waiting
  BY <1>2, <1>5, <1>6 DEF Waiting
<1>8. GoOneCopy'
  BY <1>2, <1>5, <1>6, <1>7 DEF GoFlight, GoOneCopy
<1>9. GoInFlight' = GoInFlight
  BY <1>6, <1>7 DEF GoInFlight
<1>. QED
  BY <1>4, <1>8, <1>9

(* A worker takes the first task off the channel. *)
LEMMA TakeCopies ==
    ASSUME GoFlight, OutInv, UNCHANGED hostVars, NEW w \in Workers, TakeTask(w)
    PROVE  tasks' \in Seq(Message) /\ GoOneCopy' /\ GoInFlight' \subseteq GoInFlight
<1>1. /\ workerPc[w] = "take" /\ workerPc' = [workerPc EXCEPT ![w] = "create"]
      /\ current' = [current EXCEPT ![w] = Head(tasks)]
      /\ tasks # <<>> /\ tasks' = Tail(tasks)
      /\ UNCHANGED <<stdin, loopPc, readBuf, stdout, readerPc, recvBuf>>
  BY DEF TakeTask, At, pipeVars, hostVars
<1>2. tasks \in Seq(Message) /\ tasks' \in Seq(Message)
  BY <1>1, HeadTailProperties DEF GoFlight
<1>3. /\ Listed(tasks') \subseteq Listed(tasks) /\ ListedOnce(tasks')
      /\ Head(tasks) \in Listed(tasks) \ Listed(tasks')
  BY <1>1, <1>2, ListedTail DEF GoFlight, GoOneCopy
<1>4. Owned(w) = {} /\ Owned(w)' = {Head(tasks)} /\ \A v \in Workers \ {w} : Owned(v)' = Owned(v)
  BY <1>1 DEF Owned, OutInv, Shapes
<1>5. /\ Carried(stdin') = Carried(stdin) /\ CarriedOnce(stdin') = CarriedOnce(stdin)
      /\ Carried(stdout') = Carried(stdout) /\ CarriedOnce(stdout') = CarriedOnce(stdout)
      /\ Received' = Received /\ Reading' = Reading
  BY <1>1 DEF Received, Reading
<1>6. Waiting' \subseteq Waiting /\ Head(tasks) \in Waiting /\ Head(tasks) \notin Waiting'
  BY <1>3, <1>5 DEF Waiting, GoFlight, GoOneCopy
<1>7. \A v \in Workers \ {w} : Head(tasks) \notin Owned(v)
  BY <1>6 DEF GoFlight, GoOneCopy
<1>8. \A v, x \in Workers : v # x => Owned(v)' \cap Owned(x)' = {}
  <2>. TAKE v, x \in Workers
  <2>1. v # w => Owned(v)' = Owned(v) /\ Head(tasks) \notin Owned(v)
    BY <1>4, <1>7
  <2>2. x # w => Owned(x)' = Owned(x) /\ Head(tasks) \notin Owned(x)
    BY <1>4, <1>7
  <2>. QED
    BY <1>4, <2>1, <2>2 DEF GoFlight, GoOneCopy
<1>9. \A v \in Workers : Owned(v)' \cap Waiting' = {} /\ Owned(v)' \subseteq Owned(v) \cup {Head(tasks)}
  BY <1>4, <1>6 DEF GoFlight, GoOneCopy
<1>10. (Carried(stdout) \cup Received) \cap (Waiting' \cup UNION {Owned(v)' : v \in Workers}) = {}
  BY <1>6, <1>9 DEF GoFlight, GoOneCopy
<1>11. GoOneCopy'
  BY <1>3, <1>5, <1>8, <1>9, <1>10 DEF GoFlight, GoOneCopy
<1>12. GoInFlight' \subseteq GoInFlight
  BY <1>5, <1>6, <1>9 DEF GoInFlight
<1>. QED
  BY <1>2, <1>11, <1>12

(* A worker writes a unit of its response: the payload leaves the worker for the stream. *)
LEMMA WriteCopies ==
    ASSUME GoFlight, OutInv, UNCHANGED hostVars, NEW w \in Workers, WriteResponse(w)
    PROVE  GoOneCopy' /\ GoInFlight' \subseteq GoInFlight
<1>1. PICK u : /\ stdout' = Append(stdout, u)
               /\ \/ /\ workerPc[w] = "header" /\ workerPc' = [workerPc EXCEPT ![w] = "payload"]
                     /\ u.unit = "header"
                  \/ /\ workerPc[w] = "payload" /\ workerPc' = [workerPc EXCEPT ![w] = "unlock"]
                     /\ u.unit = "payload" /\ u.msg = current[w]
  BY DEF WriteResponse, WriteUnit, At, Header, Payload
<1>2. UNCHANGED <<stdin, loopPc, readBuf, tasks, current, readerPc, recvBuf>>
  BY DEF WriteResponse, WriteUnit, loopVars, hostVars
<1>3. /\ Owned(w) = {current[w]} /\ \A v \in Workers \ {w} : Owned(v)' = Owned(v)
      /\ Owned(w)' = IF u.unit = "payload" THEN {} ELSE {current[w]}
  BY <1>1, <1>2 DEF Owned, OutInv, Shapes
<1>4. current[w] \notin Carried(stdout) /\ current[w] \notin Waiting /\ current[w] \notin Received
      /\ \A v \in Workers \ {w} : current[w] \notin Owned(v)
  BY <1>3 DEF GoFlight, GoOneCopy
<1>5. PICK S : stdout \in Seq(S) /\ u \in S
  <2>1. PICK T : stdout \in Seq(T)
    BY DEF OutInv, Shapes
  <2>2. stdout \in Seq(T \cup {u}) /\ u \in T \cup {u}
    <3>1. \A i \in 1..Len(stdout) : stdout[i] \in T \cup {u}
      BY <2>1, ElementOfSeq
    <3>2. Len(stdout) \in Nat /\ stdout = [i \in 1..Len(stdout) |-> stdout[i]]
      BY <2>1
    <3>. QED
      BY <3>1, <3>2, SeqDef
  <2>. QED
    BY <2>2
<1>6. /\ Carried(stdout') = Carried(stdout) \cup (IF u.unit = "payload" THEN {u.msg} ELSE {})
      /\ CarriedOnce(stdout')
  BY <1>1, <1>4, <1>5, CarriedAppend DEF GoFlight, GoOneCopy
<1>7. /\ Carried(stdin') = Carried(stdin) /\ CarriedOnce(stdin') = CarriedOnce(stdin)
      /\ Listed(tasks') = Listed(tasks) /\ ListedOnce(tasks') = ListedOnce(tasks)
      /\ Received' = Received /\ Reading' = Reading
  BY <1>2 DEF Received, Reading
<1>8. Waiting' = Waiting /\ \A v \in Workers : Owned(v)' \subseteq Owned(v)
  BY <1>3, <1>7 DEF Waiting
<1>9. (Carried(stdout') \cup Received) \cap (Waiting \cup UNION {Owned(v)' : v \in Workers}) = {}
  <2>1. (Carried(stdout) \cup Received) \cap (Waiting \cup UNION {Owned(v)' : v \in Workers}) = {}
    BY <1>8 DEF GoFlight, GoOneCopy
  <2>2. u.unit = "payload" => u.msg = current[w] /\ \A v \in Workers : current[w] \notin Owned(v)'
    BY <1>1, <1>3, <1>4
  <2>. QED
    BY <1>4, <1>6, <2>1, <2>2
<1>10. Carried(stdout') \cap Received = {}
  BY <1>1, <1>4, <1>6 DEF GoFlight, GoOneCopy
<1>11. GoOneCopy'
  BY <1>6, <1>7, <1>8, <1>9, <1>10 DEF GoFlight, GoOneCopy
<1>12. GoInFlight' \subseteq GoInFlight
  <2>1. u.unit = "payload" => u.msg \in UNION {Owned(v) : v \in Workers}
    BY <1>1, <1>3
  <2>. QED
    BY <1>6, <1>7, <1>8, <2>1 DEF GoInFlight
<1>. QED
  BY <1>11, <1>12

(* The steps of the plugin that move no message. *)
LEMMA GoQuiet ==
    ASSUME GoFlight, UNCHANGED hostVars,
           \/ WriteInitLength \/ WriteInitJson \/ WriteInitPanics \/ LoopEOF
           \/ \E w \in Workers : \/ CreateCode(w) \/ CreatePanics(w) \/ LockWriteMu(w)
                                 \/ WriteResponsePanics(w) \/ UnlockWriteMu(w),
           OutInv
    PROVE  InFramed' /\ GoOneCopy' /\ GoInFlight' \subseteq GoInFlight
<1>1. /\ UNCHANGED <<stdin, readBuf, tasks, current, pc, readerPc, recvBuf>>
      /\ loopPc' = loopPc \/ (loopPc \in {"init", "initJson"} /\ loopPc' \in {"initJson", "header"})
      /\ plugin' = plugin \/ plugin' = "exited" \/ (plugin = "starting" /\ plugin' = "running")
  BY DEF WriteInitLength, WriteInitJson, WriteInitPanics, LoopEOF, CreateCode, CreatePanics, LockWriteMu,
         WriteResponsePanics, UnlockWriteMu, At, goVars, loopVars, workerVars, pipeVars, hostVars,
         OutInv, Shapes
<1>2. HeaderTaken' = HeaderTaken /\ Reading' = Reading /\ Received' = Received
  BY <1>1 DEF HeaderTaken, Reading, Received
<1>3. InFramed'
  BY <1>1, <1>2 DEF GoFlight, InFramed, PluginUp
<1>4. \A w \in Workers : Owned(w)' \subseteq Owned(w)
  <2>1. CASE UNCHANGED workerPc
    BY <1>1, <2>1 DEF Owned
  <2>2. ASSUME NEW w \in Workers, CreateCode(w) \/ LockWriteMu(w) \/ UnlockWriteMu(w)
        PROVE  \A v \in Workers : Owned(v)' \subseteq Owned(v)
    BY <1>1, <2>2 DEF Owned, CreateCode, LockWriteMu, UnlockWriteMu, At, OutInv, Shapes
  <2>. QED
    BY <2>1, <2>2 DEF WriteInitLength, WriteInitJson, WriteInitPanics, LoopEOF, CreatePanics,
       WriteResponsePanics, goVars, workerVars
<1>5. Carried(stdout') \subseteq Carried(stdout) /\ CarriedOnce(stdout')
  <2>1. CASE stdout' = stdout
    BY <2>1 DEF GoFlight, GoOneCopy
  <2>2. ASSUME NEW u, stdout' = Append(stdout, u), u.unit # "payload"
        PROVE  Carried(stdout') \subseteq Carried(stdout) /\ CarriedOnce(stdout')
    <3>1. /\ Len(stdout) \in Nat /\ Len(stdout') = Len(stdout) + 1
          /\ \A i \in 1..Len(stdout) : stdout'[i] = stdout[i]
          /\ stdout'[Len(stdout) + 1] = u
      BY <2>2, Appended DEF OutInv, Shapes
    <3>2. \A i \in 1..Len(stdout') : stdout'[i].unit = "payload" => i \in 1..Len(stdout)
      BY <2>2, <3>1
    <3>3. Carried(stdout') \subseteq Carried(stdout)
      BY <3>1, <3>2 DEF Carried
    <3>4. CarriedOnce(stdout')
      BY <3>1, <3>2 DEF CarriedOnce, GoFlight, GoOneCopy
    <3>. QED
      BY <3>3, <3>4
  <2>3. InitFrame[1].unit # "payload" /\ InitFrame[2].unit # "payload"
    BY DEF InitFrame
  <2>. QED
    BY <2>1, <2>2, <2>3 DEF WriteInitLength, WriteInitJson, WriteInitPanics, LoopEOF, CreateCode,
       CreatePanics, LockWriteMu, WriteResponsePanics, UnlockWriteMu, pipeVars
<1>6. /\ Carried(stdin)' = Carried(stdin) /\ CarriedOnce(stdin)' = CarriedOnce(stdin)
      /\ Listed(tasks)' = Listed(tasks) /\ ListedOnce(tasks)' = ListedOnce(tasks)
  BY <1>1 DEF Carried, CarriedOnce, Listed, ListedOnce
<1>7. GoOneCopy' /\ GoInFlight' \subseteq Waiting \cup (UNION {Owned(w) : w \in Workers}) \cup Carried(stdout) \cup Received'
  BY <1>2, <1>4, <1>5, <1>6, GoKeep DEF GoFlight, GoOneCopy
<1>. QED
  BY <1>2, <1>3, <1>7 DEF GoInFlight

(* A step of the plugin keeps the requests and responses as they should be. *)
LEMMA GoPluginStep ==
    ASSUME GoFlight, OutInv, PluginStep, UNCHANGED hostVars
    PROVE  GoFlight'
<1>1. tasks' \in Seq(Message) /\ InFramed' /\ GoOneCopy' /\ GoInFlight' \subseteq GoInFlight
  <2>1. ASSUME UNCHANGED <<stdin, pc, plugin, loopPc>> PROVE InFramed'
    BY <2>1 DEF GoFlight, InFramed, HeaderTaken, PluginUp
  <2>2. CASE LoopHeader \/ LoopPayload
    <3>1. tasks' = tasks
      BY <2>2 DEF LoopHeader, LoopPayload
    <3>. QED
      BY <2>2, <3>1, GoStdinRead DEF GoFlight
  <2>3. CASE Enqueue
    <3>1. /\ UNCHANGED <<stdin, pc, plugin>> /\ loopPc = "enqueue" /\ loopPc' = "header"
      BY <2>3 DEF Enqueue, pipeVars, hostVars
    <3>2. InFramed'
      BY <3>1 DEF GoFlight, InFramed, HeaderTaken, PluginUp
    <3>. QED
      BY <2>3, <3>2, EnqueueCopies
  <2>4. ASSUME NEW w \in Workers, TakeTask(w)
        PROVE  tasks' \in Seq(Message) /\ InFramed' /\ GoOneCopy' /\ GoInFlight' \subseteq GoInFlight
    <3>1. UNCHANGED <<stdin, pc, plugin, loopPc>>
      BY <2>4 DEF TakeTask, pipeVars, hostVars
    <3>. QED
      BY <2>1, <2>4, <3>1, TakeCopies
  <2>5. ASSUME NEW w \in Workers, WriteResponse(w)
        PROVE  tasks' \in Seq(Message) /\ InFramed' /\ GoOneCopy' /\ GoInFlight' \subseteq GoInFlight
    <3>1. UNCHANGED <<stdin, pc, plugin, loopPc, tasks>>
      BY <2>5 DEF WriteResponse, WriteUnit, loopVars, hostVars
    <3>. QED
      BY <2>1, <2>5, <3>1, WriteCopies DEF GoFlight
  <2>6. CASE \/ WriteInitLength \/ WriteInitJson \/ WriteInitPanics \/ LoopEOF
             \/ \E w \in Workers : \/ CreateCode(w) \/ CreatePanics(w) \/ LockWriteMu(w)
                                   \/ WriteResponsePanics(w) \/ UnlockWriteMu(w)
    <3>1. tasks' = tasks
      BY <2>6 DEF WriteInitLength, WriteInitJson, WriteInitPanics, LoopEOF, CreateCode, CreatePanics,
         LockWriteMu, WriteResponsePanics, UnlockWriteMu, goVars, loopVars
    <3>. QED
      BY <2>6, <3>1, GoQuiet DEF GoFlight
  <2>. QED
    BY <2>2, <2>3, <2>4, <2>5, <2>6 DEF PluginStep, LoopStep, GoWorkerStep
<1>2. host' = host /\ plugin' \in {"starting", "running", "exited"}
  BY DEF PluginStep, LoopStep, GoWorkerStep, WriteInitLength, WriteInitJson, WriteInitPanics, LoopHeader,
     LoopPayload, Enqueue, LoopEOF, TakeTask, CreateCode, CreatePanics, LockWriteMu, WriteResponse, WriteUnit,
     WriteResponsePanics, UnlockWriteMu, pipeVars, GoFlight, HostTypeOK
<1>3. HostTypeOK' /\ IdsOwned' /\ SendBufGuarded' /\ AnswersOwnFile'
  BY <1>2 DEF GoFlight, hostVars, HostTypeOK, IdsOwned, SendBufGuarded, AnswersOwnFile, RequestOf
<1>4. PICK F : F = GoInFlight
  OBVIOUS
<1>5. PICK G : G = GoInFlight'
  OBVIOUS
<1>6. host = "running" /\ readerPc = "dispatch" => recvBuf \in G
  <2>1. recvBuf' = recvBuf /\ readerPc' = readerPc
    BY DEF hostVars
  <2>. QED
    BY <1>5, <2>1 DEF GoInFlight, Received
<1>7. CallsInv /\ FlightInv(F) /\ G \subseteq F
  BY <1>1, <1>4, <1>5 DEF GoFlight
<1>8. CallsInv' /\ FlightInv(G)'
  BY <1>2, <1>6, <1>7, PluginFlightStep
<1>9. FlightInv(GoInFlight)'
  BY <1>5, <1>8 DEF FlightInv
<1>. QED
  BY <1>1, <1>3, <1>8, <1>9 DEF GoFlight

(* At first nothing is on its way. *)
LEMMA InitGoFlight == GoSystemInit => GoFlight
<1>. SUFFICES ASSUME GoSystemInit PROVE GoFlight
  OBVIOUS
<1>1. /\ pc = [c \in Callers |-> "idle"] /\ fileOf \in [Callers -> Files]
      /\ idOf = [c \in Callers |-> 0] /\ answer = [c \in Callers |-> None]
      /\ reqId = 0 /\ DOMAIN pending = {} /\ mu = None /\ sendBuf = None /\ recvBuf = None
      /\ host = "starting" /\ plugin = "starting" /\ readerPc = "initHeader"
      /\ stdin = <<>> /\ stdout = <<>>
      /\ loopPc = "init" /\ tasks = <<>> /\ workerPc = [w \in Workers |-> "take"]
  BY DEF GoSystemInit, PipesInit, HostInit, GoInit
<1>2. HostTypeOK /\ IdsOwned /\ SendBufGuarded /\ AnswersOwnFile
  BY <1>1, NoneAssumption DEF HostTypeOK, IdsOwned, SendBufGuarded, AnswersOwnFile, CallerSteps, Critical
<1>3. InFramed
  BY <1>1 DEF InFramed, HeaderTaken
<1>4. Reading = {} /\ Received = {} /\ \A w \in Workers : Owned(w) = {}
  BY <1>1 DEF Reading, Received, Owned
<1>5. Listed(<<>>) = {} /\ Carried(<<>>) = {} /\ ListedOnce(<<>>) /\ CarriedOnce(<<>>)
  BY DEF Listed, Carried, ListedOnce, CarriedOnce
<1>6. GoInFlight = {} /\ GoOneCopy
  BY <1>1, <1>4, <1>5 DEF GoInFlight, GoOneCopy, Waiting
<1>. QED
  BY <1>1, <1>2, <1>3, <1>6 DEF GoFlight, CallsInv, FlightInv, Unsent

(* However the callers, the reading goroutine and the workers interleave,  *)
(* a request or its response is in one place at a time, each with its      *)
(* callback stored, and the requests arrive as whole frames (Run of        *)
(* plugin/plugin.go behind CreateServiceCode).                             *)
THEOREM GoOneCopyInFlight == GoSpec => [](OutInv /\ GoFlight)
<1>1. GoFlight /\ OutInv /\ [GoNext]_goSystemVars => GoFlight'
  <2>. SUFFICES ASSUME GoFlight, OutInv, [GoNext]_goSystemVars PROVE GoFlight'
    OBVIOUS
  <2>1. CASE HostStep /\ UNCHANGED goVars
    BY <2>1, GoHostStep
  <2>2. CASE PluginStep /\ UNCHANGED hostVars
    BY <2>2, GoPluginStep
  <2>3. CASE UNCHANGED goSystemVars
    <3>1. UNCHANGED <<stdin, stdout, host, plugin, hostVars, goVars>>
      BY <2>3 DEF goSystemVars, pipeVars
    <3>2. GoOneCopy' /\ GoInFlight' = GoInFlight
      BY <3>1, GoStill DEF GoFlight, hostVars
    <3>3. PICK F : F = GoInFlight
      OBVIOUS
    <3>4. FlightInv(F) /\ (host = "running" /\ readerPc = "dispatch" => recvBuf \in F)
      BY <3>3 DEF GoFlight, FlightInv
    <3>5. CallsInv' /\ FlightInv(F)'
      BY <3>1, <3>4, PluginFlightStep DEF GoFlight
    <3>6. FlightInv(GoInFlight)'
      BY <3>2, <3>3, <3>5 DEF FlightInv
    <3>7. InFramed' /\ tasks' = tasks
      BY <3>1 DEF GoFlight, InFramed, HeaderTaken, PluginUp, goVars, hostVars
    <3>8. HostTypeOK' /\ IdsOwned' /\ SendBufGuarded' /\ AnswersOwnFile'
      BY <3>1 DEF GoFlight, hostVars, HostTypeOK, IdsOwned, SendBufGuarded, AnswersOwnFile, RequestOf
    <3>. QED
      BY <3>2, <3>5, <3>6, <3>7, <3>8 DEF GoFlight
  <2>. QED
    BY <2>1, <2>2, <2>3 DEF GoNext
<1>. QED
  BY <1>1, GoOutInvariance, InitGoFlight, PTL DEF GoSpec

(* With a Go plugin too, a caller is only ever answered with the code made *)
(* from the file it asked for.                                             *)
THEOREM GoAnswersAreOwn == GoSpec => []AnswersOwnFile
<1>1. GoFlight => AnswersOwnFile
  BY DEF GoFlight
<1>. QED
  BY <1>1, GoOneCopyInFlight, PTL

(* Behind a Go plugin too, the reader goroutine finds the callback of      *)
(* every response: it never panics.                                        *)
THEOREM GoResponsesExpected == GoSpec => []EveryResponseIsExpected
<1>1. GoFlight => EveryResponseIsExpected
  BY DEF GoFlight, CallsInv, EveryResponseIsExpected
<1>. QED
  BY <1>1, GoOneCopyInFlight, PTL

(* The Go system implements the service: initial states map to initial     *)
(* states, every step to a step or a stutter.                              *)
THEOREM GoImplementsRpc == GoSpec => ImplementsRpcSafely
<1>1. GoSystemInit => Rpc!Init
  BY DEF GoSystemInit, PipesInit, HostInit, Rpc!Init, ServiceOf
<1>2. GoFlight /\ [GoNext]_goSystemVars => [Rpc!Next]_(Rpc!rpcVars)
  <2>. SUFFICES ASSUME GoFlight, [GoNext]_goSystemVars PROVE Rpc!Next \/ UNCHANGED Rpc!rpcVars
    OBVIOUS
  <2>1. CASE HostStep
    <3>1. PICK F : F = GoInFlight
      OBVIOUS
    <3>2. HostTypeOK /\ IdsOwned /\ CallsInv /\ FlightInv(F)
      BY <3>1 DEF GoFlight
    <3>. QED
      BY <2>1, <3>2, HostServes
  <2>2. CASE UNCHANGED hostVars /\ (PluginStep \/ UNCHANGED goSystemVars)
    <3>1. host' = host
      BY <2>2 DEF PluginStep, LoopStep, GoWorkerStep, WriteInitLength, WriteInitJson, WriteInitPanics,
         LoopHeader, LoopPayload, Enqueue, LoopEOF, TakeTask, CreateCode, CreatePanics, LockWriteMu,
         WriteResponse, WriteUnit, WriteResponsePanics, UnlockWriteMu, pipeVars, goSystemVars
    <3>. QED
      BY <2>2, <3>1 DEF hostVars, Rpc!rpcVars, ServiceOf
  <2>. QED
    BY <2>1, <2>2 DEF GoNext, goSystemVars
<1>. QED
  BY <1>1, <1>2, GoOneCopyInFlight, PTL DEF GoSpec, ImplementsRpcSafely, Rpc!SafeSpec

=============================================================================
