------------------------- MODULE StreamDrainProofs -------------------------
(***************************************************************************)
(* Proofs about the buffers, the reader goroutines and the bytes of        *)
(* StreamDrain, for any number of streams and buffers, any answer and any  *)
(* read size.                                                              *)
(***************************************************************************)
EXTENDS StreamDrain, TLAPS, SequenceTheorems

\* The types the argument needs.
OwnersOK ==
    /\ rpc \in [Streams -> {"get", "read", "copy", "offer", "put", "exited"}]
    /\ buf \in [Streams -> Buffers \cup {NoBuffer}]
    /\ pool \subseteq made /\ made \subseteq Buffers
    /\ pc \in [Streams -> Waiting \cup {"stop", "settle", "ending", "close", "end"}]

\* A reader has a buffer from its first step to its last, and every buffer that is out was
\* made: a new one is nobody's.
HoldsWhileReading ==
    \A s \in Streams :
        /\ buf[s] = NoBuffer <=> rpc[s] \in {"get", "exited"}
        /\ buf[s] # NoBuffer => buf[s] \in made

DrainInv == OwnersOK /\ HoldsWhileReading /\ BufferHasOneOwner /\ NoReaderLeft

\* The bytes of a stream on their way: what was copied to the client, then what the handler
\* has received, then what the reader has read, is what the upstream sent, in order.
Upto(s) == Len(copied[s]) + Len(chunk[s])
Pipeline(s) ==
    /\ copied[s] = Units(s, 0, Len(copied[s]))
    /\ chunk[s] = Units(s, Len(copied[s]), Upto(s))
    /\ pc[s] \notin {"write", "writing"} => chunk[s] = <<>>
    /\ Upto(s) <= got[s] /\ got[s] <= sent[s] /\ Prefetched <= sent[s]
    /\ rpc[s] \in {"get", "read"} => got[s] = Upto(s)
    /\ rpc[s] = "copy" => fill[buf[s]] = Units(s, Upto(s), got[s])
    /\ rpc[s] = "offer" => payload[s] = Units(s, Upto(s), got[s])

\* An end of file comes after everything that was sent, and ends a drain that passed all
\* of it on.
EndOfFile(s) ==
    /\ readErr[s] = "eof" =>
         link[s] = "eof" /\ got[s] = sent[s] /\ rpc[s] \notin {"get", "read"}
    /\ chunkErr[s] = "eof" =>
         readErr[s] = "eof" /\ Upto(s) = got[s] /\ rpc[s] \in {"put", "exited"}
    /\ result[s] = "eof" => chunkErr[s] = "eof" /\ chunk[s] = <<>>
    /\ pc[s] \in {"select", "write", "writing"} => result[s] = "none"

\* What the client is sent, and what a write found in front of it, is the copy as long as no
\* heartbeat is in it.
Beaten(seq, s) == Contains(seq, HeartbeatFrame(s))
Client(s) ==
    /\ Beaten(out[s], s) \/ out[s] = copied[s]
         \/ (pc[s] \in {"close", "end"} /\ out[s] = Append(copied[s], EndFrame(s)))
    /\ pc[s] \in {"writing", "ending"} => Beaten(base[s], s) \/ base[s] = copied[s]

Whole(s) == stored[s] # <<>> => stored[s] = Units(s, 0, Length)

StreamOK(s) == Pipeline(s) /\ EndOfFile(s) /\ Client(s) /\ Whole(s)
DataInv == TypeOK /\ DrainInv /\ \A s \in Streams : StreamOK(s)

-----------------------------------------------------------------------------
\* No buffer is out when the streams start.
LEMMA DrainInit == Init => DrainInv
BY DEF Init, DrainInv, OwnersOK, HoldsWhileReading, BufferHasOneOwner, NoReaderLeft, Waiting

\* Steps that leave buffers and program counters alone keep the invariant.
LEMMA DrainStutter ==
    ASSUME DrainInv, UNCHANGED <<rpc, buf, pool, made, pc>>
    PROVE  DrainInv'
BY DEF DrainInv, OwnersOK, HoldsWhileReading, BufferHasOneOwner, NoReaderLeft

\* Steps of a handler inside its drain, or after it, do not touch its reader.
LEMMA DrainMove ==
    ASSUME DrainInv, NEW s \in Streams, UNCHANGED <<rpc, buf, pool, made>>,
           NEW where \in Waiting \cup {"stop", "settle", "ending", "close", "end"},
           pc' = [pc EXCEPT ![s] = where],
           pc[s] \notin Waiting \/ where \in Waiting \/ rpc[s] = "exited"
    PROVE  DrainInv'
BY DEF DrainInv, OwnersOK, HoldsWhileReading, BufferHasOneOwner, NoReaderLeft, Waiting

\* Steps of a reader that keep its buffer, while the handler waits or goes on waiting.
LEMMA ReaderMove ==
    ASSUME DrainInv, NEW s \in Streams, UNCHANGED <<buf, pool, made, pc>>,
           rpc[s] \in {"read", "copy", "offer"},
           NEW where \in {"read", "copy", "offer", "put"},
           rpc' = [rpc EXCEPT ![s] = where]
    PROVE  DrainInv'
BY DEF DrainInv, OwnersOK, HoldsWhileReading, BufferHasOneOwner, NoReaderLeft

\* The owner of every buffer survives every step.
LEMMA DrainStep == DrainInv /\ [Next]_vars => DrainInv'
<1> SUFFICES ASSUME DrainInv, [Next]_vars PROVE DrainInv'
  OBVIOUS
<1> USE StreamDrainAssumption DEF StreamDrainAssumption
<1>1. ASSUME NEW s \in Streams, ReaderStep(s) PROVE DrainInv'
  <2>1. CASE GetBuffer(s)
    <3>1. PICK b \in Buffers :
            /\ b \in pool \/ b \notin made
            /\ pool' = pool \ {b} /\ made' = made \cup {b}
            /\ buf' = [buf EXCEPT ![s] = b]
      BY <2>1 DEF GetBuffer
    <3>2. rpc[s] = "get" /\ rpc' = [rpc EXCEPT ![s] = "read"] /\ UNCHANGED pc
      BY <2>1 DEF GetBuffer, ReaderGoto, mainVars
    <3>3. \A t \in Streams : buf[t] # b
      BY <3>1 DEF DrainInv, HoldsWhileReading, BufferHasOneOwner
    <3> QED
      BY <3>1, <3>2, <3>3
      DEF DrainInv, OwnersOK, HoldsWhileReading, BufferHasOneOwner, NoReaderLeft
  <2>2. ASSUME NEW n, NEW err, Read(s, n, err), rpc[s] = "read" PROVE DrainInv'
    BY <2>2, ReaderMove DEF Read, ReaderGoto, mainVars
  <2>3. CASE ReadPrefetched(s) \/ ReadBody(s) \/ ReadEnd(s)
    BY <2>2, <2>3 DEF ReadPrefetched, ReadBody, ReadEnd
  <2>4. CASE Copy(s) \/ Abandon(s)
    BY <2>4, ReaderMove DEF Copy, Abandon, ReaderGoto, mainVars, poolVars
  <2>5. CASE PutBuffer(s)
    <3>1. /\ rpc[s] = "put" /\ rpc' = [rpc EXCEPT ![s] = "exited"]
          /\ pool' = pool \cup {buf[s]} /\ buf' = [buf EXCEPT ![s] = NoBuffer]
          /\ UNCHANGED <<pc, made>>
      BY <2>5 DEF PutBuffer, ReaderGoto, mainVars
    <3>2. buf[s] \in made /\ buf[s] # NoBuffer
      BY <3>1 DEF DrainInv, HoldsWhileReading
    <3> QED
      BY <3>1, <3>2 DEF DrainInv, OwnersOK, HoldsWhileReading, BufferHasOneOwner, NoReaderLeft
  <2> QED
    BY <1>1, <2>1, <2>3, <2>4, <2>5 DEF ReaderStep
<1>2. ASSUME NEW s \in Streams, HandlerStep(s) PROVE DrainInv'
  <2>1. CASE Receive(s)
    <3>1. /\ rpc[s] = "offer" /\ pc[s] = "select"
          /\ \/ rpc' = [rpc EXCEPT ![s] = "read"]
             \/ rpc' = [rpc EXCEPT ![s] = "put"]
          /\ UNCHANGED <<buf, pool, made>>
      BY <2>1 DEF Receive, ReaderGoto, poolVars
    <3>2. PICK where \in {"select", "write", "abort"} : pc' = [pc EXCEPT ![s] = where]
      BY <2>1 DEF Receive, After, End, Goto
    <3> QED
      BY <3>1, <3>2
      DEF DrainInv, OwnersOK, HoldsWhileReading, BufferHasOneOwner, NoReaderLeft, Waiting
  <2>2. CASE IdleTimeout(s) \/ ContextDone(s)
    BY <2>2, DrainMove DEF IdleTimeout, ContextDone, End, Goto, readerVars, poolVars, Waiting
  <2>3. CASE BeginWrite(s) \/ Abort(s)
    BY <2>3, DrainMove DEF BeginWrite, Abort, Goto, readerVars, poolVars, Waiting
  <2>4. CASE EndWrite(s)
    BY <2>4, DrainMove DEF EndWrite, After, End, Goto, readerVars, poolVars, Waiting
  <2>5. CASE Join(s)
    BY <2>5, DrainMove DEF Join, Goto, readerVars, poolVars
  <2>6. CASE StopHeartbeat(s) \/ Settle(s)
    BY <2>6, DrainMove DEF StopHeartbeat, Settle, Goto, readerVars, poolVars, Waiting
  <2>7. CASE WriteEndFrame(s) \/ Finish(s)
    BY <2>7, DrainMove DEF WriteEndFrame, Finish, Goto, readerVars, poolVars, Waiting
  <2> QED
    BY <1>2, <2>1, <2>2, <2>3, <2>4, <2>5, <2>6, <2>7 DEF HandlerStep
<1>3. ASSUME NEW s \in Streams, Beat(s) \/ BeatWrite(s) \/ BeatStop(s) PROVE DrainInv'
  BY <1>3, DrainStutter DEF Beat, BeatWrite, BeatStop, mainVars, readerVars, poolVars
<1>4. ASSUME NEW s \in Streams, Arrive(s) \/ Disconnect(s) \/ Leave(s) PROVE DrainInv'
  BY <1>4, DrainStutter DEF Arrive, Disconnect, Leave, mainVars, readerVars, poolVars
<1>5. CASE UNCHANGED vars
  BY <1>5, DrainStutter DEF vars, mainVars, readerVars, poolVars
<1> QED
  BY <1>1, <1>2, <1>3, <1>4, <1>5 DEF Next

\* No buffer of the pool is ever read into, and none by two readers, however many streams
\* end in whatever way.
THEOREM BuffersHaveOneOwner == Spec => []BufferHasOneOwner
<1>1. DrainInv => BufferHasOneOwner
  BY DEF DrainInv
<1> QED
  BY DrainInit, DrainStep, <1>1, PTL DEF Spec

\* drainOpenAIChunks never returns before its reader has ended.
THEOREM NoReaderOutlivesItsDrain == Spec => []NoReaderLeft
<1>1. DrainInv => NoReaderLeft
  BY DEF DrainInv
<1> QED
  BY DrainInit, DrainStep, <1>1, PTL DEF Spec
-----------------------------------------------------------------------------
\* The units between two positions are a sequence, as long as the positions are apart.
LEMMA UnitsAreASequence ==
    ASSUME NEW s \in Streams, NEW a \in Nat, NEW b \in a .. Length
    PROVE  Units(s, a, b) \in Seq(Pieces) /\ Len(Units(s, a, b)) = b - a
<1>1. b - a \in Nat /\ Length \in Nat
  BY StreamDrainAssumption DEF StreamDrainAssumption
<1>2. \A i \in 1 .. b - a : Unit(s, a + i) \in Pieces
  BY <1>1 DEF Unit, Pieces
<1> QED
  BY <1>1, <1>2 DEF Units

\* Reading on from where a read ended reads on without a gap.
LEMMA UnitsJoin ==
    ASSUME NEW s \in Streams, NEW a \in Nat, NEW b \in a .. Length, NEW c \in b .. Length
    PROVE  Units(s, a, b) \o Units(s, b, c) = Units(s, a, c)
<1>1. b \in Nat /\ Length \in Nat /\ c \in a .. Length
  BY StreamDrainAssumption DEF StreamDrainAssumption
<1>2. /\ Units(s, a, b) \in Seq(Pieces) /\ Len(Units(s, a, b)) = b - a
      /\ Units(s, b, c) \in Seq(Pieces) /\ Len(Units(s, b, c)) = c - b
      /\ Units(s, a, c) \in Seq(Pieces) /\ Len(Units(s, a, c)) = c - a
  BY <1>1, UnitsAreASequence
<1> DEFINE p == Units(s, a, b)
           q == Units(s, b, c)
           r == Units(s, a, c)
<1> HIDE DEF p, q, r
<1>3. /\ p \in Seq(Pieces) /\ q \in Seq(Pieces) /\ r \in Seq(Pieces)
      /\ Len(p) = b - a /\ Len(q) = c - b /\ Len(r) = c - a
  BY <1>2 DEF p, q, r
<1>4. /\ p \o q \in Seq(Pieces) /\ Len(p \o q) = c - a
      /\ \A i \in 1 .. c - a : (p \o q)[i] = IF i <= b - a THEN p[i] ELSE q[i - (b - a)]
  <2>1. /\ p \o q \in Seq(Pieces) /\ Len(p \o q) = Len(p) + Len(q)
        /\ \A i \in 1 .. Len(p) + Len(q) : (p \o q)[i] =
              IF i <= Len(p) THEN p[i] ELSE q[i - Len(p)]
    BY <1>3, ConcatProperties, Zenon
  <2>2. (b - a) + (c - b) = c - a
    BY <1>1
  <2> QED
    BY <1>3, <2>1, <2>2
<1>5. ASSUME NEW i \in 1 .. c - a PROVE (p \o q)[i] = r[i]
  <2>1. CASE i <= b - a
    BY <1>1, <1>4, <1>5, <2>1 DEF p, r, Units
  <2>2. CASE ~(i <= b - a)
    <3>1. i - (b - a) \in 1 .. c - b /\ b + (i - (b - a)) = a + i
      BY <1>1, <2>2
    <3> QED
      BY <1>1, <1>4, <1>5, <2>2, <3>1 DEF q, r, Units
  <2> QED
    BY <2>1, <2>2
<1>6. p \o q = r
  BY <1>3, <1>4, <1>5, SeqEqual
<1> QED
  BY <1>6 DEF p, q, r

\* Positions that are reached by adding up lengths stay in order below the end.
LEMMA PositionsInOrder ==
    ASSUME NEW a \in Nat, NEW n \in Nat, NEW b, b = a + n, NEW c \in Nat, b <= c, c <= Length,
           Length \in Nat
    PROVE  a \in 0 .. Length /\ a \in Nat /\ b \in a .. Length
OBVIOUS

\* No units are no sequence to speak of.
LEMMA NoUnits ==
    ASSUME NEW s \in Streams, NEW a \in Nat
    PROVE  Units(s, a, a) = <<>>
BY DEF Units

\* Replacing one value of a function by another of its range keeps its type.
LEMMA OneReplaced ==
    ASSUME NEW S, NEW f \in [Streams -> S], NEW s \in Streams, NEW v \in S
    PROVE  [f EXCEPT ![s] = v] \in [Streams -> S]
OBVIOUS

\* A heartbeat that is in a sequence stays when something is appended to it, and is in it
\* when it was appended.
LEMMA BeatsStay ==
    ASSUME NEW s \in Streams, NEW p \in Seq(Pieces), NEW q \in Seq(Pieces)
    PROVE  /\ Beaten(p, s) => Beaten(p \o q, s)
           /\ Beaten(p, s) => Beaten(Append(p, EndFrame(s)), s)
           /\ Beaten(Append(p, HeartbeatFrame(s)), s)
<1>1. Length \in Nat
  BY StreamDrainAssumption DEF StreamDrainAssumption
<1>2. HeartbeatFrame(s) \in Pieces /\ EndFrame(s) \in Pieces
  BY <1>1 DEF HeartbeatFrame, EndFrame, Unit, Pieces
<1>3. ASSUME Beaten(p, s) PROVE Beaten(p \o q, s) /\ Beaten(Append(p, EndFrame(s)), s)
  <2>1. PICK i \in 1 .. Len(p) : p[i] = HeartbeatFrame(s)
    BY <1>3 DEF Beaten, Contains
  <2>2. i \in 1 .. Len(p \o q) /\ (p \o q)[i] = p[i]
    OBVIOUS
  <2>3. i \in 1 .. Len(Append(p, EndFrame(s))) /\ Append(p, EndFrame(s))[i] = p[i]
    BY <1>2
  <2> QED
    BY <2>1, <2>2, <2>3 DEF Beaten, Contains
<1>4. Beaten(Append(p, HeartbeatFrame(s)), s)
  <2>1. /\ Len(p) + 1 \in 1 .. Len(Append(p, HeartbeatFrame(s)))
        /\ Append(p, HeartbeatFrame(s))[Len(p) + 1] = HeartbeatFrame(s)
    BY <1>2
  <2> QED
    BY <2>1 DEF Beaten, Contains
<1> QED
  BY <1>3, <1>4

-----------------------------------------------------------------------------
\* One step of one stream, of its goroutines or of its connection.
StreamStep(s) ==
    \/ ReaderStep(s) \/ HandlerStep(s)
    \/ Beat(s) \/ BeatWrite(s) \/ BeatStop(s)
    \/ Arrive(s) \/ Disconnect(s) \/ Leave(s)

\* What a step of one stream leaves alone of another.
Same(t) ==
    /\ pc'[t] = pc[t] /\ result'[t] = result[t]
    /\ chunk'[t] = chunk[t] /\ chunkErr'[t] = chunkErr[t]
    /\ base'[t] = base[t] /\ copied'[t] = copied[t]
    /\ out'[t] = out[t] /\ stored'[t] = stored[t]
    /\ rpc'[t] = rpc[t] /\ buf'[t] = buf[t]
    /\ payload'[t] = payload[t] /\ readErr'[t] = readErr[t]
    /\ sent'[t] = sent[t] /\ got'[t] = got[t] /\ link'[t] = link[t]
    /\ rpc[t] = "copy" => fill'[buf[t]] = fill[buf[t]]

\* What is the same keeps what is known of it.
LEMMA SameKeeps ==
    ASSUME NEW t \in Streams, StreamOK(t), Same(t) PROVE StreamOK(t)'
<1> USE DEF StreamOK, Same
<1>1. Pipeline(t)'
  BY DEF Pipeline, Upto
<1>2. EndOfFile(t)'
  BY DEF EndOfFile, Upto
<1>3. Client(t)' /\ Whole(t)'
  BY DEF Client, Whole
<1> QED
  BY <1>1, <1>2, <1>3

\* Streams share the pool only: no step of one is seen by another, as no two readers read
\* into the same buffer.
LEMMA OthersUntouched ==
    ASSUME DataInv, NEW s \in Streams, NEW t \in Streams \ {s}, StreamStep(s)
    PROVE  Same(t)
<1> USE DEF Same, DataInv, TypeOK
<1>1. CASE GetBuffer(s)
  BY <1>1 DEF GetBuffer, ReaderGoto, mainVars, netVars
<1>2. ASSUME NEW n, NEW err, Read(s, n, err), rpc[s] = "read" PROVE Same(t)
  <2>1. rpc[t] = "copy" => buf[t] # buf[s]
    BY <1>2 DEF DrainInv, HoldsWhileReading, BufferHasOneOwner
  <2> QED
    BY <1>2, <2>1 DEF Read, ReaderGoto, mainVars
<1>3. CASE ReadPrefetched(s) \/ ReadBody(s) \/ ReadEnd(s)
  BY <1>2, <1>3 DEF ReadPrefetched, ReadBody, ReadEnd
<1>4. CASE Copy(s) \/ Abandon(s) \/ PutBuffer(s)
  BY <1>4 DEF Copy, Abandon, PutBuffer, ReaderGoto, mainVars, poolVars, netVars
<1>5. CASE Receive(s)
  BY <1>5 DEF Receive, After, End, Goto, ReaderGoto, poolVars, netVars
<1>6. CASE IdleTimeout(s) \/ ContextDone(s)
  BY <1>6 DEF IdleTimeout, ContextDone, End, Goto, readerVars, poolVars, netVars
<1>7. CASE BeginWrite(s) \/ Join(s) \/ StopHeartbeat(s)
  BY <1>7 DEF BeginWrite, Join, StopHeartbeat, Goto, readerVars, poolVars, netVars
<1>8. CASE EndWrite(s)
  BY <1>8 DEF EndWrite, After, End, Goto, readerVars, poolVars, netVars
<1>9. CASE Abort(s) \/ Finish(s)
  BY <1>9 DEF Abort, Finish, Goto, readerVars, poolVars
<1>10. CASE Settle(s) \/ WriteEndFrame(s)
  BY <1>10 DEF Settle, WriteEndFrame, Goto, readerVars, poolVars, netVars
<1>11. CASE Beat(s) \/ BeatWrite(s) \/ BeatStop(s)
  <2>1. /\ UNCHANGED <<mainVars, readerVars, poolVars, netVars>>
        /\ UNCHANGED out \/ out' = [out EXCEPT ![s] = Append(hbase[s], HeartbeatFrame(s))]
    BY <1>11 DEF Beat, BeatWrite, BeatStop
  <2> QED
    BY <2>1 DEF mainVars, readerVars, poolVars, netVars
<1>12. CASE Arrive(s) \/ Disconnect(s) \/ Leave(s)
  BY <1>12 DEF Arrive, Disconnect, Leave, mainVars, readerVars, poolVars
<1> QED
  BY <1>1, <1>3, <1>4, <1>5, <1>6, <1>7, <1>8, <1>9, <1>10, <1>11, <1>12
  DEF StreamStep, ReaderStep, HandlerStep
-----------------------------------------------------------------------------
\* A read goes on where the one before ended, and fills the reader's own buffer.
LEMMA ReadKeeps ==
    ASSUME DataInv, NEW s \in Streams, NEW n \in Nat, NEW err \in {"none", "eof", "error"},
           rpc[s] = "read", got[s] + n <= sent[s],
           err = "eof" => link[s] = "eof" /\ got[s] + n = sent[s],
           Read(s, n, err)
    PROVE  TypeOK' /\ StreamOK(s)'
<1> DEFINE new == Units(s, got[s], got[s] + n)
<1>1. /\ fill' = [fill EXCEPT ![buf[s]] = new] /\ got' = [got EXCEPT ![s] = @ + n]
      /\ readErr' = [readErr EXCEPT ![s] = err] /\ rpc' = [rpc EXCEPT ![s] = "copy"]
      /\ UNCHANGED <<mainVars, out, buf, payload, beatVars, pool, made, sent, link, closed, gone>>
  BY DEF Read, ReaderGoto
<1>2. /\ got[s] \in 0 .. Length /\ sent[s] \in 0 .. Length /\ Length \in Nat
      /\ buf[s] \in Buffers
  BY StreamDrainAssumption
  DEF StreamDrainAssumption, DataInv, TypeOK, DrainInv, OwnersOK, HoldsWhileReading
<1>3. new \in Seq(Pieces)
  <2>1. got[s] \in Nat /\ got[s] + n \in got[s] .. Length
    BY <1>2
  <2> QED
    BY <2>1, UnitsAreASequence, Zenon
<1>4. TypeOK'
  <2>1. got[s] + n \in 0 .. Length
    BY <1>2
  <2> HIDE DEF new
  <2> QED
    BY <1>1, <1>2, <1>3, <2>1 DEF DataInv, TypeOK, mainVars, beatVars
<1>5. /\ fill'[buf'[s]] = new /\ got'[s] = got[s] + n /\ readErr'[s] = err /\ rpc'[s] = "copy"
      /\ UNCHANGED <<mainVars, out, payload, sent, link>>
  BY <1>1, <1>2 DEF DataInv, TypeOK
<1>6. Pipeline(s) /\ EndOfFile(s) /\ Client(s) /\ Whole(s)
  BY DEF DataInv, StreamOK
<1>7. Upto(s)' = Upto(s) /\ got[s] = Upto(s)
  BY <1>5, <1>6 DEF Upto, mainVars, Pipeline
<1>8. Pipeline(s)'
  BY <1>2, <1>5, <1>6, <1>7 DEF Pipeline, mainVars
<1>9. EndOfFile(s)'
  BY <1>2, <1>5, <1>6, <1>7 DEF EndOfFile, mainVars
<1>10. Client(s)' /\ Whole(s)'
  BY <1>5, <1>6 DEF Client, Whole, mainVars
<1> QED
  BY <1>4, <1>8, <1>9, <1>10 DEF StreamOK

\* The reader of a stream keeps its bytes in order.
LEMMA ReaderKeeps ==
    ASSUME DataInv, NEW s \in Streams, ReaderStep(s)
    PROVE  TypeOK' /\ StreamOK(s)'
<1> USE DEF DataInv
<1>0. /\ Pipeline(s) /\ EndOfFile(s) /\ Client(s) /\ Whole(s)
      /\ got[s] \in 0 .. Length /\ sent[s] \in 0 .. Length /\ Length \in Nat
      /\ Prefetched \in 1 .. Length /\ Prefetched <= sent[s] /\ got[s] <= sent[s]
  BY StreamDrainAssumption DEF StreamDrainAssumption, StreamOK, Pipeline, TypeOK
<1>1. CASE GetBuffer(s)
  <2>1. PICK b \in Buffers : pool' = pool \ {b} /\ made' = made \cup {b}
                             /\ buf' = [buf EXCEPT ![s] = b]
    BY <1>1 DEF GetBuffer
  <2>2. /\ rpc[s] = "get" /\ rpc' = [rpc EXCEPT ![s] = "read"]
        /\ UNCHANGED <<mainVars, out, payload, readErr, beatVars, fill, netVars>>
    BY <1>1 DEF GetBuffer, ReaderGoto
  <2>3. TypeOK'
    BY <2>1, <2>2 DEF TypeOK, mainVars, beatVars, netVars
  <2>4. rpc'[s] = "read"
    BY <2>2 DEF TypeOK
  <2>5. Upto(s)' = Upto(s)
    BY <2>2 DEF Upto, mainVars
  <2>6. Pipeline(s)'
    BY <1>0, <2>2, <2>4, <2>5 DEF Pipeline, mainVars, netVars
  <2>7. EndOfFile(s)' /\ Client(s)' /\ Whole(s)'
    BY <1>0, <2>2, <2>4, <2>5 DEF EndOfFile, Client, Whole, mainVars, netVars
  <2> QED
    BY <2>3, <2>6, <2>7 DEF StreamOK
<1>2. CASE ReadPrefetched(s)
  <2>1. PICK n \in 1 .. ReadLimit : got[s] + n <= Prefetched /\ Read(s, n, "none")
    BY <1>2 DEF ReadPrefetched
  <2>2. n \in Nat /\ got[s] + n <= sent[s]
    BY <1>0, <2>1, StreamDrainAssumption DEF StreamDrainAssumption
  <2> QED
    BY <1>2, <2>1, <2>2, ReadKeeps DEF ReadPrefetched
<1>3. CASE ReadBody(s)
  <2>1. PICK n \in 1 .. ReadLimit :
          /\ got[s] + n <= sent[s]
          /\ \/ Read(s, n, "none")
             \/ got[s] + n = sent[s] /\ link[s] = "eof" /\ Read(s, n, "eof")
             \/ Read(s, n, "error")
    BY <1>3 DEF ReadBody
  <2>2. n \in Nat
    BY <2>1, StreamDrainAssumption DEF StreamDrainAssumption
  <2> QED
    BY <1>3, <2>1, <2>2, ReadKeeps DEF ReadBody
<1>4. CASE ReadEnd(s)
  <2>1. \/ got[s] + 0 = sent[s] /\ link[s] = "eof" /\ Read(s, 0, "eof")
        \/ Read(s, 0, "error")
    BY <1>0, <1>4 DEF ReadEnd
  <2>2. got[s] + 0 <= sent[s]
    BY <1>0
  <2> QED
    BY <1>4, <2>1, <2>2, ReadKeeps DEF ReadEnd
<1>5. CASE Copy(s)
  <2>1. /\ rpc[s] = "copy" /\ rpc' = [rpc EXCEPT ![s] = "offer"]
        /\ payload' = [payload EXCEPT ![s] = fill[buf[s]]]
        /\ UNCHANGED <<mainVars, out, buf, readErr, beatVars, poolVars, netVars>>
    BY <1>5 DEF Copy, ReaderGoto
  <2>2. buf[s] \in Buffers
    BY <2>1 DEF DrainInv, OwnersOK, HoldsWhileReading
  <2>3. TypeOK'
    BY <2>1, <2>2 DEF TypeOK, mainVars, beatVars, poolVars, netVars
  <2>4. rpc'[s] = "offer" /\ payload'[s] = fill[buf[s]]
    BY <2>1 DEF TypeOK
  <2>5. Upto(s)' = Upto(s)
    BY <2>1 DEF Upto, mainVars
  <2>6. Pipeline(s)'
    BY <1>0, <2>1, <2>4, <2>5 DEF Pipeline, mainVars, netVars
  <2>7. EndOfFile(s)' /\ Client(s)' /\ Whole(s)'
    BY <1>0, <2>1, <2>4, <2>5 DEF EndOfFile, Client, Whole, mainVars, netVars
  <2> QED
    BY <2>3, <2>6, <2>7 DEF StreamOK
<1>6. CASE Abandon(s) \/ PutBuffer(s)
  <2>1. /\ rpc[s] \in {"offer", "put"}
        /\ \E where \in {"put", "exited"} : rpc' = [rpc EXCEPT ![s] = where]
        /\ UNCHANGED <<mainVars, out, payload, readErr, beatVars, made, fill, netVars>>
    BY <1>6 DEF Abandon, PutBuffer, ReaderGoto, poolVars
  <2>2. TypeOK'
    <3>1. buf' \in [Streams -> Buffers \cup {NoBuffer}]
      BY <1>6 DEF Abandon, PutBuffer, TypeOK
    <3>2. pool' \subseteq Buffers
      <4>1. CASE PutBuffer(s)
        <5>1. buf[s] \in Buffers
          BY <4>1 DEF PutBuffer, DrainInv, OwnersOK, HoldsWhileReading
        <5> QED
          BY <4>1, <5>1 DEF PutBuffer, TypeOK
      <4> QED
        BY <1>6, <4>1 DEF Abandon, poolVars, TypeOK
    <3>3. rpc' \in [Streams -> {"get", "read", "copy", "offer", "put", "exited"}]
      BY <2>1 DEF TypeOK
    <3> QED
      BY <2>1, <3>1, <3>2, <3>3 DEF TypeOK, mainVars, beatVars, netVars
  <2>3. rpc'[s] \in {"put", "exited"}
    BY <2>1 DEF TypeOK
  <2>4. Upto(s)' = Upto(s)
    BY <2>1 DEF Upto, mainVars
  <2>5. Pipeline(s)'
    BY <1>0, <2>1, <2>3, <2>4 DEF Pipeline, mainVars, netVars
  <2>6. EndOfFile(s)' /\ Client(s)' /\ Whole(s)'
    BY <1>0, <2>1, <2>3, <2>4 DEF EndOfFile, Client, Whole, mainVars, netVars
  <2> QED
    BY <2>2, <2>5, <2>6 DEF StreamOK
<1> QED
  BY <1>1, <1>2, <1>3, <1>4, <1>5, <1>6 DEF ReaderStep
-----------------------------------------------------------------------------
\* What the handler does between its last write and its end moves no byte.
LEMMA QuietKeeps ==
    ASSUME DataInv, NEW s \in Streams, pc[s] \notin {"write", "writing", "close", "end"},
           NEW where \in {"abort", "join", "stop", "settle"}, pc' = [pc EXCEPT ![s] = where],
           NEW why \in {"idle", "canceled"},
           UNCHANGED result \/ result' = [result EXCEPT ![s] = why],
           UNCHANGED closed \/ closed' = [closed EXCEPT ![s] = TRUE],
           UNCHANGED <<chunk, chunkErr, base, copied, stored, out, readerVars, beatVars, poolVars,
                       sent, got, link, gone>>
    PROVE  TypeOK' /\ StreamOK(s)'
<1> USE DEF DataInv
<1>1. TypeOK'
  <2>1. pc' \in [Streams -> Waiting \cup {"stop", "settle", "ending", "close", "end"}]
    BY DEF TypeOK, Waiting
  <2>2. result' \in [Streams -> {"none", "eof", "upstreamErr", "idle", "canceled"}]
    BY DEF TypeOK
  <2>3. closed' \in [Streams -> BOOLEAN]
    BY DEF TypeOK
  <2> QED
    BY <2>1, <2>2, <2>3 DEF TypeOK, readerVars, beatVars, poolVars
<1>2. Pipeline(s) /\ EndOfFile(s) /\ Client(s) /\ Whole(s) /\ pc'[s] = where
  BY DEF StreamOK, TypeOK
<1>3. result'[s] = result[s] \/ result'[s] = why
  BY DEF TypeOK
<1>4. Pipeline(s)' /\ Whole(s)'
  BY <1>2 DEF Pipeline, Upto, Whole, readerVars, poolVars
<1>5. EndOfFile(s)'
  BY <1>2, <1>3 DEF EndOfFile, Upto, readerVars
<1>6. Client(s)'
  BY <1>2 DEF Client
<1> QED
  BY <1>1, <1>4, <1>5, <1>6 DEF StreamOK

\* A result that is received carries all that was read, and the end of file if it came.
LEMMA ReceiveKeeps ==
    ASSUME DataInv, NEW s \in Streams, Receive(s) PROVE TypeOK' /\ StreamOK(s)'
<1> USE DEF DataInv
<1>1. /\ pc[s] = "select" /\ rpc[s] = "offer"
      /\ chunk' = [chunk EXCEPT ![s] = payload[s]]
      /\ chunkErr' = [chunkErr EXCEPT ![s] = readErr[s]]
      /\ rpc' = [rpc EXCEPT ![s] = IF readErr[s] = "none" THEN "read" ELSE "put"]
      /\ UNCHANGED <<base, copied, stored, out, buf, payload, readErr, beatVars, poolVars, netVars>>
  BY DEF Receive, ReaderGoto
<1>2. PICK where \in {"select", "write", "abort"}, why \in {"none", "eof", "upstreamErr"} :
        /\ pc' = [pc EXCEPT ![s] = where]
        /\ UNCHANGED result \/ (where = "abort" /\ result' = [result EXCEPT ![s] = why])
        /\ payload[s] # <<>> <=> where = "write"
        /\ why = "eof" => readErr[s] = "eof"
  BY DEF Receive, After, End, Goto
<1>3. TypeOK'
  <2>1. pc' \in [Streams -> Waiting \cup {"stop", "settle", "ending", "close", "end"}]
    BY <1>2 DEF TypeOK, Waiting
  <2>2. result' \in [Streams -> {"none", "eof", "upstreamErr", "idle", "canceled"}]
    BY <1>2 DEF TypeOK
  <2>3. rpc' \in [Streams -> {"get", "read", "copy", "offer", "put", "exited"}]
    BY <1>1 DEF TypeOK
  <2> QED
    BY <1>1, <2>1, <2>2, <2>3 DEF TypeOK, beatVars, poolVars, netVars
<1>4. /\ Pipeline(s) /\ EndOfFile(s) /\ Client(s) /\ Whole(s)
      /\ got[s] \in Nat /\ copied[s] \in Seq(Pieces) /\ got[s] <= Length /\ Length \in Nat
  BY StreamDrainAssumption DEF StreamDrainAssumption, StreamOK, TypeOK
<1>5. /\ chunk'[s] = payload[s] /\ chunkErr'[s] = readErr[s] /\ pc'[s] = where
      /\ rpc'[s] = IF readErr[s] = "none" THEN "read" ELSE "put"
      /\ result[s] = "none"
      /\ result'[s] = "none" \/ (where = "abort" /\ result'[s] = why)
  BY <1>1, <1>2, <1>4 DEF TypeOK, EndOfFile
<1>6. /\ Len(copied[s]) \in Nat /\ Upto(s) = Len(copied[s])
      /\ got[s] \in Len(copied[s]) .. Length
      /\ payload[s] = Units(s, Len(copied[s]), got[s])
  <2>1. chunk[s] = <<>>
    BY <1>1, <1>4 DEF Pipeline
  <2>2. Len(copied[s]) \in Nat
    BY <1>4
  <2>3. Upto(s) = Len(copied[s])
    BY <2>1, <2>2 DEF Upto
  <2> QED
    BY <1>1, <1>4, <2>2, <2>3 DEF Pipeline
<1>7. Len(payload[s]) = got[s] - Len(copied[s])
  BY <1>6, UnitsAreASequence, Zenon
<1>8. Upto(s)' = got[s]
  <2>1. Upto(s)' = Len(copied[s]) + Len(payload[s])
    BY <1>1, <1>5 DEF Upto
  <2> QED
    BY <1>4, <1>6, <1>7, <2>1
<1>9. Pipeline(s)'
  BY <1>1, <1>2, <1>4, <1>5, <1>6, <1>8 DEF Pipeline, netVars
<1>10. EndOfFile(s)'
  BY <1>1, <1>2, <1>4, <1>5, <1>8 DEF EndOfFile, netVars
<1>11. Client(s)' /\ Whole(s)'
  BY <1>1, <1>4, <1>5 DEF Client, Whole
<1> QED
  BY <1>3, <1>9, <1>10, <1>11 DEF StreamOK

\* A write appends what was received to what was copied, and to what it found in front of it.
LEMMA EndWriteKeeps ==
    ASSUME DataInv, NEW s \in Streams, EndWrite(s) PROVE TypeOK' /\ StreamOK(s)'
<1> USE DEF DataInv
<1> DEFINE now == base[s] \o chunk[s]
           all == copied[s] \o chunk[s]
<1> HIDE DEF now, all
<1>1. /\ pc[s] = "writing"
      /\ out' = [out EXCEPT ![s] = now] /\ copied' = [copied EXCEPT ![s] = all]
      /\ base' = [base EXCEPT ![s] = <<>>] /\ chunk' = [chunk EXCEPT ![s] = <<>>]
      /\ UNCHANGED <<chunkErr, stored, readerVars, beatVars, poolVars, netVars>>
  BY DEF EndWrite, Data, now, all
<1>2. PICK where \in {"select", "abort"}, why \in {"none", "eof", "upstreamErr"} :
        /\ pc' = [pc EXCEPT ![s] = where]
        /\ UNCHANGED result \/ (where = "abort" /\ result' = [result EXCEPT ![s] = why])
        /\ why = "eof" => chunkErr[s] = "eof"
  BY DEF EndWrite, After, End, Goto
<1>3. /\ base[s] \in Seq(Pieces) /\ chunk[s] \in Seq(Pieces) /\ copied[s] \in Seq(Pieces)
      /\ <<>> \in Seq(Pieces)
  BY DEF TypeOK
<1>4. now \in Seq(Pieces) /\ all \in Seq(Pieces) /\ Len(all) = Len(copied[s]) + Len(chunk[s])
  BY <1>3, ConcatProperties, Zenon DEF now, all
<1>5. TypeOK'
  <2>1. pc' \in [Streams -> Waiting \cup {"stop", "settle", "ending", "close", "end"}]
    BY <1>2 DEF TypeOK, Waiting
  <2>2. result' \in [Streams -> {"none", "eof", "upstreamErr", "idle", "canceled"}]
    BY <1>2 DEF TypeOK
  <2>3. /\ out' \in [Streams -> Seq(Pieces)] /\ copied' \in [Streams -> Seq(Pieces)]
        /\ base' \in [Streams -> Seq(Pieces)] /\ chunk' \in [Streams -> Seq(Pieces)]
    BY <1>1, <1>3, <1>4 DEF TypeOK
  <2> QED
    BY <1>1, <2>1, <2>2, <2>3 DEF TypeOK, readerVars, beatVars, poolVars, netVars
<1>6. /\ Pipeline(s) /\ EndOfFile(s) /\ Client(s) /\ Whole(s)
      /\ got[s] \in Nat /\ got[s] <= Length /\ Length \in Nat
  BY StreamDrainAssumption DEF StreamDrainAssumption, StreamOK, TypeOK
<1>7. /\ out'[s] = now /\ copied'[s] = all /\ base'[s] = <<>> /\ chunk'[s] = <<>>
      /\ pc'[s] = where
      /\ result[s] = "none"
      /\ result'[s] = "none" \/ (where = "abort" /\ result'[s] = why)
  BY <1>1, <1>2, <1>6 DEF TypeOK, EndOfFile
<1>8. all = Units(s, 0, Upto(s)) /\ Len(all) = Upto(s) /\ Upto(s) \in Nat
  <2>1. /\ Len(copied[s]) \in 0 .. Length /\ Len(copied[s]) \in Nat
        /\ Upto(s) \in Len(copied[s]) .. Length
    <3>1. Len(copied[s]) \in Nat /\ Len(chunk[s]) \in Nat
      BY <1>3
    <3>2. Upto(s) = Len(copied[s]) + Len(chunk[s])
      BY DEF Upto
    <3>3. Upto(s) <= got[s]
      BY <1>6 DEF Pipeline
    <3> QED
      BY <1>6, <3>1, <3>2, <3>3, PositionsInOrder, Zenon
  <2>2. copied[s] = Units(s, 0, Len(copied[s])) /\ chunk[s] = Units(s, Len(copied[s]), Upto(s))
    BY <1>6 DEF Pipeline
  <2>3. Units(s, 0, Len(copied[s])) \o Units(s, Len(copied[s]), Upto(s)) = Units(s, 0, Upto(s))
    <3>1. 0 \in Nat
      OBVIOUS
    <3> QED
      BY <2>1, <3>1, UnitsJoin, Zenon
  <2>4. Upto(s) \in Nat
    BY <2>1
  <2> QED
    BY <1>4, <2>2, <2>3, <2>4 DEF all, Upto
<1>9. Upto(s)' = Upto(s)
  <2>1. Upto(s)' = Len(all) + Len(<<>>)
    BY <1>7 DEF Upto
  <2> QED
    BY <1>8, <2>1
<1>10. Units(s, Upto(s), Upto(s)) = <<>>
  BY <1>8, NoUnits, Zenon
<1>11. Pipeline(s)'
  BY <1>1, <1>2, <1>6, <1>7, <1>8, <1>9, <1>10 DEF Pipeline, readerVars, poolVars, netVars
<1>12. EndOfFile(s)'
  BY <1>1, <1>2, <1>6, <1>7, <1>9 DEF EndOfFile, readerVars, netVars
<1>13. Beaten(now, s) \/ now = all
  <2>1. CASE base[s] = copied[s]
    BY <2>1 DEF now, all
  <2>2. CASE Beaten(base[s], s)
    BY <1>3, <2>2, BeatsStay, Zenon DEF now
  <2> QED
    BY <1>1, <1>6, <2>1, <2>2 DEF Client
<1>14. Client(s)' /\ Whole(s)'
  <2>1. Client(s)'
    BY <1>2, <1>7, <1>13 DEF Client
  <2> QED
    BY <1>1, <1>6, <2>1 DEF Whole
<1> QED
  BY <1>5, <1>11, <1>12, <1>14 DEF StreamOK
\* What a write finds in front of it is the copy, or there is a heartbeat in it; a made-up
\* end is written after it once.
LEMMA ClientKeeps ==
    ASSUME DataInv, NEW s \in Streams, BeginWrite(s) \/ Settle(s) \/ WriteEndFrame(s)
    PROVE  TypeOK' /\ StreamOK(s)'
<1> USE DEF DataInv
<1>1. PICK where \in {"writing", "ending", "close"} :
        /\ pc' = [pc EXCEPT ![s] = where]
        /\ pc[s] \in {"write", "settle", "ending"}
        /\ where = "writing" <=> pc[s] = "write"
        /\ \/ UNCHANGED <<base, out>> /\ where = "close"
           \/ UNCHANGED out /\ base' = [base EXCEPT ![s] = out[s]] /\ where # "close"
           \/ /\ base' = [base EXCEPT ![s] = <<>>] /\ where = "close" /\ pc[s] = "ending"
              /\ out' = [out EXCEPT ![s] = Append(base[s], EndFrame(s))]
  BY DEF BeginWrite, Settle, WriteEndFrame, Goto
<1>2. UNCHANGED <<result, chunk, chunkErr, copied, stored, readerVars, beatVars, poolVars, netVars>>
  BY DEF BeginWrite, Settle, WriteEndFrame
<1>3. /\ base[s] \in Seq(Pieces) /\ <<>> \in Seq(Pieces)
      /\ EndFrame(s) \in Pieces /\ Append(base[s], EndFrame(s)) \in Seq(Pieces)
  <2>1. EndFrame(s) \in Pieces
    BY StreamDrainAssumption DEF StreamDrainAssumption, EndFrame, Unit, Pieces
  <2>2. base[s] \in Seq(Pieces)
    BY DEF TypeOK
  <2> QED
    BY <2>1, <2>2
<1>4. TypeOK'
  <2>1. pc' \in [Streams -> Waiting \cup {"stop", "settle", "ending", "close", "end"}]
    BY <1>1 DEF TypeOK, Waiting
  <2>2. out' \in [Streams -> Seq(Pieces)]
    <3>1. UNCHANGED out \/ out' = [out EXCEPT ![s] = Append(base[s], EndFrame(s))]
      BY <1>1
    <3>2. out \in [Streams -> Seq(Pieces)]
      BY DEF TypeOK
    <3> QED
      BY <1>3, <3>1, <3>2, OneReplaced
  <2>3. base' \in [Streams -> Seq(Pieces)]
    <3>1. \/ UNCHANGED base
          \/ base' = [base EXCEPT ![s] = out[s]]
          \/ base' = [base EXCEPT ![s] = <<>>]
      BY <1>1
    <3>2. base \in [Streams -> Seq(Pieces)] /\ out[s] \in Seq(Pieces)
      BY DEF TypeOK
    <3> QED
      BY <1>3, <3>1, <3>2, OneReplaced
  <2> QED
    BY <1>2, <2>1, <2>2, <2>3 DEF TypeOK, readerVars, beatVars, poolVars, netVars
<1>5. Pipeline(s) /\ EndOfFile(s) /\ Client(s) /\ Whole(s) /\ pc'[s] = where
  BY <1>1 DEF StreamOK, TypeOK
<1>6. Upto(s)' = Upto(s)
  BY <1>2 DEF Upto
<1>7. Pipeline(s)' /\ Whole(s)'
  BY <1>1, <1>2, <1>5, <1>6 DEF Pipeline, Whole, readerVars, poolVars, netVars
<1>8. EndOfFile(s)'
  BY <1>1, <1>2, <1>5, <1>6 DEF EndOfFile, readerVars, netVars
<1>9. Client(s)'
  <2>1. CASE UNCHANGED <<base, out>> /\ where = "close"
    BY <1>1, <1>2, <1>5, <2>1 DEF Client
  <2>2. CASE UNCHANGED out /\ base' = [base EXCEPT ![s] = out[s]] /\ where # "close"
    <3>1. base'[s] = out[s]
      BY <2>2 DEF TypeOK
    <3> QED
      BY <1>1, <1>2, <1>5, <2>2, <3>1 DEF Client
  <2>3. CASE /\ where = "close" /\ pc[s] = "ending"
             /\ out' = [out EXCEPT ![s] = Append(base[s], EndFrame(s))]
    <3>1. out'[s] = Append(base[s], EndFrame(s))
      BY <2>3 DEF TypeOK
    <3>2. Beaten(base[s], s) => Beaten(Append(base[s], EndFrame(s)), s)
      BY <1>3, BeatsStay, Zenon
    <3> QED
      BY <1>2, <1>5, <2>3, <3>1, <3>2 DEF Client
  <2> QED
    BY <1>1, <2>1, <2>2, <2>3
<1> QED
  BY <1>4, <1>7, <1>8, <1>9 DEF StreamOK

\* What is cached has the last unit in it, so it has all of them.
LEMMA FinishKeeps ==
    ASSUME DataInv, NEW s \in Streams, Finish(s) PROVE TypeOK' /\ StreamOK(s)'
<1> USE DEF DataInv
<1>1. /\ pc[s] = "close" /\ pc' = [pc EXCEPT ![s] = "end"]
      /\ closed' = [closed EXCEPT ![s] = TRUE]
      /\ stored' = [stored EXCEPT ![s] = IF Cacheable(s) THEN copied[s] ELSE @]
      /\ UNCHANGED <<result, chunk, chunkErr, base, copied, out, readerVars, beatVars, poolVars,
                     sent, got, link, gone>>
  BY DEF Finish, Goto
<1>2. TypeOK'
  <2>1. pc' \in [Streams -> Waiting \cup {"stop", "settle", "ending", "close", "end"}]
    BY <1>1 DEF TypeOK
  <2>2. stored' \in [Streams -> Seq(Pieces)] /\ closed' \in [Streams -> BOOLEAN]
    BY <1>1 DEF TypeOK
  <2> QED
    BY <1>1, <2>1, <2>2 DEF TypeOK, readerVars, beatVars, poolVars
<1>3. /\ Pipeline(s) /\ EndOfFile(s) /\ Client(s) /\ Whole(s) /\ pc'[s] = "end"
      /\ stored'[s] = IF Cacheable(s) THEN copied[s] ELSE stored[s]
  BY <1>1 DEF StreamOK, TypeOK
<1>4. Upto(s)' = Upto(s)
  BY <1>1 DEF Upto
<1>5. Pipeline(s)' /\ EndOfFile(s)' /\ Client(s)'
  BY <1>1, <1>3, <1>4 DEF Pipeline, EndOfFile, Client, readerVars, poolVars
<1>6. ASSUME Cacheable(s) PROVE copied[s] = Units(s, 0, Length)
  <2>1. Len(copied[s]) \in Nat /\ Len(chunk[s]) \in Nat /\ got[s] \in 0 .. Length /\ Length \in Nat
    BY StreamDrainAssumption DEF StreamDrainAssumption, TypeOK
  <2>2. Upto(s) = Len(copied[s]) + Len(chunk[s]) /\ Upto(s) <= got[s]
    BY <1>3 DEF Upto, Pipeline
  <2>3. PICK i \in 1 .. Len(copied[s]) : copied[s][i] = Unit(s, Length)
    BY <1>6 DEF Cacheable, HasDone, Contains
  <2>4. copied[s] = Units(s, 0, Len(copied[s]))
    BY <1>3 DEF Pipeline
  <2>5. Units(s, 0, Len(copied[s]))[i] = Unit(s, 0 + i)
    BY <2>1, <2>3 DEF Units
  <2>6. i = Length
    BY <2>1, <2>3, <2>4, <2>5 DEF Unit
  <2>7. Len(copied[s]) = Length
    <3>1. Length <= Len(copied[s])
      BY <2>1, <2>3, <2>6
    <3>2. Len(copied[s]) \in 0 .. Length
      <4>1. got[s] \in Nat /\ got[s] <= Length
        BY <2>1
      <4> QED
        BY <2>1, <2>2, <4>1, PositionsInOrder, Zenon
    <3> QED
      BY <2>1, <3>1, <3>2
  <2> QED
    BY <2>4, <2>7
<1>7. Whole(s)'
  BY <1>3, <1>6 DEF Whole
<1> QED
  BY <1>2, <1>5, <1>7 DEF StreamOK

\* The handler of a stream passes on its bytes, in order.
LEMMA HandlerKeeps ==
    ASSUME DataInv, NEW s \in Streams, HandlerStep(s) PROVE TypeOK' /\ StreamOK(s)'
<1>1. CASE IdleTimeout(s) \/ ContextDone(s)
  BY <1>1, QuietKeeps DEF IdleTimeout, ContextDone, End, Goto, netVars
<1>2. CASE Abort(s) \/ Join(s) \/ StopHeartbeat(s)
  BY <1>2, QuietKeeps DEF Abort, Join, StopHeartbeat, Goto, netVars
<1> QED
  BY <1>1, <1>2, ReceiveKeeps, EndWriteKeeps, ClientKeeps, FinishKeeps DEF HandlerStep

\* Heartbeats are seen in what is sent, and nothing the connection does to bytes that were
\* sent, or the client by leaving, changes them.
LEMMA SurroundingsKeep ==
    ASSUME DataInv, NEW s \in Streams,
           \/ Beat(s) \/ BeatWrite(s) \/ BeatStop(s)
           \/ Arrive(s) \/ Disconnect(s) \/ Leave(s)
    PROVE  TypeOK' /\ StreamOK(s)'
<1> USE DEF DataInv
<1>0. Pipeline(s) /\ EndOfFile(s) /\ Client(s) /\ Whole(s)
  BY DEF StreamOK
<1>1. CASE Beat(s) \/ BeatStop(s)
  <2>1. /\ UNCHANGED <<mainVars, out, readerVars, poolVars, netVars>>
        /\ UNCHANGED hbase \/ hbase' = [hbase EXCEPT ![s] = out[s]]
        /\ \E where \in {"writing", "exited"} : hpc' = [hpc EXCEPT ![s] = where]
    BY <1>1 DEF Beat, BeatStop
  <2>2. TypeOK'
    <3>1. hbase' \in [Streams -> Seq(Pieces)]
      <4>1. hbase \in [Streams -> Seq(Pieces)] /\ out[s] \in Seq(Pieces)
        BY DEF TypeOK
      <4> QED
        BY <2>1, <4>1, OneReplaced
    <3>2. hpc' \in [Streams -> {"wait", "writing", "exited"}]
      BY <2>1 DEF TypeOK
    <3> QED
      BY <2>1, <3>1, <3>2 DEF TypeOK, mainVars, readerVars, poolVars, netVars
  <2>3. Upto(s)' = Upto(s)
    BY <2>1 DEF Upto, mainVars
  <2>4. Pipeline(s)' /\ EndOfFile(s)' /\ Client(s)' /\ Whole(s)'
    BY <1>0, <2>1, <2>3
    DEF Pipeline, EndOfFile, Client, Whole, mainVars, readerVars, poolVars, netVars
  <2> QED
    BY <2>2, <2>4 DEF StreamOK
<1>2. CASE BeatWrite(s)
  <2>1. /\ out' = [out EXCEPT ![s] = Append(hbase[s], HeartbeatFrame(s))]
        /\ hbase' = [hbase EXCEPT ![s] = <<>>] /\ hpc' = [hpc EXCEPT ![s] = "wait"]
        /\ UNCHANGED <<mainVars, readerVars, poolVars, netVars>>
    BY <1>2 DEF BeatWrite
  <2>2. hbase[s] \in Seq(Pieces) /\ HeartbeatFrame(s) \in Pieces
    BY StreamDrainAssumption DEF StreamDrainAssumption, HeartbeatFrame, Unit, Pieces, TypeOK
  <2>3. TypeOK'
    <3>1. Append(hbase[s], HeartbeatFrame(s)) \in Seq(Pieces) /\ <<>> \in Seq(Pieces)
      BY <2>2
    <3>2. out' \in [Streams -> Seq(Pieces)] /\ hbase' \in [Streams -> Seq(Pieces)]
      BY <2>1, <3>1 DEF TypeOK
    <3>3. hpc' \in [Streams -> {"wait", "writing", "exited"}]
      BY <2>1 DEF TypeOK
    <3> QED
      BY <2>1, <3>2, <3>3 DEF TypeOK, mainVars, readerVars, poolVars, netVars
  <2>4. Upto(s)' = Upto(s)
    BY <2>1 DEF Upto, mainVars
  <2>5. Pipeline(s)' /\ EndOfFile(s)' /\ Whole(s)'
    BY <1>0, <2>1, <2>4 DEF Pipeline, EndOfFile, Whole, mainVars, readerVars, poolVars, netVars
  <2>6. Beaten(out'[s], s)
    <3>1. out'[s] = Append(hbase[s], HeartbeatFrame(s))
      BY <2>1 DEF TypeOK
    <3>2. Beaten(Append(hbase[s], HeartbeatFrame(s)), s)
      BY <2>2, BeatsStay, Zenon
    <3> QED
      BY <3>1, <3>2
  <2>7. Client(s)'
    BY <1>0, <2>1, <2>6 DEF Client, mainVars
  <2> QED
    BY <2>3, <2>5, <2>7 DEF StreamOK
<1>3. CASE Arrive(s) \/ Disconnect(s) \/ Leave(s)
  <2>1. /\ UNCHANGED <<mainVars, out, readerVars, beatVars, poolVars, got, closed>>
        /\ \/ UNCHANGED <<sent, link>>
           \/ /\ link[s] = "open" /\ UNCHANGED link
              /\ sent[s] < Length /\ sent' = [sent EXCEPT ![s] = @ + 1]
           \/ /\ link[s] = "open" /\ UNCHANGED sent
              /\ \E how \in {"eof", "broken"} : link' = [link EXCEPT ![s] = how]
        /\ gone' \in [Streams -> BOOLEAN]
    BY <1>3 DEF Arrive, Disconnect, Leave, TypeOK
  <2>2. sent[s] \in 0 .. Length /\ got[s] \in 0 .. Length /\ Length \in Nat
        /\ Prefetched \in 1 .. Length
    BY StreamDrainAssumption DEF StreamDrainAssumption, TypeOK
  <2>3. TypeOK'
    <3>1. sent' \in [Streams -> 0 .. Length]
      <4>1. \/ UNCHANGED sent
            \/ sent[s] < Length /\ sent' = [sent EXCEPT ![s] = @ + 1]
        BY <2>1
      <4>2. sent \in [Streams -> 0 .. Length]
        BY DEF TypeOK
      <4>3. sent[s] < Length => sent[s] + 1 \in 0 .. Length
        BY <2>2
      <4> QED
        BY <4>1, <4>2, <4>3
    <3>2. link' \in [Streams -> {"open", "eof", "broken"}]
      <4>1. UNCHANGED link \/ \E how \in {"eof", "broken"} : link' = [link EXCEPT ![s] = how]
        BY <2>1
      <4> QED
        BY <4>1 DEF TypeOK
    <3> QED
      BY <2>1, <3>1, <3>2 DEF TypeOK, mainVars, readerVars, beatVars, poolVars
  <2>4. /\ sent'[s] \in Int /\ sent[s] <= sent'[s]
        /\ link[s] = "eof" => sent'[s] = sent[s] /\ link'[s] = "eof"
    BY <2>1, <2>2 DEF TypeOK
  <2>5. Upto(s)' = Upto(s)
    BY <2>1 DEF Upto, mainVars
  <2>6. Pipeline(s)'
    BY <1>0, <2>1, <2>2, <2>4, <2>5 DEF Pipeline, mainVars, readerVars, poolVars
  <2>7. EndOfFile(s)' /\ Client(s)' /\ Whole(s)'
    BY <1>0, <2>1, <2>4, <2>5 DEF EndOfFile, Client, Whole, mainVars, readerVars
  <2> QED
    BY <2>3, <2>6, <2>7 DEF StreamOK
<1> QED
  BY <1>1, <1>2, <1>3

\* At first nothing was read, and nothing written.
LEMMA DataInit == Init => DataInv
<1> SUFFICES ASSUME Init PROVE DataInv
  OBVIOUS
<1> USE StreamDrainAssumption DEF StreamDrainAssumption
<1>1. TypeOK
  <2>1. <<>> \in Seq(Pieces)
    OBVIOUS
  <2>2. Prefetched \in 0 .. Length /\ 0 \in 0 .. Length
    OBVIOUS
  <2> QED
    BY <2>1, <2>2 DEF Init, TypeOK, Waiting
<1>2. ASSUME NEW s \in Streams PROVE StreamOK(s)
  <2>1. Units(s, 0, 0) = <<>>
    BY NoUnits
  <2>2. Len(copied[s]) = 0 /\ Len(chunk[s]) = 0 /\ Upto(s) = 0
    BY DEF Init, Upto
  <2>3. Pipeline(s)
    BY <2>1, <2>2 DEF Init, Pipeline
  <2> QED
    BY <2>3 DEF Init, StreamOK, EndOfFile, Client, Whole
<1> QED
  BY <1>1, <1>2, DrainInit DEF DataInv

\* Every step keeps the bytes of every stream in order.
LEMMA DataStep == DataInv /\ [Next]_vars => DataInv'
<1> SUFFICES ASSUME DataInv, [Next]_vars PROVE DataInv'
  OBVIOUS
<1>1. DrainInv'
  BY DrainStep DEF DataInv
<1>2. ASSUME NEW s \in Streams, StreamStep(s) PROVE TypeOK' /\ \A t \in Streams : StreamOK(t)'
  <2>1. TypeOK' /\ StreamOK(s)'
    BY <1>2, ReaderKeeps, HandlerKeeps, SurroundingsKeep DEF StreamStep
  <2>2. ASSUME NEW t \in Streams \ {s} PROVE StreamOK(t)'
    BY <1>2, <2>2, OthersUntouched, SameKeeps DEF DataInv
  <2> QED
    BY <2>1, <2>2
<1>3. CASE UNCHANGED vars
  <2>1. TypeOK'
    BY <1>3 DEF DataInv, TypeOK, vars, mainVars, readerVars, beatVars, poolVars, netVars
  <2>2. ASSUME NEW t \in Streams PROVE StreamOK(t)'
    <3>1. Same(t)
      BY <1>3 DEF Same, vars, mainVars, readerVars, poolVars, netVars
    <3> QED
      BY <3>1, SameKeeps DEF DataInv
  <2> QED
    BY <1>1, <2>1, <2>2 DEF DataInv
<1> QED
  BY <1>1, <1>2, <1>3 DEF Next, StreamStep, DataInv

\* Whatever the sizes of the reads, whenever client or upstream leave and however heartbeats
\* race: the handler passes on what its upstream sent, in order, once, and all of it when the
\* stream ended normally.
THEOREM StreamsArePassedOn == Spec => []PassedOnFaithfully
<1>1. ASSUME DataInv, NEW s \in Streams
      PROVE  /\ copied[s] = Units(s, 0, Len(copied[s]))
             /\ result[s] = "eof" => Len(copied[s]) = sent[s]
             /\ ~Contains(out[s], HeartbeatFrame(s)) =>
                  out[s] \in {copied[s], Append(copied[s], EndFrame(s))}
  <2>1. Pipeline(s) /\ EndOfFile(s) /\ Client(s)
    BY <1>1 DEF DataInv, StreamOK
  <2>2. result[s] = "eof" => Len(copied[s]) = sent[s]
    <3>1. Len(copied[s]) \in Nat
      BY <1>1 DEF DataInv, TypeOK
    <3>2. chunk[s] = <<>> => Upto(s) = Len(copied[s])
      BY <3>1 DEF Upto
    <3> QED
      BY <2>1, <3>2 DEF EndOfFile
  <2> QED
    BY <2>1, <2>2 DEF Pipeline, Client, Beaten
<1>2. DataInv => PassedOnFaithfully
  BY <1>1 DEF DataInv, PassedOnFaithfully
<1> QED
  BY DataInit, DataStep, <1>2, PTL DEF Spec

\* Nothing but whole answers gets into the semantic cache.
THEOREM WholeAnswersAreCached == Spec => []CachedWhole
<1>1. DataInv => CachedWhole
  BY DEF DataInv, StreamOK, Whole, CachedWhole
<1> QED
  BY DataInit, DataStep, <1>1, PTL DEF Spec
=============================================================================
