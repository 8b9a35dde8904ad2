---------------------------- MODULE StreamDrain ----------------------------
(***************************************************************************)
(* Plain streams (executeOpenAIStream): drainOpenAIChunks reads the        *)
(* upstream in a goroutine of its own into a buffer of the process-wide    *)
(* pool and hands copies to the handler, which writes them to the client,  *)
(* next to a heartbeat goroutine that writes to the same client.           *)
(* The upstream sends Length units; an event is two of them and the last   *)
(* event is [DONE].                                                        *)
(***************************************************************************)
EXTENDS Integers, Sequences, SequencesExt

CONSTANTS
    Streams,       \* handlers
    Buffers, NoBuffer,
    Length,
    Prefetched,    \* units read before the headers were sent
    ReadLimit,     \* units that fit in a buffer
    Heartbeat,     \* StreamKeepAliveSec > 0, and the writer can flush
    MaxBeats       \* bound: heartbeats in front of the client

ASSUME StreamDrainAssumption ==
    /\ NoBuffer \notin Buffers
    /\ Length \in Nat /\ Length % 2 = 0
    /\ Prefetched \in 1 .. Length
    /\ ReadLimit \in Nat \ {0}
    /\ Heartbeat \in BOOLEAN
    /\ MaxBeats \in Nat

VARIABLES
    pc, result,        \* the handler, and why its drain ended
    chunk, chunkErr,   \* the chunkReadResult it received
    base,              \* what its Write found in front of it
    copied,            \* responseBuffer
    out,               \* what the client is sent
    stored,            \* what went into the semantic cache
    rpc, buf,          \* the reader goroutine and its buffer
    payload, readErr,  \* the chunkReadResult it offers
    hpc, hbase,        \* the heartbeat goroutine
    pool, made, fill,  \* bufferPool, the buffers there are, their bytes
    sent, got, link,   \* the upstream: units arrived and read, state of the connection
    closed, gone       \* the body is closed (and abort with it), the context cancelled

mainVars == <<pc, result, chunk, chunkErr, base, copied, stored>>
readerVars == <<rpc, buf, payload, readErr>>
poolVars == <<pool, made, fill>>
netVars == <<sent, got, link, closed, gone>>
beatVars == <<hpc, hbase>>
vars == <<mainVars, out, readerVars, beatVars, poolVars, netVars>>

Unit(s, i) == <<s, i>>
Units(s, from, to) == [i \in 1 .. to - from |-> Unit(s, from + i)]   \* from + 1 .. to
HeartbeatFrame(s) == Unit(s, 0)
EndFrame(s) == Unit(s, Length + 1)    \* finish_reason "stop" and [DONE], made up
Pieces == Streams \X (0 .. Length + 1)

Waiting == {"select", "write", "writing", "abort", "join"}   \* inside drainOpenAIChunks

TypeOK ==
    /\ pc \in [Streams -> Waiting \cup {"stop", "settle", "ending", "close", "end"}]
    /\ result \in [Streams -> {"none", "eof", "upstreamErr", "idle", "canceled"}]
    /\ chunk \in [Streams -> Seq(Pieces)]
    /\ payload \in [Streams -> Seq(Pieces)]
    /\ fill \in [Buffers -> Seq(Pieces)]
    /\ chunkErr \in [Streams -> {"none", "eof", "error"}]
    /\ readErr \in [Streams -> {"none", "eof", "error"}]
    /\ base \in [Streams -> Seq(Pieces)] /\ hbase \in [Streams -> Seq(Pieces)]
    /\ copied \in [Streams -> Seq(Pieces)] /\ out \in [Streams -> Seq(Pieces)]
    /\ stored \in [Streams -> Seq(Pieces)]
    /\ rpc \in [Streams -> {"get", "read", "copy", "offer", "put", "exited"}]
    /\ buf \in [Streams -> Buffers \cup {NoBuffer}]
    /\ hpc \in [Streams -> {"wait", "writing", "exited"}]
    /\ pool \subseteq Buffers /\ made \subseteq Buffers
    /\ sent \in [Streams -> 0 .. Length] /\ got \in [Streams -> 0 .. Length]
    /\ link \in [Streams -> {"open", "eof", "broken"}]
    /\ closed \in [Streams -> BOOLEAN] /\ gone \in [Streams -> BOOLEAN]

Init ==
    /\ pc = [s \in Streams |-> "select"]
    /\ result = [s \in Streams |-> "none"]
    /\ chunk = [s \in Streams |-> <<>>] /\ chunkErr = [s \in Streams |-> "none"]
    /\ payload = [s \in Streams |-> <<>>] /\ readErr = [s \in Streams |-> "none"]
    /\ base = [s \in Streams |-> <<>>] /\ hbase = [s \in Streams |-> <<>>]
    /\ copied = [s \in Streams |-> <<>>] /\ out = [s \in Streams |-> <<>>]
    /\ stored = [s \in Streams |-> <<>>]
    /\ rpc = [s \in Streams |-> "get"] /\ buf = [s \in Streams |-> NoBuffer]
    /\ hpc = [s \in Streams |-> IF Heartbeat THEN "wait" ELSE "exited"]
    /\ pool = {} /\ made = {} /\ fill = [b \in Buffers |-> <<>>]
    /\ sent = [s \in Streams |-> Prefetched] /\ got = [s \in Streams |-> 0]
    /\ link = [s \in Streams |-> "open"]
    /\ closed = [s \in Streams |-> FALSE] /\ gone = [s \in Streams |-> FALSE]

Goto(s, where) == pc' = [pc EXCEPT ![s] = where]
ReaderGoto(s, where) == rpc' = [rpc EXCEPT ![s] = where]

-----------------------------------------------------------------------------
(* The reader goroutine. *)

\* A pooled buffer, or a new one.
GetBuffer(s) ==
    /\ rpc[s] = "get"
    /\ \E b \in Buffers :
         /\ b \in pool \/ b \notin made
         /\ pool' = pool \ {b} /\ made' = made \cup {b}
         /\ buf' = [buf EXCEPT ![s] = b]
    /\ ReaderGoto(s, "read")
    /\ UNCHANGED <<mainVars, out, payload, readErr, beatVars, fill, netVars>>

\* reader.Read(buf): n units are put into the buffer and err comes with them.
Read(s, n, err) ==
    /\ fill' = [fill EXCEPT ![buf[s]] = Units(s, got[s], got[s] + n)]
    /\ got' = [got EXCEPT ![s] = @ + n]
    /\ readErr' = [readErr EXCEPT ![s] = err]
    /\ ReaderGoto(s, "copy")
    /\ UNCHANGED <<mainVars, out, buf, payload, beatVars, pool, made, sent, link, closed, gone>>

\* What was prefetched is read first, whatever happens to the connection.
ReadPrefetched(s) ==
    /\ rpc[s] = "read" /\ got[s] < Prefetched
    /\ \E n \in 1 .. ReadLimit : got[s] + n <= Prefetched /\ Read(s, n, "none")

\* What arrived; the end of the connection may come with it.
ReadBody(s) ==
    /\ rpc[s] = "read" /\ got[s] >= Prefetched /\ got[s] < sent[s] /\ ~closed[s]
    /\ \E n \in 1 .. ReadLimit :
         /\ got[s] + n <= sent[s]
         /\ \/ Read(s, n, "none")
            \/ got[s] + n = sent[s] /\ link[s] = "eof" /\ Read(s, n, "eof")
            \/ got[s] + n = sent[s] /\ link[s] = "broken" /\ Read(s, n, "error")

\* Nothing is left, or nothing may be read any more: the upstream request has the
\* handler's context, and a closed body fails.
ReadEnd(s) ==
    /\ rpc[s] = "read" /\ got[s] >= Prefetched
    /\ \/ got[s] = sent[s] /\ link[s] = "eof" /\ Read(s, 0, "eof")
       \/ got[s] = sent[s] /\ link[s] = "broken" /\ Read(s, 0, "error")
       \/ (closed[s] \/ gone[s]) /\ Read(s, 0, "error")

\* Mutant: the buffer goes back to the pool as soon as its bytes are copied.
CopyPuttingBack(s) ==
    /\ rpc[s] = "copy"
    /\ payload' = [payload EXCEPT ![s] = fill[buf[s]]]
    /\ pool' = pool \cup {buf[s]}
    /\ ReaderGoto(s, "offer")
    /\ UNCHANGED <<mainVars, out, buf, readErr, beatVars, made, fill, netVars>>

Copy(s) ==
    /\ rpc[s] = "copy"
    /\ payload' = [payload EXCEPT ![s] = fill[buf[s]]]
    /\ ReaderGoto(s, "offer")
    /\ UNCHANGED <<mainVars, out, buf, readErr, beatVars, poolVars, netVars>>

\* The handler aborted while the reader offers a result.
Abandon(s) ==
    /\ rpc[s] = "offer" /\ closed[s]
    /\ ReaderGoto(s, "put")
    /\ UNCHANGED <<mainVars, out, buf, payload, readErr, beatVars, poolVars, netVars>>

\* Both defers: the buffer goes back, then readerDone is closed.
PutBuffer(s) ==
    /\ rpc[s] = "put"
    /\ pool' = pool \cup {buf[s]}
    /\ buf' = [buf EXCEPT ![s] = NoBuffer]
    /\ ReaderGoto(s, "exited")
    /\ UNCHANGED <<mainVars, out, payload, readErr, beatVars, made, fill, netVars>>

-----------------------------------------------------------------------------
(* The handler. *)

End(s, why) == result' = [result EXCEPT ![s] = why] /\ Goto(s, "abort")

\* How the loop goes on after a result with this error.
After(s, err) ==
    \/ err = "none" /\ Goto(s, "select") /\ UNCHANGED result
    \/ err = "eof" /\ End(s, "eof")
    \/ err = "error" /\ End(s, "upstreamErr")

\* The unbuffered channel: handler and reader meet.
Receive(s) ==
    /\ pc[s] = "select" /\ rpc[s] = "offer"
    /\ chunk' = [chunk EXCEPT ![s] = payload[s]]
    /\ chunkErr' = [chunkErr EXCEPT ![s] = readErr[s]]
    /\ ReaderGoto(s, IF readErr[s] = "none" THEN "read" ELSE "put")
    /\ IF payload[s] # <<>> THEN Goto(s, "write") /\ UNCHANGED result
                            ELSE After(s, readErr[s])
    /\ UNCHANGED <<base, copied, stored, out, buf, payload, readErr, beatVars, poolVars, netVars>>

\* The idle timer fires: any silence may have lasted long enough.
IdleTimeout(s) ==
    /\ pc[s] = "select"
    /\ End(s, "idle")
    /\ UNCHANGED <<chunk, chunkErr, base, copied, stored, out, readerVars, beatVars, poolVars,
                   netVars>>

ContextDone(s) ==
    /\ pc[s] = "select" /\ gone[s]
    /\ End(s, "canceled")
    /\ UNCHANGED <<chunk, chunkErr, base, copied, stored, out, readerVars, beatVars, poolVars,
                   netVars>>

\* onChunk: w.Write appends to the response body.  Nothing keeps the heartbeat from doing
\* the same meanwhile: who finishes last overwrites what was appended in between.
BeginWrite(s) ==
    /\ pc[s] = "write"
    /\ base' = [base EXCEPT ![s] = out[s]]
    /\ Goto(s, "writing")
    /\ UNCHANGED <<result, chunk, chunkErr, copied, stored, out, readerVars, beatVars, poolVars,
                   netVars>>

\* Mutant: results carry the buffer, not a copy.
DataShared(s) == IF buf[s] = NoBuffer THEN chunk[s] ELSE fill[buf[s]]

Data(s) == chunk[s]

EndWrite(s) ==
    /\ pc[s] = "writing"
    /\ out' = [out EXCEPT ![s] = base[s] \o Data(s)]
    /\ copied' = [copied EXCEPT ![s] = @ \o Data(s)]
    /\ base' = [base EXCEPT ![s] = <<>>]
    /\ chunk' = [chunk EXCEPT ![s] = <<>>]
    /\ After(s, chunkErr[s])
    /\ UNCHANGED <<chunkErr, stored, readerVars, beatVars, poolVars, netVars>>

\* Mutant: the abort does not close the body.
AbortOnly(s) ==
    /\ pc[s] = "abort"
    /\ Goto(s, "join")
    /\ closed' = [closed EXCEPT ![s] = rpc[s] # "read"]
    /\ UNCHANGED <<result, chunk, chunkErr, base, copied, stored, out, readerVars, beatVars,
                   poolVars, sent, got, link, gone>>

\* doAbort ...
Abort(s) ==
    /\ pc[s] = "abort"
    /\ Goto(s, "join")
    /\ closed' = [closed EXCEPT ![s] = TRUE]
    /\ UNCHANGED <<result, chunk, chunkErr, base, copied, stored, out, readerVars, beatVars,
                   poolVars, sent, got, link, gone>>

\* Mutant: the drain returns without waiting for its reader.
JoinNobody(s) ==
    /\ pc[s] = "join"
    /\ Goto(s, "stop")
    /\ UNCHANGED <<result, chunk, chunkErr, base, copied, stored, out, readerVars, beatVars,
                   poolVars, netVars>>

\* ... and <-readerDone: drainOpenAIChunks returns.
Join(s) ==
    /\ pc[s] = "join" /\ rpc[s] = "exited"
    /\ Goto(s, "stop")
    /\ UNCHANGED <<result, chunk, chunkErr, base, copied, stored, out, readerVars, beatVars,
                   poolVars, netVars>>

\* The ticker is stopped and keepAliveDone closed; nobody waits for the goroutine.
StopHeartbeat(s) ==
    /\ pc[s] = "stop"
    /\ Goto(s, "settle")
    /\ UNCHANGED <<result, chunk, chunkErr, base, copied, stored, out, readerVars, beatVars,
                   poolVars, netVars>>

HasDone(seq, s) == Contains(seq, Unit(s, Length - 1)) /\ Contains(seq, Unit(s, Length))

\* An interrupted stream is ended for the client, unless the upstream got to its [DONE].
Settle(s) ==
    /\ pc[s] = "settle"
    /\ IF result[s] \in {"idle", "upstreamErr"} /\ ~HasDone(copied[s], s)
         THEN base' = [base EXCEPT ![s] = out[s]] /\ Goto(s, "ending")
         ELSE Goto(s, "close") /\ UNCHANGED base
    /\ UNCHANGED <<result, chunk, chunkErr, copied, stored, out, readerVars, beatVars, poolVars,
                   netVars>>

WriteEndFrame(s) ==
    /\ pc[s] = "ending"
    /\ out' = [out EXCEPT ![s] = Append(base[s], EndFrame(s))]
    /\ base' = [base EXCEPT ![s] = <<>>]
    /\ Goto(s, "close")
    /\ UNCHANGED <<result, chunk, chunkErr, copied, stored, readerVars, beatVars, poolVars,
                   netVars>>

\* Mutant: whatever was not interrupted is complete.
CacheableUninterrupted(s) == result[s] = "eof"

Cacheable(s) == result[s] = "eof" /\ HasDone(copied[s], s)

\* Body closed, context released, key released, usage charged, answer cached.
Finish(s) ==
    /\ pc[s] = "close"
    /\ closed' = [closed EXCEPT ![s] = TRUE]
    /\ stored' = [stored EXCEPT ![s] = IF Cacheable(s) THEN copied[s] ELSE @]
    /\ Goto(s, "end")
    /\ UNCHANGED <<result, chunk, chunkErr, base, copied, out, readerVars, beatVars, poolVars,
                   sent, got, link, gone>>

-----------------------------------------------------------------------------
(* The heartbeat goroutine. *)

\* A tick, until the ticker is stopped.
Beat(s) ==
    /\ hpc[s] = "wait" /\ pc[s] \in Waiting \cup {"stop"}
    /\ Len(SelectSeq(out[s], LAMBDA piece : piece = HeartbeatFrame(s))) < MaxBeats
    /\ hbase' = [hbase EXCEPT ![s] = out[s]]
    /\ hpc' = [hpc EXCEPT ![s] = "writing"]
    /\ UNCHANGED <<mainVars, out, readerVars, poolVars, netVars>>

BeatWrite(s) ==
    /\ hpc[s] = "writing"
    /\ out' = [out EXCEPT ![s] = Append(hbase[s], HeartbeatFrame(s))]
    /\ hbase' = [hbase EXCEPT ![s] = <<>>]
    /\ hpc' = [hpc EXCEPT ![s] = "wait"]
    /\ UNCHANGED <<mainVars, readerVars, poolVars, netVars>>

BeatStop(s) ==
    /\ hpc[s] = "wait" /\ pc[s] \notin Waiting \cup {"stop"}
    /\ hpc' = [hpc EXCEPT ![s] = "exited"]
    /\ UNCHANGED <<mainVars, out, hbase, readerVars, poolVars, netVars>>

-----------------------------------------------------------------------------
(* The upstream and the client. *)

Arrive(s) ==
    /\ link[s] = "open" /\ sent[s] < Length /\ ~closed[s]
    /\ sent' = [sent EXCEPT ![s] = @ + 1]
    /\ UNCHANGED <<mainVars, out, readerVars, beatVars, poolVars, got, link, closed, gone>>

Disconnect(s) ==
    /\ link[s] = "open" /\ ~closed[s]
    /\ \E how \in {"eof", "broken"} : link' = [link EXCEPT ![s] = how]
    /\ UNCHANGED <<mainVars, out, readerVars, beatVars, poolVars, sent, got, closed, gone>>

\* The context is cancelled.
Leave(s) ==
    /\ pc[s] # "end" /\ ~gone[s]
    /\ gone' = [gone EXCEPT ![s] = TRUE]
    /\ UNCHANGED <<mainVars, out, readerVars, beatVars, poolVars, sent, got, link, closed>>

-----------------------------------------------------------------------------
ReaderStep(s) ==
    GetBuffer(s) \/ ReadPrefetched(s) \/ ReadBody(s) \/ ReadEnd(s) \/ Copy(s) \/ Abandon(s)
    \/ PutBuffer(s)

HandlerStep(s) ==
    Receive(s) \/ IdleTimeout(s) \/ ContextDone(s) \/ BeginWrite(s) \/ EndWrite(s) \/ Abort(s)
    \/ Join(s) \/ StopHeartbeat(s) \/ Settle(s) \/ WriteEndFrame(s) \/ Finish(s)

Next ==
    \E s \in Streams :
        \/ ReaderStep(s) \/ HandlerStep(s)
        \/ Beat(s) \/ BeatWrite(s) \/ BeatStop(s)
        \/ Arrive(s) \/ Disconnect(s) \/ Leave(s)

\* Goroutines run; the idle timer fires if nothing else ends the wait.
Fairness ==
    \A s \in Streams :
        WF_vars(ReaderStep(s)) /\ WF_vars(HandlerStep(s)) /\ WF_vars(BeatWrite(s) \/ BeatStop(s))

Spec == Init /\ [][Next]_vars /\ Fairness

-----------------------------------------------------------------------------
(* Properties. *)

\* A buffer of the pool is never read into, and no two streams read into the same one,
\* however their readers outlive their handlers' waits.
BufferHasOneOwner ==
    \A s \in Streams : buf[s] # NoBuffer =>
        buf[s] \notin pool /\ \A t \in Streams \ {s} : buf[t] # buf[s]

\* When drainOpenAIChunks returns, for whichever of its four reasons, its reader is gone.
NoReaderLeft == \A s \in Streams : pc[s] \notin Waiting => rpc[s] = "exited"

\* What the handler passes on is what its own upstream sent, nothing lost, doubled or
\* overwritten, and all of it when the stream ended normally; without a heartbeat in it
\* the client gets exactly that, and one made-up end at most.
PassedOnFaithfully ==
    /\ TypeOK
    /\ \A s \in Streams :
        /\ copied[s] = Units(s, 0, Len(copied[s]))
        /\ result[s] = "eof" => Len(copied[s]) = sent[s]
        /\ ~Contains(out[s], HeartbeatFrame(s)) =>
             out[s] \in {copied[s], Append(copied[s], EndFrame(s))}

\* Only whole answers are remembered by the semantic cache.
CachedWhole == \A s \in Streams : stored[s] # <<>> => stored[s] = Units(s, 0, Length)

\* Every drain ends, with its reader, even when the upstream falls silent for good.
DrainEnds == \A s \in Streams : <>(pc[s] = "end" /\ rpc[s] = "exited" /\ hpc[s] = "exited")
=============================================================================
