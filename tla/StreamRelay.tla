---------------------------- MODULE StreamRelay ----------------------------
(***************************************************************************)
(* Claude and Gemini streams (stream_live_compat.go): the chunks of an     *)
(* OpenAI stream are read line by line in a goroutine, one at a time, and  *)
(* translated into the events of the client's protocol.  A stream that     *)
(* ends without content is tried again with another key as long as the     *)
(* translator has written nothing.                                         *)
(***************************************************************************)
EXTENDS Integers, Sequences, FiniteSets, SequencesExt

CONSTANTS Protocols,       \* "claude", "gemini"
          Chunks,          \* "text", "tool", "bare" (the tool without arguments), "other"
                           \* (another tool), "role" (no content), "bad" (no JSON)
          SilentFallback,
          MaxAttempts,     \* crossKeyAttemptBudget + 5
          MaxChunks        \* bound: chunks of all upstream streams

ASSUME RelayAssumption ==
    /\ Protocols \subseteq {"claude", "gemini"}
    /\ Chunks \subseteq {"text", "tool", "bare", "other", "role", "bad"}
    /\ SilentFallback \in BOOLEAN
    /\ MaxAttempts \in Nat \ {0} /\ MaxChunks \in Nat

VARIABLES protocol, pc, attempt, leased, gone,
          tr, out,               \* the translator, the client's events
          head,                  \* the kind of answer its first write announced
          pending,               \* dataLines: "none" or a chunk
          reader, line,          \* of each attempt, its reader goroutine and lineCh
          arrived, ended,        \* chunks that arrived; how the upstream's stream ended
          result, charged

loopVars == <<attempt, leased>>
readVars == <<reader, line, arrived, ended>>
relayVars == <<protocol, pc, loopVars, gone, tr, out, head, pending, readVars, result, charged>>

Tools == {"tool", "bare", "other"}
Tool(c) == IF c = "bare" THEN "tool" ELSE c
Attempts == 1 .. MaxAttempts
NewTranslator == [started |-> FALSE, content |-> FALSE, finished |-> FALSE,
                  text |-> 0, next |-> 1, tools |-> <<>>]
Ev(kind, i) == [kind |-> kind, index |-> i]
Events == [kind: {"start", "block", "delta", "stop", "end"}, index: 0 .. 2 * MaxChunks]

RelayTypeOK ==
    /\ protocol \in Protocols /\ attempt \in 0 .. MaxAttempts
    /\ pc \in {"loop", "open", "launch", "wait", "handle", "close", "end"}
    /\ {leased, gone, charged} \subseteq BOOLEAN
    /\ head \in {"none", "stream", "plain", "json", "499"}
    /\ Range(out) \subseteq Events /\ Len(tr.tools) <= Cardinality(Tools)
    /\ reader \in [Attempts -> {"none", "reading", "exited"}]
    /\ pending \in Chunks \cup {"none", "done"}
    /\ result \in {"none", "ok", "empty", "error", "left", "exhausted"}

RelayInit ==
    /\ protocol \in Protocols /\ pc = "loop" /\ attempt = 0 /\ leased = FALSE /\ gone = FALSE
    /\ tr = NewTranslator /\ out = <<>> /\ head = "none" /\ pending = "none"
    /\ reader = [a \in Attempts |-> "none"] /\ line = [a \in Attempts |-> "none"]
    /\ arrived = 0 /\ ended = FALSE
    /\ result = "none" /\ charged = FALSE

---------------------------------------------------------------------------
(* The translators: what is written, and their state afterwards *)

Begun(t) == IF t.started \/ protocol = "gemini" THEN <<>> ELSE <<Ev("start", 0)>>
Closing(t) == IF t.text = 0 THEN <<>> ELSE <<Ev("stop", t.text)>>

(* A tool of Claude's gets its block when it is first seen and keeps it     *)
(* open; Gemini's are written when the stream ends, and count as content   *)
(* only once they have arguments.                                          *)
ToolSeen(t, c) == \E i \in 1 .. Len(t.tools) : t.tools[i].name = Tool(c)
ToolIndex(t, c) == IF ToolSeen(t, c)
                   THEN t.tools[CHOOSE i \in 1 .. Len(t.tools) : t.tools[i].name = Tool(c)].index
                   ELSE t.next

ConsumeWrites(t, c) ==
    CASE c = "text" /\ protocol = "gemini" -> <<Ev("delta", 0)>>
      [] c = "text" /\ protocol = "claude" ->
           Begun(t) \o (IF t.text = 0 THEN <<Ev("block", t.next), Ev("delta", t.next)>>
                                      ELSE <<Ev("delta", t.text)>>)
      [] c \in Tools /\ protocol = "claude" ->
           Begun(t) \o Closing(t)
             \o (IF ToolSeen(t, c) THEN <<>> ELSE <<Ev("block", t.next)>>)
             \o (IF c = "bare" THEN <<>> ELSE <<Ev("delta", ToolIndex(t, c))>>)
      [] OTHER -> <<>>

ConsumeState(t, c) ==
    LET opens == /\ protocol = "claude"
                /\ \/ c = "text" /\ t.text = 0
                   \/ c \in Tools /\ ~ToolSeen(t, c)
    IN  [t EXCEPT
          !.content = @ \/ c = "text" \/ c \in Tools \ (IF protocol = "claude" THEN {} ELSE {"bare"}),
          !.started = @ \/ ConsumeWrites(t, c) # <<>>,
          !.next = IF opens THEN @ + 1 ELSE @,
          !.text = IF protocol = "claude" /\ c = "text" THEN (IF @ = 0 THEN t.next ELSE @)
                   ELSE IF c \in Tools THEN 0 ELSE @,
          !.tools = IF c \in Tools /\ ~ToolSeen(t, c)
                    THEN Append(@, [name |-> Tool(c), index |-> t.next]) ELSE @]

Silent(t) == ~t.content /\ ~t.started

\* Mutant: the end is written by each of [DONE], the end of the body and the timer.
FinishWritesAgain(t) ==
    IF Silent(t) THEN <<>>
    ELSE Begun(t) \o Closing(t)
         \o [i \in 1 .. Len(t.tools) |->
               Ev(IF protocol = "claude" THEN "stop" ELSE "block", t.tools[i].index)]
         \o <<Ev("end", 0)>>

FinishWrites(t) ==
    IF t.finished \/ Silent(t) THEN <<>>
    ELSE Begun(t) \o Closing(t)
         \o [i \in 1 .. Len(t.tools) |->
               Ev(IF protocol = "claude" THEN "stop" ELSE "block", t.tools[i].index)]
         \o <<Ev("end", 0)>>

FinishState(t) ==
    [t EXCEPT !.finished = TRUE, !.started = @ \/ FinishWrites(t) # <<>>]

(* flushData: what is written, the state, and whether the chunk was bad.   *)
FlushWrites ==
    CASE pending = "done" -> FinishWrites(tr)
      [] pending \in {"none", "bad"} -> <<>>
      [] OTHER -> ConsumeWrites(tr, pending)
FlushState ==
    CASE pending = "done" -> FinishState(tr)
      [] pending \in {"none", "bad"} -> tr
      [] OTHER -> ConsumeState(tr, pending)

---------------------------------------------------------------------------
(* executeTranslatedCompatStream *)

(* The headers go out with the first write of the answer, whoever makes it. *)
Heads(kind) == head' = IF head = "none" THEN kind ELSE head

Leave == /\ ~gone /\ gone' = TRUE
         /\ UNCHANGED <<protocol, pc, loopVars, tr, out, head, pending, readVars, result, charged>>

AnswerCancelled ==
    /\ pc = "loop" /\ gone /\ attempt < MaxAttempts
    /\ pc' = "end" /\ result' = "left" /\ Heads("499")
    /\ UNCHANGED <<protocol, loopVars, gone, tr, out, pending, readVars, charged>>

(* A key, a full queue, or another error.                                  *)
Acquire ==
    /\ pc = "loop" /\ ~gone /\ attempt < MaxAttempts
    /\ \/ attempt' = attempt + 1 /\ leased' = TRUE /\ pc' = "open" /\ UNCHANGED result
          /\ UNCHANGED head
       \/ pc' = "end" /\ result' = "exhausted" /\ Heads("json") /\ UNCHANGED loopVars
       \/ attempt' = attempt + 1 /\ UNCHANGED <<leased, pc, result, head>>
    /\ UNCHANGED <<protocol, gone, tr, out, pending, readVars, charged>>

(* openUpstreamStream, whose own retries RequestLoop models.               *)
OpenUpstream ==
    /\ pc = "open"
    /\ \/ pc' = "launch" /\ tr' = NewTranslator /\ pending' = "none" /\ ended' = FALSE
          /\ UNCHANGED leased
       \/ pc' = "loop" /\ leased' = FALSE /\ UNCHANGED <<tr, pending, ended>>
    /\ UNCHANGED <<protocol, attempt, gone, out, head, reader, line, arrived, result, charged>>

(* With SilentFallbackOnExhaustion a new translator is finished: it        *)
(* writes nothing, and the answer is an empty 200.                         *)
Exhausted ==
    /\ pc = "loop" /\ attempt = MaxAttempts
    /\ pc' = "end" /\ result' = "exhausted"
    /\ IF SilentFallback THEN tr' = FinishState(NewTranslator) /\ UNCHANGED head
                         ELSE Heads("json") /\ UNCHANGED tr
    /\ UNCHANGED <<protocol, loopVars, gone, out, pending, readVars, charged>>

---------------------------------------------------------------------------
(* relayOpenAIStream *)

Relaying == UNCHANGED <<protocol, loopVars, gone, charged>>

Launch ==
    /\ pc = "launch" /\ pc' = "wait"
    /\ reader' = [reader EXCEPT ![attempt] = "reading"]
    /\ Relaying /\ UNCHANGED <<tr, out, head, pending, line, arrived, ended, result>>

(* The goroutine reads one line and exits: lineCh has room for it.         *)
Offer(a, l) == /\ reader[a] = "reading"
               /\ reader' = [reader EXCEPT ![a] = "exited"] /\ line' = [line EXCEPT ![a] = l]
Upstream == UNCHANGED <<protocol, pc, loopVars, gone, tr, out, head, pending, result, charged>>

ReadChunk(a) ==
    /\ a = attempt /\ leased /\ ~ended /\ pending = "none" /\ arrived < MaxChunks
    /\ \E c \in Chunks : Offer(a, c)
    /\ arrived' = arrived + 1 /\ Upstream /\ UNCHANGED ended

(* The blank line after a chunk; nothing follows [DONE].                   *)
ReadBlank(a) ==
    /\ a = attempt /\ leased /\ ~ended /\ pending # "none"
    /\ Offer(a, "blank") /\ ended' = (pending = "done")
    /\ Upstream /\ UNCHANGED arrived

ReadDone(a) ==
    /\ a = attempt /\ leased /\ ~ended /\ pending = "none"
    /\ Offer(a, "done")
    /\ Upstream /\ UNCHANGED <<arrived, ended>>

ReadEnd(a) ==
    /\ a = attempt /\ leased
    /\ Offer(a, "eof")
    /\ ended' = TRUE /\ Upstream /\ UNCHANGED arrived

(* A broken connection; a body that was closed; a context that ended.      *)
ReadError(a) ==
    /\ Offer(a, "error")
    /\ ended' = IF a = attempt THEN TRUE ELSE ended
    /\ Upstream /\ UNCHANGED arrived

KeepAlive ==
    /\ pc = "wait" /\ head = "none"
    /\ head' = "plain"
    /\ Relaying /\ UNCHANGED <<pc, tr, out, pending, readVars, result>>

Receive ==
    /\ pc = "wait" /\ line[attempt] # "none"
    /\ pc' = "handle"
    /\ Relaying /\ UNCHANGED <<tr, out, head, pending, readVars, result>>

Write(events) ==
    /\ out' = out \o events
    /\ IF events = <<>> THEN UNCHANGED head ELSE Heads("stream")

Returns(t, events, err) ==
    /\ pc' = "close" /\ tr' = t /\ Write(events) /\ pending' = "none"
    /\ result' = IF err THEN "error" ELSE IF Silent(t) THEN "empty" ELSE "ok"

(* flushData, whose error is dropped, and Finish; a client that left may   *)
(* make a write fail.                                                      *)
EndStream ==
    \/ Returns(FinishState(FlushState), FlushWrites \o FinishWrites(FlushState), FALSE)
    \/ gone /\ FlushWrites \o FinishWrites(FlushState) # <<>> /\ Returns(tr, <<>>, TRUE)

\* Mutant: no timer bounds the wait for the upstream.
GiveUpWhenLeft ==
    /\ pc = "wait" /\ gone
    /\ EndStream
    /\ Relaying /\ UNCHANGED readVars

(* The idle timer, or the end of the context.                              *)
GiveUpWaiting ==
    /\ pc = "wait"
    /\ EndStream
    /\ Relaying /\ UNCHANGED readVars

TakeLine == line' = [line EXCEPT ![attempt] = "none"] /\ UNCHANGED <<reader, arrived, ended>>

HandleData ==
    /\ pc = "handle" /\ line[attempt] \in Chunks \cup {"done"}
    /\ pc' = "launch" /\ pending' = line[attempt]
    /\ TakeLine /\ Relaying /\ UNCHANGED <<tr, out, head, result>>

HandleBlank ==
    /\ pc = "handle" /\ line[attempt] = "blank"
    /\ \/ /\ pending # "bad"
          /\ pc' = "launch" /\ tr' = FlushState /\ Write(FlushWrites) /\ pending' = "none"
          /\ UNCHANGED result
       \/ pending = "bad" /\ Returns(tr, <<>>, TRUE)
       \/ gone /\ FlushWrites # <<>> /\ Returns(tr, <<>>, TRUE)
    /\ TakeLine /\ Relaying

(* At the end of the body a bad chunk ends the relay without Finish.       *)
HandleEnd ==
    /\ pc = "handle" /\ line[attempt] \in {"eof", "error"}
    /\ IF line[attempt] = "eof" /\ pending = "bad" THEN Returns(tr, <<>>, TRUE) ELSE EndStream
    /\ TakeLine /\ Relaying

\* Mutant: a stream that ended with an error is charged like one that was delivered.
SettleCharging ==
    /\ pc = "close" /\ leased' = FALSE
    /\ IF result = "empty" /\ ~tr.started
       THEN pc' = "loop" /\ result' = "none" /\ UNCHANGED charged
       ELSE pc' = "end" /\ charged' = TRUE /\ UNCHANGED result
    /\ UNCHANGED <<protocol, attempt, gone, tr, out, head, pending, readVars>>

(* The body is closed and the key released; usage is charged on success.   *)
Settle ==
    /\ pc = "close" /\ leased' = FALSE
    /\ IF result = "empty" /\ ~tr.started
       THEN pc' = "loop" /\ result' = "none" /\ UNCHANGED charged
       ELSE pc' = "end" /\ charged' = (result = "ok") /\ UNCHANGED result
    /\ UNCHANGED <<protocol, attempt, gone, tr, out, head, pending, readVars>>

---------------------------------------------------------------------------
Handler == \/ AnswerCancelled \/ Acquire \/ OpenUpstream \/ Exhausted
           \/ Launch \/ Receive \/ GiveUpWaiting
           \/ HandleData \/ HandleBlank \/ HandleEnd \/ Settle
Read(a) == ReadChunk(a) \/ ReadBlank(a) \/ ReadDone(a) \/ ReadEnd(a) \/ ReadError(a)
Stale(a) == ReadError(a) /\ (a # attempt \/ ~leased)

RelayNext == Handler \/ KeepAlive \/ Leave \/ \E a \in Attempts : Read(a)

(* The handler goes on, its idle timer fires; a read of a closed body      *)
(* returns.  Nothing is assumed of the upstream.                           *)
RelayFairness == WF_relayVars(Handler) /\ \A a \in Attempts : WF_relayVars(Stale(a))

RelaySpec == RelayInit /\ [][RelayNext]_relayVars /\ RelayFairness

---------------------------------------------------------------------------
At(e) == {k \in 1 .. Len(out) : out[k] = e}
Once(e) == Cardinality(At(e)) <= 1
Before(e, f) == \A j \in At(e), k \in At(f) : j < k
Indexes == 1 .. 2 * MaxChunks

\* Over all attempts together the client's stream is one message: it starts once and first,
\* ends once and last, and each of its blocks opens once, before what belongs to it, and is
\* closed once, after that and before the end; it is never part of an error's answer.
WellFormed ==
    /\ RelayTypeOK
    /\ out # <<>> => head \in {"stream", "plain"}
    /\ \A k \in 1 .. Len(out) : out[k].kind = "end" => k = Len(out)
    /\ protocol = "claude" =>
         /\ out # <<>> => At(Ev("start", 0)) = {1}
         /\ \A i \in Indexes :
              /\ Once(Ev("block", i)) /\ Once(Ev("stop", i))
              /\ Before(Ev("block", i), Ev("delta", i)) /\ Before(Ev("delta", i), Ev("stop", i))
              /\ At(Ev("block", i)) = {} => At(Ev("delta", i)) \cup At(Ev("stop", i)) = {}
              /\ At(Ev("end", 0)) # {} /\ At(Ev("block", i)) # {} => At(Ev("stop", i)) # {}

\* Usage is charged only for a stream whose client got content and its end, whatever ended
\* the upstream's.
ChargedForWhole == charged => Len(out) > 1 /\ out[Len(out)].kind = "end"

\* The handler ends whatever the upstream and the client do, its key is released and no
\* goroutine is left reading, of this attempt or of one before it.
RelayEnds ==
    <>[](pc = "end" /\ ~leased /\ \A a \in Attempts : reader[a] # "reading")
=============================================================================
