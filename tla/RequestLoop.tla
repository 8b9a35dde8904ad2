---------------------------- MODULE RequestLoop ----------------------------
(***************************************************************************)
(* One proxied request, from admission to answer: the loop over keys       *)
(* (executeOpenAINonStream, executeOpenAIStream, executeTranslatedCompat-  *)
(* Stream, executeResponsesStream, executeOpenAIJSONPath and               *)
(* fetchUpstreamModels), the loop over attempts with one key inside it     *)
(* (executeUpstreamJSONRequest, openUpstreamStream), the conversation's    *)
(* preferred key, and the usage charged.  Any key may be available at any  *)
(* time: KeyPool says when.                                                *)
(***************************************************************************)
EXTENDS Integers, FiniteSets

CONSTANTS
    Requests, Keys, NoKey,
    Conversations,     \* affinity IDs
    FlowsOf,           \* the kinds of request each of them may be
    MaxRetries,        \* SystemConfig.MaxRetries
    ExtraAttempts,     \* the 5 more attempts of the chat loops
    TransportRetries,  \* SystemConfig.TransportRetryCount
    SilentFallback     \* SystemConfig.SilentFallbackOnExhaustion

AllFlows == {"chat", "chatStream", "compat", "responses", "embeddings", "models"}

ASSUME RequestLoopAssumption ==
    /\ NoKey \notin Keys
    /\ FlowsOf \in [Requests -> SUBSET AllFlows]
    /\ MaxRetries \in Nat /\ ExtraAttempts \in Nat /\ TransportRetries \in Nat
    /\ SilentFallback \in BOOLEAN

\* The chat loops look at the context at their head, and may fake an empty answer.
ChatLoops == {"chat", "chatStream", "compat"}
Streams == {"chatStream", "compat", "responses"}
Cancellable == {"chat", "chatStream", "compat", "responses"}   \* the others run on Background

AttemptBudget(f) == MaxRetries + 1 + (IF f \in ChatLoops THEN ExtraAttempts ELSE 0)

VARIABLES
    pc, flow, conversation,
    attempt,      \* the loop variable over keys
    tries,        \* the loop variable over attempts with one key
    key,          \* the key in hand, or the preferred key about to be tried
    reused,       \* reusedPreferredKey
    outcome,      \* how the call with the key ended
    lastErr,      \* what the latest failure was
    gone,         \* the request's context is cancelled
    leases,       \* keys acquired and not released
    lateCalls,    \* upstream calls started after the cancellation
    charged,      \* calls of UsageTracker.Record for the request
    response,     \* the answer
    binding       \* the conversation affinity store

loopVars == <<flow, conversation, attempt, tries, key, reused, outcome, lastErr>>
vars == <<pc, loopVars, gone, leases, lateCalls, charged, response, binding>>

Answers == {"success", "interrupted", "upstreamError", "queueTimeout", "closed",
            "exhausted", "fallback"}
Leased == {"bind", "bindSet", "open", "calling", "backoff", "clear", "relay", "release"}
Places == Leased \cup {"start", "top", "prefer", "try", "queue", "force", "forceSet",
                       "settle", "unbind", "charge", "done"}

TypeOK ==
    /\ pc \in [Requests -> Places]
    /\ flow \in [Requests -> AllFlows]
    /\ conversation \in [Requests -> Conversations]
    /\ attempt \in [Requests -> 0 .. MaxRetries + 1 + ExtraAttempts]
    /\ tries \in [Requests -> 0 .. TransportRetries]
    /\ key \in [Requests -> Keys \cup {NoKey}]
    /\ reused \in [Requests -> BOOLEAN]
    /\ outcome \in [Requests -> {"none", "ok", "interrupted", "retry", "empty",
                              "error", "cancelled", "bare", "body"}]
    /\ lastErr \in [Requests -> {"none", "upstream", "cancelled"}]
    /\ gone \in [Requests -> BOOLEAN]
    /\ leases \in [Requests -> Int]
    /\ lateCalls \in [Requests -> Nat]
    /\ charged \in [Requests -> Nat]
    /\ response \in [Requests -> Answers \cup {"none"}]
    /\ binding \in [Conversations -> Keys \cup {NoKey}]

Init ==
    /\ pc = [r \in Requests |-> "start"]
    /\ flow \in [Requests -> AllFlows] /\ \A r \in Requests : flow[r] \in FlowsOf[r]
    /\ conversation \in [Requests -> Conversations]
    /\ attempt = [r \in Requests |-> 0]
    /\ tries = [r \in Requests |-> 0]
    /\ key = [r \in Requests |-> NoKey]
    /\ reused = [r \in Requests |-> FALSE]
    /\ outcome = [r \in Requests |-> "none"]
    /\ lastErr = [r \in Requests |-> "none"]
    /\ gone = [r \in Requests |-> FALSE]
    /\ leases = [r \in Requests |-> 0]
    /\ lateCalls = [r \in Requests |-> 0]
    /\ charged = [r \in Requests |-> 0]
    /\ response = [r \in Requests |-> "none"]
    /\ binding = [c \in Conversations |-> NoKey]

Goto(r, where) == pc' = [pc EXCEPT ![r] = where]
Answer(r, a) == Goto(r, "done") /\ response' = [response EXCEPT ![r] = a]
Bound(r) == binding[conversation[r]]
HasLease(r) == pc[r] \in Leased \/ (pc[r] \in {"force", "forceSet"} /\ flow[r] \in Streams)
Bind(r) == binding' = [binding EXCEPT ![conversation[r]] = key[r]]

-----------------------------------------------------------------------------
(* The head of the loop, and the end of it. *)

\* A chat request may be answered from the semantic cache, and is charged for it.
CacheHit(r) ==
    /\ pc[r] = "start" /\ flow[r] \in {"chat", "chatStream"}
    /\ outcome' = [outcome EXCEPT ![r] = "ok"]
    /\ Goto(r, "charge")
    /\ UNCHANGED <<flow, conversation, attempt, tries, key, reused, lastErr, gone, leases,
                   lateCalls, charged, response, binding>>

CacheMiss(r) ==
    /\ pc[r] = "start"
    /\ Goto(r, "top")
    /\ UNCHANGED <<loopVars, gone, leases, lateCalls, charged, response, binding>>

\* Mutant: no loop looks at the context at its head.
NextAttemptDeaf(r) ==
    /\ pc[r] = "top" /\ attempt[r] < AttemptBudget(flow[r])
    /\ Goto(r, "prefer") /\ UNCHANGED response
    /\ UNCHANGED <<loopVars, gone, leases, lateCalls, charged, binding>>

\* An iteration, which chat loops leave at once when the client is gone.
NextAttempt(r) ==
    /\ pc[r] = "top" /\ attempt[r] < AttemptBudget(flow[r])
    /\ IF gone[r] /\ flow[r] \in ChatLoops
         THEN Answer(r, "closed")
         ELSE Goto(r, "prefer") /\ UNCHANGED response
    /\ UNCHANGED <<loopVars, gone, leases, lateCalls, charged, binding>>

Exhausted(r) ==
    /\ pc[r] = "top" /\ attempt[r] = AttemptBudget(flow[r])
    /\ Answer(r, IF flow[r] \in ChatLoops /\ SilentFallback THEN "fallback" ELSE "exhausted")
    /\ UNCHANGED <<loopVars, gone, leases, lateCalls, charged, binding>>

\* Mutant: an attempt that failed is not counted.
RetryUncounted(r, err) ==
    /\ UNCHANGED attempt
    /\ lastErr' = [lastErr EXCEPT ![r] = err]
    /\ tries' = [tries EXCEPT ![r] = 0]
    /\ key' = [key EXCEPT ![r] = NoKey]
    /\ reused' = [reused EXCEPT ![r] = FALSE]
    /\ outcome' = [outcome EXCEPT ![r] = "none"]
    /\ Goto(r, "top")

\* "continue", with the iteration's variables out of scope.
Retry(r, err) ==
    /\ attempt' = [attempt EXCEPT ![r] = @ + 1]
    /\ lastErr' = [lastErr EXCEPT ![r] = err]
    /\ tries' = [tries EXCEPT ![r] = 0]
    /\ key' = [key EXCEPT ![r] = NoKey]
    /\ reused' = [reused EXCEPT ![r] = FALSE]
    /\ outcome' = [outcome EXCEPT ![r] = "none"]
    /\ Goto(r, "top")

-----------------------------------------------------------------------------
(* A key: acquirePreferredKeyWithQueue and refreshConversationKeyBinding. *)

\* The preferred key is looked up first, and tried in a second step.
Prefer(r) ==
    /\ pc[r] = "prefer"
    /\ IF flow[r] # "models" /\ Bound(r) # NoKey
         THEN key' = [key EXCEPT ![r] = Bound(r)] /\ Goto(r, "try")
         ELSE Goto(r, "queue") /\ UNCHANGED key
    /\ UNCHANGED <<flow, conversation, attempt, tries, reused, outcome, lastErr, gone, leases,
                   lateCalls, charged, response, binding>>

Lease(r) == leases' = [leases EXCEPT ![r] = @ + 1] /\ Goto(r, "bind")

TryPreferred(r) ==
    /\ pc[r] = "try"
    /\ \/ Lease(r) /\ reused' = [reused EXCEPT ![r] = TRUE] /\ UNCHANGED key
       \/ /\ Goto(r, "queue") /\ key' = [key EXCEPT ![r] = NoKey]
          /\ UNCHANGED <<reused, leases>>
    /\ UNCHANGED <<flow, conversation, attempt, tries, outcome, lastErr, gone, lateCalls,
                   charged, response, binding>>

\* The scheduler hands out a key without looking at the context.
LeaseAny(r) ==
    /\ pc[r] = "queue"
    /\ Lease(r)
    /\ \E k \in Keys : key' = [key EXCEPT ![r] = k]
    /\ UNCHANGED <<flow, conversation, attempt, tries, reused, outcome, lastErr, gone,
                   lateCalls, charged, response, binding>>

QueueTimeout(r) ==
    /\ pc[r] = "queue"
    /\ Answer(r, "queueTimeout")
    /\ UNCHANGED <<loopVars, gone, leases, lateCalls, charged, binding>>

\* The queue returns the context's error, which the loops take for a failed attempt.
LeaveQueue(r) ==
    /\ pc[r] = "queue" /\ gone[r]
    /\ Retry(r, "cancelled")
    /\ UNCHANGED <<flow, conversation, gone, leases, lateCalls, charged, response, binding>>

\* Without force a conversation that has a binding keeps it: looked up ...
KeepBinding(r) ==
    /\ pc[r] = "bind"
    /\ Goto(r, IF flow[r] = "models" \/ Bound(r) # NoKey THEN "open" ELSE "bindSet")
    /\ UNCHANGED <<loopVars, gone, leases, lateCalls, charged, response, binding>>

\* ... and set in a second step.
SetBinding(r) ==
    /\ pc[r] = "bindSet"
    /\ Bind(r)
    /\ Goto(r, "open")
    /\ UNCHANGED <<loopVars, gone, leases, lateCalls, charged, response>>

-----------------------------------------------------------------------------
(* Attempts with one key. *)

\* What a call comes to that ends for good with an error: the stream loops see the error,
\* the JSON loops an answer made of it.
Fatal(r, err) == IF flow[r] \in Streams THEN err ELSE "body"

End(r, o) == outcome' = [outcome EXCEPT ![r] = o] /\ Goto(r, "release")

\* A call on a cancelled context fails at once.
Open(r) ==
    /\ pc[r] = "open"
    /\ IF gone[r]
         THEN End(r, Fatal(r, "cancelled")) /\ lateCalls' = [lateCalls EXCEPT ![r] = @ + 1]
         ELSE Goto(r, "calling") /\ UNCHANGED <<outcome, lateCalls>>
    /\ UNCHANGED <<flow, conversation, attempt, tries, key, reused, lastErr, gone, leases,
                   charged, response, binding>>

\* The upstream accepts.
Accepted(r) ==
    /\ pc[r] = "calling"
    /\ outcome' = [outcome EXCEPT ![r] = "ok"]
    /\ Goto(r, CASE flow[r] = "chatStream" -> "relay"
                 [] flow[r] \in {"compat", "responses"} -> "force"
                 [] OTHER -> "release")
    /\ UNCHANGED <<flow, conversation, attempt, tries, key, reused, lastErr, gone, leases,
                   lateCalls, charged, response, binding>>

\* It refuses the key, which KeyPool marks: another key is tried.
Refused(r) ==
    /\ pc[r] = "calling"
    /\ outcome' = [outcome EXCEPT ![r] = "retry"]
    /\ Goto(r, "clear")
    /\ UNCHANGED <<flow, conversation, attempt, tries, key, reused, lastErr, gone, leases,
                   lateCalls, charged, response, binding>>

\* Mutant: the budget of attempts with one key is off by one.
TransientOnceMore(r) ==
    /\ pc[r] = "calling"
    /\ IF tries[r] <= TransportRetries
         THEN Goto(r, "backoff") /\ UNCHANGED outcome
         ELSE Goto(r, "clear") /\ outcome' = [outcome EXCEPT ![r] = "retry"]
    /\ UNCHANGED <<flow, conversation, attempt, tries, key, reused, lastErr, gone, leases,
                   lateCalls, charged, response, binding>>

\* A timeout, a reset, a 5xx or an empty answer: the same key once more, or another one.
Transient(r) ==
    /\ pc[r] = "calling"
    /\ IF tries[r] < TransportRetries
         THEN Goto(r, "backoff") /\ UNCHANGED outcome
         ELSE Goto(r, "clear") /\ outcome' = [outcome EXCEPT ![r] = "retry"]
    /\ UNCHANGED <<flow, conversation, attempt, tries, key, reused, lastErr, gone, leases,
                   lateCalls, charged, response, binding>>

\* Another 4xx (whose body may be empty), an unknown transport error, or the context's.
Failed(r) ==
    /\ pc[r] = "calling"
    /\ \/ End(r, Fatal(r, "error"))
       \/ flow[r] \notin Streams /\ End(r, "bare")
       \/ gone[r] /\ End(r, Fatal(r, "cancelled"))
    /\ UNCHANGED <<flow, conversation, attempt, tries, key, reused, lastErr, gone, leases,
                   lateCalls, charged, response, binding>>

\* The sleep between two attempts.  When timer and context are both ready either wins, and
\* after a 5xx the context's "break" only leaves a switch: the next attempt follows.
Backoff(r) ==
    /\ pc[r] = "backoff"
    /\ \/ /\ tries' = [tries EXCEPT ![r] = @ + 1]
          /\ Goto(r, "open")
          /\ UNCHANGED outcome
       \/ gone[r] /\ End(r, Fatal(r, "error")) /\ UNCHANGED tries
    /\ UNCHANGED <<flow, conversation, attempt, key, reused, lastErr, gone, leases, lateCalls,
                   charged, response, binding>>

\* Mutant: the binding goes, whichever key it names.
ClearAny(r, next) ==
    /\ binding' = [binding EXCEPT ![conversation[r]] = IF flow[r] # "models" THEN NoKey ELSE @]
    /\ Goto(r, next)

\* The conversation forgets the key, unless it is bound to another one by now.
Clear(r, next) ==
    /\ binding' = [binding EXCEPT ![conversation[r]] =
                     IF flow[r] # "models" /\ @ = key[r] THEN NoKey ELSE @]
    /\ Goto(r, next)

Unbind(r) ==
    /\ pc[r] = "clear"
    /\ Clear(r, "release")
    /\ UNCHANGED <<loopVars, gone, leases, lateCalls, charged, response>>

\* A translated stream that came out empty is unbound after the release.
UnbindEmpty(r) ==
    /\ pc[r] = "unbind"
    /\ Clear(r, "settle")
    /\ UNCHANGED <<loopVars, gone, leases, lateCalls, charged, response>>

-----------------------------------------------------------------------------
(* After the call. *)

\* The key that answered becomes the preferred one; a reused key only if there is none.
ForceBinding(r) ==
    /\ pc[r] = "force"
    /\ LET next == IF flow[r] \in Streams THEN "relay" ELSE "charge" IN
       \/ ~reused[r] /\ Bind(r) /\ Goto(r, next)
       \/ reused[r] /\ Bound(r) # NoKey /\ Goto(r, next) /\ UNCHANGED binding
       \/ reused[r] /\ Bound(r) = NoKey /\ Goto(r, "forceSet") /\ UNCHANGED binding
    /\ UNCHANGED <<loopVars, gone, leases, lateCalls, charged, response>>

ForceSet(r) ==
    /\ pc[r] = "forceSet"
    /\ Bind(r)
    /\ Goto(r, IF flow[r] \in Streams THEN "relay" ELSE "charge")
    /\ UNCHANGED <<loopVars, gone, leases, lateCalls, charged, response>>

\* The stream is copied to its end, breaks, or (translated) turns out to be empty.
Relay(r) ==
    /\ pc[r] = "relay"
    /\ \/ End(r, "ok")
       \/ End(r, "interrupted")
       \/ flow[r] # "chatStream" /\ End(r, "empty")
    /\ UNCHANGED <<flow, conversation, attempt, tries, key, reused, lastErr, gone, leases,
                   lateCalls, charged, response, binding>>

\* Mutant: a stream error skips the release.
ReleaseUnlessError(r) ==
    /\ pc[r] = "release"
    /\ leases' = [leases EXCEPT ![r] = IF outcome[r] = "error" THEN @ ELSE @ - 1]
    /\ Goto(r, "settle")
    /\ UNCHANGED <<loopVars, gone, lateCalls, charged, response, binding>>

Release(r) ==
    /\ pc[r] = "release"
    /\ leases' = [leases EXCEPT ![r] = @ - 1]
    /\ Goto(r, IF outcome[r] = "empty" THEN "unbind" ELSE "settle")
    /\ UNCHANGED <<loopVars, gone, lateCalls, charged, response, binding>>

\* The call failed: another attempt, or its error for an answer.
SettleFailure(r) ==
    /\ pc[r] = "settle"
    /\ \/ /\ \/ outcome[r] \in {"retry", "empty", "bare"}
             \/ outcome[r] \in {"error", "cancelled"} /\ flow[r] \in ChatLoops
          /\ Retry(r, IF outcome[r] = "cancelled" THEN "cancelled" ELSE "upstream")
          /\ UNCHANGED response
       \/ /\ \/ outcome[r] = "body"
             \/ outcome[r] \in {"error", "cancelled"} /\ flow[r] = "responses"
          /\ Answer(r, "upstreamError")
          /\ UNCHANGED <<attempt, lastErr, tries, key, reused, outcome>>
    /\ UNCHANGED <<flow, conversation, gone, leases, lateCalls, charged, binding>>

\* Mutant: an error of the upstream, passed on to the client, is charged like an answer.
SettleAnswerCharging(r) ==
    /\ pc[r] = "settle" /\ outcome[r] \in {"ok", "interrupted", "body"}
    /\ Goto(r, "charge") /\ UNCHANGED response
    /\ UNCHANGED <<loopVars, gone, leases, lateCalls, charged, binding>>

\* It succeeded, or broke off: only plain streams are charged for what broke off.
SettleAnswer(r) ==
    /\ pc[r] = "settle" /\ outcome[r] \in {"ok", "interrupted"}
    /\ CASE flow[r] = "models" -> Answer(r, "success")
         [] outcome[r] = "interrupted" /\ flow[r] # "chatStream" -> Answer(r, "interrupted")
         [] OTHER -> /\ Goto(r, IF flow[r] \in Streams THEN "charge" ELSE "force")
                     /\ UNCHANGED response
    /\ UNCHANGED <<loopVars, gone, leases, lateCalls, charged, binding>>

\* UsageTracker.Record, and incrementQuota unless it fails.
Charge(r) ==
    /\ pc[r] = "charge"
    /\ charged' = [charged EXCEPT ![r] = @ + 1]
    /\ Answer(r, IF outcome[r] = "ok" THEN "success" ELSE "interrupted")
    /\ UNCHANGED <<loopVars, gone, leases, lateCalls, binding>>

\* The client disconnects, or the server shuts down.
Leave(r) ==
    /\ flow[r] \in Cancellable /\ pc[r] # "done" /\ ~gone[r]
    /\ gone' = [gone EXCEPT ![r] = TRUE]
    /\ UNCHANGED <<pc, loopVars, leases, lateCalls, charged, response, binding>>

\* A binding is forgotten after two hours, when it is next looked up.
Expire ==
    /\ \E c \in Conversations : binding' = [binding EXCEPT ![c] = NoKey]
    /\ UNCHANGED <<pc, loopVars, gone, leases, lateCalls, charged, response>>

-----------------------------------------------------------------------------
Step(r) ==
    \/ CacheHit(r) \/ CacheMiss(r) \/ NextAttempt(r) \/ Exhausted(r)
    \/ Prefer(r) \/ TryPreferred(r) \/ LeaseAny(r) \/ QueueTimeout(r) \/ LeaveQueue(r)
    \/ KeepBinding(r) \/ SetBinding(r)
    \/ Open(r) \/ Accepted(r) \/ Refused(r) \/ Transient(r) \/ Failed(r) \/ Backoff(r)
    \/ Unbind(r) \/ UnbindEmpty(r)
    \/ ForceBinding(r) \/ ForceSet(r) \/ Relay(r) \/ Release(r)
    \/ SettleFailure(r) \/ SettleAnswer(r) \/ Charge(r)

Next ==
    \/ \E r \in Requests : Step(r) \/ Leave(r)
    \/ Expire

\* Every wait of a request is bounded by a timeout, so it keeps going; clients need not leave.
Spec == Init /\ [][Next]_vars /\ \A r \in Requests : WF_vars(Step(r))

-----------------------------------------------------------------------------
(* Properties. *)

\* On every path through the loops, cancelled or not, a request holds at most one key,
\* holds it exactly from the acquire to the release of the same iteration, and none at
\* its end.
LeaseMatchesPath == \A r \in Requests : leases[r] = IF HasLease(r) THEN 1 ELSE 0

\* However many keys it took, a request is charged at most once, never for an answer
\* that did not come from the upstream or the cache, and always for one that did.
ChargedForAnswers ==
    \A r \in Requests :
        /\ charged[r] <= 1
        /\ charged[r] = 1 => outcome[r] \in {"ok", "interrupted"}
        /\ response[r] = "success" /\ flow[r] # "models" => charged[r] = 1

\* Once its client is gone a request starts at most one more upstream call, whatever it
\* was doing (waiting for a key, sleeping, between two attempts) when the client left.
OneLateCall == \A r \in Requests : lateCalls[r] <= 1

\* A failure with one key never takes another key away from the conversation, however
\* late it comes.
UnbindsOwnKey ==
    [][\A c \in Conversations :
         binding[c] # NoKey /\ binding'[c] = NoKey =>
           \/ Expire
           \/ \E r \in Requests : /\ conversation[r] = c /\ key[r] = binding[c]
                                  /\ outcome[r] \in {"retry", "empty"}]_vars

\* Every request is answered.
Answered == \A r \in Requests : <>(pc[r] = "done" /\ response[r] # "none")

\* A request that failed because its client left is not answered with the fake success.
CancelledNotFaked ==
    \A r \in Requests : lastErr[r] = "cancelled" => response[r] # "fallback"
=============================================================================
