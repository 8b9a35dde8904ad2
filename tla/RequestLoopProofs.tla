------------------------- MODULE RequestLoopProofs -------------------------
(***************************************************************************)
(* Proofs about RequestLoop for every set of requests, keys and            *)
(* conversations, every retry budget and either fallback setting.          *)
(***************************************************************************)
EXTENDS RequestLoop, TLAPS

\* Both budgets are kept at their tests: a request in an iteration has attempts left, and
\* one that sleeps has tries left.
WithinBudgets(r) ==
    /\ attempt[r] <= AttemptBudget(flow[r])
    /\ pc[r] \notin {"top", "done"} => attempt[r] < AttemptBudget(flow[r])
    /\ pc[r] = "backoff" => tries[r] < TransportRetries

\* A request that has, tries or binds a key knows which; one that forgets a key has failed.
KnowsItsKey(r) ==
    /\ HasLease(r) \/ pc[r] \in {"try", "force", "forceSet", "settle", "unbind"}
         => key[r] # NoKey
    /\ pc[r] = "clear" => outcome[r] = "retry"
    /\ pc[r] = "unbind" => outcome[r] = "empty"

\* A request is charged in its last step, and only on the way from an answer.
ChargedLast(r) ==
    /\ pc[r] # "done" => charged[r] = 0 /\ response[r] = "none"
    /\ pc[r] \in {"force", "forceSet", "charge"} => outcome[r] \in {"ok", "interrupted"}

\* After a call on a cancelled context a request is on its way out.
LateIsLast(r) ==
    lateCalls[r] # 0 =>
        /\ gone[r]
        /\ \/ pc[r] \in {"release", "settle"} /\ outcome[r] \in {"body", "cancelled"}
           \/ pc[r] = "top" /\ flow[r] \in ChatLoops
           \/ pc[r] = "done"

LoopInv ==
    /\ TypeOK
    /\ LeaseMatchesPath /\ ChargedForAnswers /\ OneLateCall
    /\ \A r \in Requests : /\ WithinBudgets(r) /\ KnowsItsKey(r)
                           /\ ChargedLast(r) /\ LateIsLast(r)

-----------------------------------------------------------------------------
\* An attempt budget allows one attempt, and no flow has a larger one than the chat loops.
LEMMA BudgetIsPositive ==
    \A f \in AllFlows : /\ AttemptBudget(f) \in Nat \ {0}
                       /\ AttemptBudget(f) <= MaxRetries + 1 + ExtraAttempts
BY RequestLoopAssumption DEF RequestLoopAssumption, AttemptBudget

\* A request starts with nothing held, nothing charged and its first attempt left.
LEMMA LoopInit == Init => LoopInv
<1> SUFFICES ASSUME Init PROVE LoopInv
  OBVIOUS
<1> USE RequestLoopAssumption, BudgetIsPositive DEF RequestLoopAssumption, Init
<1>1. TypeOK
  BY DEF TypeOK, Places, Leased
<1>2. LeaseMatchesPath /\ ChargedForAnswers /\ OneLateCall
  BY DEF LeaseMatchesPath, HasLease, Leased, ChargedForAnswers, OneLateCall
<1>3. \A r \in Requests : WithinBudgets(r)
  BY DEF WithinBudgets
<1>4. \A r \in Requests : KnowsItsKey(r) /\ ChargedLast(r) /\ LateIsLast(r)
  BY DEF KnowsItsKey, HasLease, Leased, ChargedLast, LateIsLast
<1> QED
  BY <1>1, <1>2, <1>3, <1>4 DEF LoopInv

\* Every step of every request keeps the invariant; only the steps that go different ways
\* on the same state are split.
LEMMA LoopStep == LoopInv /\ [Next]_vars => LoopInv'
<1> SUFFICES ASSUME LoopInv, [Next]_vars PROVE LoopInv'
  OBVIOUS
<1> USE RequestLoopAssumption, BudgetIsPositive
    DEF RequestLoopAssumption, LoopInv, TypeOK, LeaseMatchesPath, ChargedForAnswers, OneLateCall,
        WithinBudgets, KnowsItsKey, ChargedLast, LateIsLast, HasLease, Leased, Places, Answers,
        ChatLoops, Streams, Cancellable, AllFlows, loopVars
<1>1. ASSUME NEW r \in Requests, CacheHit(r) PROVE LoopInv'
  BY <1>1 DEF CacheHit, Goto
<1>2. ASSUME NEW r \in Requests, CacheMiss(r) PROVE LoopInv'
  BY <1>2 DEF CacheMiss, Goto
<1>3. ASSUME NEW r \in Requests, NextAttempt(r) PROVE LoopInv'
  BY <1>3 DEF NextAttempt, Goto, Answer
<1>4. ASSUME NEW r \in Requests, Exhausted(r) PROVE LoopInv'
  BY <1>4 DEF Exhausted, Answer, Goto
<1>5. ASSUME NEW r \in Requests, Prefer(r) PROVE LoopInv'
  BY <1>5 DEF Prefer, Goto, Bound
<1>6. ASSUME NEW r \in Requests, TryPreferred(r) PROVE LoopInv'
  <2>1. CASE Lease(r) /\ reused' = [reused EXCEPT ![r] = TRUE] /\ UNCHANGED key
    BY <1>6, <2>1 DEF TryPreferred, Goto, Lease
  <2>2. CASE Goto(r, "queue") /\ UNCHANGED <<reused, leases>>
    BY <1>6, <2>2 DEF TryPreferred, Goto, Lease
  <2> QED
    BY <1>6, <2>1, <2>2 DEF TryPreferred
<1>7. ASSUME NEW r \in Requests, LeaseAny(r) PROVE LoopInv'
  BY <1>7 DEF LeaseAny, Lease, Goto
<1>8. ASSUME NEW r \in Requests, QueueTimeout(r) PROVE LoopInv'
  BY <1>8 DEF QueueTimeout, Answer, Goto
<1>9. ASSUME NEW r \in Requests, LeaveQueue(r) PROVE LoopInv'
  BY <1>9 DEF LeaveQueue, Retry, Goto
<1>10. ASSUME NEW r \in Requests, KeepBinding(r) PROVE LoopInv'
  BY <1>10 DEF KeepBinding, Goto, Bound
<1>11. ASSUME NEW r \in Requests, SetBinding(r) PROVE LoopInv'
  BY <1>11 DEF SetBinding, Goto, Bind
<1>12. ASSUME NEW r \in Requests, Open(r) PROVE LoopInv'
  BY <1>12 DEF Open, Goto, End, Fatal
<1>13. ASSUME NEW r \in Requests, Accepted(r) PROVE LoopInv'
  BY <1>13 DEF Accepted, Goto
<1>14. ASSUME NEW r \in Requests, Refused(r) PROVE LoopInv'
  BY <1>14 DEF Refused, Goto
<1>15. ASSUME NEW r \in Requests, Transient(r) PROVE LoopInv'
  BY <1>15 DEF Transient, Goto
<1>16. ASSUME NEW r \in Requests, Failed(r) PROVE LoopInv'
  <2>1. CASE End(r, Fatal(r, "error"))
    BY <1>16, <2>1 DEF Failed, End, Goto, Fatal
  <2>2. CASE flow[r] \notin Streams /\ End(r, "bare")
    BY <1>16, <2>2 DEF Failed, End, Goto
  <2>3. CASE gone[r] /\ End(r, Fatal(r, "cancelled"))
    BY <1>16, <2>3 DEF Failed, End, Goto, Fatal
  <2> QED
    BY <1>16, <2>1, <2>2, <2>3 DEF Failed
<1>17. ASSUME NEW r \in Requests, Backoff(r) PROVE LoopInv'
  BY <1>17 DEF Backoff, Goto, End, Fatal
<1>18. ASSUME NEW r \in Requests, Unbind(r) PROVE LoopInv'
  BY <1>18 DEF Unbind, Clear, Goto
<1>19. ASSUME NEW r \in Requests, UnbindEmpty(r) PROVE LoopInv'
  BY <1>19 DEF UnbindEmpty, Clear, Goto
<1>20. ASSUME NEW r \in Requests, ForceBinding(r) PROVE LoopInv'
  BY <1>20 DEF ForceBinding, Goto, Bound, Bind
<1>21. ASSUME NEW r \in Requests, ForceSet(r) PROVE LoopInv'
  BY <1>21 DEF ForceSet, Goto, Bind
<1>22. ASSUME NEW r \in Requests, Relay(r) PROVE LoopInv'
  BY <1>22 DEF Relay, End, Goto
<1>23. ASSUME NEW r \in Requests, Release(r) PROVE LoopInv'
  BY <1>23 DEF Release, Goto
<1>24. ASSUME NEW r \in Requests, SettleFailure(r) PROVE LoopInv'
  <2>1. CASE Answer(r, "upstreamError")
    BY <1>24, <2>1 DEF SettleFailure, Answer, Goto, Retry
  <2>2. CASE UNCHANGED response
    <3>1. /\ outcome[r] \in {"retry", "empty", "bare", "error", "cancelled"}
          /\ Retry(r, IF outcome[r] = "cancelled" THEN "cancelled" ELSE "upstream")
          /\ outcome[r] = "cancelled" => flow[r] \in ChatLoops
      BY <1>24, <2>2 DEF SettleFailure, Answer
    <3>2. UNCHANGED <<flow, conversation, gone, leases, lateCalls, charged, binding>>
      BY <1>24 DEF SettleFailure
    <3> QED
      BY <1>24, <2>2, <3>1, <3>2 DEF SettleFailure, Retry, Goto
  <2> QED
    BY <1>24, <2>1, <2>2 DEF SettleFailure
<1>25. ASSUME NEW r \in Requests, SettleAnswer(r) PROVE LoopInv'
  BY <1>25 DEF SettleAnswer, Goto, Answer
<1>26. ASSUME NEW r \in Requests, Charge(r) PROVE LoopInv'
  BY <1>26 DEF Charge, Answer, Goto
<1>27. ASSUME NEW r \in Requests, Leave(r) PROVE LoopInv'
  BY <1>27 DEF Leave
<1>28. CASE Expire
  BY <1>28 DEF Expire
<1>29. CASE UNCHANGED vars
  BY <1>29 DEF vars
<1> QED
  BY <1>1, <1>2, <1>3, <1>4, <1>5, <1>6, <1>7, <1>8, <1>9, <1>10, <1>11, <1>12,
     <1>13, <1>14, <1>15, <1>16, <1>17, <1>18, <1>19, <1>20, <1>21, <1>22, <1>23, <1>24, <1>25, <1>26, <1>27, <1>28, <1>29
  DEF Next, Step

-----------------------------------------------------------------------------
\* The request loop's state is always well typed: no loop runs past its budget.
THEOREM TypeCorrect == Spec => []TypeOK
<1>1. LoopInv => TypeOK
  BY DEF LoopInv
<1> QED
  BY LoopInit, LoopStep, <1>1, PTL DEF Spec

\* On no path through the loops does a request keep a key, or release one twice.
THEOREM LeasesMatchPaths == Spec => []LeaseMatchesPath
<1>1. LoopInv => LeaseMatchesPath
  BY DEF LoopInv
<1> QED
  BY LoopInit, LoopStep, <1>1, PTL DEF Spec

\* However many keys it took, a request is charged once for an answer and else not at all.
THEOREM ChargesMatchAnswers == Spec => []ChargedForAnswers
<1>1. LoopInv => ChargedForAnswers
  BY DEF LoopInv
<1> QED
  BY LoopInit, LoopStep, <1>1, PTL DEF Spec

\* Whatever the budgets, a cancelled request starts one more upstream call at most.
THEOREM AtMostOneLateCall == Spec => []OneLateCall
<1>1. LoopInv => OneLateCall
  BY DEF LoopInv
<1> QED
  BY LoopInit, LoopStep, <1>1, PTL DEF Spec

\* A conversation loses its key to a failure with that key only, however many requests
\* share the conversation.
THEOREM UnbindingsAreOwn == Spec => UnbindsOwnKey
<1> DEFINE Own ==
      \A c \in Conversations :
        binding[c] # NoKey /\ binding'[c] = NoKey =>
          \/ Expire
          \/ \E r \in Requests : /\ conversation[r] = c /\ key[r] = binding[c]
                                 /\ outcome[r] \in {"retry", "empty"}
<1>1. LoopInv /\ [Next]_vars => [Own]_vars
  <2> SUFFICES ASSUME LoopInv, [Next]_vars PROVE UNCHANGED binding \/ Own
    BY DEF vars
  <2> USE DEF LoopInv, TypeOK
  <2>1. ASSUME NEW r \in Requests, Bind(r), key[r] # NoKey PROVE Own
    BY <2>1 DEF Bind
  <2>2. ASSUME NEW r \in Requests, SetBinding(r) \/ ForceSet(r) PROVE Own
    BY <2>1, <2>2 DEF SetBinding, ForceSet, KnowsItsKey, HasLease, Leased
  <2>3. ASSUME NEW r \in Requests, ForceBinding(r) PROVE UNCHANGED binding \/ Own
    BY <2>1, <2>3 DEF ForceBinding, KnowsItsKey, HasLease
  <2>4. ASSUME NEW r \in Requests, Unbind(r) \/ UnbindEmpty(r) PROVE Own
    BY <2>4 DEF Unbind, UnbindEmpty, Clear, KnowsItsKey
  <2>5. ASSUME NEW r \in Requests, Step(r) \/ Leave(r) PROVE UNCHANGED binding \/ Own
    BY <2>2, <2>3, <2>4, <2>5
    DEF Step, CacheHit, CacheMiss, NextAttempt, Exhausted, Prefer, TryPreferred, LeaseAny,
        QueueTimeout, LeaveQueue, KeepBinding, Open, Accepted, Refused, Transient, Failed,
        Backoff, Relay, Release, SettleFailure, SettleAnswer, Charge, Leave
  <2>6. CASE Expire
    BY <2>6
  <2> QED
    BY <2>5, <2>6 DEF Next, vars
<1> QED
  BY <1>1, LoopInit, LoopStep, PTL DEF Spec, UnbindsOwnKey
=============================================================================
