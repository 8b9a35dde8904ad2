--------------------------- MODULE CrashRegister ---------------------------
(***************************************************************************)
(* What the store promises its readers: a register of one value made of    *)
(* Parts.  While the process serves, readers see the last value that was   *)
(* stored whole.  An update that is attempted may fail; it then leaves no  *)
(* trace until the process ends.  A restart brings every part back as it   *)
(* was last stored or as an attempt since then would have made it; only a  *)
(* part that was taken away to be replaced may be back as it was before    *)
(* the register's time: at its default, or as an older release left it.    *)
(***************************************************************************)
CONSTANTS Parts,
          Fallbacks     \* what a part that was taken away may come back as

VARIABLES value, tried, lost, serving

vars == <<value, tried, lost, serving>>

Init ==
    /\ DOMAIN value = Parts
    /\ tried = {}
    /\ lost \in {{}, Parts}      \* Parts: they are still to be taken over from elsewhere
    /\ serving = FALSE

Try ==
    /\ serving
    /\ \E v \in tried' : tried' = tried \cup {v}
    /\ UNCHANGED <<value, lost, serving>>

Commit ==
    /\ serving
    /\ value' \in tried
    /\ tried' = {}
    /\ lost' = {}
    /\ UNCHANGED serving

TakeAway(p) ==
    /\ tried # {} \/ ~serving
    /\ lost' = lost \cup {p}
    /\ UNCHANGED <<value, tried, serving>>

PutBack(p) ==
    /\ lost' = lost \ {p}
    /\ UNCHANGED <<value, tried, serving>>

Crash ==
    /\ serving' = FALSE
    /\ UNCHANGED <<value, tried, lost>>

Recovered(v) ==
    \A p \in Parts :
        v[p] \in {value[p]} \cup {t[p] : t \in tried} \cup (IF p \in lost THEN Fallbacks[p] ELSE {})

Restart ==
    /\ ~serving
    /\ serving' = TRUE
    /\ Recovered(value')
    /\ tried' = {}
    /\ lost' = {}

Next ==
    \/ Try
    \/ Commit
    \/ \E p \in Parts : TakeAway(p) \/ PutBack(p)
    \/ Crash
    \/ Restart

Spec == Init /\ [][Next]_vars
=============================================================================
