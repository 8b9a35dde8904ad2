------------------------------ MODULE MCStore ------------------------------
(* Bounded instances of Store. *)
EXTENDS Store

Nothing == [f \in {} |-> << >>]
Row(by, ref) == [by |-> by, ref |-> ref, port |-> ref, on |-> TRUE, test |-> "none"]
List(next, rows) == [next |-> next, rows |-> rows]

\* A store of an older release: a key bound to the proxy that the system uses too.
Old == [Default EXCEPT
    !.api_keys = List(2, [k \in {1} |-> 1]),
    !.proxies = List(2, [p \in {1} |-> Row("manual", 0)]),
    !.system_config = 1, !.master_keys = 1]
\* Older still: its proxies' file is not moved, because there is a newer one.
Stale == [Old EXCEPT !.proxies = List(3, [p \in {2} |-> Row("auto", 0)])]
Some(s, fs) == [f \in fs |-> <<s[f]>>]
Dir(d, o, j, at) == [disk |-> d, old |-> o, json |-> j, jsonAt |-> at]

Fresh == {Dir(Nothing, Nothing, Default, "none")}
Flat == {Dir(Nothing, Some(Old, {"api_keys", "proxies", "master_keys", "system_config"}), Default, "none"),
         Dir(Some(Old, {"proxies"}), Some(Stale, {"api_keys", "proxies"}), Default, "none")}
Blanked == {Dir([Some(Old, Files) EXCEPT !.master_keys = << >>, !.api_keys = << >>], Nothing, Default, "none")}
OneFile == {Dir(Nothing, Nothing, Old, "data"), Dir(Nothing, Nothing, Old, "store")}

AnyDirectory == Fresh \cup Flat \cup Blanked \cup OneFile
=============================================================================
