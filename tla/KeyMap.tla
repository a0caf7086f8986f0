--------------------------------- MODULE KeyMap ---------------------------------
(***************************************************************************)
(* What dictionary.h promises: a map from keys to values in which the value  *)
(* may be NULL.  Storing replaces or adds and answers "ok", or it changes     *)
(* nothing and answers "failed".                                            *)
(***************************************************************************)
CONSTANTS Keys, Vals, NULL

VARIABLES
    map,
    call,    \* the last call: operation, key, value
    answer   \* and what it returned

Init == map = [k \in {} |-> NULL] /\ call = <<"new", NULL, NULL>> /\ answer = "ok"

\* The value is replaced, or the key is added.
Set(k, v) ==
    /\ map' = [x \in DOMAIN map \cup {k} |-> IF x = k THEN v ELSE map[x]]
    /\ call' = <<"set", k, v>> /\ answer' = "ok"

\* There is no memory for what is to be stored.
SetFails(k, v) ==
    /\ call' = <<"set", k, v>> /\ answer' = "failed"
    /\ UNCHANGED map

Unset(k) ==
    /\ map' = [x \in DOMAIN map \ {k} |-> map[x]]
    /\ call' = <<"unset", k, NULL>> /\ answer' = "ok"

Get(k) ==
    /\ call' = <<"get", k, NULL>>
    /\ answer' = IF k \in DOMAIN map THEN map[k] ELSE "absent"
    /\ UNCHANGED map

Next == \E k \in Keys :
    \/ \E v \in Vals \cup {NULL} : Set(k, v) \/ SetFails(k, v)
    \/ Unset(k) \/ Get(k)

Spec == Init /\ [][Next]_<<map, call, answer>>
=============================================================================
