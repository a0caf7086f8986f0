------------------------------- MODULE Dictionary -------------------------------
(***************************************************************************)
(* common/param/dictionary.c: the growing table of keys, values and hashes   *)
(* behind every parameter. A slot is free when its key is NULL.              *)
(***************************************************************************)
EXTENDS Naturals, FiniteSets

CONSTANTS
    Keys, Vals,  \* the strings, values include no NULL
    NULL,
    Hash,        \* dictionary_hash(), which may collide
    MinSize,     \* DICTMINSZ
    MaxSize,     \* bound on the size in a behaviour
    Failures     \* allocations that may fail: "grow", "key", "val"

ASSUME DictionaryAssumption ==
    /\ NULL \notin Keys
    /\ DOMAIN Hash = Keys
    /\ \A k \in Keys : Hash[k] \in Nat
    /\ MinSize \in Nat \ {0}
    /\ MaxSize \in Nat
    /\ Failures \subseteq {"grow", "key", "val"}

VARIABLES
    size, n,         \* storage, number of entries
    key, val, hash,  \* the three arrays
    call, answer     \* the last call, and what it returned

dictionaryVars == <<size, n, key, val, hash, call, answer>>

Slots == 0..size - 1
Used == {i \in Slots : key[i] # NULL}

DictionaryTypeOK ==
    /\ size \in Nat \ {0}
    /\ n \in 0..size
    /\ key \in [Slots -> Keys \cup {NULL}]
    /\ val \in [Slots -> Vals \cup {NULL}]
    /\ hash \in [Slots -> Nat]
    /\ call \in {"new", "set", "unset", "get"} \X (Keys \cup {NULL}) \X (Vals \cup {NULL})
    /\ answer \in {"ok", "failed", "absent", NULL} \cup Vals

DictionaryInit ==
    /\ size = MinSize /\ n = 0
    /\ key = [i \in Slots |-> NULL]
    /\ val = [i \in Slots |-> NULL]
    /\ hash = [i \in Slots |-> 0]
    /\ call = <<"new", NULL, NULL>> /\ answer = "ok"

\* The slots a scan for k stops at: same hash and same string.
Match(k) == {i \in Used : hash[i] = Hash[k] /\ key[i] = k}
First(S) == CHOOSE i \in S : \A j \in S : i <= j

\* xstrdup(): a copy, or NULL when there is no memory for it.
Copies(s, what) == {s} \cup (IF what \in Failures THEN {NULL} ELSE {})

\* A call that changes nothing.
Answer(op, k, v, a) ==
    /\ call' = <<op, k, v>> /\ answer' = a
    /\ UNCHANGED <<size, n, key, val, hash>>

Get(k) == Answer("get", k, NULL, IF Match(k) = {} THEN "absent" ELSE val[First(Match(k))])

Replace(k, v) ==
    /\ Match(k) # {}
    /\ \E c \in Copies(v, "val") : val' = [val EXCEPT ![First(Match(k))] = c]
    /\ answer' = "ok"
    /\ UNCHANGED <<size, n, key, hash>>

\* The first free slot of table K, from n on and around its end.
StepsTo(i, room) == IF i >= n THEN i - n ELSE i + room - n
NextFree(i, K, room) ==
    /\ K[i] = NULL
    /\ \A j \in 0..room - 1 : K[j] = NULL => StepsTo(i, room) <= StepsTo(j, room)

Insert(k, v, room, K, V, H) ==
    /\ size' = room /\ n' = n + 1
    /\ \E i \in 0..room - 1 :
        /\ NextFree(i, K, room)
        /\ \E c \in Copies(k, "key") : key' = [K EXCEPT ![i] = c]
        /\ \E c \in Copies(v, "val") : val' = [V EXCEPT ![i] = c]
        /\ hash' = [H EXCEPT ![i] = Hash[k]]
    /\ answer' = "ok"

Add(k, v) ==
    /\ Match(k) = {} /\ n < size
    /\ Insert(k, v, size, key, val, hash)

\* dictionary_grow() first, which doubles the three arrays.
Extend(f, zero) == [i \in 0..2 * size - 1 |-> IF i < size THEN f[i] ELSE zero]
AddGrown(k, v) ==
    /\ Match(k) = {} /\ n = size
    /\ 2 * size <= MaxSize
    /\ Insert(k, v, 2 * size, Extend(key, NULL), Extend(val, NULL), Extend(hash, 0))

GrowFails(k) ==
    /\ Match(k) = {} /\ n = size
    /\ "grow" \in Failures
    /\ answer' = "failed"
    /\ UNCHANGED <<size, n, key, val, hash>>

\* The whole of dictionary_set().
Set(k, v) ==
    /\ call' = <<"set", k, v>>
    /\ Replace(k, v) \/ Add(k, v) \/ AddGrown(k, v) \/ GrowFails(k)

\* Mutant: n is counted down before the key is looked for.
UnsetCountsFirst(k) ==
    /\ call' = <<"unset", k, NULL>> /\ answer' = "ok"
    /\ n' = IF n > 0 THEN n - 1 ELSE 0
    /\ UNCHANGED <<size, key, val, hash>>

Unset(k) ==
    IF Match(k) = {} THEN Answer("unset", k, NULL, "ok")
    ELSE LET i == First(Match(k)) IN
         /\ key' = [key EXCEPT ![i] = NULL]
         /\ val' = [val EXCEPT ![i] = NULL]
         /\ hash' = [hash EXCEPT ![i] = 0]
         /\ n' = n - 1
         /\ call' = <<"unset", k, NULL>> /\ answer' = "ok"
         /\ UNCHANGED size

DictionaryNext == \E k \in Keys : (\E v \in Vals \cup {NULL} : Set(k, v)) \/ Unset(k) \/ Get(k)

DictionarySpec == DictionaryInit /\ [][DictionaryNext]_dictionaryVars

-----------------------------------------------------------------------------
(* Properties *)

\* No key stands in two slots, whatever was set, removed and moved by a
\* growth, and every slot carries the hash of its key: a lookup that compares
\* hashes first (dictionary_get, dictionary_set) cannot miss one.
KeysUnique ==
    /\ \A i, j \in Used : key[i] = key[j] => i = j
    /\ \A i \in Used : hash[i] = Hash[key[i]]

\* The loop of dictionary_set that looks for a free slot ends: n never
\* undercounts the used slots, so n < size leaves a free one.
SearchEnds == Cardinality(Used) <= n

KeyAt(k) == CHOOSE i \in Used : key[i] = k
Contents == {key[i] : i \in Used}

\* What dictionary.h:116-133 promises: every set, unset and get behaves as on a map,
\* a set that could not store everything answers "failed" and has changed nothing.
\* The code keeps this only while xstrdup() finds memory.
entries == [k \in Contents |-> val[KeyAt(k)]]
Map == INSTANCE KeyMap WITH map <- entries
IsKeyMap == Map!Spec

\* A set answered "ok" for which a copy found no memory: of the value, which is then
\* NULL, or of a new key, which then is not in the table.
CopyLost(k, v) ==
    /\ Failures \cap {"key", "val"} # {}
    /\ call' = <<"set", k, v>> /\ answer' = "ok"
    /\ \/ entries' = [x \in Contents \cup {k} |-> IF x = k THEN NULL ELSE entries[x]]
       \/ k \notin Contents /\ UNCHANGED entries

\* Whatever was set, removed and moved by a growth, and whichever allocation failed,
\* a call changes no key but its own, and a set loses no more than the copy there
\* was no memory for.  Beneath it the table stays in order: no later lookup misses a
\* key, no search goes on for ever.
LosesOnlyCopies ==
    /\ Map!Init
    /\ [][Map!Next \/ \E k \in Keys, v \in Vals \cup {NULL} : CopyLost(k, v)]_<<entries, call, answer>>
    /\ [](DictionaryTypeOK /\ KeysUnique /\ SearchEnds)
=============================================================================
