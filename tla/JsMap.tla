------------------------------- MODULE JsMap --------------------------------
(***************************************************************************)
(* The few operations on a JavaScript Map that the TypeScript code of this *)
(* repository uses.  A Map is a function whose DOMAIN is its set of keys:  *)
(* m.has(k) is k \in DOMAIN m, m.get(k) is m[k] and m.size is the          *)
(* cardinality of DOMAIN m.  Iteration order is not part of the value; a   *)
(* module that depends on it keeps the order in a sequence of its own.     *)
(***************************************************************************)

\* new Map()
NoKeys == [k \in {} |-> k]

\* m.set(k, v)
Put(m, k, v) == [x \in DOMAIN m \cup {k} |-> IF x = k THEN v ELSE m[x]]

\* m.delete(k) for every k of K; keys that are absent are ignored.
Without(m, K) == [x \in DOMAIN m \ K |-> m[x]]

=============================================================================
