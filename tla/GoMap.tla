------------------------------- MODULE GoMap -------------------------------
(***************************************************************************)
(* Go's built-in map as a function whose domain is the set of present      *)
(* keys.  A lookup that misses is a test of DOMAIN, as in `v, ok := m[k]`. *)
(***************************************************************************)

\* make(map[K]V)
EmptyMap == [k \in {} |-> k]

\* m[k] = v
Put(m, k, v) == [x \in DOMAIN m \cup {k} |-> IF x = k THEN v ELSE m[x]]

\* delete(m, k), a no-op when k is absent
Del(m, k) == [x \in DOMAIN m \ {k} |-> m[x]]
=============================================================================
