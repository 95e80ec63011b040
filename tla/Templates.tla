------------------------------ MODULE Templates ------------------------------
(***************************************************************************)
(* The vocabulary that the admin API and the loader share: mocks live in   *)
(* the templates directory and in Redis hashes ("template sets"), each     *)
(* keyed by the mock's key.  A mock's text is a model value, and the only  *)
(* thing that matters about it is whether OpenMock.Load accepts it.        *)
(***************************************************************************)

CONSTANTS
    Sets,    \* the Redis hashes: the base hash and the named template sets
    Base,    \* the hash redisTemplatesStore itself, without a set key
    Keys,    \* mock keys
    Bodies,  \* mock texts that pass the swagger layer of the admin API
    Valid,   \* those that UnmarshalStrict, Validate and Render accept too
    None     \* no mock under this key

ASSUME TemplatesAssumption ==
    /\ Base \in Sets
    /\ Valid \subseteq Bodies
    /\ None \notin Bodies

\* The mocks found in one place: a directory, a hash, or a loaded repository.
Snapshot == [Keys -> Bodies \cup {None}]

Nothing == [k \in Keys |-> None]

\* Redis drops a hash with its last field, so an absent hash is an empty one.
NoSets == [s \in Sets |-> Nothing]

\* What the sets say about key k.
Posted(store, k) == {store[s][k] : s \in Sets} \ {None}

(***************************************************************************)
(* The mocks that may win key k in a load of this directory and these      *)
(* sets.  Redis text is appended to the directory's, and a later mock      *)
(* overrides an earlier one; KEYS lists the sets in no particular order,   *)
(* so any of the sets that hold k may come last.                           *)
(***************************************************************************)
Winners(store, disk, k) ==
    IF Posted(store, k) = {} THEN {disk[k]} ELSE Posted(store, k)

\* A mock that Load rejects, anywhere: Load validates overridden mocks too.
Poisoned(store, disk) ==
    \/ \E k \in Keys : disk[k] \notin Valid \cup {None}
    \/ \E s \in Sets, k \in Keys : store[s][k] \notin Valid \cup {None}
=============================================================================
