----------------------------- MODULE RecordData -----------------------------
(***************************************************************************)
(* The records, requests and replies of the native store, and what one     *)
(* operation does to a map of records.                                     *)
(***************************************************************************)
CONSTANTS
  Procs,      \* goroutines that run bytecode of one process
  Stores,     \* store URIs
  Persisted,  \* the file:// ones
  Keys,       \* record keys
  Values,     \* record values
  Absent,     \* no record under a key
  Corrupt,    \* a file that does not decode
  CanRead,    \* goroutines whose grants allow reading the store files
  CanWrite    \* goroutines whose grants allow writing them

ASSUME StoreAssumption ==
  /\ Persisted \subseteq Stores
  /\ Absent \notin Values
  /\ CanRead \subseteq Procs
  /\ CanWrite \subseteq Procs

Records == [Keys -> Values \cup {Absent}]
Empty == [k \in Keys |-> Absent]

ASSUME CorruptAssumption == Corrupt \notin Records

Requests ==
  [op : {"open", "keys"}, store : Stores]
    \cup [op : {"get", "delete"}, store : Stores, key : Keys]
    \cup [op : {"put"}, store : Stores, key : Keys, val : Values]

NoCall == [op |-> "none"]

\* What an operation answers: the keys, the record found (or no record), or
\* nothing but its status.
Replies == [status : {"none", "ok", "failed"}, data : SUBSET (Keys \cup Values)]
NoReply == [status |-> "none", data |-> {}]
Done(found) == [status |-> "ok", data |-> found]
Failed == [status |-> "failed", data |-> {}]

Mutates(r) == r.op \in {"put", "delete"}

\* The records after r.
After(r, records) ==
  [k \in Keys |-> IF Mutates(r) /\ k = r.key
                    THEN IF r.op = "put" THEN r.val ELSE Absent
                    ELSE records[k]]

\* What r reads.
Found(r, records) ==
  IF r.op = "get" THEN {records[r.key]} \ {Absent}
  ELSE IF r.op = "keys" THEN {k \in Keys : records[k] # Absent}
  ELSE {}

Granted(p, r) ==
  r.store \in Persisted => p \in CanRead /\ (Mutates(r) => p \in CanWrite)
=============================================================================
