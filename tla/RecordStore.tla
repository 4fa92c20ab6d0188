---------------------------- MODULE RecordStore ----------------------------
(***************************************************************************)
(* What STORE_OPEN, STORE_PUT, STORE_DELETE, STORE_GET and STORE_KEYS      *)
(* promise a HowlFrame program: every store is one map from keys to        *)
(* records, every operation takes effect at one instant between its call   *)
(* and its return or has no effect at all, and a crash of the process      *)
(* loses the memory:// stores and nothing that a file:// store held.       *)
(*                                                                         *)
(* NativeStore, the model of internal/vm/vm.go, implements this module.    *)
(***************************************************************************)
EXTENDS RecordData

VARIABLES
  db,     \* the records of every store, as a program sees them
  call,   \* the operation each goroutine is executing
  reply   \* its answer, once it has taken effect

vars == <<db, call, reply>>

TypeOK ==
  /\ db \in [Stores -> Records \cup {Corrupt}]
  /\ call \in [Procs -> Requests \cup {NoCall}]
  /\ reply \in [Procs -> Replies]

Init ==
  /\ db \in [Stores -> Records \cup {Corrupt}]
  /\ \A u \in Stores \ Persisted : db[u] = Empty
  /\ call = [p \in Procs |-> NoCall]
  /\ reply = [p \in Procs |-> NoReply]

Call(p) ==
  /\ call[p] = NoCall
  /\ \E r \in Requests : call' = [call EXCEPT ![p] = r]
  /\ UNCHANGED <<db, reply>>

\* The instant an operation takes effect.
Apply(p) ==
  LET r == call[p] IN
    /\ r # NoCall
    /\ reply[p] = NoReply
    /\ Granted(p, r)
    /\ db[r.store] # Corrupt
    /\ db' = [db EXCEPT ![r.store] = After(r, @)]
    /\ reply' = [reply EXCEPT ![p] = Done(Found(r, db[r.store]))]
    /\ UNCHANGED call

\* An operation may fail, and then it has done nothing.
Refuse(p) ==
  /\ call[p] # NoCall
  /\ reply[p] = NoReply
  /\ reply' = [reply EXCEPT ![p] = Failed]
  /\ UNCHANGED <<db, call>>

Return(p) ==
  /\ reply[p] # NoReply
  /\ call' = [call EXCEPT ![p] = NoCall]
  /\ reply' = [reply EXCEPT ![p] = NoReply]
  /\ UNCHANGED db

\* What a file may hold once the machine is back: what it held, or that with
\* one of the operations in flight applied.
CrashOutcomes(u) ==
  {db[u]} \cup {After(call[p], db[u]) : p \in
    {q \in Procs : /\ call[q] # NoCall
                   /\ call[q].store = u
                   /\ reply[q] = NoReply
                   /\ Granted(q, call[q])
                   /\ db[u] # Corrupt}}

\* The process dies and starts again: unanswered operations are lost with
\* their callers, and each of them either happened or did not.
Crash ==
  /\ db' \in [Stores -> Records \cup {Corrupt}]
  /\ \A u \in Stores : IF u \in Persisted THEN db'[u] \in CrashOutcomes(u)
                                          ELSE db'[u] = Empty
  /\ call' = [p \in Procs |-> NoCall]
  /\ reply' = [p \in Procs |-> NoReply]

Next == Crash \/ \E p \in Procs : Call(p) \/ Apply(p) \/ Refuse(p) \/ Return(p)

Spec == Init /\ [][Next]_vars
=============================================================================
