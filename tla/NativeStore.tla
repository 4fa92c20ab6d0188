---------------------------- MODULE NativeStore ----------------------------
(***************************************************************************)
(* The bytecode VM's record store: the registry of open stores, the lock   *)
(* of each store, the copy-then-persist-then-publish discipline of a write *)
(* and the atomic replacement of the store file (internal/vm/vm.go,        *)
(* bcStoreRegistry to writeAtomicScoped and the STORE_* opcodes).          *)
(*                                                                         *)
(* One process runs; its goroutines (the main program, HTTP handlers,      *)
(* spawned blocks) share the registry.  The process may be killed and the  *)
(* machine may lose power between any two steps; it then starts again with *)
(* what the disk holds.                                                    *)
(***************************************************************************)
EXTENDS RecordData

CONSTANTS
  File,       \* the file each file:// URI names
  Missing,    \* content of a file that does not exist or is blank
  NoProc,     \* nobody holds a lock
  Faults      \* what may go wrong: "io", "panic", "dirsync", "crash", "power"

Files == {File[u] : u \in Persisted}

Contents == Records \cup {Missing, Corrupt}

ASSUME NativeStoreAssumption ==
  /\ DOMAIN File = Persisted
  /\ NoProc \notin Procs
  /\ Missing \notin Records \cup {Corrupt}

\* Every file is opened under one URI.  A scoped filesystem grant normalises the
\* path so that this holds for every spelling of it; a coarse one does not.
NoAlias == \A u, v \in Persisted : File[u] = File[v] => u = v

VARIABLES
  file,       \* what each store file holds
  survives,   \* what it may hold after a power loss
  registryMu, \* holder of bcStoreRegistry.mu
  opened,     \* URIs in bcStoreRegistry.stores
  mem,        \* bcMemoryStore.records of each
  writer,     \* holder of the write side of bcMemoryStore.mu
  readers,    \* holders of its read side
  pc,         \* where each goroutine is
  req,        \* the operation it executes
  draft,      \* the copy of the records it is about to publish
  tmp,        \* its temporary sibling file
  out         \* the outcome it will push or raise

disk == <<file, survives>>
locks == <<registryMu, writer, readers>>
vars == <<file, survives, registryMu, opened, mem, writer, readers, pc, req, draft, tmp, out>>

DrainPcs == {"drain"}
PersistPcs == {"create", "write", "sync", "close", "rename"}
WritePcs == {"drain", "clone", "commit", "dirsync", "unlockWrite"} \cup PersistPcs
ReadPcs == {"read", "unlockRead"}
RegistryPcs == {"load", "unlockRegistry"}
Pcs == {"idle", "check", "wantRegistry", "wantWrite", "wantRead", "refused"}
         \cup WritePcs \cup ReadPcs \cup RegistryPcs

TypeOK ==
  /\ file \in [Files -> Contents]
  /\ survives \in [Files -> SUBSET Contents]
  /\ registryMu \in Procs \cup {NoProc}
  /\ opened \subseteq Stores
  /\ mem \in [Stores -> Records]
  /\ writer \in [Stores -> Procs \cup {NoProc}]
  /\ readers \in [Stores -> SUBSET Procs]
  /\ pc \in [Procs -> Pcs]
  /\ req \in [Procs -> Requests \cup {NoCall}]
  /\ draft \in [Procs -> Records]
  /\ tmp \in [Procs -> {"none", "created", "written", "synced"}]
  /\ out \in [Procs -> Replies]

\* No process memory: nothing open, nothing held, nothing running.
FreshProcess ==
  /\ registryMu = NoProc
  /\ opened = {}
  /\ mem = [u \in Stores |-> Empty]
  /\ writer = [u \in Stores |-> NoProc]
  /\ readers = [u \in Stores |-> {}]
  /\ pc = [p \in Procs |-> "idle"]
  /\ req = [p \in Procs |-> NoCall]
  /\ draft = [p \in Procs |-> Empty]
  /\ tmp = [p \in Procs |-> "none"]
  /\ out = [p \in Procs |-> NoReply]

Init ==
  /\ file \in [Files -> Contents]
  /\ survives = [f \in Files |-> {file[f]}]
  /\ FreshProcess

-----------------------------------------------------------------------------
(* Steps of a goroutine.                                                   *)

Goto(p, from, to) ==
  /\ pc[p] = from
  /\ pc' = [pc EXCEPT ![p] = to]

\* Where an operation that passed its capability checks waits.
Lane(r) ==
  IF r.op = "open" THEN "wantRegistry"
  ELSE IF Mutates(r) THEN "wantWrite" ELSE "wantRead"

\* A program reaches a STORE_* opcode; the handle it names has been opened.
Invoke(p, r) ==
  /\ Goto(p, "idle", "check")
  /\ r.op # "open" => r.store \in opened
  /\ req' = [req EXCEPT ![p] = r]
  /\ UNCHANGED <<disk, locks, opened, mem, draft, tmp, out>>

\* storeHandle and requireFilesystem: the path checks come before any lock.
StoreHandle(p) ==
  /\ pc[p] = "check"
  /\ IF Granted(p, req[p])
       THEN Goto(p, "check", Lane(req[p])) /\ UNCHANGED out
       ELSE Goto(p, "check", "refused") /\ out' = [out EXCEPT ![p] = Failed]
  /\ UNCHANGED <<disk, locks, opened, mem, req, draft, tmp>>

\* The opcode ends: it pushed its value or raised its error.
Finish(p) ==
  /\ pc' = [pc EXCEPT ![p] = "idle"]
  /\ req' = [req EXCEPT ![p] = NoCall]
  /\ draft' = [draft EXCEPT ![p] = Empty]
  /\ out' = [out EXCEPT ![p] = NoReply]

Refused(p) ==
  /\ pc[p] = "refused"
  /\ Finish(p)
  /\ UNCHANGED <<disk, locks, opened, mem, tmp>>

-----------------------------------------------------------------------------
(* bcStoreRegistry.open, under the registry's mutex.                       *)

LockRegistry(p) ==
  /\ Goto(p, "wantRegistry", "load")
  /\ registryMu = NoProc
  /\ registryMu' = p
  /\ UNCHANGED <<disk, writer, readers, opened, mem, req, draft, tmp, out>>

\* A missing or blank file is an empty store.
Decoded(content) == IF content = Missing THEN Empty ELSE content

OpenStore(p) ==
  LET u == req[p].store IN
    /\ Goto(p, "load", "unlockRegistry")
    /\ \/ /\ u \in opened
          /\ out' = [out EXCEPT ![p] = Done({})]
          /\ UNCHANGED <<opened, mem>>
       \/ /\ u \notin opened
          /\ u \in Persisted => file[File[u]] # Corrupt
          /\ opened' = opened \cup {u}
          /\ mem' = [mem EXCEPT ![u] =
                       IF u \in Persisted THEN Decoded(file[File[u]]) ELSE Empty]
          /\ out' = [out EXCEPT ![p] = Done({})]
       \/ /\ u \in Persisted \ opened
          /\ file[File[u]] = Corrupt \/ "io" \in Faults
          /\ out' = [out EXCEPT ![p] = Failed]
          /\ UNCHANGED <<opened, mem>>
    /\ UNCHANGED <<disk, locks, req, draft, tmp>>

UnlockRegistry(p) ==
  /\ pc[p] = "unlockRegistry"
  /\ registryMu' = NoProc
  /\ Finish(p)
  /\ UNCHANGED <<disk, writer, readers, opened, mem, tmp>>

-----------------------------------------------------------------------------
(* STORE_GET and STORE_KEYS, in withStoreRead.                             *)

RLock(p) ==
  LET u == req[p].store IN
    /\ Goto(p, "wantRead", "read")
    /\ writer[u] = NoProc
    /\ readers' = [readers EXCEPT ![u] = @ \cup {p}]
    /\ UNCHANGED <<disk, registryMu, writer, opened, mem, req, draft, tmp, out>>

ReadRecords(p) ==
  /\ Goto(p, "read", "unlockRead")
  /\ \/ out' = [out EXCEPT ![p] = Done(Found(req[p], mem[req[p].store]))]
     \/ "panic" \in Faults /\ out' = [out EXCEPT ![p] = Failed]
  /\ UNCHANGED <<disk, locks, opened, mem, req, draft, tmp>>

RUnlock(p) ==
  LET u == req[p].store IN
    /\ pc[p] = "unlockRead"
    /\ readers' = [readers EXCEPT ![u] = @ \ {p}]
    /\ Finish(p)
    /\ UNCHANGED <<disk, registryMu, writer, opened, mem, tmp>>

-----------------------------------------------------------------------------
(* STORE_PUT and STORE_DELETE, in withStoreWrite.                          *)

\* sync.RWMutex.Lock first bars other writers and new readers ...
Lock(p) ==
  LET u == req[p].store IN
    /\ Goto(p, "wantWrite", "drain")
    /\ writer[u] = NoProc
    /\ writer' = [writer EXCEPT ![u] = p]
    /\ UNCHANGED <<disk, registryMu, readers, opened, mem, req, draft, tmp, out>>

DrainReaders_NoWait(p) ==
  /\ Goto(p, "drain", "clone")
  /\ UNCHANGED <<disk, locks, opened, mem, req, draft, tmp, out>>

\* ... and then waits for the readers inside.
DrainReaders(p) ==
  /\ Goto(p, "drain", "clone")
  /\ readers[req[p].store] = {}
  /\ UNCHANGED <<disk, locks, opened, mem, req, draft, tmp, out>>

Abort_LeaksLock(p) ==
  /\ Finish(p)
  /\ tmp' = [tmp EXCEPT ![p] = "none"]
  /\ UNCHANGED <<disk, locks, opened, mem>>

Abort_KeepsDraft(p) ==
  /\ pc' = [pc EXCEPT ![p] = "unlockWrite"]
  /\ out' = [out EXCEPT ![p] = Failed]
  /\ tmp' = [tmp EXCEPT ![p] = "none"]
  /\ mem' = [mem EXCEPT ![req[p].store] = draft[p]]
  /\ UNCHANGED <<disk, locks, opened, req, draft>>

\* The critical section is left with a failure; the deferred unlock follows.
Abort(p) ==
  /\ pc' = [pc EXCEPT ![p] = "unlockWrite"]
  /\ out' = [out EXCEPT ![p] = Failed]
  /\ tmp' = [tmp EXCEPT ![p] = "none"]
  /\ UNCHANGED <<disk, locks, opened, mem, req, draft>>

\* cloneStoreRecords and the change, on the copy.
CloneRecords(p) ==
  LET u == req[p].store IN
    /\ pc[p] = "clone"
    /\ \/ /\ draft' = [draft EXCEPT ![p] = After(req[p], mem[u])]
          /\ pc' = [pc EXCEPT ![p] = IF u \in Persisted THEN "create" ELSE "commit"]
          /\ UNCHANGED <<disk, locks, opened, mem, req, tmp, out>>
       \/ "panic" \in Faults /\ Abort(p)

\* Steps of writeAtomicScoped on the temporary sibling.
StepTemp(p, from, to, state) ==
  /\ Goto(p, from, to)
  /\ tmp' = [tmp EXCEPT ![p] = state]
  /\ UNCHANGED <<disk, locks, opened, mem, req, draft, out>>

CreateTemp(p) == StepTemp(p, "create", "write", "created")
WriteTemp(p) == StepTemp(p, "write", "sync", "written")
SyncTemp_NoSync(p) == StepTemp(p, "sync", "close", tmp[p])
SyncTemp(p) == StepTemp(p, "sync", "close", "synced")
CloseTemp(p) == StepTemp(p, "close", "rename", tmp[p])

\* Every one of them and the rename may fail; the temporary file is removed.
FailPersist(p) ==
  /\ "io" \in Faults
  /\ pc[p] \in PersistPcs
  /\ Abort(p)

\* The rename makes the new content visible at once.  A power loss may still
\* undo it, and leaves garbage if the data itself was not synced before.
RenameTemp(p) ==
  LET f == File[req[p].store] IN
    /\ Goto(p, "rename", "dirsync")
    /\ file' = [file EXCEPT ![f] = draft[p]]
    /\ survives' = [survives EXCEPT ![f] =
         @ \cup {draft[p]} \cup (IF tmp[p] = "synced" THEN {} ELSE {Corrupt})]
    /\ tmp' = [tmp EXCEPT ![p] = "none"]
    /\ UNCHANGED <<locks, opened, mem, req, draft, out>>

SyncDir_Missing(p) ==
  /\ Goto(p, "dirsync", "commit")
  /\ UNCHANGED <<disk, locks, opened, mem, req, draft, tmp, out>>

\* The directory sync; its errors are ignored.
SyncDir(p) ==
  LET f == File[req[p].store] IN
    /\ Goto(p, "dirsync", "commit")
    /\ \/ survives' = [survives EXCEPT ![f] = {file[f]}]
       \/ "dirsync" \in Faults /\ UNCHANGED survives
    /\ UNCHANGED <<file, locks, opened, mem, req, draft, tmp, out>>

\* persistStore returned no error: the copy becomes the store.
CommitRecords(p) ==
  /\ Goto(p, "commit", "unlockWrite")
  /\ mem' = [mem EXCEPT ![req[p].store] = draft[p]]
  /\ out' = [out EXCEPT ![p] = Done({})]
  /\ UNCHANGED <<disk, locks, opened, req, draft, tmp>>

Unlock(p) ==
  /\ pc[p] = "unlockWrite"
  /\ writer' = [writer EXCEPT ![req[p].store] = NoProc]
  /\ Finish(p)
  /\ UNCHANGED <<disk, registryMu, readers, opened, mem, tmp>>

-----------------------------------------------------------------------------
(* The environment.                                                        *)

\* The process starts again from nothing.
StartAgain ==
  /\ registryMu' = NoProc
  /\ opened' = {}
  /\ mem' = [u \in Stores |-> Empty]
  /\ writer' = [u \in Stores |-> NoProc]
  /\ readers' = [u \in Stores |-> {}]
  /\ pc' = [p \in Procs |-> "idle"]
  /\ req' = [p \in Procs |-> NoCall]
  /\ draft' = [p \in Procs |-> Empty]
  /\ tmp' = [p \in Procs |-> "none"]
  /\ out' = [p \in Procs |-> NoReply]

\* The process is killed and started again.
CrashProcess ==
  /\ "crash" \in Faults
  /\ StartAgain
  /\ UNCHANGED disk

\* The machine loses power: each file is one of the contents it may have had.
PowerLoss ==
  /\ "power" \in Faults
  /\ file' \in [Files -> Contents]
  /\ \A f \in Files : file'[f] \in survives[f]
  /\ survives' = [f \in Files |-> {file'[f]}]
  /\ StartAgain

Acquire(p) == LockRegistry(p) \/ Lock(p) \/ RLock(p)

Work(p) ==
  \/ StoreHandle(p) \/ Refused(p)
  \/ OpenStore(p) \/ UnlockRegistry(p)
  \/ ReadRecords(p) \/ RUnlock(p)
  \/ DrainReaders(p) \/ CloneRecords(p)
  \/ CreateTemp(p) \/ WriteTemp(p) \/ SyncTemp(p) \/ CloseTemp(p)
  \/ FailPersist(p) \/ RenameTemp(p) \/ SyncDir(p)
  \/ CommitRecords(p) \/ Unlock(p)

Next ==
  \/ \E p \in Procs : (\E r \in Requests : Invoke(p, r)) \/ Acquire(p) \/ Work(p)
  \/ CrashProcess
  \/ PowerLoss

Spec == Init /\ [][Next]_vars

\* The scheduler runs every runnable goroutine, and sync.Mutex and sync.RWMutex
\* hand the lock to a waiter in the end (starvation mode, reader wake-up).
Fairness == \A p \in Procs : WF_vars(Work(p)) /\ SF_vars(Acquire(p))
FairSpec == Spec /\ Fairness

-----------------------------------------------------------------------------
(* Properties.                                                             *)

\* The goroutine that is replacing the file of u, past the rename and not yet
\* past the publication of the new records in memory.
Publishing(p, u) == pc[p] \in {"dirsync", "commit"} /\ req[p].store = u

\* While nobody is inside a write, what an open store answers is what its file
\* holds: a failed persist (STORE_PERSISTENCE_WRITE_FAILED) has changed neither,
\* a successful one has changed both, and opening read the file as it is.
MemoryMatchesFile ==
  \A u \in Persisted \cap opened :
    IF \E p \in Procs : Publishing(p, u)
      THEN \E p \in Procs : Publishing(p, u) /\ file[File[u]] = draft[p]
      ELSE Decoded(file[File[u]]) = mem[u]

\* The lock of withStoreWrite excludes everybody else from the records and the
\* file, and a goroutine that left its critical section, also by a panic, holds
\* nothing.
LocksHeldByWorkers ==
  /\ \A p \in Procs : registryMu = p <=> pc[p] \in RegistryPcs
  /\ \A u \in Stores, p \in Procs :
       /\ writer[u] = p <=> pc[p] \in WritePcs /\ req[p].store = u
       /\ p \in readers[u] <=> pc[p] \in ReadPcs /\ req[p].store = u
       /\ (pc[p] \in WritePcs \ DrainPcs /\ req[p].store = u) => readers[u] = {}

\* The comment of writeAtomicScoped: a crash, even a power loss, leaves either
\* the old or the new complete file, never a part of one.  And a file that does
\* not decode is never overwritten by a program that could not read it.
FileStaysComplete ==
  [][\A f \in Files : (file'[f] = Corrupt) = (file[f] = Corrupt)]_vars

\* Once the file is in place and its directory synced, a power loss can only
\* leave the records that the operation is about to answer for: what it answers
\* is not taken back (when no directory sync fails and no file has two URIs).
AnsweredWriteIsDurable ==
  \A p \in Procs :
    /\ pc[p] = "commit" \/ (pc[p] = "unlockWrite" /\ out[p] = Done({}))
    /\ req[p].store \in Persisted
    => survives[File[req[p].store]] = {draft[p]}

\* Every operation that was started ends, with an answer or an error, whatever
\* fails on the way (issue #190: a panic used to leak the lock and hang every
\* later request).
EveryOperationEnds ==
  \A p \in Procs : pc[p] # "idle" ~> pc[p] = "idle"

\* The abstract state: an operation has taken effect once its file is in place
\* and the directory synced, in a memory:// store once it is published.
Visible(u) ==
  IF u \notin Persisted THEN mem[u]
  ELSE IF \E p \in Procs : pc[p] = "dirsync" /\ req[p].store = u THEN mem[u]
  ELSE IF file[File[u]] = Corrupt THEN Corrupt ELSE Decoded(file[File[u]])

Answer(p) ==
  IF pc[p] = "commit" /\ req[p].store \in Persisted THEN Done({}) ELSE out[p]

Abstract == INSTANCE RecordStore
  WITH db <- [u \in Stores |-> Visible(u)],
       call <- req,
       reply <- [p \in Procs |-> Answer(p)]

\* The native store is linearizable and crash-safe: it implements RecordStore,
\* when no file has two URIs, against crashes of the process, and against power
\* losses too if no directory sync fails and no process died before one.
ImplementsRecordStore == Abstract!Spec
=============================================================================
