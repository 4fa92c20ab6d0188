------------------------- MODULE NativeStoreProofs -------------------------
(***************************************************************************)
(* Theorems about NativeStore, for every set of goroutines, stores, keys   *)
(* and values and every combination of faults: what its states keep to,    *)
(* what it has answered is durable, and that it implements RecordStore.    *)
(***************************************************************************)
EXTENDS NativeStore, TLAPS

\* The request matches the place a goroutine is at, the store it names is open,
\* and an outcome exists exactly while it is being returned.
RequestsInPlace ==
  \A p \in Procs :
    /\ pc[p] = "idle" <=> req[p] = NoCall
    /\ pc[p] \in RegistryPcs \cup {"wantRegistry"} => req[p].op = "open"
    /\ pc[p] \in WritePcs \cup {"wantWrite"} => Mutates(req[p])
    /\ pc[p] \in ReadPcs \cup {"wantRead"} => req[p].op \in {"get", "keys"}
    /\ pc[p] \in PersistPcs \cup {"dirsync"} => req[p].store \in Persisted
    /\ pc[p] # "idle" /\ req[p].op # "open" => req[p].store \in opened

\* Nothing is renamed over a store file before its data has been synced, and
\* the file of an open store decodes; then no step and no power loss makes or
\* unmakes a file that does not.
FilesDecode ==
  /\ \A p \in Procs : pc[p] \in {"close", "rename"} => tmp[p] = "synced"
  /\ \A f \in Files : \A c \in survives[f] : c = Corrupt <=> file[f] = Corrupt
  /\ \A u \in Persisted \cap opened : file[File[u]] # Corrupt

IInv ==
  /\ TypeOK
  /\ RequestsInPlace
  /\ FilesDecode
  /\ LocksHeldByWorkers

-----------------------------------------------------------------------------
(* What the data operators return.                                         *)

\* A request names a store, and a mutation names a key and a value.
LEMMA RequestFields ==
  ASSUME NEW r \in Requests
  PROVE  /\ r # NoCall
         /\ r.op \in {"open", "keys", "get", "delete", "put"}
         /\ r.store \in Stores
         /\ Mutates(r) => r.key \in Keys
         /\ r.op = "put" => r.val \in Values
         /\ r.op = "get" => r.key \in Keys
  BY DEF Requests, NoCall, Mutates

\* Applying a request to records gives records.
LEMMA AfterIsRecords ==
  ASSUME NEW r \in Requests, NEW x \in Records
  PROVE  After(r, x) \in Records
  BY RequestFields DEF After, Records, Mutates

\* What a request finds is a set of keys and values.
LEMMA FoundIsData ==
  ASSUME NEW r \in Requests, NEW x \in Records
  PROVE  Found(r, x) \in SUBSET (Keys \cup Values)
  BY RequestFields DEF Found, Records

\* A file that does not hold garbage decodes to records.
LEMMA DecodedIsRecords ==
  ASSUME NEW c \in Contents, c # Corrupt
  PROVE  Decoded(c) \in Records
  BY DEF Decoded, Contents, Records, Empty

\* The three outcomes are replies, and all differ.
LEMMA ReplyTypes ==
  /\ NoReply \in Replies
  /\ Failed \in Replies
  /\ \A d \in SUBSET (Keys \cup Values) : Done(d) \in Replies
  BY DEF NoReply, Failed, Done, Replies

-----------------------------------------------------------------------------
(* The invariant is inductive: one lemma per action.                       *)

LEMMA InitIInv == Init => IInv
  <1> SUFFICES ASSUME Init PROVE IInv
    OBVIOUS
  <1>1. TypeOK
    BY NativeStoreAssumption, StoreAssumption, ReplyTypes
    DEF Init, FreshProcess, TypeOK, Pcs, Files, Contents, Records, Empty, NoCall
  <1>2. RequestsInPlace
    BY DEF Init, FreshProcess, RequestsInPlace, NoCall, Mutates, Pcs,
           RegistryPcs, WritePcs, ReadPcs, PersistPcs
  <1>3. FilesDecode
    BY DEF Init, FreshProcess, FilesDecode, Files
  <1>4. LocksHeldByWorkers
    BY NativeStoreAssumption
    DEF Init, FreshProcess, LocksHeldByWorkers, RegistryPcs, WritePcs, ReadPcs, PersistPcs
  <1>. QED BY <1>1, <1>2, <1>3, <1>4 DEF IInv

LEMMA InvokePreserves ==
  ASSUME IInv, NEW p \in Procs, NEW r \in Requests, Invoke(p, r)
  PROVE  IInv'
  <1> USE DEF Invoke, Goto, disk, locks
  <1>1. TypeOK'
    BY RequestFields DEF IInv, TypeOK, RequestsInPlace, FilesDecode, Pcs, RegistryPcs, WritePcs, ReadPcs, PersistPcs, DrainPcs
  <1>2. RequestsInPlace'
    BY RequestFields DEF IInv, TypeOK, RequestsInPlace, Pcs, RegistryPcs, WritePcs, ReadPcs, PersistPcs, DrainPcs
  <1>3. FilesDecode'
    BY RequestFields DEF IInv, TypeOK, RequestsInPlace, FilesDecode, Pcs, RegistryPcs, WritePcs, ReadPcs, PersistPcs, DrainPcs
  <1>4. LocksHeldByWorkers'
    BY RequestFields, NativeStoreAssumption
    DEF IInv, TypeOK, RequestsInPlace, LocksHeldByWorkers, Pcs, RegistryPcs, WritePcs, ReadPcs, PersistPcs, DrainPcs
  <1>. QED BY <1>1, <1>2, <1>3, <1>4 DEF IInv

LEMMA StoreHandlePreserves ==
  ASSUME IInv, NEW p \in Procs, StoreHandle(p)
  PROVE  IInv'
  <1> USE DEF StoreHandle, Goto, disk, locks
  <1>0. Lane(req[p]) \in Pcs
    BY DEF Lane, Pcs
  <1>1. TypeOK'
    <2>1. pc' \in [Procs -> Pcs] /\ out' \in [Procs -> Replies]
      <3>1. CASE Granted(p, req[p])
        BY <1>0, <3>1 DEF IInv, TypeOK
      <3>2. CASE ~Granted(p, req[p])
        BY <3>2, ReplyTypes DEF IInv, TypeOK, Pcs
      <3>. QED BY <3>1, <3>2
    <2>. QED BY <2>1 DEF IInv, TypeOK
  <1>2. RequestsInPlace'
    <2>1. req[p] \in Requests /\ req[p].op \in {"open", "keys", "get", "delete", "put"}
      BY RequestFields DEF IInv, TypeOK, RequestsInPlace
    <2>2. \/ pc'[p] = "refused"
          \/ pc'[p] = "wantRegistry" /\ req[p].op = "open"
          \/ pc'[p] = "wantWrite" /\ Mutates(req[p])
          \/ pc'[p] = "wantRead" /\ req[p].op \in {"get", "keys"}
      BY <2>1 DEF Lane, Mutates, IInv, TypeOK
    <2>3. /\ req' = req /\ opened' = opened
          /\ \A q \in Procs : q # p => pc'[q] = pc[q]
      BY DEF IInv, TypeOK
    <2>. QED
      BY <2>1, <2>2, <2>3
      DEF IInv, TypeOK, RequestsInPlace, Mutates, RegistryPcs, WritePcs, ReadPcs, PersistPcs
  <1>3. FilesDecode'
    BY DEF Lane, IInv, TypeOK, RequestsInPlace, FilesDecode, Pcs, RegistryPcs, WritePcs, ReadPcs, PersistPcs, DrainPcs
  <1>4. LocksHeldByWorkers'
    BY RequestFields, ReplyTypes, NativeStoreAssumption
    DEF Lane, IInv, TypeOK, RequestsInPlace, LocksHeldByWorkers, Pcs, RegistryPcs, WritePcs, ReadPcs, PersistPcs, DrainPcs
  <1>. QED BY <1>1, <1>2, <1>3, <1>4 DEF IInv

LEMMA RefusedPreserves ==
  ASSUME IInv, NEW p \in Procs, Refused(p)
  PROVE  IInv'
  <1> USE DEF Refused, Finish, disk, locks
  <1>1. TypeOK'
    BY ReplyTypes DEF IInv, TypeOK, RequestsInPlace, FilesDecode, Pcs, RegistryPcs, WritePcs, ReadPcs, PersistPcs, DrainPcs, Empty, Records
  <1>2. RequestsInPlace'
    BY ReplyTypes DEF IInv, TypeOK, RequestsInPlace, Pcs, RegistryPcs, WritePcs, ReadPcs, PersistPcs, DrainPcs
  <1>3. FilesDecode'
    BY ReplyTypes DEF IInv, TypeOK, RequestsInPlace, FilesDecode, Pcs, RegistryPcs, WritePcs, ReadPcs, PersistPcs, DrainPcs
  <1>4. LocksHeldByWorkers'
    BY ReplyTypes, NativeStoreAssumption
    DEF IInv, TypeOK, RequestsInPlace, LocksHeldByWorkers, Pcs, RegistryPcs, WritePcs, ReadPcs, PersistPcs, DrainPcs
  <1>. QED BY <1>1, <1>2, <1>3, <1>4 DEF IInv

LEMMA LockRegistryPreserves ==
  ASSUME IInv, NEW p \in Procs, LockRegistry(p)
  PROVE  IInv'
  <1> USE DEF LockRegistry, Goto, disk, locks
  <1>1. TypeOK'
    BY DEF IInv, TypeOK, RequestsInPlace, FilesDecode, Pcs, RegistryPcs, WritePcs, ReadPcs, PersistPcs, DrainPcs
  <1>2. RequestsInPlace'
    BY DEF IInv, TypeOK, RequestsInPlace, Pcs, RegistryPcs, WritePcs, ReadPcs, PersistPcs, DrainPcs
  <1>3. FilesDecode'
    BY DEF IInv, TypeOK, RequestsInPlace, FilesDecode, Pcs, RegistryPcs, WritePcs, ReadPcs, PersistPcs, DrainPcs
  <1>4. LocksHeldByWorkers'
    BY NativeStoreAssumption
    DEF IInv, TypeOK, RequestsInPlace, LocksHeldByWorkers, Pcs, RegistryPcs, WritePcs, ReadPcs, PersistPcs, DrainPcs
  <1>. QED BY <1>1, <1>2, <1>3, <1>4 DEF IInv

LEMMA OpenStorePreserves ==
  ASSUME IInv, NEW p \in Procs, OpenStore(p)
  PROVE  IInv'
  <1> USE DEF OpenStore, Goto, disk, locks
  <1> DEFINE u == req[p].store
  <1>0. u \in Stores /\ (u \in Persisted => File[u] \in Files)
    BY RequestFields DEF IInv, TypeOK, RequestsInPlace, Files
  <1>1. TypeOK'
    <2>1. Empty \in Records
      BY DEF Empty, Records
    <2>2. CASE u \in Persisted /\ file[File[u]] # Corrupt
      <3>1. Decoded(file[File[u]]) \in Records
        BY <1>0, <2>2, DecodedIsRecords DEF IInv, TypeOK
      <3>. QED BY <1>0, <2>2, <3>1, ReplyTypes DEF IInv, TypeOK, Pcs, RegistryPcs
    <2>3. CASE u \notin Persisted \/ file[File[u]] = Corrupt
      BY <1>0, <2>1, <2>3, ReplyTypes DEF IInv, TypeOK, Pcs, RegistryPcs
    <2>. QED BY <2>2, <2>3
  <1>2. RequestsInPlace'
    BY RequestFields, ReplyTypes, DecodedIsRecords DEF IInv, TypeOK, RequestsInPlace, Pcs, RegistryPcs, WritePcs, ReadPcs, PersistPcs, DrainPcs
  <1>3. FilesDecode'
    BY RequestFields, ReplyTypes, DecodedIsRecords DEF IInv, TypeOK, RequestsInPlace, FilesDecode, Pcs, RegistryPcs, WritePcs, ReadPcs, PersistPcs, DrainPcs
  <1>4. LocksHeldByWorkers'
    BY RequestFields, ReplyTypes, DecodedIsRecords, NativeStoreAssumption
    DEF IInv, TypeOK, RequestsInPlace, LocksHeldByWorkers, Pcs, RegistryPcs, WritePcs, ReadPcs, PersistPcs, DrainPcs
  <1>. QED BY <1>1, <1>2, <1>3, <1>4 DEF IInv

LEMMA UnlockRegistryPreserves ==
  ASSUME IInv, NEW p \in Procs, UnlockRegistry(p)
  PROVE  IInv'
  <1> USE DEF UnlockRegistry, Finish, disk, locks
  <1>1. TypeOK'
    BY ReplyTypes DEF IInv, TypeOK, RequestsInPlace, FilesDecode, Pcs, RegistryPcs, WritePcs, ReadPcs, PersistPcs, DrainPcs, Empty, Records
  <1>2. RequestsInPlace'
    BY ReplyTypes DEF IInv, TypeOK, RequestsInPlace, Pcs, RegistryPcs, WritePcs, ReadPcs, PersistPcs, DrainPcs
  <1>3. FilesDecode'
    BY ReplyTypes DEF IInv, TypeOK, RequestsInPlace, FilesDecode, Pcs, RegistryPcs, WritePcs, ReadPcs, PersistPcs, DrainPcs
  <1>4. LocksHeldByWorkers'
    BY ReplyTypes, NativeStoreAssumption
    DEF IInv, TypeOK, RequestsInPlace, LocksHeldByWorkers, Pcs, RegistryPcs, WritePcs, ReadPcs, PersistPcs, DrainPcs
  <1>. QED BY <1>1, <1>2, <1>3, <1>4 DEF IInv

LEMMA RLockPreserves ==
  ASSUME IInv, NEW p \in Procs, RLock(p)
  PROVE  IInv'
  <1> USE DEF RLock, Goto, disk, locks
  <1>1. TypeOK'
    BY RequestFields DEF IInv, TypeOK, RequestsInPlace, FilesDecode, Pcs, RegistryPcs, WritePcs, ReadPcs, PersistPcs, DrainPcs
  <1>2. RequestsInPlace'
    BY RequestFields DEF IInv, TypeOK, RequestsInPlace, Pcs, RegistryPcs, WritePcs, ReadPcs, PersistPcs, DrainPcs
  <1>3. FilesDecode'
    BY RequestFields DEF IInv, TypeOK, RequestsInPlace, FilesDecode, Pcs, RegistryPcs, WritePcs, ReadPcs, PersistPcs, DrainPcs
  <1>4. LocksHeldByWorkers'
    BY RequestFields, NativeStoreAssumption
    DEF IInv, TypeOK, RequestsInPlace, LocksHeldByWorkers, Pcs, RegistryPcs, WritePcs, ReadPcs, PersistPcs, DrainPcs
  <1>. QED BY <1>1, <1>2, <1>3, <1>4 DEF IInv

LEMMA ReadRecordsPreserves ==
  ASSUME IInv, NEW p \in Procs, ReadRecords(p)
  PROVE  IInv'
  <1> USE DEF ReadRecords, Goto, disk, locks
  <1>1. TypeOK'
    BY RequestFields, ReplyTypes, FoundIsData DEF IInv, TypeOK, RequestsInPlace, FilesDecode, Pcs, RegistryPcs, WritePcs, ReadPcs, PersistPcs, DrainPcs
  <1>2. RequestsInPlace'
    BY RequestFields, ReplyTypes, FoundIsData DEF IInv, TypeOK, RequestsInPlace, Pcs, RegistryPcs, WritePcs, ReadPcs, PersistPcs, DrainPcs
  <1>3. FilesDecode'
    BY RequestFields, ReplyTypes, FoundIsData DEF IInv, TypeOK, RequestsInPlace, FilesDecode, Pcs, RegistryPcs, WritePcs, ReadPcs, PersistPcs, DrainPcs
  <1>4. LocksHeldByWorkers'
    BY RequestFields, ReplyTypes, FoundIsData, NativeStoreAssumption
    DEF IInv, TypeOK, RequestsInPlace, LocksHeldByWorkers, Pcs, RegistryPcs, WritePcs, ReadPcs, PersistPcs, DrainPcs
  <1>. QED BY <1>1, <1>2, <1>3, <1>4 DEF IInv

LEMMA RUnlockPreserves ==
  ASSUME IInv, NEW p \in Procs, RUnlock(p)
  PROVE  IInv'
  <1> USE DEF RUnlock, Finish, disk, locks
  <1>1. TypeOK'
    BY RequestFields, ReplyTypes DEF IInv, TypeOK, RequestsInPlace, FilesDecode, Pcs, RegistryPcs, WritePcs, ReadPcs, PersistPcs, DrainPcs, Empty, Records
  <1>2. RequestsInPlace'
    BY RequestFields, ReplyTypes DEF IInv, TypeOK, RequestsInPlace, Pcs, RegistryPcs, WritePcs, ReadPcs, PersistPcs, DrainPcs
  <1>3. FilesDecode'
    BY RequestFields, ReplyTypes DEF IInv, TypeOK, RequestsInPlace, FilesDecode, Pcs, RegistryPcs, WritePcs, ReadPcs, PersistPcs, DrainPcs
  <1>4. LocksHeldByWorkers'
    BY RequestFields, ReplyTypes, NativeStoreAssumption
    DEF IInv, TypeOK, RequestsInPlace, LocksHeldByWorkers, Pcs, RegistryPcs, WritePcs, ReadPcs, PersistPcs, DrainPcs
  <1>. QED BY <1>1, <1>2, <1>3, <1>4 DEF IInv

LEMMA LockPreserves ==
  ASSUME IInv, NEW p \in Procs, Lock(p)
  PROVE  IInv'
  <1> USE DEF Lock, Goto, disk, locks
  <1>1. TypeOK'
    BY RequestFields DEF IInv, TypeOK, RequestsInPlace, FilesDecode, Pcs, RegistryPcs, WritePcs, ReadPcs, PersistPcs, DrainPcs
  <1>2. RequestsInPlace'
    BY RequestFields DEF IInv, TypeOK, RequestsInPlace, Pcs, RegistryPcs, WritePcs, ReadPcs, PersistPcs, DrainPcs
  <1>3. FilesDecode'
    BY RequestFields DEF IInv, TypeOK, RequestsInPlace, FilesDecode, Pcs, RegistryPcs, WritePcs, ReadPcs, PersistPcs, DrainPcs
  <1>4. LocksHeldByWorkers'
    BY RequestFields, NativeStoreAssumption
    DEF IInv, TypeOK, RequestsInPlace, LocksHeldByWorkers, Pcs, RegistryPcs, WritePcs, ReadPcs, PersistPcs, DrainPcs
  <1>. QED BY <1>1, <1>2, <1>3, <1>4 DEF IInv

LEMMA DrainReadersPreserves ==
  ASSUME IInv, NEW p \in Procs, DrainReaders(p)
  PROVE  IInv'
  <1> USE DEF DrainReaders, Goto, disk, locks
  <1>1. TypeOK'
    BY RequestFields DEF IInv, TypeOK, RequestsInPlace, FilesDecode, Pcs, RegistryPcs, WritePcs, ReadPcs, PersistPcs, DrainPcs
  <1>2. RequestsInPlace'
    BY RequestFields DEF IInv, TypeOK, RequestsInPlace, Pcs, RegistryPcs, WritePcs, ReadPcs, PersistPcs, DrainPcs
  <1>3. FilesDecode'
    BY RequestFields DEF IInv, TypeOK, RequestsInPlace, FilesDecode, Pcs, RegistryPcs, WritePcs, ReadPcs, PersistPcs, DrainPcs
  <1>4. LocksHeldByWorkers'
    BY RequestFields, NativeStoreAssumption
    DEF IInv, TypeOK, RequestsInPlace, LocksHeldByWorkers, Pcs, RegistryPcs, WritePcs, ReadPcs, PersistPcs, DrainPcs
  <1>. QED BY <1>1, <1>2, <1>3, <1>4 DEF IInv

LEMMA CloneRecordsPreserves ==
  ASSUME IInv, NEW p \in Procs, CloneRecords(p)
  PROVE  IInv'
  <1> USE DEF CloneRecords, Abort, disk, locks
  <1>1. TypeOK'
    BY RequestFields, ReplyTypes, AfterIsRecords DEF IInv, TypeOK, RequestsInPlace, FilesDecode, Pcs, RegistryPcs, WritePcs, ReadPcs, PersistPcs, DrainPcs
  <1>2. RequestsInPlace'
    BY RequestFields, ReplyTypes, AfterIsRecords DEF IInv, TypeOK, RequestsInPlace, Pcs, RegistryPcs, WritePcs, ReadPcs, PersistPcs, DrainPcs
  <1>3. FilesDecode'
    BY RequestFields, ReplyTypes, AfterIsRecords DEF IInv, TypeOK, RequestsInPlace, FilesDecode, Pcs, RegistryPcs, WritePcs, ReadPcs, PersistPcs, DrainPcs
  <1>4. LocksHeldByWorkers'
    BY RequestFields, ReplyTypes, AfterIsRecords, NativeStoreAssumption
    DEF IInv, TypeOK, RequestsInPlace, LocksHeldByWorkers, Pcs, RegistryPcs, WritePcs, ReadPcs, PersistPcs, DrainPcs
  <1>. QED BY <1>1, <1>2, <1>3, <1>4 DEF IInv

LEMMA CreateTempPreserves ==
  ASSUME IInv, NEW p \in Procs, CreateTemp(p)
  PROVE  IInv'
  <1> USE DEF CreateTemp, StepTemp, Goto, disk, locks
  <1>1. TypeOK'
    BY RequestFields DEF IInv, TypeOK, RequestsInPlace, FilesDecode, Pcs, RegistryPcs, WritePcs, ReadPcs, PersistPcs, DrainPcs
  <1>2. RequestsInPlace'
    BY RequestFields DEF IInv, TypeOK, RequestsInPlace, Pcs, RegistryPcs, WritePcs, ReadPcs, PersistPcs, DrainPcs
  <1>3. FilesDecode'
    BY RequestFields DEF IInv, TypeOK, RequestsInPlace, FilesDecode, Pcs, RegistryPcs, WritePcs, ReadPcs, PersistPcs, DrainPcs
  <1>4. LocksHeldByWorkers'
    BY RequestFields, NativeStoreAssumption
    DEF IInv, TypeOK, RequestsInPlace, LocksHeldByWorkers, Pcs, RegistryPcs, WritePcs, ReadPcs, PersistPcs, DrainPcs
  <1>. QED BY <1>1, <1>2, <1>3, <1>4 DEF IInv

LEMMA WriteTempPreserves ==
  ASSUME IInv, NEW p \in Procs, WriteTemp(p)
  PROVE  IInv'
  <1> USE DEF WriteTemp, StepTemp, Goto, disk, locks
  <1>1. TypeOK'
    BY RequestFields DEF IInv, TypeOK, RequestsInPlace, FilesDecode, Pcs, RegistryPcs, WritePcs, ReadPcs, PersistPcs, DrainPcs
  <1>2. RequestsInPlace'
    BY RequestFields DEF IInv, TypeOK, RequestsInPlace, Pcs, RegistryPcs, WritePcs, ReadPcs, PersistPcs, DrainPcs
  <1>3. FilesDecode'
    BY RequestFields DEF IInv, TypeOK, RequestsInPlace, FilesDecode, Pcs, RegistryPcs, WritePcs, ReadPcs, PersistPcs, DrainPcs
  <1>4. LocksHeldByWorkers'
    BY RequestFields, NativeStoreAssumption
    DEF IInv, TypeOK, RequestsInPlace, LocksHeldByWorkers, Pcs, RegistryPcs, WritePcs, ReadPcs, PersistPcs, DrainPcs
  <1>. QED BY <1>1, <1>2, <1>3, <1>4 DEF IInv

LEMMA SyncTempPreserves ==
  ASSUME IInv, NEW p \in Procs, SyncTemp(p)
  PROVE  IInv'
  <1> USE DEF SyncTemp, StepTemp, Goto, disk, locks
  <1>1. TypeOK'
    BY RequestFields DEF IInv, TypeOK, RequestsInPlace, FilesDecode, Pcs, RegistryPcs, WritePcs, ReadPcs, PersistPcs, DrainPcs
  <1>2. RequestsInPlace'
    BY RequestFields DEF IInv, TypeOK, RequestsInPlace, Pcs, RegistryPcs, WritePcs, ReadPcs, PersistPcs, DrainPcs
  <1>3. FilesDecode'
    BY RequestFields DEF IInv, TypeOK, RequestsInPlace, FilesDecode, Pcs, RegistryPcs, WritePcs, ReadPcs, PersistPcs, DrainPcs
  <1>4. LocksHeldByWorkers'
    BY RequestFields, NativeStoreAssumption
    DEF IInv, TypeOK, RequestsInPlace, LocksHeldByWorkers, Pcs, RegistryPcs, WritePcs, ReadPcs, PersistPcs, DrainPcs
  <1>. QED BY <1>1, <1>2, <1>3, <1>4 DEF IInv

LEMMA CloseTempPreserves ==
  ASSUME IInv, NEW p \in Procs, CloseTemp(p)
  PROVE  IInv'
  <1> USE DEF CloseTemp, StepTemp, Goto, disk, locks
  <1>1. TypeOK'
    BY RequestFields DEF IInv, TypeOK, RequestsInPlace, FilesDecode, Pcs, RegistryPcs, WritePcs, ReadPcs, PersistPcs, DrainPcs
  <1>2. RequestsInPlace'
    BY RequestFields DEF IInv, TypeOK, RequestsInPlace, Pcs, RegistryPcs, WritePcs, ReadPcs, PersistPcs, DrainPcs
  <1>3. FilesDecode'
    BY RequestFields DEF IInv, TypeOK, RequestsInPlace, FilesDecode, Pcs, RegistryPcs, WritePcs, ReadPcs, PersistPcs, DrainPcs
  <1>4. LocksHeldByWorkers'
    BY RequestFields, NativeStoreAssumption
    DEF IInv, TypeOK, RequestsInPlace, LocksHeldByWorkers, Pcs, RegistryPcs, WritePcs, ReadPcs, PersistPcs, DrainPcs
  <1>. QED BY <1>1, <1>2, <1>3, <1>4 DEF IInv

LEMMA FailPersistPreserves ==
  ASSUME IInv, NEW p \in Procs, FailPersist(p)
  PROVE  IInv'
  <1> USE DEF FailPersist, Abort, disk, locks
  <1>1. TypeOK'
    BY RequestFields, ReplyTypes DEF IInv, TypeOK, RequestsInPlace, FilesDecode, Pcs, RegistryPcs, WritePcs, ReadPcs, PersistPcs, DrainPcs
  <1>2. RequestsInPlace'
    BY RequestFields, ReplyTypes DEF IInv, TypeOK, RequestsInPlace, Pcs, RegistryPcs, WritePcs, ReadPcs, PersistPcs, DrainPcs
  <1>3. FilesDecode'
    BY RequestFields, ReplyTypes DEF IInv, TypeOK, RequestsInPlace, FilesDecode, Pcs, RegistryPcs, WritePcs, ReadPcs, PersistPcs, DrainPcs
  <1>4. LocksHeldByWorkers'
    BY RequestFields, ReplyTypes, NativeStoreAssumption
    DEF IInv, TypeOK, RequestsInPlace, LocksHeldByWorkers, Pcs, RegistryPcs, WritePcs, ReadPcs, PersistPcs, DrainPcs
  <1>. QED BY <1>1, <1>2, <1>3, <1>4 DEF IInv

LEMMA RenameTempPreserves ==
  ASSUME IInv, NEW p \in Procs, RenameTemp(p)
  PROVE  IInv'
  <1> USE DEF RenameTemp, Goto, Files, Contents, disk, locks
  <1>1. TypeOK'
    BY RequestFields, CorruptAssumption, NativeStoreAssumption DEF IInv, TypeOK, RequestsInPlace, FilesDecode, Pcs, RegistryPcs, WritePcs, ReadPcs, PersistPcs, DrainPcs
  <1>2. RequestsInPlace'
    BY RequestFields, CorruptAssumption, NativeStoreAssumption DEF IInv, TypeOK, RequestsInPlace, Pcs, RegistryPcs, WritePcs, ReadPcs, PersistPcs, DrainPcs
  <1>3. FilesDecode'
    <2> DEFINE f == File[req[p].store]
    <2>1. /\ tmp[p] = "synced"
          /\ draft[p] # Corrupt
          /\ f \in Files
          /\ file[f] # Corrupt
      BY RequestFields, CorruptAssumption
      DEF IInv, TypeOK, RequestsInPlace, FilesDecode, WritePcs, PersistPcs, Mutates
    <2>2. /\ file'[f] # Corrupt
          /\ \A c \in survives'[f] : c # Corrupt
      BY <2>1 DEF IInv, TypeOK, FilesDecode
    <2>3. \A g \in Files : g # f => file'[g] = file[g] /\ survives'[g] = survives[g]
      BY DEF IInv, TypeOK
    <2>. QED BY <2>1, <2>2, <2>3 DEF IInv, TypeOK, FilesDecode
  <1>4. LocksHeldByWorkers'
    BY RequestFields, CorruptAssumption, NativeStoreAssumption, NativeStoreAssumption
    DEF IInv, TypeOK, RequestsInPlace, LocksHeldByWorkers, Pcs, RegistryPcs, WritePcs, ReadPcs, PersistPcs, DrainPcs
  <1>. QED BY <1>1, <1>2, <1>3, <1>4 DEF IInv

LEMMA SyncDirPreserves ==
  ASSUME IInv, NEW p \in Procs, SyncDir(p)
  PROVE  IInv'
  <1> USE DEF SyncDir, Goto, Files, disk, locks
  <1>1. TypeOK'
    BY RequestFields DEF IInv, TypeOK, RequestsInPlace, FilesDecode, Pcs, RegistryPcs, WritePcs, ReadPcs, PersistPcs, DrainPcs
  <1>2. RequestsInPlace'
    BY RequestFields DEF IInv, TypeOK, RequestsInPlace, Pcs, RegistryPcs, WritePcs, ReadPcs, PersistPcs, DrainPcs
  <1>3. FilesDecode'
    BY RequestFields DEF IInv, TypeOK, RequestsInPlace, FilesDecode, Pcs, RegistryPcs, WritePcs, ReadPcs, PersistPcs, DrainPcs
  <1>4. LocksHeldByWorkers'
    BY RequestFields, NativeStoreAssumption
    DEF IInv, TypeOK, RequestsInPlace, LocksHeldByWorkers, Pcs, RegistryPcs, WritePcs, ReadPcs, PersistPcs, DrainPcs
  <1>. QED BY <1>1, <1>2, <1>3, <1>4 DEF IInv

LEMMA CommitRecordsPreserves ==
  ASSUME IInv, NEW p \in Procs, CommitRecords(p)
  PROVE  IInv'
  <1> USE DEF CommitRecords, Goto, disk, locks
  <1>1. TypeOK'
    BY RequestFields, ReplyTypes DEF IInv, TypeOK, RequestsInPlace, FilesDecode, Pcs, RegistryPcs, WritePcs, ReadPcs, PersistPcs, DrainPcs
  <1>2. RequestsInPlace'
    BY RequestFields, ReplyTypes DEF IInv, TypeOK, RequestsInPlace, Pcs, RegistryPcs, WritePcs, ReadPcs, PersistPcs, DrainPcs
  <1>3. FilesDecode'
    BY RequestFields, ReplyTypes DEF IInv, TypeOK, RequestsInPlace, FilesDecode, Pcs, RegistryPcs, WritePcs, ReadPcs, PersistPcs, DrainPcs
  <1>4. LocksHeldByWorkers'
    BY RequestFields, ReplyTypes, NativeStoreAssumption
    DEF IInv, TypeOK, RequestsInPlace, LocksHeldByWorkers, Pcs, RegistryPcs, WritePcs, ReadPcs, PersistPcs, DrainPcs
  <1>. QED BY <1>1, <1>2, <1>3, <1>4 DEF IInv

LEMMA UnlockPreserves ==
  ASSUME IInv, NEW p \in Procs, Unlock(p)
  PROVE  IInv'
  <1> USE DEF Unlock, Finish, disk, locks
  <1>1. TypeOK'
    BY RequestFields, ReplyTypes DEF IInv, TypeOK, RequestsInPlace, FilesDecode, Pcs, RegistryPcs, WritePcs, ReadPcs, PersistPcs, DrainPcs, Empty, Records
  <1>2. RequestsInPlace'
    BY RequestFields, ReplyTypes DEF IInv, TypeOK, RequestsInPlace, Pcs, RegistryPcs, WritePcs, ReadPcs, PersistPcs, DrainPcs
  <1>3. FilesDecode'
    BY RequestFields, ReplyTypes DEF IInv, TypeOK, RequestsInPlace, FilesDecode, Pcs, RegistryPcs, WritePcs, ReadPcs, PersistPcs, DrainPcs
  <1>4. LocksHeldByWorkers'
    BY RequestFields, ReplyTypes, NativeStoreAssumption
    DEF IInv, TypeOK, RequestsInPlace, LocksHeldByWorkers, Pcs, RegistryPcs, WritePcs, ReadPcs, PersistPcs, DrainPcs
  <1>. QED BY <1>1, <1>2, <1>3, <1>4 DEF IInv

LEMMA RestartPreserves ==
  ASSUME IInv, CrashProcess \/ PowerLoss
  PROVE  IInv'
  <1>1. StartAgain /\ file' \in [Files -> Contents] /\ survives' \in [Files -> SUBSET Contents]
    BY DEF CrashProcess, PowerLoss, disk, IInv, TypeOK
  <1>2. TypeOK'
    BY <1>1, NativeStoreAssumption, ReplyTypes
    DEF StartAgain, TypeOK, Pcs, Records, Empty
  <1>3. RequestsInPlace'
    BY <1>1 DEF StartAgain, RequestsInPlace, NoCall, Mutates,
                RegistryPcs, WritePcs, ReadPcs, PersistPcs
  <1>4. \A f \in Files : \A c \in survives'[f] : c = Corrupt <=> file'[f] = Corrupt
    BY DEF CrashProcess, PowerLoss, disk, IInv, FilesDecode
  <1>5. FilesDecode'
    BY <1>1, <1>4 DEF StartAgain, FilesDecode
  <1>6. LocksHeldByWorkers'
    BY <1>1, NativeStoreAssumption
    DEF StartAgain, LocksHeldByWorkers, RegistryPcs, WritePcs, ReadPcs, PersistPcs
  <1>. QED BY <1>2, <1>3, <1>5, <1>6 DEF IInv

LEMMA NextPreserves ==
  ASSUME IInv, [Next]_vars
  PROVE  IInv'
  <1>1. ASSUME NEW p \in Procs, NEW r \in Requests, Invoke(p, r)
        PROVE  IInv'
    BY <1>1, InvokePreserves
  <1>2. ASSUME NEW p \in Procs, Acquire(p)
        PROVE  IInv'
    BY <1>2, LockRegistryPreserves, LockPreserves, RLockPreserves DEF Acquire
  <1>3. ASSUME NEW p \in Procs, Work(p)
        PROVE  IInv'
    BY <1>3, StoreHandlePreserves, RefusedPreserves, OpenStorePreserves,
       UnlockRegistryPreserves, ReadRecordsPreserves, RUnlockPreserves,
       DrainReadersPreserves, CloneRecordsPreserves, CreateTempPreserves,
       WriteTempPreserves, SyncTempPreserves, CloseTempPreserves,
       FailPersistPreserves, RenameTempPreserves, SyncDirPreserves,
       CommitRecordsPreserves, UnlockPreserves
    DEF Work
  <1>4. CASE CrashProcess \/ PowerLoss
    BY <1>4, RestartPreserves
  <1>5. CASE UNCHANGED vars
    BY <1>5 DEF vars, IInv, TypeOK, RequestsInPlace, FilesDecode, LocksHeldByWorkers, Mutates
  <1>. QED BY <1>1, <1>2, <1>3, <1>4, <1>5 DEF Next

-----------------------------------------------------------------------------
(* Theorems that need no assumption beyond those on the constants.         *)

\* The strengthened invariant holds in every reachable state.
THEOREM IInvHolds == Spec => []IInv
  BY InitIInv, NextPreserves, PTL DEF Spec

\* Every variable keeps its type (the state of withStoreWrite, withStoreRead and
\* bcStoreRegistry.open).
THEOREM TypeCorrect == Spec => []TypeOK
  <1>1. IInv => TypeOK
    BY DEF IInv
  <1>. QED BY <1>1, IInvHolds, PTL

\* A store lock or the registry mutex is held exactly by the goroutine inside its
\* critical section, and a writer inside is alone: in particular no error or
\* panic leaks a lock.
THEOREM LocksSafe == Spec => []LocksHeldByWorkers
  <1>1. IInv => LocksHeldByWorkers
    BY DEF IInv
  <1>. QED BY <1>1, IInvHolds, PTL

\* Whatever is killed or fails, and even if two URIs name one file, a store file
\* that decodes always decodes, and one that does not is never overwritten.
THEOREM FilesComplete == Spec => FileStaysComplete
  <1> DEFINE Keeps == \A f \in Files : (file'[f] = Corrupt) = (file[f] = Corrupt)
  <1>1. ASSUME IInv, [Next]_vars
        PROVE  [Keeps]_vars
    <2>1. CASE UNCHANGED vars
      BY <2>1
    <2>2. CASE \E p \in Procs : RenameTemp(p)
      <3>1. PICK p \in Procs : RenameTemp(p)
        BY <2>2
      <3> DEFINE g == File[req[p].store]
      <3>2. g \in Files /\ file[g] # Corrupt /\ draft[p] # Corrupt
        BY <1>1, <3>1, RequestFields, CorruptAssumption
        DEF RenameTemp, Goto, IInv, TypeOK, RequestsInPlace, FilesDecode, Files,
            WritePcs, PersistPcs, Mutates
      <3>. QED BY <1>1, <3>1, <3>2 DEF RenameTemp, IInv, TypeOK
    <2>3. CASE PowerLoss
      BY <1>1, <2>3 DEF PowerLoss, IInv, FilesDecode
    <2>4. CASE file' = file
      BY <2>4
    <2>. QED
      BY <1>1, <2>1, <2>2, <2>3, <2>4
      DEF Next, Acquire, Work, Invoke, CrashProcess, disk, LockRegistry, Lock, RLock,
          StoreHandle, Refused, OpenStore, UnlockRegistry, ReadRecords, RUnlock,
          DrainReaders, CloneRecords, Abort, CreateTemp, WriteTemp, SyncTemp,
          CloseTemp, StepTemp, FailPersist, SyncDir, CommitRecords, Unlock
  <1>. QED BY <1>1, IInvHolds, PTL DEF Spec, FileStaysComplete


-----------------------------------------------------------------------------
(* Theorems about files that are opened under one URI.                     *)

\* A step that moves no goroutine into or out of the two places between the
\* rename and the publication, and writes neither files nor records, keeps
\* memory and files in step.
LEMMA QuietStep ==
  ASSUME MemoryMatchesFile,
         file' = file, mem' = mem, opened' = opened,
         \A u \in Persisted, p \in Procs :
           /\ Publishing(p, u)' <=> Publishing(p, u)
           /\ Publishing(p, u) => draft'[p] = draft[p]
  PROVE  MemoryMatchesFile'
  BY DEF MemoryMatchesFile

\* Two goroutines are never between rename and publication of one store.
LEMMA OnePublisher ==
  ASSUME IInv, NEW u \in Persisted, NEW p \in Procs, NEW q \in Procs,
         pc[p] \in WritePcs, req[p].store = u,
         pc[q] \in WritePcs, req[q].store = u
  PROVE  p = q
  BY StoreAssumption DEF IInv, LocksHeldByWorkers

LEMMA MemoryMatchesFileStep ==
  ASSUME NoAlias, IInv, MemoryMatchesFile, [Next]_vars
  PROVE  MemoryMatchesFile'
  <1>1. ASSUME NEW p \in Procs, OpenStore(p)
        PROVE  MemoryMatchesFile'
    <2> DEFINE u == req[p].store
    <2> USE <1>1 DEF OpenStore, Goto, disk, locks
    <2>1. \A v \in Persisted, q \in Procs :
            /\ Publishing(q, v)' <=> Publishing(q, v)
            /\ draft'[q] = draft[q]
      BY DEF IInv, TypeOK, Publishing
    <2>2. CASE opened' = opened /\ mem' = mem
      BY <2>1, <2>2, QuietStep
    <2>3. CASE u \notin opened /\ opened' = opened \cup {u}
      <3>1. \A q \in Procs : ~ Publishing(q, u)
        BY <2>3, RequestFields
        DEF Publishing, IInv, TypeOK, RequestsInPlace, WritePcs, Mutates
      <3>2. u \in Stores
        BY RequestFields DEF IInv, TypeOK, RequestsInPlace, RegistryPcs
      <3>3. \A v \in Persisted \cap opened : v # u /\ mem'[v] = mem[v]
        BY <2>3 DEF IInv, TypeOK
      <3>4. u \in Persisted => mem'[u] = Decoded(file[File[u]])
        BY <2>3, <3>2 DEF IInv, TypeOK
      <3>. QED BY <2>1, <2>3, <3>1, <3>3, <3>4 DEF MemoryMatchesFile
    <2>. QED BY <2>2, <2>3
  <1>2. ASSUME NEW p \in Procs, RenameTemp(p)
        PROVE  MemoryMatchesFile'
    <2> DEFINE u == req[p].store
    <2> USE <1>2 DEF RenameTemp, Goto, disk, locks
    <2>1. u \in Persisted /\ File[u] \in Files
      BY DEF IInv, RequestsInPlace, PersistPcs, Files
    <2>2. Publishing(p, u)' /\ file'[File[u]] = draft'[p]
      BY <2>1 DEF Publishing, IInv, TypeOK
    <2>3. \A v \in Persisted : v # u => file'[File[v]] = file[File[v]]
      BY <2>1 DEF NoAlias, IInv, TypeOK, Files
    <2>4. \A v \in Persisted, q \in Procs :
            v # u => (Publishing(q, v)' <=> Publishing(q, v))
      BY DEF Publishing, IInv, TypeOK
    <2>. QED BY <2>1, <2>2, <2>3, <2>4 DEF MemoryMatchesFile
  <1>3. ASSUME NEW p \in Procs, CommitRecords(p)
        PROVE  MemoryMatchesFile'
    <2> DEFINE u == req[p].store
    <2> USE <1>3 DEF CommitRecords, Goto, disk, locks
    <2>1. u \in Stores /\ u \in opened
      BY RequestFields DEF IInv, TypeOK, RequestsInPlace, WritePcs, Mutates
    <2>2. \A v \in Persisted, q \in Procs :
            v # u => (Publishing(q, v)' <=> Publishing(q, v)) /\ mem'[v] = mem[v]
      BY DEF Publishing, IInv, TypeOK
    <2>3. ASSUME u \in Persisted
          PROVE  /\ \A q \in Procs : ~ Publishing(q, u)'
                 /\ mem'[u] = Decoded(file'[File[u]])
      <3>1. \A q \in Procs : Publishing(q, u) => q = p
        BY <2>3, OnePublisher DEF Publishing, WritePcs
      <3>2. file[File[u]] = draft[p]
        BY <2>1, <2>3, <3>1 DEF MemoryMatchesFile, Publishing
      <3>3. Decoded(draft[p]) = draft[p]
        BY NativeStoreAssumption DEF Decoded, IInv, TypeOK
      <3>4. mem'[u] = Decoded(file'[File[u]])
        BY <2>1, <3>2, <3>3 DEF IInv, TypeOK
      <3>5. \A q \in Procs : ~ Publishing(q, u)'
        BY <3>1 DEF Publishing, IInv, TypeOK
      <3>. QED BY <3>4, <3>5
    <2>. QED BY <2>2, <2>3 DEF MemoryMatchesFile
  <1>4. CASE CrashProcess \/ PowerLoss
    BY <1>4 DEF CrashProcess, PowerLoss, StartAgain, MemoryMatchesFile
  <1>5. ASSUME NEW p \in Procs,
               \/ \E r \in Requests : Invoke(p, r)
               \/ Acquire(p)
               \/ StoreHandle(p) \/ Refused(p) \/ UnlockRegistry(p)
               \/ ReadRecords(p) \/ RUnlock(p) \/ DrainReaders(p) \/ CloneRecords(p)
               \/ CreateTemp(p) \/ WriteTemp(p) \/ SyncTemp(p) \/ CloseTemp(p)
               \/ FailPersist(p) \/ SyncDir(p) \/ Unlock(p)
        PROVE  MemoryMatchesFile'
    <2>1. file' = file /\ mem' = mem /\ opened' = opened
      BY <1>5
      DEF Invoke, Acquire, LockRegistry, Lock, RLock, StoreHandle, Refused,
          UnlockRegistry, ReadRecords, RUnlock, DrainReaders, CloneRecords, Abort,
          CreateTemp, WriteTemp, SyncTemp, CloseTemp, StepTemp, FailPersist, SyncDir,
          Unlock, disk
    <2>2. \A u \in Persisted, q \in Procs :
            /\ Publishing(q, u)' <=> Publishing(q, u)
            /\ Publishing(q, u) => draft'[q] = draft[q]
      BY <1>5, RequestFields
      DEF Publishing, IInv, TypeOK, RequestsInPlace, Invoke, Acquire, LockRegistry, Lock, RLock,
          StoreHandle, Lane, Refused, Finish, Goto, UnlockRegistry, ReadRecords, RUnlock,
          DrainReaders, CloneRecords, Abort, CreateTemp, WriteTemp, SyncTemp,
          CloseTemp, StepTemp, FailPersist, SyncDir, Unlock, PersistPcs, disk, locks
    <2>. QED BY <2>1, <2>2, QuietStep
  <1>6. CASE UNCHANGED vars
    BY <1>6 DEF vars, MemoryMatchesFile, Publishing
  <1>. QED BY <1>1, <1>2, <1>3, <1>4, <1>5, <1>6 DEF Next, Work

\* When no file has two URIs, an open store answers with what its file holds
\* whenever nobody is between the rename and the publication of a write.
THEOREM MemoryMatches == NoAlias => (Spec => []MemoryMatchesFile)
  <1> SUFFICES ASSUME NoAlias PROVE Spec => []MemoryMatchesFile
    OBVIOUS
  <1>1. Init => MemoryMatchesFile
    BY DEF Init, FreshProcess, MemoryMatchesFile
  <1>2. IInv /\ MemoryMatchesFile /\ [Next]_vars => MemoryMatchesFile'
    BY MemoryMatchesFileStep
  <1>. QED BY <1>1, <1>2, IInvHolds, PTL DEF Spec

-----------------------------------------------------------------------------
(* Durability.                                                             *)

\* Between the rename and the directory sync of one goroutine, the file of its
\* store holds the goroutine's copy of the records.
LEMMA RenamedFileIsDraft ==
  ASSUME IInv, MemoryMatchesFile, NEW p \in Procs,
         pc[p] \in {"dirsync", "commit"}, req[p].store \in Persisted
  PROVE  file[File[req[p].store]] = draft[p]
  <1> DEFINE u == req[p].store
  <1>1. u \in opened
    BY DEF IInv, RequestsInPlace, WritePcs, Mutates
  <1>2. PICK q \in Procs : Publishing(q, u) /\ file[File[u]] = draft[q]
    BY <1>1 DEF MemoryMatchesFile, Publishing
  <1>3. q = p
    BY <1>2, OnePublisher DEF Publishing, WritePcs
  <1>. QED BY <1>2, <1>3

LEMMA DurableStep ==
  ASSUME NoAlias, "dirsync" \notin Faults, IInv, MemoryMatchesFile,
         AnsweredWriteIsDurable, [Next]_vars
  PROVE  AnsweredWriteIsDurable'
  <1> USE DEF AnsweredWriteIsDurable
  <1>1. ASSUME NEW p \in Procs, RenameTemp(p)
        PROVE  AnsweredWriteIsDurable'
    <2> DEFINE u == req[p].store
    <2> USE <1>1 DEF RenameTemp, Goto, disk, locks
    <2>1. u \in Persisted /\ File[u] \in Files
      BY DEF IInv, RequestsInPlace, PersistPcs, Files
    <2>2. ASSUME NEW q \in Procs, pc[q] \in {"commit", "unlockWrite"}, req[q].store \in Persisted
          PROVE  req[q].store # u
      BY <2>1, <2>2, OnePublisher DEF WritePcs, PersistPcs
    <2>3. \A v \in Persisted : v # u => survives'[File[v]] = survives[File[v]]
      BY <2>1 DEF NoAlias, IInv, TypeOK, Files
    <2>4. \A q \in Procs : q # p => pc'[q] = pc[q]
      BY DEF IInv, TypeOK
    <2>5. pc'[p] = "dirsync"
      BY DEF IInv, TypeOK
    <2>. QED BY <2>2, <2>3, <2>4, <2>5
  <1>2. ASSUME NEW p \in Procs, SyncDir(p)
        PROVE  AnsweredWriteIsDurable'
    <2> DEFINE u == req[p].store
    <2> USE <1>2 DEF SyncDir, Goto, disk, locks
    <2>1. u \in Persisted /\ File[u] \in Files
      BY DEF IInv, RequestsInPlace, Files
    <2>2. file[File[u]] = draft[p]
      BY <2>1, RenamedFileIsDraft
    <2>3. survives'[File[u]] = {draft[p]}
      BY <2>1, <2>2 DEF IInv, TypeOK
    <2>4. \A v \in Persisted : v # u => survives'[File[v]] = survives[File[v]]
      BY <2>1 DEF NoAlias, IInv, TypeOK, Files
    <2>5. \A q \in Procs : q # p => pc'[q] = pc[q]
      BY DEF IInv, TypeOK
    <2>6. ASSUME NEW q \in Procs, q # p, pc[q] \in {"commit", "unlockWrite"}, req[q].store \in Persisted
          PROVE  req[q].store # u
      BY <2>1, <2>6, OnePublisher DEF WritePcs
    <2>. QED BY <2>3, <2>4, <2>5, <2>6
  <1>3. ASSUME NEW p \in Procs, CloneRecords(p)
        PROVE  AnsweredWriteIsDurable'
    <2>1. CASE Abort(p)
      BY <1>3, <2>1 DEF Abort, Failed, Done, IInv, TypeOK, disk
    <2>2. CASE ~ Abort(p)
      BY <1>3, <2>2 DEF CloneRecords, IInv, TypeOK, disk
    <2>. QED BY <2>1, <2>2
  <1>4. CASE CrashProcess \/ PowerLoss
    BY <1>4 DEF CrashProcess, PowerLoss, StartAgain
  <1>5. ASSUME NEW p \in Procs,
               \/ \E r \in Requests : Invoke(p, r)
               \/ StoreHandle(p)
        PROVE  AnsweredWriteIsDurable'
    BY <1>5 DEF Invoke, StoreHandle, Lane, Goto, IInv, TypeOK, disk, locks
  <1>6. ASSUME NEW p \in Procs, Acquire(p)
        PROVE  AnsweredWriteIsDurable'
    BY <1>6 DEF Acquire, LockRegistry, Lock, RLock, Goto, IInv, TypeOK, disk, locks
  <1>7. ASSUME NEW p \in Procs,
               OpenStore(p) \/ ReadRecords(p) \/ DrainReaders(p)
        PROVE  AnsweredWriteIsDurable'
    BY <1>7 DEF OpenStore, ReadRecords, DrainReaders, Goto, IInv, TypeOK, disk, locks
  <1>8. ASSUME NEW p \in Procs,
               CreateTemp(p) \/ WriteTemp(p) \/ SyncTemp(p) \/ CloseTemp(p)
        PROVE  AnsweredWriteIsDurable'
    BY <1>8
    DEF CreateTemp, WriteTemp, SyncTemp, CloseTemp, StepTemp, Goto, IInv, TypeOK, disk, locks
  <1>9. ASSUME NEW p \in Procs,
               Refused(p) \/ UnlockRegistry(p) \/ RUnlock(p) \/ Unlock(p)
        PROVE  AnsweredWriteIsDurable'
    BY <1>9 DEF Refused, UnlockRegistry, RUnlock, Unlock, Finish, IInv, TypeOK, disk
  <1>10. ASSUME NEW p \in Procs, FailPersist(p)
         PROVE  AnsweredWriteIsDurable'
    BY <1>10 DEF FailPersist, Abort, Failed, Done, IInv, TypeOK, disk
  <1>11. ASSUME NEW p \in Procs, CommitRecords(p)
         PROVE  AnsweredWriteIsDurable'
    BY <1>11 DEF CommitRecords, Goto, IInv, TypeOK, disk
  <1>12. CASE UNCHANGED vars
    BY <1>12 DEF vars
  <1>. QED
    BY <1>1, <1>2, <1>3, <1>4, <1>5, <1>6, <1>7, <1>8, <1>9, <1>10, <1>11, <1>12
    DEF Next, Work

\* When no directory sync fails and no file has two URIs, a power loss can only
\* leave the records that an operation is about to answer for, or has answered.
THEOREM WritesAreDurable ==
  NoAlias /\ "dirsync" \notin Faults => (Spec => []AnsweredWriteIsDurable)
  <1> SUFFICES ASSUME NoAlias, "dirsync" \notin Faults
               PROVE  Spec => []AnsweredWriteIsDurable
    OBVIOUS
  <1>1. Init => AnsweredWriteIsDurable
    BY DEF Init, FreshProcess, AnsweredWriteIsDurable
  <1>2. IInv /\ MemoryMatchesFile /\ AnsweredWriteIsDurable /\ [Next]_vars
          => AnsweredWriteIsDurable'
    BY DurableStep
  <1>3. Spec => []MemoryMatchesFile
    BY MemoryMatches
  <1>. QED BY <1>1, <1>2, <1>3, IInvHolds, PTL DEF Spec

-----------------------------------------------------------------------------
(* What the refinement needs to know beyond IInv and MemoryMatchesFile.    *)

\* The places an operation passes before its outcome is known.
Pending == {"check", "wantRegistry", "load", "wantRead", "read", "wantWrite"}
             \cup (WritePcs \ {"unlockWrite"})

\* An outcome exists from the step that decides it until the operation returns,
\* and past the capability checks the operation is granted.
OutcomesInPlace ==
  \A p \in Procs :
    /\ pc[p] \in Pending \cup {"idle"} <=> out[p] = NoReply
    /\ pc[p] \notin {"idle", "check", "refused"} => Granted(p, req[p])

\* The copy being persisted is the change applied to the records in memory.
DraftsInPlace ==
  \A p \in Procs :
    pc[p] \in PersistPcs \cup {"dirsync", "commit"}
      => draft[p] = After(req[p], mem[req[p].store])

\* A store nobody has opened has no records in memory.
ClosedIsEmpty == \A u \in Stores \ opened : mem[u] = Empty

\* No directory sync fails and no process dies before one: then a power loss
\* leaves a file as it is, or one rename before or after it.
Gentle == "crash" \notin Faults /\ "dirsync" \notin Faults

SurvivesOldOrNew ==
  \A u \in Persisted :
    \/ survives[File[u]] = {file[File[u]]}
    \/ \E p \in Procs :
         /\ pc[p] = "dirsync" /\ req[p].store = u
         /\ \A c \in survives[File[u]] : c = draft[p] \/ Decoded(c) = mem[u]

RInv ==
  /\ IInv
  /\ MemoryMatchesFile
  /\ OutcomesInPlace
  /\ DraftsInPlace
  /\ ClosedIsEmpty
  /\ Gentle => SurvivesOldOrNew

\* The outcomes differ from no outcome.
LEMMA OutcomeValues ==
  /\ Failed # NoReply
  /\ \A d : Done(d) # NoReply /\ Done(d) # Failed
  BY DEF Failed, NoReply, Done

LEMMA OutcomesInPlaceStep ==
  ASSUME IInv, OutcomesInPlace, [Next]_vars
  PROVE  OutcomesInPlace'
  <1> USE DEF OutcomesInPlace, IInv, TypeOK, Pending, RegistryPcs, ReadPcs, WritePcs, PersistPcs, DrainPcs
  <1>1. ASSUME NEW p \in Procs, NEW r \in Requests, Invoke(p, r)
        PROVE  OutcomesInPlace'
    BY <1>1, OutcomeValues DEF Invoke, Goto, locks, disk
  <1>2. ASSUME NEW p \in Procs, StoreHandle(p)
        PROVE  OutcomesInPlace'
    BY <1>2, OutcomeValues DEF StoreHandle, Lane, Goto
  <1>3. ASSUME NEW p \in Procs, Acquire(p)
        PROVE  OutcomesInPlace'
    BY <1>3, OutcomeValues DEF Acquire, LockRegistry, Lock, RLock, Goto
  <1>4. ASSUME NEW p \in Procs, OpenStore(p)
        PROVE  OutcomesInPlace'
    BY <1>4, OutcomeValues DEF OpenStore, Goto
  <1>5. ASSUME NEW p \in Procs, ReadRecords(p)
        PROVE  OutcomesInPlace'
    BY <1>5, OutcomeValues DEF ReadRecords, Goto
  <1>6. ASSUME NEW p \in Procs, DrainReaders(p)
        PROVE  OutcomesInPlace'
    BY <1>6, OutcomeValues DEF DrainReaders, Goto
  <1>7. ASSUME NEW p \in Procs, CloneRecords(p)
        PROVE  OutcomesInPlace'
    BY <1>7, OutcomeValues DEF CloneRecords, Abort
  <1>8. ASSUME NEW p \in Procs, CreateTemp(p) \/ WriteTemp(p) \/ SyncTemp(p) \/ CloseTemp(p)
        PROVE  OutcomesInPlace'
    BY <1>8, OutcomeValues DEF CreateTemp, WriteTemp, SyncTemp, CloseTemp, StepTemp, Goto
  <1>9. ASSUME NEW p \in Procs, FailPersist(p)
        PROVE  OutcomesInPlace'
    BY <1>9, OutcomeValues DEF FailPersist, Abort
  <1>10. ASSUME NEW p \in Procs, RenameTemp(p) \/ SyncDir(p)
        PROVE  OutcomesInPlace'
    BY <1>10, OutcomeValues DEF RenameTemp, SyncDir, Goto
  <1>11. ASSUME NEW p \in Procs, CommitRecords(p)
        PROVE  OutcomesInPlace'
    BY <1>11, OutcomeValues DEF CommitRecords, Goto
  <1>12. ASSUME NEW p \in Procs, Refused(p) \/ UnlockRegistry(p) \/ RUnlock(p) \/ Unlock(p)
        PROVE  OutcomesInPlace'
    BY <1>12, OutcomeValues DEF Refused, UnlockRegistry, RUnlock, Unlock, Finish
  <1>13. CASE CrashProcess \/ PowerLoss
    BY <1>13 DEF CrashProcess, PowerLoss, StartAgain
  <1>14. CASE UNCHANGED vars
    BY <1>14 DEF vars
  <1>. QED
    BY <1>1, <1>2, <1>3, <1>4, <1>5, <1>6, <1>7, <1>8, <1>9, <1>10, <1>11, <1>12, <1>13, <1>14
    DEF Next, Work
\* Two goroutines are never inside a write of one store.
LEMMA OneWriter ==
  ASSUME IInv, NEW p \in Procs, NEW q \in Procs,
         pc[p] \in WritePcs, pc[q] \in WritePcs, req[p].store = req[q].store
  PROVE  p = q
  <1>1. req[p].store \in Stores
    BY RequestFields DEF IInv, TypeOK, RequestsInPlace, WritePcs, PersistPcs, DrainPcs
  <1>. QED BY <1>1 DEF IInv, LocksHeldByWorkers

LEMMA DraftsInPlaceStep ==
  ASSUME IInv, DraftsInPlace, [Next]_vars
  PROVE  DraftsInPlace'
  <1> USE DEF DraftsInPlace
  <1>1. ASSUME NEW p \in Procs, OpenStore(p)
        PROVE  DraftsInPlace'
    <2>1. \A q \in Procs : pc'[q] \in PersistPcs \cup {"dirsync", "commit"}
            => pc'[q] = pc[q] /\ req[q].store \in opened /\ req[q].store \in Stores
      BY <1>1, RequestFields
      DEF OpenStore, Goto, IInv, TypeOK, RequestsInPlace, WritePcs, PersistPcs, Mutates
    <2>2. \A u \in opened : mem'[u] = mem[u]
      BY <1>1 DEF OpenStore, IInv, TypeOK
    <2>. QED BY <1>1, <2>1, <2>2 DEF OpenStore
  <1>2. ASSUME NEW p \in Procs, CloneRecords(p)
        PROVE  DraftsInPlace'
    BY <1>2 DEF CloneRecords, Abort, IInv, TypeOK, PersistPcs
  <1>3. ASSUME NEW p \in Procs, CommitRecords(p)
        PROVE  DraftsInPlace'
    <2>1. \A q \in Procs : pc'[q] \in PersistPcs \cup {"dirsync", "commit"}
            => q # p /\ pc'[q] = pc[q]
      BY <1>3 DEF CommitRecords, Goto, IInv, TypeOK, PersistPcs
    <2>2. \A q \in Procs : q # p /\ pc[q] \in PersistPcs \cup {"dirsync", "commit"}
            => req[q].store # req[p].store
      BY <1>3, OneWriter DEF CommitRecords, Goto, WritePcs
    <2>3. \A q \in Procs : req[q].store # req[p].store
            => mem'[req[q].store] = mem[req[q].store]
      BY <1>3 DEF CommitRecords, IInv, TypeOK
    <2>. QED BY <1>3, <2>1, <2>2, <2>3 DEF CommitRecords
  <1>4. ASSUME NEW p \in Procs,
               \/ \E r \in Requests : Invoke(p, r)
               \/ StoreHandle(p)
        PROVE  DraftsInPlace'
    BY <1>4 DEF Invoke, StoreHandle, Lane, Goto, PersistPcs, IInv, TypeOK
  <1>5. ASSUME NEW p \in Procs, Acquire(p)
        PROVE  DraftsInPlace'
    BY <1>5 DEF Acquire, LockRegistry, Lock, RLock, Goto, PersistPcs, IInv, TypeOK
  <1>6. ASSUME NEW p \in Procs, ReadRecords(p) \/ DrainReaders(p)
        PROVE  DraftsInPlace'
    BY <1>6 DEF ReadRecords, DrainReaders, Goto, PersistPcs, IInv, TypeOK
  <1>7. ASSUME NEW p \in Procs, CreateTemp(p) \/ WriteTemp(p) \/ SyncTemp(p) \/ CloseTemp(p)
        PROVE  DraftsInPlace'
    BY <1>7 DEF CreateTemp, WriteTemp, SyncTemp, CloseTemp, StepTemp, Goto, PersistPcs, IInv, TypeOK
  <1>8. ASSUME NEW p \in Procs, FailPersist(p)
        PROVE  DraftsInPlace'
    BY <1>8 DEF FailPersist, Abort, PersistPcs, IInv, TypeOK
  <1>9. ASSUME NEW p \in Procs, RenameTemp(p) \/ SyncDir(p)
        PROVE  DraftsInPlace'
    BY <1>9 DEF RenameTemp, SyncDir, Goto, PersistPcs, IInv, TypeOK
  <1>10. ASSUME NEW p \in Procs, Refused(p) \/ UnlockRegistry(p) \/ RUnlock(p) \/ Unlock(p)
        PROVE  DraftsInPlace'
    BY <1>10 DEF Refused, UnlockRegistry, RUnlock, Unlock, Finish, PersistPcs, IInv, TypeOK
  <1>11. CASE CrashProcess \/ PowerLoss
    BY <1>11 DEF CrashProcess, PowerLoss, StartAgain, PersistPcs, IInv, TypeOK
  <1>12. CASE UNCHANGED vars
    BY <1>12 DEF vars
  <1>. QED
    BY <1>1, <1>2, <1>3, <1>4, <1>5, <1>6, <1>7, <1>8, <1>9, <1>10, <1>11, <1>12
    DEF Next, Work

LEMMA ClosedIsEmptyStep ==
  ASSUME IInv, ClosedIsEmpty, [Next]_vars
  PROVE  ClosedIsEmpty'
  <1>1. ASSUME NEW p \in Procs, OpenStore(p)
        PROVE  ClosedIsEmpty'
    BY <1>1 DEF ClosedIsEmpty, OpenStore, IInv, TypeOK
  <1>2. ASSUME NEW p \in Procs, CommitRecords(p)
        PROVE  ClosedIsEmpty'
    <2>1. req[p].store \in opened
      BY <1>2 DEF CommitRecords, Goto, IInv, RequestsInPlace, WritePcs, Mutates
    <2>. QED BY <1>2, <2>1 DEF ClosedIsEmpty, CommitRecords, IInv, TypeOK
  <1>3. CASE CrashProcess \/ PowerLoss
    BY <1>3 DEF CrashProcess, PowerLoss, StartAgain, ClosedIsEmpty
  <1>4. CASE mem' = mem /\ opened' = opened
    BY <1>4 DEF ClosedIsEmpty
  <1>. QED
    BY <1>1, <1>2, <1>3, <1>4
    DEF Next, Acquire, Work, Invoke, LockRegistry, Lock, RLock, StoreHandle, Refused,
        UnlockRegistry, ReadRecords, RUnlock, DrainReaders, CloneRecords, Abort,
        CreateTemp, WriteTemp, SyncTemp, CloseTemp, StepTemp, FailPersist, RenameTemp,
        SyncDir, Unlock, vars

LEMMA SurvivesOldOrNewStep ==
  ASSUME NoAlias, Gentle, IInv, MemoryMatchesFile, SurvivesOldOrNew, [Next]_vars
  PROVE  SurvivesOldOrNew'
  <1>1. ASSUME NEW p \in Procs, OpenStore(p)
        PROVE  SurvivesOldOrNew'
    <2>1. \A q \in Procs : pc[q] = "dirsync"
            => pc'[q] = pc[q] /\ req[q].store \in opened
      BY <1>1 DEF OpenStore, Goto, IInv, TypeOK, RequestsInPlace, WritePcs, Mutates
    <2>2. \A u \in opened : mem'[u] = mem[u]
      BY <1>1 DEF OpenStore, IInv, TypeOK
    <2>. QED BY <1>1, <2>1, <2>2 DEF OpenStore, SurvivesOldOrNew, disk
  <1>2. ASSUME NEW p \in Procs, RenameTemp(p)
        PROVE  SurvivesOldOrNew'
    <2> DEFINE u == req[p].store
    <2> USE <1>2 DEF RenameTemp, Goto, locks
    <2>1. u \in Persisted /\ u \in opened /\ File[u] \in Files /\ tmp[p] = "synced"
      BY DEF IInv, RequestsInPlace, FilesDecode, WritePcs, PersistPcs, Mutates, Files
    <2>2. \A q \in Procs : pc[q] \in {"dirsync", "commit"} => req[q].store # u
      BY OneWriter DEF WritePcs, PersistPcs
    <2>3. Decoded(file[File[u]]) = mem[u]
      BY <2>1, <2>2 DEF MemoryMatchesFile, Publishing
    <2>4. survives'[File[u]] = {file[File[u]], draft[p]}
      BY <2>1, <2>2 DEF SurvivesOldOrNew, IInv, TypeOK
    <2>5. pc'[p] = "dirsync" /\ \A q \in Procs : q # p => pc'[q] = pc[q]
      BY DEF IInv, TypeOK
    <2>6. \A v \in Persisted : v # u =>
            survives'[File[v]] = survives[File[v]] /\ file'[File[v]] = file[File[v]]
      BY <2>1 DEF NoAlias, IInv, TypeOK, Files
    <2>7. \A c \in survives'[File[u]] : c = draft'[p] \/ Decoded(c) = mem'[u]
      BY <2>3, <2>4
    <2>8. \A q \in Procs : pc[q] = "dirsync" => pc'[q] = "dirsync"
      BY <2>5
    <2>9. SUFFICES ASSUME NEW v \in Persisted
                   PROVE  \/ survives'[File[v]] = {file'[File[v]]}
                          \/ \E q \in Procs :
                               /\ pc'[q] = "dirsync" /\ req'[q].store = v
                               /\ \A c \in survives'[File[v]] :
                                    c = draft'[q] \/ Decoded(c) = mem'[v]
      BY DEF SurvivesOldOrNew
    <2>10. CASE v = u
      BY <2>5, <2>7, <2>10
    <2>11. CASE v # u
      BY <2>6, <2>8, <2>11 DEF SurvivesOldOrNew
    <2>. QED BY <2>10, <2>11
  <1>3. ASSUME NEW p \in Procs, SyncDir(p)
        PROVE  SurvivesOldOrNew'
    <2> DEFINE u == req[p].store
    <2> USE <1>3 DEF SyncDir, Goto, Gentle
    <2>1. u \in Persisted /\ File[u] \in Files
      BY DEF IInv, RequestsInPlace, Files
    <2>2. survives'[File[u]] = {file'[File[u]]}
      BY <2>1 DEF IInv, TypeOK
    <2>3. \A v \in Persisted : v # u => survives'[File[v]] = survives[File[v]]
      BY <2>1 DEF NoAlias, IInv, TypeOK, Files
    <2>4. \A q \in Procs : q # p => pc'[q] = pc[q]
      BY DEF IInv, TypeOK
    <2>5. \A q \in Procs, v \in Persisted :
            v # u /\ pc[q] = "dirsync" /\ req[q].store = v => pc'[q] = "dirsync"
      BY <2>4
    <2>. QED BY <2>2, <2>3, <2>5 DEF SurvivesOldOrNew
  <1>4. ASSUME NEW p \in Procs, CommitRecords(p)
        PROVE  SurvivesOldOrNew'
    <2>1. \A q \in Procs : pc[q] = "dirsync" => req[q].store # req[p].store /\ q # p
      BY <1>4, OneWriter DEF CommitRecords, Goto, WritePcs
    <2>2. \A q \in Procs : pc[q] = "dirsync"
            => pc'[q] = pc[q] /\ mem'[req[q].store] = mem[req[q].store]
      BY <1>4, <2>1 DEF CommitRecords, Goto, IInv, TypeOK
    <2>. QED BY <1>4, <2>2 DEF CommitRecords, SurvivesOldOrNew, disk
  <1>5. CASE PowerLoss
    BY <1>5 DEF PowerLoss, SurvivesOldOrNew, Files
  <1>6. ~ CrashProcess
    BY DEF Gentle, CrashProcess
  <1>7. ASSUME disk' = disk, mem' = mem,
               \A q \in Procs : pc[q] = "dirsync"
                 => pc'[q] = pc[q] /\ req'[q] = req[q] /\ draft'[q] = draft[q]
        PROVE  SurvivesOldOrNew'
    BY <1>7 DEF SurvivesOldOrNew, disk
  <1>8. ASSUME NEW p \in Procs,
               \/ \E r \in Requests : Invoke(p, r)
               \/ StoreHandle(p) \/ Acquire(p) \/ ReadRecords(p) \/ DrainReaders(p)
        PROVE  SurvivesOldOrNew'
    BY <1>7, <1>8 DEF Invoke, StoreHandle, Lane, Acquire, LockRegistry, Lock, RLock,
                      ReadRecords, DrainReaders, Goto, IInv, TypeOK
  <1>9. ASSUME NEW p \in Procs, FailPersist(p) \/ CloneRecords(p)
        PROVE  SurvivesOldOrNew'
    BY <1>7, <1>9 DEF FailPersist, CloneRecords, Abort, PersistPcs, IInv, TypeOK
  <1>10. ASSUME NEW p \in Procs,
                CreateTemp(p) \/ WriteTemp(p) \/ SyncTemp(p) \/ CloseTemp(p)
         PROVE  SurvivesOldOrNew'
    BY <1>7, <1>10
    DEF CreateTemp, WriteTemp, SyncTemp, CloseTemp, StepTemp, Goto, IInv, TypeOK
  <1>11. ASSUME NEW p \in Procs,
                Refused(p) \/ UnlockRegistry(p) \/ RUnlock(p) \/ Unlock(p)
         PROVE  SurvivesOldOrNew'
    BY <1>7, <1>11 DEF Refused, UnlockRegistry, RUnlock, Unlock, Finish, IInv, TypeOK
  <1>12. CASE UNCHANGED vars
    BY <1>7, <1>12 DEF vars, disk
  <1>. QED
    BY <1>1, <1>2, <1>3, <1>4, <1>5, <1>6, <1>8, <1>9, <1>10, <1>11, <1>12
    DEF Next, Work

LEMMA InitRInv == Init => RInv
  <1> SUFFICES ASSUME Init PROVE RInv
    OBVIOUS
  <1>1. MemoryMatchesFile /\ ClosedIsEmpty
    BY DEF Init, FreshProcess, MemoryMatchesFile, ClosedIsEmpty
  <1>2. OutcomesInPlace /\ DraftsInPlace
    BY DEF Init, FreshProcess, OutcomesInPlace, DraftsInPlace, Pending, PersistPcs
  <1>3. SurvivesOldOrNew
    BY DEF Init, SurvivesOldOrNew, Files
  <1>. QED BY <1>1, <1>2, <1>3, InitIInv DEF RInv

LEMMA RInvStep ==
  ASSUME NoAlias, RInv, [Next]_vars
  PROVE  RInv'
  BY NextPreserves, MemoryMatchesFileStep, OutcomesInPlaceStep, DraftsInPlaceStep,
     ClosedIsEmptyStep, SurvivesOldOrNewStep
  DEF RInv, Gentle
-----------------------------------------------------------------------------
(* The abstract state and the abstract steps, in terms of the concrete ones. *)

\* The abstract module computes with the same data.
LEMMA SameData ==
  /\ Abstract!NoCall = NoCall
  /\ Abstract!NoReply = NoReply
  /\ Abstract!Failed = Failed
  /\ Abstract!Requests = Requests
  /\ Abstract!Records = Records
  /\ Abstract!Empty = Empty
  /\ \A d : Abstract!Done(d) = Done(d)
  /\ \A r, x : Abstract!After(r, x) = After(r, x)
  /\ \A r, x : Abstract!Found(r, x) = Found(r, x)
  /\ \A p, r : Abstract!Granted(p, r) <=> Granted(p, r)
  BY DEF Abstract!NoCall, NoCall, Abstract!NoReply, NoReply, Abstract!Failed, Failed,
         Abstract!Requests, Requests, Abstract!Records, Records, Abstract!Empty, Empty,
         Abstract!Done, Done, Abstract!After, After, Abstract!Mutates, Mutates,
         Abstract!Found, Found, Abstract!Granted, Granted

\* A request that mutates nothing leaves records as they are, one that does
\* finds nothing, and so does an open.
LEMMA EffectOfRequest ==
  ASSUME NEW r \in Requests, NEW x \in Records
  PROVE  /\ ~ Mutates(r) => After(r, x) = x
         /\ Mutates(r) \/ r.op = "open" => Found(r, x) = {}
  BY DEF After, Found, Mutates, Records

\* What a program sees of a store is records, or a file that does not decode.
LEMMA VisibleType ==
  ASSUME RInv, NEW u \in Stores
  PROVE  /\ Visible(u) \in Records \cup {Corrupt}
         /\ u \in opened => Visible(u) \in Records /\ Visible(u) # Corrupt
  <1>1. mem[u] \in Records /\ mem[u] # Corrupt
    BY CorruptAssumption DEF RInv, IInv, TypeOK
  <1>2. CASE u \in Persisted /\ file[File[u]] # Corrupt
    <2>1. Decoded(file[File[u]]) \in Records
      BY <1>2, DecodedIsRecords DEF RInv, IInv, TypeOK, Files
    <2>. QED BY <1>1, <1>2, <2>1, CorruptAssumption DEF Visible
  <1>3. CASE u \in Persisted /\ file[File[u]] = Corrupt
    BY <1>1, <1>3 DEF Visible, RInv, IInv, FilesDecode
  <1>4. CASE u \notin Persisted
    BY <1>1, <1>4 DEF Visible
  <1>. QED BY <1>2, <1>3, <1>4

\* Outside the places between rename and publication, a program sees of an open
\* store what is in memory.
LEMMA VisibleQuiet ==
  ASSUME RInv, NEW u \in opened,
         u \in Persisted => \A p \in Procs : ~ Publishing(p, u)
  PROVE  Visible(u) = mem[u]
  BY DEF Visible, RInv, IInv, FilesDecode, MemoryMatchesFile, Publishing

\* A step that writes no file and no records, and moves nobody to or from the
\* directory sync, changes nothing a program sees.
LEMMA VisibleSame ==
  ASSUME NEW u, file' = file, mem' = mem,
         \A p \in Procs : /\ pc'[p] = "dirsync" <=> pc[p] = "dirsync"
                          /\ pc[p] = "dirsync" => req'[p] = req[p]
  PROVE  Visible(u)' = Visible(u)
  BY DEF Visible

\* What shows that a step is an abstract one: a call, ...
LEMMA IsCall ==
  ASSUME NEW p \in Procs, NEW r \in Requests,
         \A u \in Stores : Visible(u)' = Visible(u),
         \A q \in Procs : Answer(q)' = Answer(q),
         req[p] = NoCall, req' = [req EXCEPT ![p] = r]
  PROVE  Abstract!Call(p)
  BY SameData DEF Abstract!Call

\* ... the instant an operation takes effect, ...
LEMMA IsApply ==
  ASSUME NEW p \in Procs, NEW u \in Stores, u = req[p].store,
         req' = req, req[p] # NoCall, Granted(p, req[p]), Visible(u) # Corrupt,
         Visible(u)' = After(req[p], Visible(u)),
         \A v \in Stores : v # u => Visible(v)' = Visible(v),
         Answer(p) = NoReply, Answer(p)' = Done(Found(req[p], Visible(u))),
         \A q \in Procs : q # p => Answer(q)' = Answer(q)
  PROVE  Abstract!Apply(p)
  BY SameData DEF Abstract!Apply

\* ... a refusal, ...
LEMMA IsRefuse ==
  ASSUME NEW p \in Procs, req' = req, req[p] # NoCall,
         \A u \in Stores : Visible(u)' = Visible(u),
         Answer(p) = NoReply, Answer(p)' = Failed,
         \A q \in Procs : q # p => Answer(q)' = Answer(q)
  PROVE  Abstract!Refuse(p)
  BY SameData DEF Abstract!Refuse

\* ... a return, ...
LEMMA IsReturn ==
  ASSUME NEW p \in Procs, req' = [req EXCEPT ![p] = NoCall],
         \A u \in Stores : Visible(u)' = Visible(u),
         Answer(p) # NoReply, Answer(p)' = NoReply,
         \A q \in Procs : q # p => Answer(q)' = Answer(q)
  PROVE  Abstract!Return(p)
  BY SameData DEF Abstract!Return

\* ... or no step.
LEMMA IsStutter ==
  ASSUME req' = req,
         \A u \in Stores : Visible(u)' = Visible(u),
         \A q \in Procs : Answer(q)' = Answer(q)
  PROVE  UNCHANGED Abstract!vars
  BY DEF Abstract!vars
-----------------------------------------------------------------------------
(* Every step is an abstract step or no step: one lemma per kind.          *)

\* Calls and refusals at the capability checks.
LEMMA CheckRefines ==
  ASSUME RInv, NEW p \in Procs,
         (\E r \in Requests : Invoke(p, r)) \/ StoreHandle(p)
  PROVE  [Abstract!Next]_Abstract!vars
  <1>1. ASSUME NEW r \in Requests, Invoke(p, r)
        PROVE  Abstract!Call(p)
    <2> USE <1>1 DEF Invoke, Goto, disk
    <2>1. req[p] = NoCall
      BY DEF RInv, IInv, RequestsInPlace
    <2>2. \A u \in Stores : Visible(u)' = Visible(u)
      BY VisibleSame DEF RInv, IInv, TypeOK
    <2>3. \A q \in Procs : Answer(q)' = Answer(q)
      BY DEF Answer, RInv, IInv, TypeOK
    <2>. QED BY <2>1, <2>2, <2>3, IsCall
  <1>2. CASE StoreHandle(p)
    <2> USE <1>2 DEF StoreHandle, Goto, disk
    <2>1. req[p] # NoCall /\ out[p] = NoReply /\ req' = req
      BY DEF RInv, IInv, RequestsInPlace, OutcomesInPlace, Pending
    <2>2. Lane(req[p]) \notin {"dirsync", "commit"}
      BY DEF Lane
    <2>3. \A u \in Stores : Visible(u)' = Visible(u)
      BY <2>2, VisibleSame DEF RInv, IInv, TypeOK
    <2>4. \A q \in Procs : q # p => Answer(q)' = Answer(q)
      BY DEF Answer, RInv, IInv, TypeOK
    <2>5. CASE Granted(p, req[p])
      <3>1. Answer(p)' = Answer(p)
        BY <2>2, <2>5 DEF Answer, RInv, IInv, TypeOK
      <3>. QED BY <2>1, <2>3, <2>4, <3>1, IsStutter
    <2>6. CASE ~ Granted(p, req[p])
      <3>1. Answer(p) = NoReply /\ Answer(p)' = Failed
        BY <2>1, <2>6 DEF Answer, RInv, IInv, TypeOK
      <3>. QED BY <2>1, <2>3, <2>4, <3>1, IsRefuse DEF Abstract!Next
    <2>. QED BY <2>5, <2>6
  <1>. QED BY <1>1, <1>2 DEF Abstract!Next

\* Waiting for a lock, draining readers and the steps on the temporary file.
LEMMA PreparationRefines ==
  ASSUME RInv, NEW p \in Procs,
         \/ Acquire(p) \/ DrainReaders(p)
         \/ CreateTemp(p) \/ WriteTemp(p) \/ SyncTemp(p) \/ CloseTemp(p)
  PROVE  [Abstract!Next]_Abstract!vars
  <1>1. /\ file' = file /\ mem' = mem /\ req' = req /\ out' = out
        /\ pc \in [Procs -> Pcs]
        /\ \E from, to \in Pcs \ {"dirsync", "commit"} : Goto(p, from, to)
    BY DEF Acquire, LockRegistry, Lock, RLock, DrainReaders, CreateTemp, WriteTemp,
           SyncTemp, CloseTemp, StepTemp, disk, RInv, IInv, TypeOK, Pcs, RegistryPcs,
           ReadPcs, WritePcs, PersistPcs, DrainPcs
  <1>2. \A q \in Procs : \A place \in {"dirsync", "commit"} :
          pc'[q] = place <=> pc[q] = place
    BY <1>1 DEF Goto
  <1>3. \A u \in Stores : Visible(u)' = Visible(u)
    BY <1>1, <1>2, VisibleSame
  <1>4. \A q \in Procs : Answer(q)' = Answer(q)
    BY <1>1, <1>2 DEF Answer
  <1>. QED BY <1>1, <1>3, <1>4, IsStutter

\* Returns: the goroutine leaves its critical section and pushes its value or
\* raises its error.
LEMMA FinishRefines ==
  ASSUME RInv, NEW p \in Procs,
         Refused(p) \/ UnlockRegistry(p) \/ RUnlock(p) \/ Unlock(p)
  PROVE  [Abstract!Next]_Abstract!vars
  <1>1. /\ Finish(p) /\ file' = file /\ mem' = mem
        /\ pc[p] \in {"refused", "unlockRegistry", "unlockRead", "unlockWrite"}
    BY DEF Refused, UnlockRegistry, RUnlock, Unlock, disk
  <1>2. out[p] # NoReply
    BY <1>1 DEF RInv, OutcomesInPlace, Pending, WritePcs, PersistPcs, DrainPcs
  <1>3. \A q \in Procs :
          /\ q # p => pc'[q] = pc[q] /\ req'[q] = req[q] /\ out'[q] = out[q]
          /\ q = p => pc'[q] = "idle" /\ out'[q] = NoReply
    BY <1>1 DEF Finish, RInv, IInv, TypeOK
  <1>4. \A u \in Stores : Visible(u)' = Visible(u)
    BY <1>1, <1>3, VisibleSame
  <1>5. Answer(p) # NoReply /\ Answer(p)' = NoReply
    BY <1>1, <1>2, <1>3 DEF Answer
  <1>6. \A q \in Procs : q # p => Answer(q)' = Answer(q)
    BY <1>3 DEF Answer
  <1>7. Abstract!Return(p)
    BY <1>1, <1>4, <1>5, <1>6, IsReturn DEF Finish
  <1>. QED BY <1>7 DEF Abstract!Next

\* A write that fails has done nothing.
LEMMA AbortRefines ==
  ASSUME RInv, NEW p \in Procs, Abort(p), pc[p] \in {"clone"} \cup PersistPcs
  PROVE  [Abstract!Next]_Abstract!vars
  <1> USE DEF Abort, disk
  <1>1. out[p] = NoReply /\ req[p] # NoCall
    BY DEF RInv, IInv, RequestsInPlace, OutcomesInPlace, Pending, WritePcs, PersistPcs
  <1>2. \A q \in Procs :
          /\ q # p => pc'[q] = pc[q] /\ out'[q] = out[q]
          /\ q = p => pc'[q] = "unlockWrite" /\ out'[q] = Failed
    BY DEF RInv, IInv, TypeOK
  <1>3. \A u \in Stores : Visible(u)' = Visible(u)
    BY <1>2, VisibleSame DEF PersistPcs
  <1>4. Answer(p) = NoReply /\ Answer(p)' = Failed
    BY <1>1, <1>2 DEF Answer, PersistPcs
  <1>5. \A q \in Procs : q # p => Answer(q)' = Answer(q)
    BY <1>2 DEF Answer
  <1>. QED BY <1>1, <1>3, <1>4, <1>5, IsRefuse DEF Abstract!Next

LEMMA CloneRefines ==
  ASSUME RInv, NEW p \in Procs, CloneRecords(p)
  PROVE  [Abstract!Next]_Abstract!vars
  <1> USE DEF CloneRecords, disk
  <1>1. CASE Abort(p)
    BY <1>1, AbortRefines
  <1>2. CASE ~ Abort(p)
    <2>1. /\ file' = file /\ mem' = mem /\ req' = req /\ out' = out
          /\ pc[p] = "clone"
          /\ pc' = [pc EXCEPT ![p] =
                      IF req[p].store \in Persisted THEN "create" ELSE "commit"]
      BY <1>2
    <2>2. \A q \in Procs :
            /\ q # p => pc'[q] = pc[q]
            /\ q = p => /\ pc'[q] \in {"create", "commit"}
                        /\ pc'[q] = "commit" => req[q].store \notin Persisted
      BY <2>1 DEF RInv, IInv, TypeOK
    <2>3. \A u \in Stores : Visible(u)' = Visible(u)
      BY <2>1, <2>2, VisibleSame
    <2>4. \A q \in Procs : Answer(q)' = Answer(q)
      BY <2>1, <2>2 DEF Answer
    <2>. QED BY <2>1, <2>3, <2>4, IsStutter
  <1>. QED BY <1>1, <1>2

\* Opening a store, at the moment its file has been read.
LEMMA OpenRefines ==
  ASSUME RInv, NEW p \in Procs, OpenStore(p)
  PROVE  [Abstract!Next]_Abstract!vars
  <1> USE DEF OpenStore, Goto, disk
  <1>1. /\ req[p] \in Requests /\ req[p].op = "open" /\ req[p].store \in Stores
        /\ req[p] # NoCall /\ out[p] = NoReply /\ Granted(p, req[p])
    BY RequestFields
    DEF RInv, IInv, TypeOK, RequestsInPlace, OutcomesInPlace, Pending, RegistryPcs
  <1>2. PICK u \in Stores : u = req[p].store
    BY <1>1
  <1>3. \A q \in Procs : q # p => pc'[q] = pc[q] /\ out'[q] = out[q]
    BY DEF RInv, IInv, TypeOK
  <1>4. /\ Answer(p) = NoReply /\ Answer(p)' = out'[p]
        /\ \A q \in Procs : q # p => Answer(q)' = Answer(q)
    BY <1>1, <1>3 DEF Answer, RInv, IInv, TypeOK
  <1>5. \A q \in Procs : pc[q] = "dirsync" <=> pc'[q] = "dirsync"
    BY <1>3 DEF RInv, IInv, TypeOK
  <1>6. ASSUME u \notin opened
        PROVE  \A q \in Procs : pc[q] = "dirsync" => req[q].store # u
    BY <1>6 DEF RInv, IInv, RequestsInPlace, WritePcs, Mutates
  <1>7. \A v \in Stores : Visible(v)' = Visible(v)
    <2>1. CASE mem' = mem
      BY <1>5, <2>1, VisibleSame
    <2>2. CASE mem' # mem
      <3> SUFFICES ASSUME NEW v \in Stores PROVE Visible(v)' = Visible(v)
        OBVIOUS
      <3>1. u \notin opened /\ mem'[u] =
              IF u \in Persisted THEN Decoded(file[File[u]]) ELSE Empty
        BY <1>2, <2>2 DEF RInv, IInv, TypeOK
      <3>2. CASE v # u
        <4>1. mem'[v] = mem[v]
          BY <1>2, <3>2 DEF RInv, IInv, TypeOK
        <4>. QED BY <1>5, <4>1 DEF Visible
      <3>3. CASE v = u /\ u \notin Persisted
        BY <3>1, <3>3 DEF Visible, RInv, ClosedIsEmpty
      <3>4. CASE v = u /\ u \in Persisted
        BY <1>5, <1>6, <3>1, <3>4 DEF Visible
      <3>. QED BY <3>2, <3>3, <3>4
    <2>. QED BY <2>1, <2>2
  <1>8. CASE out'[p] = Failed
    BY <1>1, <1>4, <1>7, <1>8, IsRefuse DEF Abstract!Next
  <1>9. CASE out'[p] = Done({})
    <2>1. Visible(u) \in Records /\ Visible(u) # Corrupt
      <3>1. CASE u \in opened
        BY <3>1, VisibleType
      <3>2. CASE u \notin opened
        <4>1. u \in Persisted => file[File[u]] # Corrupt
          BY <1>2, <1>9, <3>2, OutcomeValues DEF RInv, IInv, TypeOK
        <4>2. Visible(u) # Corrupt
          BY <1>6, <3>2, <4>1, CorruptAssumption, NativeStoreAssumption, DecodedIsRecords
          DEF Visible, RInv, IInv, TypeOK, Files
        <4>. QED BY <4>2, VisibleType
      <3>. QED BY <3>1, <3>2
    <2>2. After(req[p], Visible(u)) = Visible(u) /\ Found(req[p], Visible(u)) = {}
      BY <1>1, <2>1, EffectOfRequest DEF Mutates
    <2>. QED
      BY <1>1, <1>2, <1>4, <1>7, <1>9, <2>1, <2>2, IsApply DEF Abstract!Next
  <1>10. out'[p] \in {Failed, Done({})}
    BY DEF RInv, IInv, TypeOK
  <1>. QED BY <1>8, <1>9, <1>10

\* Reading: the reader's lock keeps every writer out of the records.
LEMMA ReadRefines ==
  ASSUME RInv, NEW p \in Procs, ReadRecords(p)
  PROVE  [Abstract!Next]_Abstract!vars
  <1> USE DEF ReadRecords, Goto, disk
  <1>1. /\ req[p] \in Requests /\ req[p].op \in {"get", "keys"}
        /\ req[p].store \in Stores /\ req[p].store \in opened
        /\ req[p] # NoCall /\ out[p] = NoReply /\ Granted(p, req[p])
    BY RequestFields
    DEF RInv, IInv, TypeOK, RequestsInPlace, OutcomesInPlace, Pending, ReadPcs
  <1>2. PICK u \in opened : u = req[p].store
    BY <1>1
  <1>3. u \in Stores
    BY <1>1, <1>2
  <1>4. \A q \in Procs : q # p => pc'[q] = pc[q] /\ out'[q] = out[q]
    BY DEF RInv, IInv, TypeOK
  <1>5. /\ Answer(p) = NoReply /\ Answer(p)' = out'[p]
        /\ \A q \in Procs : q # p => Answer(q)' = Answer(q)
    BY <1>1, <1>4 DEF Answer, RInv, IInv, TypeOK
  <1>6. \A v \in Stores : Visible(v)' = Visible(v)
    BY <1>4, VisibleSame DEF RInv, IInv, TypeOK
  <1>7. Visible(u) = mem[u]
    <2>1. p \in readers[u]
      BY <1>2, <1>3 DEF RInv, IInv, LocksHeldByWorkers, ReadPcs
    <2>2. \A q \in Procs : ~ Publishing(q, u)
      BY <1>3, <2>1
      DEF RInv, IInv, LocksHeldByWorkers, Publishing, WritePcs, DrainPcs
    <2>. QED BY <2>2, VisibleQuiet
  <1>8. CASE out'[p] = Failed
    BY <1>1, <1>5, <1>6, <1>8, IsRefuse DEF Abstract!Next
  <1>9. CASE out'[p] = Done(Found(req[p], mem[req[p].store]))
    <2>1. Visible(u) \in Records /\ Visible(u) # Corrupt
      BY <1>3, VisibleType
    <2>2. After(req[p], Visible(u)) = Visible(u)
      BY <1>1, <2>1, EffectOfRequest DEF Mutates
    <2>. QED
      BY <1>1, <1>2, <1>3, <1>5, <1>6, <1>7, <1>9, <2>1, <2>2, IsApply DEF Abstract!Next
  <1>10. out'[p] \in {Failed, Done(Found(req[p], mem[req[p].store]))}
    BY DEF RInv, IInv, TypeOK
  <1>. QED BY <1>8, <1>9, <1>10
\* The rename shows nothing new to a program: it waits for the lock.
LEMMA RenameRefines ==
  ASSUME NoAlias, RInv, NEW p \in Procs, RenameTemp(p)
  PROVE  [Abstract!Next]_Abstract!vars
  <1> USE DEF RenameTemp, Goto
  <1>1. PICK u \in Persisted : u = req[p].store
    BY DEF RInv, IInv, RequestsInPlace, PersistPcs
  <1>2. u \in opened /\ u \in Stores
    BY <1>1, StoreAssumption
    DEF RInv, IInv, RequestsInPlace, WritePcs, PersistPcs, Mutates
  <1>3. \A q \in Procs : ~ Publishing(q, u)
    BY <1>1, OneWriter DEF RInv, Publishing, WritePcs, PersistPcs
  <1>4. Visible(u) = mem[u]
    BY <1>2, <1>3, VisibleQuiet
  <1>5. \A q \in Procs : /\ q # p => pc'[q] = pc[q]
                         /\ q = p => pc[q] = "rename" /\ pc'[q] = "dirsync"
    BY DEF RInv, IInv, TypeOK
  <1>6. Visible(u)' = mem[u]
    BY <1>1, <1>5 DEF Visible
  <1>7. ASSUME NEW v \in Stores, v # u
        PROVE  Visible(v)' = Visible(v)
    <2>1. (\E q \in Procs : pc'[q] = "dirsync" /\ req'[q].store = v)
            <=> \E q \in Procs : pc[q] = "dirsync" /\ req[q].store = v
      BY <1>1, <1>5, <1>7
    <2>2. v \in Persisted => file'[File[v]] = file[File[v]]
      BY <1>1, <1>7 DEF NoAlias, RInv, IInv, TypeOK, Files
    <2>. QED BY <2>1, <2>2 DEF Visible
  <1>8. \A v \in Stores : Visible(v)' = Visible(v)
    BY <1>4, <1>6, <1>7
  <1>9. \A q \in Procs : Answer(q)' = Answer(q)
    BY <1>5 DEF Answer
  <1>. QED BY <1>8, <1>9, IsStutter

\* The directory sync is the instant a write to a file takes effect.
LEMMA SyncDirRefines ==
  ASSUME RInv, NEW p \in Procs, SyncDir(p)
  PROVE  [Abstract!Next]_Abstract!vars
  <1> USE DEF SyncDir, Goto
  <1>1. /\ req[p] \in Requests /\ Mutates(req[p]) /\ req[p].store \in Persisted
        /\ req[p].store \in opened
        /\ req[p] # NoCall /\ out[p] = NoReply /\ Granted(p, req[p])
        /\ draft[p] = After(req[p], mem[req[p].store])
    BY RequestFields
    DEF RInv, IInv, TypeOK, RequestsInPlace, OutcomesInPlace, DraftsInPlace, Pending,
        WritePcs, Mutates
  <1>2. PICK u \in Persisted : u = req[p].store
    BY <1>1
  <1>3. u \in Stores
    BY StoreAssumption
  <1>4. \A q \in Procs : /\ q # p => pc'[q] = pc[q]
                         /\ q = p => pc[q] = "dirsync" /\ pc'[q] = "commit"
    BY DEF RInv, IInv, TypeOK
  <1>5. \A q \in Procs : pc[q] = "dirsync" /\ req[q].store = u => q = p
    BY <1>2, OneWriter DEF RInv, WritePcs
  <1>6. Visible(u) = mem[u] /\ mem[u] \in Records /\ mem[u] # Corrupt
    BY <1>2, <1>3, CorruptAssumption DEF Visible, RInv, IInv, TypeOK
  <1>7. Visible(u)' = draft[p]
    <2>1. file[File[u]] = draft[p]
      BY <1>2, RenamedFileIsDraft DEF RInv
    <2>2. draft[p] # Corrupt /\ Decoded(draft[p]) = draft[p]
      BY CorruptAssumption, NativeStoreAssumption DEF Decoded, RInv, IInv, TypeOK
    <2>3. ~ \E q \in Procs : pc'[q] = "dirsync" /\ req'[q].store = u
      BY <1>4, <1>5
    <2>. QED BY <2>1, <2>2, <2>3 DEF Visible
  <1>8. \A v \in Stores : v # u => Visible(v)' = Visible(v)
    <2> SUFFICES ASSUME NEW v \in Stores, v # u PROVE Visible(v)' = Visible(v)
      OBVIOUS
    <2>1. (\E q \in Procs : pc'[q] = "dirsync" /\ req'[q].store = v)
            <=> \E q \in Procs : pc[q] = "dirsync" /\ req[q].store = v
      BY <1>2, <1>4
    <2>. QED BY <2>1 DEF Visible
  <1>9. Found(req[p], Visible(u)) = {}
    BY <1>1, <1>6, EffectOfRequest
  <1>10. /\ Answer(p) = NoReply /\ Answer(p)' = Done({})
         /\ \A q \in Procs : q # p => Answer(q)' = Answer(q)
    BY <1>1, <1>4 DEF Answer
  <1>11. Abstract!Apply(p)
    BY <1>1, <1>2, <1>3, <1>6, <1>7, <1>8, <1>9, <1>10, IsApply
  <1>. QED BY <1>11 DEF Abstract!Next

\* Publishing the copy in memory: the instant a write to a memory:// store takes
\* effect, and no step for a file:// store.
LEMMA CommitRefines ==
  ASSUME RInv, NEW p \in Procs, CommitRecords(p)
  PROVE  [Abstract!Next]_Abstract!vars
  <1> USE DEF CommitRecords, Goto, disk
  <1>1. /\ req[p] \in Requests /\ Mutates(req[p]) /\ req[p].store \in Stores
        /\ req[p].store \in opened
        /\ req[p] # NoCall /\ out[p] = NoReply /\ Granted(p, req[p])
        /\ draft[p] = After(req[p], mem[req[p].store])
    BY RequestFields
    DEF RInv, IInv, TypeOK, RequestsInPlace, OutcomesInPlace, DraftsInPlace, Pending,
        WritePcs, Mutates
  <1>2. PICK u \in Stores : u = req[p].store
    BY <1>1
  <1>3. \A q \in Procs :
          /\ q # p => pc'[q] = pc[q] /\ out'[q] = out[q]
          /\ q = p => pc[q] = "commit" /\ pc'[q] = "unlockWrite" /\ out'[q] = Done({})
    BY DEF RInv, IInv, TypeOK
  <1>4. \A q \in Procs : pc[q] = "dirsync" => req[q].store # u
    BY <1>2, OneWriter DEF RInv, WritePcs
  <1>5. \A v \in Stores : v # u => mem'[v] = mem[v]
    BY <1>2 DEF RInv, IInv, TypeOK
  <1>6. \A q \in Procs : pc[q] = "dirsync" <=> pc'[q] = "dirsync"
    BY <1>3
  <1>7. \A v \in Stores : v # u => Visible(v)' = Visible(v)
    BY <1>5, <1>6 DEF Visible
  <1>8. \A q \in Procs : q # p => Answer(q)' = Answer(q)
    BY <1>3 DEF Answer
  <1>9. CASE u \in Persisted
    <2>1. Visible(u)' = Visible(u)
      BY <1>4, <1>6, <1>9 DEF Visible
    <2>2. Answer(p)' = Answer(p)
      BY <1>2, <1>3, <1>9 DEF Answer
    <2>3. \A v \in Stores : Visible(v)' = Visible(v)
      BY <1>7, <2>1
    <2>. QED BY <1>8, <2>2, <2>3, IsStutter
  <1>10. CASE u \notin Persisted
    <2>1. Visible(u) = mem[u] /\ mem[u] \in Records /\ mem[u] # Corrupt
      BY <1>10, CorruptAssumption DEF Visible, RInv, IInv, TypeOK
    <2>2. Visible(u)' = After(req[p], Visible(u))
      BY <1>1, <1>2, <1>10, <2>1 DEF Visible, RInv, IInv, TypeOK
    <2>3. Found(req[p], Visible(u)) = {}
      BY <1>1, <2>1, EffectOfRequest
    <2>4. Answer(p) = NoReply /\ Answer(p)' = Done({})
      BY <1>1, <1>2, <1>3, <1>10 DEF Answer
    <2>5. Abstract!Apply(p)
      BY <1>1, <1>2, <1>7, <1>8, <2>1, <2>2, <2>3, <2>4, IsApply
    <2>. QED BY <2>5 DEF Abstract!Next
  <1>. QED BY <1>9, <1>10

\* A restart: what a file holds then is what a program saw of it, or that with
\* the one operation between rename and directory sync applied.
LEMMA RestartRefines ==
  ASSUME RInv, CrashProcess \/ (PowerLoss /\ Gentle)
  PROVE  [Abstract!Next]_Abstract!vars
  <1>1. StartAgain
    BY DEF CrashProcess, PowerLoss
  <1>2. \A p \in Procs : pc'[p] = "idle" /\ out'[p] = NoReply
    BY <1>1 DEF StartAgain
  <1>3. /\ req' = [p \in Procs |-> NoCall]
        /\ \A p \in Procs : Answer(p)' = NoReply
    BY <1>1, <1>2 DEF StartAgain, Answer
  <1>4. \A u \in Stores \ Persisted : Visible(u)' = Empty
    BY <1>1 DEF StartAgain, Visible
  <1>5. ASSUME NEW u \in Persisted
        PROVE  Visible(u)' = IF file'[File[u]] = Corrupt THEN Corrupt
                                                          ELSE Decoded(file'[File[u]])
    BY <1>2, <1>5 DEF Visible
  <1>6. ASSUME NEW u \in Persisted
        PROVE  Visible(u)' \in Records \cup {Corrupt}
    <2>1. file'[File[u]] \in Contents
      BY <1>6 DEF CrashProcess, PowerLoss, disk, RInv, IInv, TypeOK, Files
    <2>. QED BY <1>5, <1>6, <2>1, DecodedIsRecords
  <1>7. ASSUME NEW u \in Persisted
        PROVE  \/ Visible(u)' = Visible(u)
               \/ \E p \in Procs : /\ pc[p] = "dirsync" /\ req[p].store = u
                                   /\ Visible(u)' = draft[p]
                                   /\ Visible(u) = mem[u]
    <2>1. \/ file'[File[u]] = file[File[u]]
          \/ Gentle /\ file'[File[u]] \in survives[File[u]]
      <3>1. CASE CrashProcess
        BY <3>1 DEF CrashProcess, disk
      <3>2. CASE PowerLoss /\ Gentle
        <4>1. File[u] \in Files
          BY <1>7 DEF Files
        <4>. QED BY <3>2, <4>1 DEF PowerLoss
      <3>. QED BY <3>1, <3>2
    <2>2. CASE \E p \in Procs : pc[p] = "dirsync" /\ req[p].store = u
      <3>1. PICK p \in Procs : pc[p] = "dirsync" /\ req[p].store = u
        BY <2>2
      <3>2. u \in opened /\ u \in Stores
        BY <3>1, StoreAssumption DEF RInv, IInv, RequestsInPlace, WritePcs, Mutates
      <3>3. file[File[u]] = draft[p]
        BY <1>7, <3>1, RenamedFileIsDraft DEF RInv
      <3>4. Visible(u) = mem[u]
        BY <1>7, <2>2 DEF Visible
      <3>5. draft[p] # Corrupt /\ Decoded(draft[p]) = draft[p]
        BY CorruptAssumption, NativeStoreAssumption DEF Decoded, RInv, IInv, TypeOK
      <3>6. \A q \in Procs : pc[q] = "dirsync" /\ req[q].store = u => q = p
        BY <3>1, OneWriter DEF RInv, WritePcs
      <3>7. file'[File[u]] = draft[p] \/ Decoded(file'[File[u]]) = mem[u]
        BY <1>7, <2>1, <3>3, <3>6 DEF RInv, SurvivesOldOrNew
      <3>8. file'[File[u]] # Corrupt
        BY <1>7, <2>1, <3>2, <3>3, <3>5 DEF RInv, IInv, FilesDecode, Files
      <3>. QED BY <1>5, <3>1, <3>4, <3>5, <3>7, <3>8
    <2>3. CASE ~ \E p \in Procs : pc[p] = "dirsync" /\ req[p].store = u
      <3>1. file'[File[u]] = file[File[u]]
        BY <2>1, <2>3 DEF RInv, SurvivesOldOrNew
      <3>. QED BY <1>5, <2>3, <3>1 DEF Visible
    <2>. QED BY <2>2, <2>3
  <1>8. ASSUME NEW u \in Persisted, Visible(u)' # Visible(u)
        PROVE  \E p \in Procs :
                 /\ req[p] # NoCall /\ req[p].store = u /\ Answer(p) = NoReply
                 /\ Granted(p, req[p]) /\ Visible(u) # Corrupt
                 /\ Visible(u)' = After(req[p], Visible(u))
    <2>1. PICK p \in Procs : /\ pc[p] = "dirsync" /\ req[p].store = u
                             /\ Visible(u)' = draft[p] /\ Visible(u) = mem[u]
      BY <1>7, <1>8
    <2>2. /\ req[p] # NoCall /\ out[p] = NoReply /\ Granted(p, req[p])
          /\ draft[p] = After(req[p], mem[u])
      BY <2>1
      DEF RInv, IInv, RequestsInPlace, OutcomesInPlace, DraftsInPlace, Pending, WritePcs
    <2>3. mem[u] # Corrupt
      BY StoreAssumption, CorruptAssumption DEF RInv, IInv, TypeOK
    <2>4. Answer(p) = NoReply
      BY <2>1, <2>2 DEF Answer
    <2>. QED BY <2>1, <2>2, <2>3, <2>4
  <1>9. Abstract!Crash
    <2>1. \A u \in Stores : IF u \in Persisted
                              THEN [v \in Stores |-> Visible(v)]'[u] \in Abstract!CrashOutcomes(u)
                              ELSE [v \in Stores |-> Visible(v)]'[u] = Abstract!Empty
      BY <1>4, <1>8, SameData, StoreAssumption DEF Abstract!CrashOutcomes
    <2>2. [v \in Stores |-> Visible(v)]' \in [Stores -> Abstract!Records \cup {Corrupt}]
      <3>1. Empty \in Records
        BY DEF Empty, Records
      <3>. QED BY <1>4, <1>6, <3>1, SameData
    <2>. QED BY <1>3, <2>1, <2>2, SameData DEF Abstract!Crash
  <1>. QED BY <1>9 DEF Abstract!Next
LEMMA NextRefines ==
  ASSUME NoAlias, "power" \notin Faults \/ Gentle, RInv, [Next]_vars
  PROVE  [Abstract!Next]_Abstract!vars
  <1>1. ASSUME NEW p \in Procs, (\E r \in Requests : Invoke(p, r)) \/ Acquire(p)
        PROVE  [Abstract!Next]_Abstract!vars
    BY <1>1, CheckRefines, PreparationRefines
  <1>2. ASSUME NEW p \in Procs, FailPersist(p)
        PROVE  [Abstract!Next]_Abstract!vars
    BY <1>2, AbortRefines DEF FailPersist
  <1>3. ASSUME NEW p \in Procs, Work(p)
        PROVE  [Abstract!Next]_Abstract!vars
    BY <1>2, <1>3, CheckRefines, PreparationRefines, FinishRefines, CloneRefines,
       OpenRefines, ReadRefines, RenameRefines, SyncDirRefines, CommitRefines
    DEF Work
  <1>4. CASE CrashProcess \/ PowerLoss
    BY <1>4, RestartRefines DEF PowerLoss
  <1>5. CASE UNCHANGED vars
    <2>1. \A u \in Stores : Visible(u)' = Visible(u)
      BY <1>5 DEF vars, Visible
    <2>2. \A q \in Procs : Answer(q)' = Answer(q)
      BY <1>5 DEF vars, Answer
    <2>. QED BY <1>5, <2>1, <2>2, IsStutter DEF vars
  <1>. QED BY <1>1, <1>3, <1>4, <1>5 DEF Next

LEMMA InitRefines ==
  ASSUME RInv, Init
  PROVE  Abstract!Init
  <1>1. \A u \in Stores : Visible(u) \in Records \cup {Corrupt}
    BY VisibleType
  <1>2. \A u \in Stores \ Persisted : Visible(u) = Empty
    BY DEF Init, FreshProcess, Visible
  <1>3. req = [p \in Procs |-> NoCall] /\ \A p \in Procs : Answer(p) = NoReply
    BY DEF Init, FreshProcess, Answer
  <1>. QED BY <1>1, <1>2, <1>3, SameData DEF Abstract!Init

\* The native store is linearizable and crash-safe: when no file has two URIs,
\* every behaviour of the locks, copies, files and crashes of vm.go is one of the
\* abstract store, whose operations each take effect at one instant or not at
\* all.  With power losses this needs every directory sync to succeed and no
\* process to die before one.
THEOREM StoreRefines ==
  NoAlias /\ ("power" \notin Faults \/ Gentle) => (Spec => ImplementsRecordStore)
  <1> SUFFICES ASSUME NoAlias, "power" \notin Faults \/ Gentle
               PROVE  Spec => ImplementsRecordStore
    OBVIOUS
  <1>1. Init => RInv
    BY InitRInv
  <1>2. RInv /\ [Next]_vars => RInv'
    BY RInvStep
  <1>3. Spec => []RInv
    BY <1>1, <1>2, PTL DEF Spec
  <1>4. Init => Abstract!Init
    BY InitRInv, InitRefines
  <1>5. RInv /\ [Next]_vars => [Abstract!Next]_Abstract!vars
    BY NextRefines
  <1>. QED BY <1>3, <1>4, <1>5, PTL DEF Spec, ImplementsRecordStore, Abstract!Spec
=============================================================================
