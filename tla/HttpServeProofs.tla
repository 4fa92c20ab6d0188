-------------------------- MODULE HttpServeProofs --------------------------
(***************************************************************************)
(* Theorems about HttpServe, for every set of requests, every body size,   *)
(* limit and instruction budget.                                           *)
(***************************************************************************)
EXTENDS HttpServe, TLAPS

\* The lock is held exactly while a handler runs and is wound up; a handler's
\* copy of the data is then the data.
LockInv(r) ==
  /\ serial = r <=> (Serialized /\ pc[r] \in {"run", "recover", "unlock"})
  /\ Serialized => pc[r] # "send"
  /\ pc[r] \in {"preread", "wantLock", "unlock"} => Serialized
  /\ pc[r] \in {"new", "preread", "wantLock"} => seen[r] = {}
  /\ Serialized /\ pc[r] = "run" => seen[r] \subseteq {data}

\* What of the body has arrived and been taken off the connection.
StreamInv(r) ==
  /\ taken[r] <= arrived[r] /\ arrived[r] <= Size[r]
  /\ upload[r] = "complete" => arrived[r] = Size[r]
  /\ upload[r] = "open" => arrived[r] < Size[r]
  /\ pc[r] \in {"new", "preread"} => input[r] = Connection /\ taken[r] = 0
  /\ Serialized /\ pc[r] \notin {"new", "preread"} => input[r].kind # "connection"
  /\ pc[r] = "preread" => r \notin Bodyless

\* What r.Body still holds is the whole body, or more than the limit of an
\* oversize one, or does not start where the body starts.
BufferInv(r) ==
  input[r].kind = "buffer" =>
    /\ input[r].from <= input[r].upto
    /\ input[r].from = 0 /\ r \notin Bodyless =>
         input[r].upto > Limit \/ (input[r].upto = Size[r] /\ Size[r] <= Limit)
    /\ Serialized =>
         /\ input[r].from # 0 => input[r].from = input[r].upto
         /\ input[r].upto <= Limit + 1
         /\ r \in Bodyless => input[r].upto = 0

\* What is committed fits the fault, and what is answered fits both.
ReplyInv(r) ==
  /\ pc[r] \in {"new", "preread", "wantLock", "run"} => fault[r] = None
  /\ pc[r] = "recover" => fault[r] # None
  /\ pc[r] = "send" => committed[r] # None
  /\ fault[r] # None /\ pc[r] # "recover" => committed[r] # None
  /\ input[r].kind = "incomplete" => upload[r] = "broken"
  /\ fault[r] = "INVALID_REQUEST_BODY" => upload[r] = "broken"
  /\ committed[r] # "implicit success"
  /\ committed[r] = "internal error" => fault[r] # None
  /\ committed[r] = "bad request" => upload[r] = "broken"
  /\ answer[r] = "lost" => r \in Slow
  /\ answer[r] \in {None, "lost", committed[r]} \/ (pc[r] = "done" /\ answer[r] = Final(r))
  /\ pc[r] = "done" => answer[r] # None

IInv ==
  /\ TypeOK
  /\ \A r \in Requests : LockInv(r) /\ StreamInv(r) /\ BufferInv(r) /\ ReplyInv(r)

-----------------------------------------------------------------------------
(* Facts about the values, and about one bounded read.                     *)

\* "No response" and "no fault" are neither a status nor a fault.
LEMMA NoneFacts ==
  /\ None \notin {"own", "bad request", "internal error", "implicit success", "lost"}
  /\ None \notin {"INVALID_REQUEST_BODY", "IO_ERROR", "LIMIT_EXCEEDED", "OTHER"}
  BY NoneAssumption DEF Statuses, Faults

\* The numbers of one request are natural numbers.
LEMMA RequestTypes ==
  ASSUME TypeOK, NEW r \in Requests
  PROVE  /\ Limit \in Nat /\ Size[r] \in Nat /\ arrived[r] \in Nat /\ taken[r] \in Nat
         /\ input[r].kind \in {"connection", "buffer", "incomplete"}
         /\ input[r].from \in Nat /\ input[r].upto \in Nat
  BY HttpServeAssumption DEF TypeOK, Inputs

\* The three kinds of r.Body.
LEMMA InputFields ==
  /\ Connection \in Inputs /\ Connection.kind = "connection"
  /\ Incomplete \in Inputs /\ Incomplete.kind = "incomplete"
  /\ \A i, j \in Nat :
       /\ Buffer(i, j) \in Inputs /\ Buffer(i, j).kind = "buffer"
       /\ Buffer(i, j).from = i /\ Buffer(i, j).upto = j
  BY DEF Connection, Incomplete, Buffer, Inputs

\* A read takes no more than has arrived; without an error it took the rest of
\* a body that is complete.
LEMMA BoundedRead ==
  ASSUME TypeOK, NEW r \in Requests, StreamInv(r)
  PROVE  /\ Bounded(r) \in Nat
         /\ taken[r] + Bounded(r) \in Nat
         /\ taken[r] + Bounded(r) <= arrived[r]
         /\ Bounded(r) <= Limit + 1
         /\ ReadEnds(r) /\ ~ReadFails(r) =>
              Bounded(r) = Limit + 1 \/ (Bounded(r) <= Limit /\ taken[r] + Bounded(r) = Size[r])
  BY HttpServeAssumption DEF TypeOK, StreamInv, Bounded, Available, LimitReader, ReadEnds,
      ReadFails

\* The chunk of a read is a range.  Without an error it is what was left of the
\* body, and not longer than the limit.
LEMMA ChunkRange ==
  ASSUME TypeOK, NEW r \in Requests, StreamInv(r), BufferInv(r),
         input[r].kind = "connection" => ReadEnds(r)
  PROVE  /\ Chunk(r) = <<Chunk(r)[1], Chunk(r)[2]>>
         /\ Chunk(r)[1] \in Nat /\ Chunk(r)[2] \in Nat
         /\ Chunk(r)[1] <= Chunk(r)[2]
         /\ input[r].kind = "connection" => Chunk(r)[2] <= arrived[r]
         /\ input[r].kind = "buffer" => Chunk(r)[1] = input[r].from
         /\ ReadError(r) \in Faults \cup {None}
         /\ ReadError(r) = "INVALID_REQUEST_BODY" <=> input[r].kind = "incomplete"
         /\ ReadError(r) = None =>
              /\ Chunk(r)[2] - Chunk(r)[1] <= Limit
              /\ input[r].kind = "connection" => Chunk(r)[2] = Size[r]
              /\ input[r].kind = "buffer" => Chunk(r)[2] = input[r].upto
         /\ ReadError(r) # None /\ input[r].kind = "buffer" =>
              /\ Chunk(r)[2] = input[r].from + Limit + 1
              /\ Chunk(r)[2] <= input[r].upto
  <1>0. /\ Limit \in Nat /\ taken[r] \in Nat /\ Bounded(r) \in Nat
        /\ input[r].kind \in {"connection", "buffer", "incomplete"}
        /\ input[r].from \in Nat /\ input[r].upto \in Nat
    BY BoundedRead, RequestTypes
  <1>1. CASE input[r].kind = "connection"
    <2>1. /\ Chunk(r) = <<taken[r], taken[r] + Bounded(r)>>
          /\ Chunk(r)[1] = taken[r] /\ Chunk(r)[2] = taken[r] + Bounded(r)
      BY <1>1 DEF Chunk
    <2>2. \/ ReadError(r) = "IO_ERROR" /\ ReadFails(r)
          \/ ReadError(r) = "LIMIT_EXCEEDED" /\ ~ReadFails(r)
          \/ ReadError(r) = None /\ ~ReadFails(r) /\ ~(Chunk(r)[2] - Chunk(r)[1] > Limit)
      BY <1>1 DEF ReadError
    <2>3. Chunk(r)[2] - Chunk(r)[1] = Bounded(r)
      BY <1>0, <2>1
    <2>4. ReadError(r) = None => Bounded(r) <= Limit /\ ~ReadFails(r)
      <3>1. ReadError(r) = None => ~ReadFails(r) /\ ~(Chunk(r)[2] - Chunk(r)[1] > Limit)
        BY <2>2, NoneFacts
      <3>. QED BY <1>0, <2>3, <3>1
    <2>5. ReadError(r) = None => Chunk(r)[2] = Size[r]
      BY <1>0, <1>1, <2>1, <2>4, BoundedRead
    <2>6. /\ ReadError(r) \in Faults \cup {None}
         /\ ReadError(r) # "INVALID_REQUEST_BODY"
      BY <2>2, NoneFacts DEF Faults
    <2>7. Chunk(r)[2] <= arrived[r]
      BY <2>1, BoundedRead
    <2>8. Chunk(r)[1] \in Nat /\ Chunk(r)[2] \in Nat /\ Chunk(r)[1] <= Chunk(r)[2]
      BY <1>0, <2>1
    <2>. QED BY <1>0, <1>1, <2>1, <2>3, <2>4, <2>5, <2>6,<2>7,<2>8
  <1>2. CASE input[r].kind = "incomplete"
    <2>1. Chunk(r) = <<0, 0>> /\ Chunk(r)[1] = 0 /\ Chunk(r)[2] = 0
      BY <1>2 DEF Chunk
    <2>2. ReadError(r) = "INVALID_REQUEST_BODY"
      BY <1>2 DEF ReadError
    <2>3. ReadError(r) # None /\ ReadError(r) \in Faults
      BY <2>2, NoneFacts DEF Faults
    <2>. QED BY <1>2, <2>1, <2>2, <2>3
  <1>3. CASE input[r].kind = "buffer"
    <2>1. /\ Chunk(r) = <<Chunk(r)[1], Chunk(r)[2]>>
          /\ Chunk(r)[1] = input[r].from
          /\ Chunk(r)[2] = IF input[r].upto - input[r].from < Limit + 1 THEN input[r].upto
                           ELSE input[r].from + (Limit + 1)
      BY <1>3 DEF Chunk, LimitReader
    <2>2. \/ ReadError(r) = "LIMIT_EXCEEDED" /\ Chunk(r)[2] - Chunk(r)[1] > Limit
          \/ ReadError(r) = None /\ ~(Chunk(r)[2] - Chunk(r)[1] > Limit)
      BY <1>3 DEF ReadError
    <2>3. input[r].from <= input[r].upto
      BY <1>3 DEF BufferInv
    <2>4. Chunk(r)[1] \in Nat /\ Chunk(r)[2] \in Nat /\ Chunk(r)[1] <= Chunk(r)[2]
      BY <1>0, <2>1, <2>3
    <2>5. /\ ReadError(r) \in Faults \cup {None}
         /\ ReadError(r) # "INVALID_REQUEST_BODY"
      BY <2>2, NoneFacts DEF Faults
    <2>6. ReadError(r) = None => Chunk(r)[2] = input[r].upto /\ Chunk(r)[2] - Chunk(r)[1] <= Limit
      <3>1. ReadError(r) = None => ~(Chunk(r)[2] - Chunk(r)[1] > Limit)
        BY <2>2, NoneFacts
      <3>. QED BY <1>0, <2>1, <2>3, <2>4, <3>1
    <2>7. ReadError(r) # None => Chunk(r)[2] = input[r].from + Limit + 1 /\ Chunk(r)[2] <= input[r].upto
      BY <1>0, <2>1, <2>2, <2>3, <2>4
    <2>. QED BY <1>3, <2>1, <2>4, <2>5, <2>6, <2>7
  <1>. QED BY <1>0, <1>1, <1>2, <1>3

\* A step that leaves everything of a request alone leaves its invariants.
LEMMA OthersKeep ==
  ASSUME NEW q \in Requests, StreamInv(q), BufferInv(q), ReplyInv(q),
         pc'[q] = pc[q], arrived'[q] = arrived[q], upload'[q] = upload[q],
         taken'[q] = taken[q], input'[q] = input[q], committed'[q] = committed[q],
         fault'[q] = fault[q], answer'[q] = answer[q]
  PROVE  StreamInv(q)' /\ BufferInv(q)' /\ ReplyInv(q)'
  <1>1. StreamInv(q)'
    BY DEF StreamInv
  <1>2. BufferInv(q)'
    BY DEF BufferInv
  <1>3. ReplyInv(q)'
    BY DEF ReplyInv, Final
  <1>. QED BY <1>1, <1>2, <1>3

-----------------------------------------------------------------------------
(* The invariant is inductive: one lemma per action.                       *)

\* The initial states satisfy it.
LEMMA InitIInv == Init => IInv
  <1> SUFFICES ASSUME Init PROVE IInv
    OBVIOUS
  <1>1. TypeOK
    BY HttpServeAssumption DEF Init, TypeOK, Pcs, Inputs, Connection, Statuses, Faults
  <1>2. ASSUME NEW r \in Requests
        PROVE  LockInv(r) /\ StreamInv(r) /\ BufferInv(r) /\ ReplyInv(r)
    <2>1. LockInv(r)
      BY HttpServeAssumption DEF Init, LockInv
    <2>2. StreamInv(r) /\ BufferInv(r)
      BY HttpServeAssumption DEF Init, StreamInv, BufferInv, Connection
    <2>3. ReplyInv(r)
      BY NoneFacts DEF Init, ReplyInv, Connection
    <2>. QED BY <2>1, <2>2, <2>3
  <1>. QED BY <1>1, <1>2 DEF IInv

\* Deliver preserves the invariant.
LEMMA DeliverPreserves ==
  ASSUME IInv, NEW r \in Requests, Deliver(r)
  PROVE  IInv'
  <1> USE DEF Deliver, body, reply
  <1>0. TypeOK /\ LockInv(r) /\ StreamInv(r) /\ BufferInv(r) /\ ReplyInv(r)
    BY DEF IInv
  <1>1. TypeOK'
    <2>1. arrived' \in [Requests -> Nat]
      BY <1>0 DEF TypeOK
    <2>2. upload' \in [Requests -> {"open", "complete", "broken"}]
      BY <1>0 DEF TypeOK
    <2>. QED BY <1>0, <2>1, <2>2 DEF TypeOK
  <1>2. ASSUME NEW q \in Requests
        PROVE  LockInv(q)'
    <2>1. CASE q = r
      BY <2>1, <1>0 DEF TypeOK, LockInv, ReplyInv
    <2>2. CASE q # r
      BY <2>2, <1>0 DEF IInv, TypeOK, LockInv
    <2>. QED BY <2>1, <2>2
  <1>3. StreamInv(r)'
    <2>1. arrived'[r] = arrived[r] + 1 /\ arrived[r] \in Nat /\ arrived[r] < Size[r] /\ Size[r] \in Nat
      BY <1>0, RequestTypes DEF TypeOK, StreamInv
    <2>2. /\ upload'[r] = IF arrived[r] + 1 = Size[r] THEN "complete" ELSE upload[r]
          /\ upload[r] = "open"
      BY <1>0 DEF TypeOK
    <2>3. taken'[r] = taken[r] /\ taken[r] \in Nat /\ input'[r] = input[r] /\ pc'[r] = pc[r]
      BY <1>0 DEF TypeOK
    <2>4. taken'[r] <= arrived'[r] /\ arrived'[r] <= Size[r]
      BY <1>0, <2>1, <2>3 DEF StreamInv
    <2>5. /\ upload'[r] = "complete" => arrived'[r] = Size[r]
          /\ upload'[r] = "open" => arrived'[r] < Size[r]
      BY <2>1, <2>2
    <2>. QED BY <1>0, <2>3, <2>4, <2>5 DEF StreamInv
  <1>4. BufferInv(r)'
    BY <1>0, RequestTypes DEF TypeOK, LockInv, BufferInv
  <1>5. ReplyInv(r)'
    BY <1>0, NoneFacts DEF TypeOK, LockInv, StreamInv, ReplyInv, Final
  <1>6. ASSUME NEW q \in Requests, q # r
        PROVE  StreamInv(q)' /\ BufferInv(q)' /\ ReplyInv(q)'
    BY <1>6, <1>0, OthersKeep DEF IInv, TypeOK
  <1>. QED BY <1>1, <1>2, <1>3, <1>4, <1>5, <1>6 DEF IInv

\* ReadTimeout preserves the invariant.
LEMMA ReadTimeoutPreserves ==
  ASSUME IInv, NEW r \in Requests, ReadTimeout(r)
  PROVE  IInv'
  <1> USE DEF ReadTimeout, body, reply
  <1>0. TypeOK /\ LockInv(r) /\ StreamInv(r) /\ BufferInv(r) /\ ReplyInv(r)
    BY DEF IInv
  <1>1. TypeOK'
    <2>1. upload' \in [Requests -> {"open", "complete", "broken"}]
      BY <1>0 DEF TypeOK
    <2>. QED BY <1>0, <2>1 DEF TypeOK
  <1>2. ASSUME NEW q \in Requests
        PROVE  LockInv(q)'
    <2>1. CASE q = r
      BY <2>1, <1>0 DEF TypeOK, LockInv, ReplyInv
    <2>2. CASE q # r
      BY <2>2, <1>0 DEF IInv, TypeOK, LockInv
    <2>. QED BY <2>1, <2>2
  <1>3. StreamInv(r)'
    BY <1>0, RequestTypes DEF TypeOK, LockInv, StreamInv
  <1>4. BufferInv(r)'
    BY <1>0, RequestTypes DEF TypeOK, LockInv, BufferInv
  <1>5. ReplyInv(r)'
    BY <1>0, NoneFacts DEF TypeOK, LockInv, StreamInv, ReplyInv, Final
  <1>6. ASSUME NEW q \in Requests, q # r
        PROVE  StreamInv(q)' /\ BufferInv(q)' /\ ReplyInv(q)'
    BY <1>6, <1>0, OthersKeep DEF IInv, TypeOK
  <1>. QED BY <1>1, <1>2, <1>3, <1>4, <1>5, <1>6 DEF IInv

\* Accept preserves the invariant.
LEMMA AcceptPreserves ==
  ASSUME IInv, NEW r \in Requests, Accept(r)
  PROVE  IInv'
  <1>0. TypeOK /\ LockInv(r) /\ StreamInv(r) /\ BufferInv(r) /\ ReplyInv(r)
    BY DEF IInv
  <1>a. /\ pc[r] = "new"
        /\ UNCHANGED <<arrived, upload, taken, values, fuel, seen, data, serial, committed,
                       fault, logged, answer>>
        /\ \/ /\ ~Serialized
              /\ pc' = [pc EXCEPT ![r] = "run"]
              /\ input' = input
           \/ /\ Serialized /\ r \in Bodyless
              /\ pc' = [pc EXCEPT ![r] = "wantLock"]
              /\ input' = [input EXCEPT ![r] = Buffer(0, 0)]
           \/ /\ Serialized /\ r \notin Bodyless
              /\ pc' = [pc EXCEPT ![r] = "preread"]
              /\ input' = input
    BY <1>0 DEF Accept, Goto, stream, reply
  <1>1. TypeOK'
    <2>1. pc' \in [Requests -> Pcs]
      BY <1>0, <1>a DEF TypeOK, Pcs
    <2>2. input' \in [Requests -> Inputs]
      <3>1. Buffer(0, 0) \in Inputs
        BY InputFields
      <3>. QED BY <1>0, <1>a, <3>1 DEF TypeOK
    <2>. QED BY <1>0, <1>a, <2>1, <2>2 DEF TypeOK
  <1>b. /\ \/ ~Serialized /\ pc'[r] = "run" /\ input'[r] = input[r]
           \/ /\ Serialized /\ r \in Bodyless
              /\ pc'[r] = "wantLock"
              /\ input'[r].kind = "buffer" /\ input'[r].from = 0 /\ input'[r].upto = 0
           \/ Serialized /\ r \notin Bodyless /\ pc'[r] = "preread" /\ input'[r] = input[r]
        /\ input[r].kind = "connection"
    BY <1>0, <1>a, InputFields DEF TypeOK, StreamInv
  <1>2. ASSUME NEW q \in Requests
        PROVE  LockInv(q)'
    <2>1. CASE q = r
      BY <2>1, <1>0, <1>a, <1>b DEF LockInv, ReplyInv
    <2>2. CASE q # r
      BY <2>2, <1>0, <1>a DEF IInv, TypeOK, LockInv
    <2>. QED BY <2>1, <2>2
  <1>3. StreamInv(r)'
    BY <1>0, <1>a, <1>b, RequestTypes DEF LockInv, StreamInv
  <1>4. BufferInv(r)'
    BY <1>0, <1>a, <1>b, RequestTypes DEF LockInv, BufferInv
  <1>5. ReplyInv(r)'
    BY <1>0, <1>a, <1>b, NoneFacts DEF LockInv, StreamInv, ReplyInv, Final
  <1>6. ASSUME NEW q \in Requests, q # r
        PROVE  StreamInv(q)' /\ BufferInv(q)' /\ ReplyInv(q)'
    BY <1>6, <1>0, <1>a, OthersKeep DEF IInv, TypeOK
  <1>. QED BY <1>1, <1>2, <1>3, <1>4, <1>5, <1>6 DEF IInv

\* Preread preserves the invariant.
LEMMA PrereadPreserves ==
  ASSUME IInv, NEW r \in Requests, Preread(r)
  PROVE  IInv'
  <1>0. TypeOK /\ LockInv(r) /\ StreamInv(r) /\ BufferInv(r) /\ ReplyInv(r)
    BY DEF IInv
  <1>a. /\ pc[r] = "preread"
        /\ UNCHANGED <<arrived, upload, values, fuel, seen, data, serial, committed, fault,
                       logged, answer>>
        /\ pc' = [pc EXCEPT ![r] = "wantLock"]
        /\ taken' = [taken EXCEPT ![r] = taken[r] + Bounded(r)]
        /\ \/ /\ upload[r] = "broken"
              /\ input' = [input EXCEPT ![r] = Incomplete]
           \/ /\ ReadEnds(r) /\ ~ReadFails(r)
              /\ input' = [input EXCEPT ![r] = Buffer(taken[r], taken[r] + Bounded(r))]
    BY <1>0 DEF Preread, Goto, stream, reply, ReadFails, TypeOK
  <1>1. TypeOK'
    <2>1. pc' \in [Requests -> Pcs]
      BY <1>0, <1>a DEF TypeOK, Pcs
    <2>2. taken' \in [Requests -> Nat]
      BY <1>0, <1>a, BoundedRead DEF TypeOK
    <2>3. input' \in [Requests -> Inputs]
      <3>1. taken[r] \in Nat /\ taken[r] + Bounded(r) \in Nat
        BY <1>0, <1>a, BoundedRead, RequestTypes
      <3>2. Buffer(taken[r], taken[r] + Bounded(r)) \in Inputs /\ Incomplete \in Inputs
        BY <3>1, InputFields
      <3>. QED BY <1>0, <1>a, <3>2 DEF TypeOK
    <2>. QED BY <1>0, <1>a, <2>1, <2>2, <2>3 DEF TypeOK
  <1>b. /\ pc'[r] = "wantLock" /\ Serialized /\ taken[r] = 0
        /\ taken'[r] = Bounded(r)
        /\ \/ upload[r] = "broken" /\ input'[r].kind = "incomplete"
           \/ /\ ReadEnds(r) /\ ~ReadFails(r)
              /\ input'[r].kind = "buffer" /\ input'[r].from = 0 /\ input'[r].upto = Bounded(r)
    BY <1>0, <1>a, InputFields, BoundedRead, RequestTypes DEF TypeOK, LockInv, StreamInv
  <1>2. ASSUME NEW q \in Requests
        PROVE  LockInv(q)'
    <2>1. CASE q = r
      BY <2>1, <1>0, <1>a, <1>b DEF LockInv, ReplyInv
    <2>2. CASE q # r
      BY <2>2, <1>0, <1>a DEF IInv, TypeOK, LockInv
    <2>. QED BY <2>1, <2>2
  <1>3. StreamInv(r)'
    BY <1>0, <1>a, <1>b, BoundedRead, RequestTypes DEF LockInv, StreamInv
  <1>4. BufferInv(r)'
    BY <1>0, <1>a, <1>b, BoundedRead, RequestTypes DEF LockInv, StreamInv, BufferInv
  <1>5. ReplyInv(r)'
    BY <1>0, <1>a, <1>b, NoneFacts DEF LockInv, StreamInv, ReplyInv, Final
  <1>6. ASSUME NEW q \in Requests, q # r
        PROVE  StreamInv(q)' /\ BufferInv(q)' /\ ReplyInv(q)'
    BY <1>6, <1>0, <1>a, OthersKeep DEF IInv, TypeOK
  <1>. QED BY <1>1, <1>2, <1>3, <1>4, <1>5, <1>6 DEF IInv

\* Lock preserves the invariant.
LEMMA LockPreserves ==
  ASSUME IInv, NEW r \in Requests, Lock(r)
  PROVE  IInv'
  <1> USE DEF Lock, Goto, stream, body, reply
  <1>0. TypeOK /\ LockInv(r) /\ StreamInv(r) /\ BufferInv(r) /\ ReplyInv(r)
    BY DEF IInv
  <1>1. TypeOK'
    <2>1. pc' \in [Requests -> Pcs]
      BY <1>0 DEF TypeOK, Pcs
    <2>2. serial' \in Requests \cup {NoReq}
      BY <1>0 DEF TypeOK
    <2>. QED BY <1>0, <2>1, <2>2 DEF TypeOK
  <1>2. ASSUME NEW q \in Requests
        PROVE  LockInv(q)'
    BY <1>2, <1>0, HttpServeAssumption DEF IInv, TypeOK, LockInv
  <1>3. StreamInv(r)'
    BY <1>0, RequestTypes DEF TypeOK, LockInv, StreamInv
  <1>4. BufferInv(r)'
    BY <1>0, RequestTypes DEF TypeOK, LockInv, BufferInv
  <1>5. ReplyInv(r)'
    BY <1>0, NoneFacts DEF TypeOK, LockInv, StreamInv, ReplyInv, Final
  <1>6. ASSUME NEW q \in Requests, q # r
        PROVE  StreamInv(q)' /\ BufferInv(q)' /\ ReplyInv(q)'
    BY <1>6, <1>0, OthersKeep DEF IInv, TypeOK
  <1>. QED BY <1>1, <1>2, <1>3, <1>4, <1>5, <1>6 DEF IInv

\* ReadBody preserves the invariant.
LEMMA ReadBodyPreserves ==
  ASSUME IInv, NEW r \in Requests, ReadBody(r)
  PROVE  IInv'
  <1>0. TypeOK /\ LockInv(r) /\ StreamInv(r) /\ BufferInv(r) /\ ReplyInv(r)
    BY DEF IInv
  <1>a. /\ pc[r] = "run"
        /\ UNCHANGED <<arrived, upload, seen, data, serial, committed, logged, answer>>
        /\ fuel[r] > 0
        /\ fuel' = [fuel EXCEPT ![r] = fuel[r] - 1]
        /\ input[r].kind = "connection" => ReadEnds(r)
        /\ \/ input[r].kind = "connection" /\ taken' = [taken EXCEPT ![r] = Chunk(r)[2]]
           \/ input[r].kind # "connection" /\ taken' = taken
        /\ \/ /\ ReadError(r) = None
              /\ \/ pc' = pc /\ fault' = fault
                 \/ /\ pc' = [pc EXCEPT ![r] = "recover"]
                    /\ fault' = [fault EXCEPT ![r] = "OTHER"]
              /\ \/ values' = [values EXCEPT ![r] = values[r] \cup {Chunk(r)}]
                 \/ values' = values
              /\ input' = [input EXCEPT ![r] = Buffer(Chunk(r)[1], Chunk(r)[2])]
           \/ /\ ReadError(r) # None
              /\ \/ /\ pc' = [pc EXCEPT ![r] = "recover"]
                    /\ fault' = [fault EXCEPT ![r] = ReadError(r)]
                 \/ pc' = pc /\ fault' = fault
              /\ values' = values
              /\ \/ /\ input[r].kind = "buffer"
                    /\ input' = [input EXCEPT ![r].from = Chunk(r)[2]]
                 \/ input[r].kind # "buffer" /\ input' = input
    BY <1>0 DEF ReadBody, Execute, Throw, Fail, stream
  <1>1. TypeOK'
    <2>1. pc' \in [Requests -> Pcs]
      BY <1>0, <1>a DEF TypeOK, Pcs
    <2>2. fuel' \in [Requests -> 0 .. Fuel]
      BY <1>0, <1>a, HttpServeAssumption DEF TypeOK
    <2>3. taken' \in [Requests -> Nat]
      BY <1>0, <1>a, ChunkRange DEF TypeOK
    <2>4. input' \in [Requests -> Inputs]
      <3>1. Buffer(Chunk(r)[1], Chunk(r)[2]) \in Inputs
        BY <1>0, <1>a, ChunkRange, InputFields
      <3>2. [input[r] EXCEPT !.from = Chunk(r)[2]] \in Inputs
        <4>1. input[r] \in Inputs /\ Chunk(r)[2] \in Nat
          BY <1>0, <1>a, ChunkRange DEF TypeOK
        <4>. QED BY <4>1 DEF Inputs
      <3>. QED BY <1>0, <1>a, <3>1, <3>2 DEF TypeOK
    <2>5. values' \in [Requests -> SUBSET (Nat \X Nat)]
      BY <1>0, <1>a, ChunkRange DEF TypeOK
    <2>6. fault' \in [Requests -> Faults \cup {None}]
      BY <1>0, <1>a, ChunkRange DEF TypeOK, Faults
    <2>. QED BY <1>0, <1>a, <2>1, <2>2, <2>3, <2>4, <2>5, <2>6 DEF TypeOK
  <1>b. /\ \/ input[r].kind = "connection" /\ taken'[r] = Chunk(r)[2]
           \/ input[r].kind # "connection" /\ taken'[r] = taken[r]
        /\ \/ /\ ReadError(r) = None
              /\ \/ pc'[r] = "recover" /\ fault'[r] = "OTHER"
                 \/ pc'[r] = "run" /\ fault'[r] = fault[r]
              /\ input'[r].kind = "buffer"
              /\ input'[r].from = Chunk(r)[1] /\ input'[r].upto = Chunk(r)[2]
           \/ /\ ReadError(r) # None
              /\ \/ pc'[r] = "recover" /\ fault'[r] = ReadError(r)
                 \/ pc'[r] = "run" /\ fault'[r] = fault[r]
              /\ input'[r].kind = input[r].kind /\ input'[r].upto = input[r].upto
              /\ \/ input[r].kind = "buffer" /\ input'[r].from = Chunk(r)[2]
                 \/ input[r].kind # "buffer" /\ input'[r].from = input[r].from
    BY <1>0, <1>a, InputFields, ChunkRange, RequestTypes DEF TypeOK, Inputs
  <1>2. ASSUME NEW q \in Requests
        PROVE  LockInv(q)'
    <2>1. CASE q = r
      BY <2>1, <1>0, <1>a, <1>b DEF LockInv, ReplyInv
    <2>2. CASE q # r
      BY <2>2, <1>0, <1>a DEF IInv, TypeOK, LockInv
    <2>. QED BY <2>1, <2>2
  <1>3. StreamInv(r)'
    BY <1>0, <1>a, <1>b, ChunkRange, RequestTypes DEF LockInv, StreamInv
  <1>4. BufferInv(r)'
    <2>1. /\ Chunk(r)[1] \in Nat /\ Chunk(r)[2] \in Nat /\ Limit \in Nat /\ Chunk(r)[1] <= Chunk(r)[2]
          /\ input[r].from \in Nat /\ input[r].upto \in Nat
      BY <1>0, <1>a, <1>b, ChunkRange, RequestTypes
    <2>2. CASE ReadError(r) = None
      <3>1. CASE input[r].kind = "connection"
        <4>1. Chunk(r)[2] = Size[r] /\ Chunk(r)[2] - Chunk(r)[1] <= Limit
          BY <1>0, <1>a, <1>b, <2>2, <3>1, ChunkRange
        <4>2. ~Serialized
          BY <1>0, <1>a, <1>b, <3>1 DEF StreamInv
        <4>. QED BY <1>0, <1>a, <1>b, <2>1, <2>2, <4>1, <4>2 DEF BufferInv
      <3>2. CASE input[r].kind = "buffer"
        <4>1. Chunk(r)[1] = input[r].from /\ Chunk(r)[2] = input[r].upto
          BY <1>0, <1>a, <1>b, <2>2, <3>2, ChunkRange
        <4>. QED BY <1>0, <1>a, <1>b, <2>1, <2>2, <3>2, <4>1 DEF BufferInv
      <3>3. CASE input[r].kind = "incomplete"
        BY <1>0, <1>a, <1>b, <2>2, <3>3, ChunkRange, NoneFacts
      <3>. QED BY <1>0, <1>a, <1>b, <3>1, <3>2, <3>3, RequestTypes
    <2>3. CASE ReadError(r) # None
      <3>1. CASE input[r].kind = "buffer"
        <4>1. /\ Chunk(r)[1] = input[r].from
              /\ Chunk(r)[2] = input[r].from + Limit + 1 /\ Chunk(r)[2] <= input[r].upto
          BY <1>0, <1>a, <1>b, <2>3, <3>1, ChunkRange
        <4>. QED BY <1>0, <1>a, <1>b, <2>1, <2>3, <3>1, <4>1 DEF BufferInv
      <3>2. CASE input[r].kind # "buffer"
        BY <1>0, <1>a, <1>b, <2>3, <3>2 DEF BufferInv
      <3>. QED BY <3>1, <3>2
    <2>. QED BY <2>2, <2>3
  <1>5. ReplyInv(r)'
    BY <1>0, <1>a, <1>b, ChunkRange, NoneFacts DEF LockInv, StreamInv, ReplyInv, Final
  <1>6. ASSUME NEW q \in Requests, q # r
        PROVE  StreamInv(q)' /\ BufferInv(q)' /\ ReplyInv(q)'
    BY <1>6, <1>0, <1>a, OthersKeep DEF IInv, TypeOK
  <1>. QED BY <1>1, <1>2, <1>3, <1>4, <1>5, <1>6 DEF IInv

\* GetData preserves the invariant.
LEMMA GetDataPreserves ==
  ASSUME IInv, NEW r \in Requests, GetData(r)
  PROVE  IInv'
  <1> USE DEF GetData, Execute, stream, body, reply
  <1>0. TypeOK /\ LockInv(r) /\ StreamInv(r) /\ BufferInv(r) /\ ReplyInv(r)
    BY DEF IInv
  <1>1. TypeOK'
    <2>1. fuel' \in [Requests -> 0 .. Fuel]
      BY <1>0, HttpServeAssumption DEF TypeOK
    <2>2. seen' \in [Requests -> SUBSET SUBSET Requests]
      BY <1>0 DEF TypeOK
    <2>. QED BY <1>0, <2>1, <2>2 DEF TypeOK
  <1>2. ASSUME NEW q \in Requests
        PROVE  LockInv(q)'
    <2>1. CASE q = r
      BY <2>1, <1>0 DEF TypeOK, LockInv, ReplyInv
    <2>2. CASE q # r
      BY <2>2, <1>0 DEF IInv, TypeOK, LockInv
    <2>. QED BY <2>1, <2>2
  <1>3. StreamInv(r)'
    BY <1>0, RequestTypes DEF TypeOK, LockInv, StreamInv
  <1>4. BufferInv(r)'
    BY <1>0, RequestTypes DEF TypeOK, LockInv, BufferInv
  <1>5. ReplyInv(r)'
    BY <1>0, NoneFacts DEF TypeOK, LockInv, StreamInv, ReplyInv, Final
  <1>6. ASSUME NEW q \in Requests, q # r
        PROVE  StreamInv(q)' /\ BufferInv(q)' /\ ReplyInv(q)'
    BY <1>6, <1>0, OthersKeep DEF IInv, TypeOK
  <1>. QED BY <1>1, <1>2, <1>3, <1>4, <1>5, <1>6 DEF IInv

\* PutData preserves the invariant.
LEMMA PutDataPreserves ==
  ASSUME IInv, NEW r \in Requests, PutData(r)
  PROVE  IInv'
  <1> USE DEF PutData, Execute, stream, body, reply
  <1>0. TypeOK /\ LockInv(r) /\ StreamInv(r) /\ BufferInv(r) /\ ReplyInv(r)
    BY DEF IInv
  <1>1. TypeOK'
    <2>1. fuel' \in [Requests -> 0 .. Fuel]
      BY <1>0, HttpServeAssumption DEF TypeOK
    <2>2. seen' \in [Requests -> SUBSET SUBSET Requests]
      BY <1>0 DEF TypeOK
    <2>3. data' \in SUBSET Requests
      BY <1>0 DEF TypeOK
    <2>. QED BY <1>0, <2>1, <2>2, <2>3 DEF TypeOK
  <1>2. ASSUME NEW q \in Requests
        PROVE  LockInv(q)'
    <2>1. CASE q = r
      <3>1. seen'[r] = {data'}
        BY <1>0 DEF TypeOK
      <3>. QED BY <2>1, <3>1, <1>0 DEF LockInv
    <2>2. CASE q # r
      BY <2>2, <1>0 DEF IInv, TypeOK, LockInv
    <2>. QED BY <2>1, <2>2
  <1>3. StreamInv(r)'
    BY <1>0, RequestTypes DEF TypeOK, LockInv, StreamInv
  <1>4. BufferInv(r)'
    BY <1>0, RequestTypes DEF TypeOK, LockInv, BufferInv
  <1>5. ReplyInv(r)'
    BY <1>0, NoneFacts DEF TypeOK, LockInv, StreamInv, ReplyInv, Final
  <1>6. ASSUME NEW q \in Requests, q # r
        PROVE  StreamInv(q)' /\ BufferInv(q)' /\ ReplyInv(q)'
    BY <1>6, <1>0, OthersKeep DEF IInv, TypeOK
  <1>. QED BY <1>1, <1>2, <1>3, <1>4, <1>5, <1>6 DEF IInv

\* Respond preserves the invariant.
LEMMA RespondPreserves ==
  ASSUME IInv, NEW r \in Requests, Respond(r)
  PROVE  IInv'
  <1> USE DEF Respond, Execute, Commit, stream, body
  <1>0. TypeOK /\ LockInv(r) /\ StreamInv(r) /\ BufferInv(r) /\ ReplyInv(r)
    BY DEF IInv
  <1>1. TypeOK'
    <2>1. pc' \in [Requests -> Pcs]
      BY <1>0 DEF TypeOK, Pcs
    <2>2. fuel' \in [Requests -> 0 .. Fuel]
      BY <1>0, HttpServeAssumption DEF TypeOK
    <2>3. committed' \in [Requests -> Statuses \cup {None}]
      BY <1>0 DEF TypeOK, Statuses
    <2>. QED BY <1>0, <2>1, <2>2, <2>3 DEF TypeOK
  <1>2. ASSUME NEW q \in Requests
        PROVE  LockInv(q)'
    <2>1. CASE q = r
      BY <2>1, <1>0 DEF TypeOK, LockInv, ReplyInv
    <2>2. CASE q # r
      BY <2>2, <1>0 DEF IInv, TypeOK, LockInv
    <2>. QED BY <2>1, <2>2
  <1>3. StreamInv(r)'
    BY <1>0, RequestTypes DEF TypeOK, LockInv, StreamInv
  <1>4. BufferInv(r)'
    BY <1>0, RequestTypes DEF TypeOK, LockInv, BufferInv
  <1>5. ReplyInv(r)'
    BY <1>0, NoneFacts DEF TypeOK, LockInv, StreamInv, ReplyInv, Final
  <1>6. ASSUME NEW q \in Requests, q # r
        PROVE  StreamInv(q)' /\ BufferInv(q)' /\ ReplyInv(q)'
    BY <1>6, <1>0, OthersKeep DEF IInv, TypeOK
  <1>. QED BY <1>1, <1>2, <1>3, <1>4, <1>5, <1>6 DEF IInv

\* Raise preserves the invariant.
LEMMA RaisePreserves ==
  ASSUME IInv, NEW r \in Requests, Raise(r)
  PROVE  IInv'
  <1>0. TypeOK /\ LockInv(r) /\ StreamInv(r) /\ BufferInv(r) /\ ReplyInv(r)
    BY DEF IInv
  <1>a. /\ pc[r] = "run"
        /\ UNCHANGED <<arrived, upload, taken, input, values, seen, data, serial, committed,
                       logged, answer>>
        /\ fuel[r] > 0
        /\ fuel' = [fuel EXCEPT ![r] = fuel[r] - 1]
        /\ \/ /\ pc' = [pc EXCEPT ![r] = "recover"]
              /\ fault' = [fault EXCEPT ![r] = "OTHER"]
           \/ pc' = pc /\ fault' = fault
    BY <1>0 DEF Raise, Execute, Throw, Fail, stream, body
  <1>1. TypeOK'
    <2>1. pc' \in [Requests -> Pcs]
      BY <1>0, <1>a DEF TypeOK, Pcs
    <2>2. fuel' \in [Requests -> 0 .. Fuel]
      BY <1>0, <1>a, HttpServeAssumption DEF TypeOK
    <2>3. fault' \in [Requests -> Faults \cup {None}]
      BY <1>0, <1>a DEF TypeOK, Faults
    <2>. QED BY <1>0, <1>a, <2>1, <2>2, <2>3 DEF TypeOK
  <1>b. \/ pc'[r] = "recover" /\ fault'[r] = "OTHER"
        \/ pc'[r] = "run" /\ fault'[r] = fault[r]
    BY <1>0, <1>a DEF TypeOK, Final
  <1>2. ASSUME NEW q \in Requests
        PROVE  LockInv(q)'
    <2>1. CASE q = r
      BY <2>1, <1>0, <1>a, <1>b DEF LockInv, ReplyInv
    <2>2. CASE q # r
      BY <2>2, <1>0, <1>a DEF IInv, TypeOK, LockInv
    <2>. QED BY <2>1, <2>2
  <1>3. StreamInv(r)'
    BY <1>0, <1>a, <1>b, RequestTypes DEF LockInv, StreamInv
  <1>4. BufferInv(r)'
    BY <1>0, <1>a, <1>b, RequestTypes DEF LockInv, BufferInv
  <1>5. ReplyInv(r)'
    BY <1>0, <1>a, <1>b, NoneFacts DEF LockInv, StreamInv, ReplyInv, Final
  <1>6. ASSUME NEW q \in Requests, q # r
        PROVE  StreamInv(q)' /\ BufferInv(q)' /\ ReplyInv(q)'
    BY <1>6, <1>0, <1>a, OthersKeep DEF IInv, TypeOK
  <1>. QED BY <1>1, <1>2, <1>3, <1>4, <1>5, <1>6 DEF IInv

\* OutOfFuel preserves the invariant.
LEMMA OutOfFuelPreserves ==
  ASSUME IInv, NEW r \in Requests, OutOfFuel(r)
  PROVE  IInv'
  <1> USE DEF OutOfFuel, Fail, stream, body
  <1>0. TypeOK /\ LockInv(r) /\ StreamInv(r) /\ BufferInv(r) /\ ReplyInv(r)
    BY DEF IInv
  <1>1. TypeOK'
    <2>1. pc' \in [Requests -> Pcs]
      BY <1>0 DEF TypeOK, Pcs
    <2>2. fault' \in [Requests -> Faults \cup {None}]
      BY <1>0 DEF TypeOK, Faults
    <2>. QED BY <1>0, <2>1, <2>2 DEF TypeOK
  <1>2. ASSUME NEW q \in Requests
        PROVE  LockInv(q)'
    <2>1. CASE q = r
      BY <2>1, <1>0 DEF TypeOK, LockInv, ReplyInv
    <2>2. CASE q # r
      BY <2>2, <1>0 DEF IInv, TypeOK, LockInv
    <2>. QED BY <2>1, <2>2
  <1>3. StreamInv(r)'
    BY <1>0, RequestTypes DEF TypeOK, LockInv, StreamInv
  <1>4. BufferInv(r)'
    BY <1>0, RequestTypes DEF TypeOK, LockInv, BufferInv
  <1>5. ReplyInv(r)'
    BY <1>0, NoneFacts DEF TypeOK, LockInv, StreamInv, ReplyInv, Final
  <1>6. ASSUME NEW q \in Requests, q # r
        PROVE  StreamInv(q)' /\ BufferInv(q)' /\ ReplyInv(q)'
    BY <1>6, <1>0, OthersKeep DEF IInv, TypeOK
  <1>. QED BY <1>1, <1>2, <1>3, <1>4, <1>5, <1>6 DEF IInv

\* End preserves the invariant.
LEMMA EndPreserves ==
  ASSUME IInv, NEW r \in Requests, End(r)
  PROVE  IInv'
  <1> USE DEF End, Goto, stream, body, reply
  <1>0. TypeOK /\ LockInv(r) /\ StreamInv(r) /\ BufferInv(r) /\ ReplyInv(r)
    BY DEF IInv
  <1>1. TypeOK'
    <2>1. pc' \in [Requests -> Pcs]
      BY <1>0 DEF TypeOK, Pcs
    <2>. QED BY <1>0, <2>1 DEF TypeOK
  <1>2. ASSUME NEW q \in Requests
        PROVE  LockInv(q)'
    <2>1. CASE q = r
      BY <2>1, <1>0 DEF TypeOK, LockInv, ReplyInv
    <2>2. CASE q # r
      BY <2>2, <1>0 DEF IInv, TypeOK, LockInv
    <2>. QED BY <2>1, <2>2
  <1>3. StreamInv(r)'
    BY <1>0, RequestTypes DEF TypeOK, LockInv, StreamInv
  <1>4. BufferInv(r)'
    BY <1>0, RequestTypes DEF TypeOK, LockInv, BufferInv
  <1>5. ReplyInv(r)'
    BY <1>0, NoneFacts DEF TypeOK, LockInv, StreamInv, ReplyInv, Final
  <1>6. ASSUME NEW q \in Requests, q # r
        PROVE  StreamInv(q)' /\ BufferInv(q)' /\ ReplyInv(q)'
    BY <1>6, <1>0, OthersKeep DEF IInv, TypeOK
  <1>. QED BY <1>1, <1>2, <1>3, <1>4, <1>5, <1>6 DEF IInv

\* Recover preserves the invariant.
LEMMA RecoverPreserves ==
  ASSUME IInv, NEW r \in Requests, Recover(r)
  PROVE  IInv'
  <1> USE DEF Recover, Goto, Commit, Failure, stream, body
  <1>0. TypeOK /\ LockInv(r) /\ StreamInv(r) /\ BufferInv(r) /\ ReplyInv(r)
    BY DEF IInv
  <1>1. TypeOK'
    <2>1. pc' \in [Requests -> Pcs]
      BY <1>0 DEF TypeOK, Pcs
    <2>2. committed' \in [Requests -> Statuses \cup {None}]
      BY <1>0 DEF TypeOK, Statuses
    <2>3. logged' \in SUBSET Requests
      BY <1>0 DEF TypeOK
    <2>. QED BY <1>0, <2>1, <2>2, <2>3 DEF TypeOK
  <1>2. ASSUME NEW q \in Requests
        PROVE  LockInv(q)'
    <2>1. CASE q = r
      BY <2>1, <1>0 DEF TypeOK, LockInv, ReplyInv
    <2>2. CASE q # r
      BY <2>2, <1>0 DEF IInv, TypeOK, LockInv
    <2>. QED BY <2>1, <2>2
  <1>3. StreamInv(r)'
    BY <1>0, RequestTypes DEF TypeOK, LockInv, StreamInv
  <1>4. BufferInv(r)'
    BY <1>0, RequestTypes DEF TypeOK, LockInv, BufferInv
  <1>5. ReplyInv(r)'
    BY <1>0, NoneFacts DEF TypeOK, LockInv, StreamInv, ReplyInv, Final
  <1>6. ASSUME NEW q \in Requests, q # r
        PROVE  StreamInv(q)' /\ BufferInv(q)' /\ ReplyInv(q)'
    BY <1>6, <1>0, OthersKeep DEF IInv, TypeOK
  <1>. QED BY <1>1, <1>2, <1>3, <1>4, <1>5, <1>6 DEF IInv

\* Unlock preserves the invariant.
LEMMA UnlockPreserves ==
  ASSUME IInv, NEW r \in Requests, Unlock(r)
  PROVE  IInv'
  <1> USE DEF Unlock, Goto, stream, body, reply
  <1>0. TypeOK /\ LockInv(r) /\ StreamInv(r) /\ BufferInv(r) /\ ReplyInv(r)
    BY DEF IInv
  <1>1. TypeOK'
    <2>1. pc' \in [Requests -> Pcs]
      BY <1>0 DEF TypeOK, Pcs
    <2>2. serial' \in Requests \cup {NoReq}
      BY <1>0 DEF TypeOK
    <2>. QED BY <1>0, <2>1, <2>2 DEF TypeOK
  <1>2. ASSUME NEW q \in Requests
        PROVE  LockInv(q)'
    BY <1>2, <1>0, HttpServeAssumption DEF IInv, TypeOK, LockInv
  <1>3. StreamInv(r)'
    BY <1>0, RequestTypes DEF TypeOK, LockInv, StreamInv
  <1>4. BufferInv(r)'
    BY <1>0, RequestTypes DEF TypeOK, LockInv, BufferInv
  <1>5. ReplyInv(r)'
    BY <1>0, NoneFacts DEF TypeOK, LockInv, StreamInv, ReplyInv, Final
  <1>6. ASSUME NEW q \in Requests, q # r
        PROVE  StreamInv(q)' /\ BufferInv(q)' /\ ReplyInv(q)'
    BY <1>6, <1>0, OthersKeep DEF IInv, TypeOK
  <1>. QED BY <1>1, <1>2, <1>3, <1>4, <1>5, <1>6 DEF IInv

\* Send preserves the invariant.
LEMMA SendPreserves ==
  ASSUME IInv, NEW r \in Requests, Send(r)
  PROVE  IInv'
  <1>0. TypeOK /\ LockInv(r) /\ StreamInv(r) /\ BufferInv(r) /\ ReplyInv(r)
    BY DEF IInv
  <1>a. /\ pc[r] = "send"
        /\ UNCHANGED <<arrived, upload, taken, input, values, fuel, seen, data, serial,
                       committed, fault, logged>>
        /\ pc' = [pc EXCEPT ![r] = IF fault[r] = None THEN "run" ELSE "flush"]
        /\ answer' = [answer EXCEPT ![r] = IF answer[r] = None THEN committed[r] ELSE answer[r]]
    BY <1>0 DEF Send, Goto, Tell, AfterSend, stream, body
  <1>1. TypeOK'
    <2>1. pc' \in [Requests -> Pcs]
      BY <1>0, <1>a DEF TypeOK, Pcs
    <2>2. answer' \in [Requests -> Statuses \cup {None, "lost"}]
      BY <1>0, <1>a DEF TypeOK, Statuses
    <2>. QED BY <1>0, <1>a, <2>1, <2>2 DEF TypeOK
  <1>b. /\ \/ fault[r] = None /\ pc'[r] = "run"
           \/ fault[r] # None /\ pc'[r] = "flush"
        /\ \/ answer[r] = None /\ answer'[r] = committed[r]
           \/ answer[r] # None /\ answer'[r] = answer[r]
    BY <1>0, <1>a DEF TypeOK, Final
  <1>2. ASSUME NEW q \in Requests
        PROVE  LockInv(q)'
    <2>1. CASE q = r
      BY <2>1, <1>0, <1>a, <1>b DEF LockInv, ReplyInv
    <2>2. CASE q # r
      BY <2>2, <1>0, <1>a DEF IInv, TypeOK, LockInv
    <2>. QED BY <2>1, <2>2
  <1>3. StreamInv(r)'
    BY <1>0, <1>a, <1>b, RequestTypes DEF LockInv, StreamInv
  <1>4. BufferInv(r)'
    BY <1>0, <1>a, <1>b, RequestTypes DEF LockInv, BufferInv
  <1>5. ReplyInv(r)'
    <2>1. committed[r] # "lost"
      BY <1>0, <1>a, <1>b, NoneFacts DEF Statuses, TypeOK
    <2>. QED BY <1>0, <1>a, <1>b, <2>1, NoneFacts DEF LockInv, StreamInv, ReplyInv, Final
  <1>6. ASSUME NEW q \in Requests, q # r
        PROVE  StreamInv(q)' /\ BufferInv(q)' /\ ReplyInv(q)'
    BY <1>6, <1>0, <1>a, OthersKeep DEF IInv, TypeOK
  <1>. QED BY <1>1, <1>2, <1>3, <1>4, <1>5, <1>6 DEF IInv

\* Flush preserves the invariant.
LEMMA FlushPreserves ==
  ASSUME IInv, NEW r \in Requests, Flush(r)
  PROVE  IInv'
  <1>0. TypeOK /\ LockInv(r) /\ StreamInv(r) /\ BufferInv(r) /\ ReplyInv(r)
    BY DEF IInv
  <1>a. /\ pc[r] = "flush"
        /\ UNCHANGED <<arrived, upload, taken, input, values, fuel, seen, data, serial,
                       committed, fault, logged>>
        /\ pc' = [pc EXCEPT ![r] = "done"]
        /\ answer' = [answer EXCEPT ![r] = IF answer[r] = None THEN Final(r) ELSE answer[r]]
    BY <1>0 DEF Flush, Goto, Tell, stream, body
  <1>1. TypeOK'
    <2>1. pc' \in [Requests -> Pcs]
      BY <1>0, <1>a DEF TypeOK, Pcs
    <2>2. answer' \in [Requests -> Statuses \cup {None, "lost"}]
      <3>1. Final(r) \in Statuses
        BY <1>0, <1>a DEF TypeOK, Statuses, Final
      <3>. QED BY <1>0, <1>a, <3>1 DEF TypeOK
    <2>. QED BY <1>0, <1>a, <2>1, <2>2 DEF TypeOK
  <1>b. /\ pc'[r] = "done"
        /\ \/ answer[r] = None /\ answer'[r] = Final(r)
           \/ answer[r] # None /\ answer'[r] = answer[r]
        /\ Final(r)' = Final(r)
    BY <1>0, <1>a DEF TypeOK, Final
  <1>2. ASSUME NEW q \in Requests
        PROVE  LockInv(q)'
    <2>1. CASE q = r
      BY <2>1, <1>0, <1>a, <1>b DEF LockInv, ReplyInv
    <2>2. CASE q # r
      BY <2>2, <1>0, <1>a DEF IInv, TypeOK, LockInv
    <2>. QED BY <2>1, <2>2
  <1>3. StreamInv(r)'
    BY <1>0, <1>a, <1>b, RequestTypes DEF LockInv, StreamInv
  <1>4. BufferInv(r)'
    BY <1>0, <1>a, <1>b, RequestTypes DEF LockInv, BufferInv
  <1>5. ReplyInv(r)'
    <2>1. Final(r) \in Statuses /\ Final(r) # "lost"
      BY <1>0, <1>a, <1>b, NoneFacts DEF Statuses, Final, TypeOK
    <2>. QED BY <1>0, <1>a, <1>b, <2>1, NoneFacts DEF LockInv, StreamInv, ReplyInv, Statuses
  <1>6. ASSUME NEW q \in Requests, q # r
        PROVE  StreamInv(q)' /\ BufferInv(q)' /\ ReplyInv(q)'
    BY <1>6, <1>0, <1>a, OthersKeep DEF IInv, TypeOK
  <1>. QED BY <1>1, <1>2, <1>3, <1>4, <1>5, <1>6 DEF IInv

\* WriteDeadline preserves the invariant.
LEMMA WriteDeadlinePreserves ==
  ASSUME IInv, NEW r \in Requests, WriteDeadline(r)
  PROVE  IInv'
  <1>0. TypeOK /\ LockInv(r) /\ StreamInv(r) /\ BufferInv(r) /\ ReplyInv(r)
    BY DEF IInv
  <1>a. /\ r \in Slow
        /\ UNCHANGED <<arrived, upload, taken, input, values, fuel, seen, data, serial,
                       committed, fault, logged>>
        /\ \/ pc[r] = "send" /\ fault[r] = None /\ pc' = [pc EXCEPT ![r] = "run"]
           \/ pc[r] = "send" /\ fault[r] # None /\ pc' = [pc EXCEPT ![r] = "flush"]
           \/ pc[r] = "flush" /\ pc' = [pc EXCEPT ![r] = "done"]
        /\ answer' = [answer EXCEPT ![r] = IF answer[r] = None THEN "lost" ELSE answer[r]]
    BY <1>0 DEF WriteDeadline, Goto, Tell, AfterSend, stream, body
  <1>1. TypeOK'
    <2>1. pc' \in [Requests -> Pcs]
      BY <1>0, <1>a DEF TypeOK, Pcs
    <2>2. answer' \in [Requests -> Statuses \cup {None, "lost"}]
      BY <1>0, <1>a DEF TypeOK, Statuses
    <2>. QED BY <1>0, <1>a, <2>1, <2>2 DEF TypeOK
  <1>b. /\ \/ pc[r] = "send" /\ fault[r] = None /\ pc'[r] = "run"
           \/ pc[r] = "send" /\ fault[r] # None /\ pc'[r] = "flush"
           \/ pc[r] = "flush" /\ pc'[r] = "done"
        /\ \/ answer[r] = None /\ answer'[r] = "lost"
           \/ answer[r] # None /\ answer'[r] = answer[r]
        /\ Final(r)' = Final(r)
    BY <1>0, <1>a DEF TypeOK, Final
  <1>2. ASSUME NEW q \in Requests
        PROVE  LockInv(q)'
    <2>1. CASE q = r
      BY <2>1, <1>0, <1>a, <1>b DEF LockInv, ReplyInv
    <2>2. CASE q # r
      BY <2>2, <1>0, <1>a DEF IInv, TypeOK, LockInv
    <2>. QED BY <2>1, <2>2
  <1>3. StreamInv(r)'
    BY <1>0, <1>a, <1>b, RequestTypes DEF LockInv, StreamInv
  <1>4. BufferInv(r)'
    BY <1>0, <1>a, <1>b, RequestTypes DEF LockInv, BufferInv
  <1>5. ReplyInv(r)'
    BY <1>0, <1>a, <1>b, NoneFacts DEF LockInv, StreamInv, ReplyInv, Final
  <1>6. ASSUME NEW q \in Requests, q # r
        PROVE  StreamInv(q)' /\ BufferInv(q)' /\ ReplyInv(q)'
    BY <1>6, <1>0, <1>a, OthersKeep DEF IInv, TypeOK
  <1>. QED BY <1>1, <1>2, <1>3, <1>4, <1>5, <1>6 DEF IInv

\* The invariant holds in every reachable state.
THEOREM IInvHolds == Spec => []IInv
  <1>1. IInv /\ [Next]_vars => IInv'
    <2> SUFFICES ASSUME IInv, [Next]_vars PROVE IInv'
      OBVIOUS
    <2>1. CASE UNCHANGED vars
      <3>1. TypeOK'
        BY <2>1 DEF vars, IInv, TypeOK
      <3>2. ASSUME NEW r \in Requests
            PROVE  LockInv(r)' /\ StreamInv(r)' /\ BufferInv(r)' /\ ReplyInv(r)'
        BY <2>1, <3>2, OthersKeep DEF vars, IInv, LockInv
      <3>. QED BY <3>1, <3>2 DEF IInv
    <2>. QED
      BY <2>1, DeliverPreserves, ReadTimeoutPreserves, AcceptPreserves, PrereadPreserves,
          LockPreserves, ReadBodyPreserves, GetDataPreserves, PutDataPreserves,
          RespondPreserves, RaisePreserves, OutOfFuelPreserves, EndPreserves, RecoverPreserves,
          UnlockPreserves, SendPreserves, FlushPreserves, WriteDeadlinePreserves
      DEF Next, Server, Handler, Client, Timeout
  <1>. QED BY InitIInv, <1>1, PTL DEF Spec

\* Every variable keeps its type.
THEOREM TypeCorrect == Spec => []TypeOK
  BY IInvHolds, PTL DEF IInv

-----------------------------------------------------------------------------
(* The promises.                                                           *)

\* With (serialize_requests), read-modify-writes of handlers are atomic: each
\* change of the data adds exactly one update to the data as it was.
THEOREM UpdatesAtomic == Serialized => (Spec => UpdatesAreAtomic)
  <1> SUFFICES ASSUME Serialized PROVE Spec => UpdatesAreAtomic
    OBVIOUS
  <1>1. ASSUME IInv, [Next]_vars
        PROVE  [\E r \in Requests : data' = data \cup {r}]_data
    <2>1. ASSUME NEW r \in Requests, PutData(r)
          PROVE  data' = data \cup {r}
      <3>1. PICK copy \in seen[r] : data' = copy \cup {r}
        BY <2>1 DEF PutData
      <3>2. copy = data
        BY <1>1, <2>1, <3>1 DEF IInv, LockInv, PutData, Execute
      <3>. QED BY <3>1, <3>2
    <2>2. ASSUME NEW r \in Requests,
                 \/ Accept(r) \/ Preread(r) \/ Recover(r) \/ Unlock(r) \/ Lock(r)
                 \/ ReadBody(r) \/ GetData(r) \/ Respond(r) \/ Raise(r) \/ OutOfFuel(r) \/ End(r)
                 \/ Client(r) \/ Timeout(r)
          PROVE  data' = data
      BY <2>2
      DEF Accept, Preread, Recover, Unlock, Lock, ReadBody, GetData, Respond, Raise, OutOfFuel,
          End, Client, Deliver, Send, Flush, Timeout, ReadTimeout, WriteDeadline, Tell
    <2>3. CASE UNCHANGED vars
      BY <2>3 DEF vars
    <2>. QED BY <1>1, <2>1, <2>2, <2>3 DEF Next, Server, Handler
  <1>. QED BY <1>1, IInvHolds, PTL DEF Spec, UpdatesAreAtomic

\* What clients are told of their requests is true, with or without the lock.
THEOREM StatusTruthful == Spec => []StatusIsTruthful
  <1>1. IInv => StatusIsTruthful
    <2> SUFFICES ASSUME IInv, NEW r \in Requests
                 PROVE  /\ answer[r] = "implicit success" => fault[r] = None
                        /\ answer[r] = "internal error" => fault[r] # None
                        /\ answer[r] = "bad request" => upload[r] = "broken"
                        /\ (pc[r] = "done" /\ r \notin Slow) => answer[r] = Final(r)
      BY DEF StatusIsTruthful
    <2>1. ReplyInv(r) /\ committed[r] \in Statuses \cup {None}
      BY DEF IInv, TypeOK
    <2>2. CASE pc[r] = "done" /\ answer[r] = Final(r)
      BY <2>1, <2>2, NoneFacts DEF ReplyInv, Final, Statuses
    <2>3. CASE answer[r] \in {None, "lost", committed[r]}
      BY <2>1, <2>3, NoneFacts DEF ReplyInv, Final, Statuses
    <2>. QED BY <2>1, <2>2, <2>3 DEF ReplyInv
  <1>. QED BY <1>1, IInvHolds, PTL

\* Only a read of the body adds a value, and the value is what was read.
LEMMA NewValues ==
  ASSUME [Next]_vars, NEW q \in Requests, NEW v \in values'[q], TypeOK
  PROVE  v \in values[q] \/ (ReadBody(q) /\ ReadError(q) = None /\ v = Chunk(q))
  <1>1. ASSUME NEW r \in Requests, ReadBody(r)
        PROVE  v \in values[q] \/ (ReadBody(q) /\ ReadError(q) = None /\ v = Chunk(q))
    <2>1. CASE ReadError(r) # None
      <3>1. values' = values
        BY <1>1, <2>1 DEF ReadBody
      <3>. QED BY <3>1
    <2>2. CASE ReadError(r) = None
      <3>1. values' = [values EXCEPT ![r] = @ \cup {Chunk(r)}] \/ values' = values
        BY <1>1, <2>2 DEF ReadBody
      <3>2. values \in [Requests -> SUBSET (Nat \X Nat)]
        BY DEF TypeOK
      <3>3. CASE q = r
        <4>1. values'[r] \in {values[r], values[r] \cup {Chunk(r)}}
          BY <3>1, <3>2
        <4>2. v \in values[r] \/ v = Chunk(r)
          BY <4>1, <3>3
        <4>. QED BY <4>2, <3>3, <2>2, <1>1
      <3>4. CASE q # r
        BY <3>1, <3>2, <3>4
      <3>. QED BY <3>3, <3>4
    <2>. QED BY <2>1, <2>2
  <1>2. ASSUME NEW r \in Requests,
               \/ Accept(r) \/ Preread(r) \/ Recover(r) \/ Unlock(r) \/ Lock(r)
               \/ GetData(r) \/ PutData(r) \/ Respond(r) \/ Raise(r) \/ OutOfFuel(r) \/ End(r)
               \/ Client(r) \/ Timeout(r)
        PROVE  values' = values
    BY <1>2
    DEF Accept, Preread, Recover, Unlock, Lock, GetData, PutData, Respond, Raise, OutOfFuel,
        End, Client, Deliver, Send, Flush, Timeout, ReadTimeout, WriteDeadline, Tell, body
  <1>3. CASE UNCHANGED vars
    BY <1>3 DEF vars
  <1>. QED BY <1>1, <1>2, <1>3 DEF Next, Server, Handler

\* A value that starts where the body starts is the whole body, and the limit
\* admits it.
THEOREM BodiesAreWhole == Spec => []NoPartialBody
  <1>1. Init => NoPartialBody
    BY DEF Init, NoPartialBody
  <1>2. ASSUME IInv, NoPartialBody, [Next]_vars
        PROVE  NoPartialBody'
    <2> SUFFICES ASSUME NEW r \in Requests, NEW v \in values'[r],
                        v[1] = 0, r \notin Bodyless
                 PROVE  v[2] = Size[r] /\ Size[r] <= Limit
      BY DEF NoPartialBody
    <2>1. CASE v \in values[r]
      BY <1>2, <2>1 DEF NoPartialBody
    <2>2. CASE ReadBody(r) /\ ReadError(r) = None /\ v = Chunk(r)
      <3>1. TypeOK /\ StreamInv(r) /\ BufferInv(r)
            /\ (input[r].kind = "connection" => ReadEnds(r))
        BY <1>2, <2>2 DEF IInv, ReadBody
      <3>2. v[2] \in Nat /\ v[2] - v[1] <= Limit
        BY <2>2, <3>1, ChunkRange
      <3>3. CASE input[r].kind = "connection"
        <4>1. v[2] = Size[r]
          BY <2>2, <3>1, <3>3, ChunkRange
        <4>. QED BY <3>2, <4>1
      <3>4. CASE input[r].kind = "buffer"
        <4>1. input[r].from = 0 /\ v[2] = input[r].upto
          BY <2>2, <3>1, <3>4, ChunkRange
        <4>2. ~(input[r].upto > Limit)
          BY <3>1, <3>2, <4>1, RequestTypes
        <4>. QED BY <3>1, <3>4, <4>1, <4>2 DEF BufferInv
      <3>5. input[r].kind # "incomplete"
        BY <2>2, <3>1, ChunkRange, NoneFacts
      <3>. QED BY <3>1, <3>3, <3>4, <3>5, RequestTypes
    <2>. QED BY <1>2, <2>1, <2>2, NewValues DEF IInv
  <1>. QED BY <1>1, <1>2, IInvHolds, PTL DEF Spec

\* With the lock, whatever is read after a refused body is empty.
THEOREM SerialBodies == Serialized => (Spec => []SerialBodyIsWhole)
  <1> SUFFICES ASSUME Serialized PROVE Spec => []SerialBodyIsWhole
    OBVIOUS
  <1>1. Init => SerialBodyIsWhole
    BY DEF Init, SerialBodyIsWhole
  <1>2. ASSUME IInv, SerialBodyIsWhole, [Next]_vars
        PROVE  SerialBodyIsWhole'
    <2> SUFFICES ASSUME NEW r \in Requests, NEW v \in values'[r], v[1] # v[2]
                 PROVE  v = <<0, Size[r]>> /\ Size[r] <= Limit
      BY DEF SerialBodyIsWhole
    <2>1. CASE v \in values[r]
      BY <1>2, <2>1 DEF SerialBodyIsWhole
    <2>2. CASE ReadBody(r) /\ ReadError(r) = None /\ v = Chunk(r)
      <3>1. /\ TypeOK /\ StreamInv(r) /\ BufferInv(r)
            /\ input[r].kind = "connection" => ReadEnds(r)
            /\ pc[r] = "run"
        BY <1>2, <2>2 DEF IInv, ReadBody, Execute
      <3>2. input[r].kind = "buffer"
        BY <2>2, <3>1, ChunkRange, NoneFacts, RequestTypes DEF StreamInv
      <3>3. /\ v = <<v[1], v[2]>> /\ v[1] = input[r].from /\ v[2] = input[r].upto
            /\ v[2] - v[1] <= Limit
        BY <2>2, <3>1, <3>2, ChunkRange
      <3>4. v[1] = 0 /\ ~(input[r].upto > Limit)
        BY <3>1, <3>2, <3>3, RequestTypes DEF BufferInv
      <3>. QED BY <3>1, <3>2, <3>3, <3>4 DEF BufferInv
    <2>. QED BY <1>2, <2>1, <2>2, NewValues DEF IInv
  <1>. QED BY <1>1, <1>2, IInvHolds, PTL DEF Spec
=============================================================================
