----------------------------- MODULE HttpServe -----------------------------
(***************************************************************************)
(* The HTTP server of the bytecode VM: the route closure that runs one     *)
(* handler per request, the reading of a bounded request body, the lock    *)
(* of (serialize_requests) with its buffered response, and the answer a    *)
(* failed handler gives (internal/vm/vm.go HTTP_ROUTE, PARSE_JSON,         *)
(* HTTP_REQ_BODY, RES; internal/vm/http_response.go).                      *)
(*                                                                         *)
(* Requests run concurrently, each in a goroutine of net/http.  A client   *)
(* may stop sending its body or stop reading the response at any point.    *)
(* Bodies are byte ranges [from, upto) of what the client sends.           *)
(***************************************************************************)
EXTENDS Naturals

CONSTANTS
  Requests,   \* requests that reach a route
  Serialized, \* whether the server has (serialize_requests)
  Bodyless,   \* those whose method is GET, HEAD, DELETE or OPTIONS
  Size,       \* bytes each client declares
  Limit,      \* --max-request-bytes
  Slow,       \* requests whose client may stall
  Fuel,       \* instructions a handler may execute (--max-instructions)
  None,       \* no response, no fault
  NoReq       \* nobody holds the lock

Statuses == {"own", "bad request", "internal error", "implicit success"}

Faults == {"INVALID_REQUEST_BODY", "IO_ERROR", "LIMIT_EXCEEDED", "OTHER"}

ASSUME HttpServeAssumption ==
  /\ Serialized \in BOOLEAN
  /\ Bodyless \subseteq Requests
  /\ Slow \subseteq Requests
  /\ Size \in [Requests -> Nat]
  /\ Limit \in Nat /\ Fuel \in Nat
  /\ NoReq \notin Requests

ASSUME NoneAssumption ==
  /\ \A s \in Statuses : s # None
  /\ \A f \in Faults : f # None
  /\ None # "lost"

VARIABLES
  pc,         \* where the goroutine of each request is
  arrived,    \* bytes of its body that reached the server
  upload,     \* whether the body is still arriving
  taken,      \* bytes the server took off the connection
  input,      \* r.Body as the handler sees it
  values,     \* body values that reads gave the handler
  fuel,       \* instructions the handler has left
  seen,       \* the handler's copy of the application's data, if it has one
  data,       \* application data, one element per update applied
  serial,     \* holder of the __http_serial mutex
  committed,  \* status the recorder or the buffer holds
  fault,      \* error that ended the handler
  logged,     \* requests with a fault line in the log
  answer      \* what the client got

stream == <<arrived, upload>>
body == <<taken, input, values>>
reply == <<committed, fault, logged, answer>>
vars == <<pc, arrived, upload, taken, input, values, fuel, seen, data, serial,
          committed, fault, logged, answer>>

Pcs == {"new", "preread", "wantLock", "run", "send", "recover", "unlock", "flush", "done"}

\* What r.Body reads from: the connection, a buffer that holds the bytes
\* [from, upto), or nothing but errors.
Connection == [kind |-> "connection", from |-> 0, upto |-> 0]
Incomplete == [kind |-> "incomplete", from |-> 0, upto |-> 0]
Buffer(i, j) == [kind |-> "buffer", from |-> i, upto |-> j]

Inputs == [kind : {"connection", "buffer", "incomplete"}, from : Nat, upto : Nat]

TypeOK ==
  /\ pc \in [Requests -> Pcs]
  /\ upload \in [Requests -> {"open", "complete", "broken"}]
  /\ arrived \in [Requests -> Nat]
  /\ taken \in [Requests -> Nat]
  /\ input \in [Requests -> Inputs]
  /\ values \in [Requests -> SUBSET (Nat \X Nat)]
  /\ fuel \in [Requests -> 0 .. Fuel]
  /\ seen \in [Requests -> SUBSET SUBSET Requests]
  /\ data \subseteq Requests
  /\ serial \in Requests \cup {NoReq}
  /\ committed \in [Requests -> Statuses \cup {None}]
  /\ fault \in [Requests -> Faults \cup {None}]
  /\ logged \subseteq Requests
  /\ answer \in [Requests -> Statuses \cup {None, "lost"}]

Init ==
  /\ pc = [r \in Requests |-> "new"]
  /\ arrived = [r \in Requests |-> 0]
  /\ upload = [r \in Requests |-> IF Size[r] = 0 THEN "complete" ELSE "open"]
  /\ taken = [r \in Requests |-> 0]
  /\ input = [r \in Requests |-> Connection]
  /\ values = [r \in Requests |-> {}]
  /\ fuel = [r \in Requests |-> Fuel]
  /\ seen = [r \in Requests |-> {}]
  /\ data = {}
  /\ serial = NoReq
  /\ committed = [r \in Requests |-> None]
  /\ fault = [r \in Requests |-> None]
  /\ logged = {}
  /\ answer = [r \in Requests |-> None]

Goto(r, from, to) ==
  /\ pc[r] = from
  /\ pc' = [pc EXCEPT ![r] = to]

-----------------------------------------------------------------------------
(* The client and net/http.                                                *)

\* The next byte of the body arrives.
Deliver(r) ==
  /\ upload[r] = "open"
  /\ arrived' = [arrived EXCEPT ![r] = @ + 1]
  /\ upload' = [upload EXCEPT ![r] = IF arrived[r] + 1 = Size[r] THEN "complete" ELSE @]
  /\ UNCHANGED <<pc, body, fuel, seen, data, serial, reply>>

\* The client breaks off, or http.Server.ReadTimeout ends its upload.
ReadTimeout(r) ==
  /\ r \in Slow
  /\ upload[r] = "open"
  /\ upload' = [upload EXCEPT ![r] = "broken"]
  /\ UNCHANGED <<pc, arrived, body, fuel, seen, data, serial, reply>>

\* A bounded read of the connection: io.ReadAll of an io.LimitReader returns at
\* limit + 1 bytes, at the end of the body, or with the error of the connection.
Available(r) == arrived[r] - taken[r]

LimitReader_OffByOne(limit) == limit

LimitReader(limit) == limit + 1

Bounded(r) ==
  IF Available(r) < LimitReader(Limit) THEN Available(r) ELSE LimitReader(Limit)

ReadEnds(r) == upload[r] # "open" \/ Available(r) >= LimitReader(Limit)

ReadFails(r) == upload[r] = "broken" /\ Available(r) < LimitReader(Limit)

-----------------------------------------------------------------------------
(* The route closure, up to the handler.                                   *)

\* With the lock, the response is buffered and the body is read before it.
Accept(r) ==
  /\ pc[r] = "new"
  /\ IF ~Serialized THEN Goto(r, "new", "run") /\ UNCHANGED input
     ELSE IF r \in Bodyless
       THEN /\ Goto(r, "new", "wantLock")
            /\ input' = [input EXCEPT ![r] = Buffer(0, 0)]
       ELSE Goto(r, "new", "preread") /\ UNCHANGED input
  /\ UNCHANGED <<stream, taken, values, fuel, seen, data, serial, reply>>

Preread_KeepsPartial(r) ==
  /\ Goto(r, "preread", "wantLock")
  /\ ReadEnds(r)
  /\ taken' = [taken EXCEPT ![r] = @ + Bounded(r)]
  /\ input' = [input EXCEPT ![r] = Buffer(taken[r], taken[r] + Bounded(r))]
  /\ UNCHANGED <<stream, values, fuel, seen, data, serial, reply>>

Preread(r) ==
  /\ Goto(r, "preread", "wantLock")
  /\ ReadEnds(r)
  /\ taken' = [taken EXCEPT ![r] = @ + Bounded(r)]
  /\ input' = [input EXCEPT ![r] =
       IF ReadFails(r) THEN Incomplete ELSE Buffer(taken[r], taken[r] + Bounded(r))]
  /\ UNCHANGED <<stream, values, fuel, seen, data, serial, reply>>

Lock_Skipped(r) ==
  /\ Goto(r, "wantLock", "run")
  /\ UNCHANGED <<stream, body, fuel, seen, data, serial, reply>>

Lock(r) ==
  /\ Goto(r, "wantLock", "run")
  /\ serial = NoReq
  /\ serial' = r
  /\ UNCHANGED <<stream, body, fuel, seen, data, reply>>

-----------------------------------------------------------------------------
(* The handler: one action per kind of instruction.                        *)

\* BCVM.run charges every instruction against the limit before it executes it.
Execute(r) ==
  /\ pc[r] = "run"
  /\ fuel[r] > 0
  /\ fuel' = [fuel EXCEPT ![r] = @ - 1]

Fail(r, code) ==
  /\ pc' = [pc EXCEPT ![r] = "recover"]
  /\ fault' = [fault EXCEPT ![r] = code]

\* An error unwinds to a TRY_LET of the handler, which goes on, or ends it.
Throw(r, code) == Fail(r, code) \/ UNCHANGED <<pc, fault>>

\* What one bounded read of r.Body yields: a byte range ...
Chunk(r) ==
  LET i == input[r] IN
    CASE i.kind = "connection" -> <<taken[r], taken[r] + Bounded(r)>>
      [] i.kind = "incomplete" -> <<0, 0>>
      [] i.kind = "buffer" ->
           <<i.from, IF i.upto - i.from < LimitReader(Limit) THEN i.upto
                     ELSE i.from + LimitReader(Limit)>>

\* ... and the error that req_body and parse_json raise for it.
ReadError(r) ==
  CASE input[r].kind = "incomplete" -> "INVALID_REQUEST_BODY"
    [] input[r].kind = "connection" /\ ReadFails(r) -> "IO_ERROR"
    [] OTHER -> IF Chunk(r)[2] - Chunk(r)[1] > Limit THEN "LIMIT_EXCEEDED" ELSE None

\* req_body, or parse_json over req.body.  What was read without an error is put
\* back as a buffer, even if it is no JSON or the memory budget has no room for
\* it; what was refused stays consumed.
ReadBody(r) ==
  /\ Execute(r)
  /\ input[r].kind = "connection" => ReadEnds(r)
  /\ taken' = IF input[r].kind = "connection" THEN [taken EXCEPT ![r] = Chunk(r)[2]] ELSE taken
  /\ IF ReadError(r) = None
       THEN /\ input' = [input EXCEPT ![r] = Buffer(Chunk(r)[1], Chunk(r)[2])]
            /\ \/ /\ values' = [values EXCEPT ![r] = @ \cup {Chunk(r)}]
                  /\ UNCHANGED <<pc, fault>>
               \/ Throw(r, "OTHER") /\ UNCHANGED values
       ELSE /\ Throw(r, ReadError(r))
            /\ input' = IF input[r].kind = "buffer"
                          THEN [input EXCEPT ![r].from = Chunk(r)[2]] ELSE input
            /\ UNCHANGED values
  /\ UNCHANGED <<stream, seen, data, serial, committed, logged, answer>>

\* The application reads its data (STORE_GET, or a variable of the server) ...
GetData(r) ==
  /\ Execute(r)
  /\ seen' = [seen EXCEPT ![r] = {data}]
  /\ UNCHANGED <<pc, stream, body, data, serial, reply>>

\* ... and writes it back with its update (STORE_PUT).
PutData(r) ==
  /\ Execute(r)
  /\ \E copy \in seen[r] :
       /\ data' = copy \cup {r}
       /\ seen' = [seen EXCEPT ![r] = {copy \cup {r}}]
  /\ UNCHANGED <<pc, stream, body, serial, reply>>

\* WriteHeader of the recorder and of the buffer: the first status counts.
Commit(r, status) ==
  committed' = [committed EXCEPT ![r] = IF @ = None THEN status ELSE @]

\* res and res_json: into the buffer, or straight to the client.
Respond(r) ==
  /\ Execute(r)
  /\ Commit(r, "own")
  /\ pc' = [pc EXCEPT ![r] = IF Serialized THEN @ ELSE "send"]
  /\ UNCHANGED <<stream, body, seen, data, serial, fault, logged, answer>>

\* Any other instruction that fails, a denied capability, a Go panic.
Raise(r) ==
  /\ Execute(r)
  /\ Throw(r, "OTHER")
  /\ UNCHANGED <<stream, body, seen, data, serial, committed, logged, answer>>

\* The limit is raised again at the next instruction: no handler survives it.
OutOfFuel(r) ==
  /\ pc[r] = "run"
  /\ fuel[r] = 0
  /\ Fail(r, "LIMIT_EXCEEDED")
  /\ UNCHANGED <<stream, body, fuel, seen, data, serial, committed, logged, answer>>

\* The handler returns.
End(r) ==
  /\ Goto(r, "run", IF Serialized THEN "unlock" ELSE "flush")
  /\ UNCHANGED <<stream, body, fuel, seen, data, serial, reply>>

-----------------------------------------------------------------------------
(* The route closure, after the handler.                                   *)

\* What an unanswered client is told of a fault.
Failure(code) ==
  IF code = "INVALID_REQUEST_BODY" THEN "bad request" ELSE "internal error"

Recover_Silent(r) ==
  /\ Goto(r, "recover", IF Serialized THEN "unlock" ELSE "flush")
  /\ logged' = logged \cup {r}
  /\ UNCHANGED <<stream, body, fuel, seen, data, serial, committed, fault, answer>>

\* The deferred recover: an incomplete body is the client's fault and is not
\* logged; any other fault is logged, and answered unless the handler has.
Recover(r) ==
  /\ Goto(r, "recover",
          IF Serialized THEN "unlock" ELSE IF committed[r] = None THEN "send" ELSE "flush")
  /\ Commit(r, Failure(fault[r]))
  /\ logged' = IF fault[r] = "INVALID_REQUEST_BODY" /\ committed[r] = None
                 THEN logged ELSE logged \cup {r}
  /\ UNCHANGED <<stream, body, fuel, seen, data, serial, fault, answer>>

\* Mutant: the response is flushed first, which a client that stalls never lets end.
Unlock_AfterFlush(r) ==
  /\ r \notin Slow
  /\ Goto(r, "unlock", "done")
  /\ answer' = [answer EXCEPT ![r] = IF committed[r] = None THEN "implicit success" ELSE committed[r]]
  /\ serial' = NoReq
  /\ UNCHANGED <<stream, body, fuel, seen, data, committed, fault, logged>>

\* Deferred after flushTo, so it runs before it.
Unlock(r) ==
  /\ Goto(r, "unlock", "flush")
  /\ serial' = NoReq
  /\ UNCHANGED <<stream, body, fuel, seen, data, reply>>

Tell(r, outcome) ==
  /\ answer' = [answer EXCEPT ![r] = IF @ = None THEN outcome ELSE @]
  /\ UNCHANGED <<stream, body, fuel, seen, data, serial, committed, fault, logged>>

\* Where a direct write to the client goes on.
AfterSend(r) == IF fault[r] = None THEN "run" ELSE "flush"

\* The client takes what the handler writes.
Send(r) ==
  /\ Goto(r, "send", AfterSend(r))
  /\ Tell(r, committed[r])

\* What flushTo or, with nothing written, net/http sends at the end.
Final(r) == IF committed[r] = None THEN "implicit success" ELSE committed[r]

Flush(r) ==
  /\ Goto(r, "flush", "done")
  /\ Tell(r, Final(r))

\* Whether the final write has a deadline: flushTo sets one, and one that the
\* recorder set before a direct write still stands.  What net/http sends for a
\* direct handler that wrote nothing has none.
FlushIsTimed(r) == Serialized \/ committed[r] # None

\* Mutant: only the writes of the handler have a deadline.
WriteDeadline_HandlerOnly(r) ==
  /\ r \in Slow
  /\ \/ Goto(r, "send", AfterSend(r))
     \/ ~Serialized /\ FlushIsTimed(r) /\ Goto(r, "flush", "done")
  /\ Tell(r, "lost")

\* Mutant: only flushTo sets a deadline.
WriteDeadline_BufferedOnly(r) ==
  /\ r \in Slow
  /\ Serialized /\ Goto(r, "flush", "done")
  /\ Tell(r, "lost")

\* The client stalls until the write deadline and loses the response.
WriteDeadline(r) ==
  /\ r \in Slow
  /\ \/ Goto(r, "send", AfterSend(r))
     \/ FlushIsTimed(r) /\ Goto(r, "flush", "done")
  /\ Tell(r, "lost")

Handler(r) ==
  \/ ReadBody(r) \/ GetData(r) \/ PutData(r) \/ Respond(r)
  \/ Raise(r) \/ OutOfFuel(r) \/ End(r)

Server(r) == Accept(r) \/ Preread(r) \/ Handler(r) \/ Recover(r) \/ Unlock(r)

Client(r) == Deliver(r) \/ Send(r) \/ Flush(r)

Timeout(r) == ReadTimeout(r) \/ WriteDeadline(r)

Next == \E r \in Requests : Server(r) \/ Lock(r) \/ Client(r) \/ Timeout(r)

Spec == Init /\ [][Next]_vars

\* Goroutines run and sync.Mutex is fair in the end; clients that do not stall
\* send and read.  Nothing is assumed of the other clients, not even a timeout.
Fairness ==
  /\ \A r \in Requests : WF_vars(Server(r)) /\ SF_vars(Lock(r))
  /\ \A r \in Requests \ Slow : WF_vars(Deliver(r)) /\ WF_vars(Send(r) \/ Flush(r))
FairSpec == Spec /\ Fairness

\* ReadTimeout and the write deadline expire.
TimeoutsExpire ==
  \A r \in Slow : WF_vars(Deliver(r) \/ ReadTimeout(r)) /\ WF_vars(WriteDeadline(r))

-----------------------------------------------------------------------------
(* Properties.                                                             *)

\* docs/guides/http_api.md: (serialize_requests) makes every read-modify-write
\* atomic.  Each change of the data adds one update to what was there.
UpdatesAreAtomic ==
  [][\E r \in Requests : data' = data \cup {r}]_data

\* The client of a failed handler never sees a success the handler did not send,
\* and a client is only blamed for a body that did not arrive.
StatusIsTruthful ==
  \A r \in Requests :
    /\ answer[r] = "implicit success" => fault[r] = None
    /\ answer[r] = "internal error" => fault[r] # None
    /\ answer[r] = "bad request" => upload[r] = "broken"
    /\ (pc[r] = "done" /\ r \notin Slow) => answer[r] = Final(r)

\* docs/cli.md: partial bytes are never supplied as complete JSON.  A value that
\* starts where the body starts is the whole body, which the limit admits.
NoPartialBody ==
  \A r \in Requests : \A v \in values[r] :
    v[1] = 0 /\ r \notin Bodyless => v[2] = Size[r] /\ Size[r] <= Limit

\* With the lock, what follows a refused oversize body is empty.
SerialBodyIsWhole ==
  \A r \in Requests : \A v \in values[r] :
    v[1] # v[2] => v = <<0, Size[r]>> /\ Size[r] <= Limit

\* docs/cli.md, docs/guides/http_api.md: reading a body larger than the limit
\* raises LIMIT_EXCEEDED, so no read of it gives the handler a value.
OversizeIsRefused ==
  \A r \in Requests : Size[r] > Limit => values[r] = {}

\* A client that stops sending or reading delays nobody else: every request of
\* another client is answered, whether or not a timeout ever ends the stalled one.
OthersAreAnswered ==
  \A r \in Requests \ Slow : pc[r] # "new" ~> pc[r] = "done"

\* http_response.go, vm.go:3173: when the timeouts expire they end every request, of
\* a stalled client too.  The exception is a handler that wrote nothing to a client
\* that does not read, without the lock: net/http's own answer has no deadline.
EveryRequestEnds ==
  TimeoutsExpire =>
    \A r \in Requests :
      pc[r] # "new" ~> pc[r] = "done" \/ (r \in Slow /\ pc[r] = "flush" /\ ~FlushIsTimed(r))
=============================================================================
