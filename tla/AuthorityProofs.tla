--------------------------- MODULE AuthorityProofs ---------------------------
(***************************************************************************)
(* Theorems about Authority, for every set of programs, grants, hosts and  *)
(* limits, and every change another process makes to the directory tree.   *)
(***************************************************************************)
EXTENDS Authority, SequenceTheorems, TLAPS

-----------------------------------------------------------------------------
(* The seal.                                                               *)

\* A sealed receipt takes no entry.
LEMMA SealedTakesNothing ==
  ASSUME NEW r, r.sealed
  PROVE  /\ \A e : Noted(r, e) = r
         /\ \A b, cap, decision : Record(r, b, cap, decision) = r
  BY DEF Noted, Record

LEMMA SealedStep ==
  ASSUME receipt.sealed, [Next]_vars
  PROVE  receipt' = receipt
  <1> USE SealedTakesNothing
  <1>1. ASSUME NEW b, NEW cap, Deny(b, cap)
        PROVE  receipt' = receipt
    BY <1>1 DEF Deny
  <1>2. ASSUME NEW b, NEW cap, NEW io, Allow(b, cap, io)
        PROVE  receipt' = receipt
    BY <1>2 DEF Allow
  <1>3. ASSUME NEW b, Escapes(b) \/ Breaks(b) \/ \E io : Step(b, io)
        PROVE  receipt' = receipt
    BY <1>1, <1>3 DEF Escapes, Breaks, Step
  <1>4. ASSUME NEW b, NEW target, NEW x, Performs(b, target, x)
        PROVE  receipt' = receipt
    BY <1>4 DEF Performs
  <1>5. ASSUME NEW b, AuthorizeFile(b) \/ MatchRoot(b) \/ StatRoot(b) \/ OpenRoot(b) \/ LstatTarget(b)
        PROVE  receipt' = receipt
    BY <1>1, <1>2, <1>3, <1>5 DEF AuthorizeFile, MatchRoot, StatRoot, OpenRoot, LstatTarget
  <1>6. ASSUME NEW b, OpenTarget(b) \/ OpenPinned(b) \/ VerifyPinned(b) \/ CreatePinned(b)
        PROVE  receipt' = receipt
    BY <1>3, <1>4, <1>6 DEF OpenTarget, OpenPinned, VerifyPinned, CreatePinned
  <1>7. ASSUME NEW b, MakeDirectory(b) \/ ReplaceTarget(b) \/ \E phase : Leaves(b, phase)
        PROVE  receipt' = receipt
    BY <1>3, <1>4, <1>7 DEF MakeDirectory, ReplaceTarget, Leaves
  <1>8. ASSUME NEW b, Fetches(b)
        PROVE  receipt' = receipt
    BY <1>1, <1>2, <1>3, <1>8
    DEF Fetches, AuthorizeRequest, Dial, DenyHop, Redirect, Respond, RecordHop
  <1>9. ASSUME NEW b, \/ AuthorizeProgram(b) \/ RunProgram(b) \/ ReadEnvironment(b)
                      \/ UseDict(b) \/ Spawn(b) \/ SpawnAgent(b)
        PROVE  receipt' = receipt
    BY <1>1, <1>2, <1>3, <1>4, <1>9
    DEF AuthorizeProgram, RunProgram, ReadEnvironment, UseDict, Spawn, SpawnAgent
  <1>10. ASSUME NEW b, \/ Begin(b) \/ Limited(b) \/ Catch(b) \/ AgentEnds(b) \/ DetachedEnds(b)
         PROVE  receipt' = receipt
    BY <1>10 DEF Begin, Limited, Catch, AgentEnds, DetachedEnds
  <1>11. CASE Main \/ Cancel \/ Outside
    BY <1>11 DEF Main, CopyEvidence, Seal, Cancel, Outside
  <1>12. CASE UNCHANGED vars
    BY <1>12 DEF vars
  <1>. QED
    BY <1>5, <1>6, <1>7, <1>8, <1>9, <1>10, <1>11, <1>12 DEF Next, Bodies, Files

\* However many bodies still run, act and fail after the main body has ended,
\* the receipt it sealed stays as it is.
THEOREM SealStands == Spec => SealedReceiptStands
  <1>1. [Next]_vars => [receipt.sealed => receipt' = receipt]_vars
    BY SealedStep
  <1>. QED BY <1>1, PTL DEF Spec, SealedReceiptStands

-----------------------------------------------------------------------------
(* The bodies of a run.                                                    *)

Fields == {"kind", "parent", "caps", "code", "state", "executed", "depth", "decided",
           "unsealed", "io", "failure", "shares", "line"}

BodiesAreRecords ==
  /\ bodies \in Seq(Range(bodies)) /\ Len(bodies) > 0
  /\ \A b \in Ids : DOMAIN bodies[b] = Fields
  /\ \A b \in Ids : bodies[b].kind = "main" <=> b = 1

\* A body in the middle of an instruction has one, and what is left of any body
\* is known code.
CodeIsKnown ==
  \A b \in Ids :
    /\ bodies[b].code \in Code
    /\ RootsAreNamed(Caps(b))
    /\ bodies[b].state \in {"started", "io", "failing", "waiting"} => bodies[b].code # <<>>

Running(b) == bodies[b].kind = "agent" /\ bodies[b].state # "ended"

\* A body waits for each agent it started, one at a time.
AgentsAreAwaited ==
  \A b \in Ids : Running(b) =>
    /\ bodies[b].parent \in Ids /\ bodies[b].parent # b
    /\ bodies[bodies[b].parent].state = "waiting"
    /\ \A c \in Ids : Running(c) /\ bodies[c].parent = bodies[b].parent => c = b

\* Once the evidence is copied, the main body does nothing any more.
MainRests == evidence # None => bodies[1].state = "ended" \/ Over(1)

CoveredBy(outer, inner) == \A held \in inner : Covers(outer, held)

\* Whatever a body holds, every body above it holds as well.
LinesAreCovered ==
  \A b \in Ids : \A a \in bodies[b].line : a \in Ids /\ CoveredBy(Caps(a), Caps(b))

PathGranted(caps, mode, path) ==
  HasCoarse(caps, "filesystem") \/ \E held \in caps : Names(held, mode, path)

FilePhases == {"scope", "stat", "root", "reopen", "lstat", "open", "pinned", "create",
               "verify", "mkdir", "replace"}

\* What has been checked by the time an instruction is at a phase of its effect.
FileIsGranted(b) ==
  /\ Inst(b).op \in FileOps
  /\ "phase" \in DOMAIN Io(b) /\ Io(b).phase \in FilePhases
  /\ Inst(b).op \in {"READ_FILE", "STORE_PUT"} => PathGranted(Caps(b), "read", Inst(b).path)
  /\ Inst(b).op # "READ_FILE" => PathGranted(Caps(b), "write", Inst(b).path)

ProgramIsGranted(b) ==
  /\ Inst(b).op = "EXEC" /\ Io(b).phase = "exec"
  /\ \E grant \in Caps(b) : GrantsExec(grant, Inst(b).path, Inst(b).args)

ChainIsGuarded(caps, chain) ==
  /\ chain \in Seq(Range(chain)) /\ Len(chain) > 0
  /\ AuthorizesFetch(caps, Last(chain))
  /\ IsOptOut(Last(chain).host) => Last(chain).host = chain[1].host
  /\ \A k \in 1 .. Len(chain) - 1 :
       chain[k].scheme = "https" => chain[k + 1].scheme = "https"
  /\ ~ChangedOrigin(chain) => \A k \in DOMAIN chain : SameOrigin(chain[k], Last(chain))

RequestIsGranted(b) ==
  /\ Inst(b).op = "FETCH"
  /\ DOMAIN Io(b) = {"phase", "chain", "referer"} /\ Io(b).phase \in {"dial", "response"}
  /\ ChainIsGuarded(Caps(b), Io(b).chain)
  /\ Io(b).referer # None => ~ChangedOrigin(Io(b).chain)

Granted(b) ==
  /\ bodies[b].state \in {"started", "io"} => PassesClass(b)
  /\ bodies[b].state = "io" =>
       FileIsGranted(b) \/ ProgramIsGranted(b) \/ RequestIsGranted(b)

InstructionsAreGranted == \A b \in Ids : Granted(b)

PerformedByBodies == \A e \in performed : e.body \in Ids

\* One body goes a step on: it stays who it is and nobody else changes.
Turn(b) ==
  /\ bodies' \in Seq(Range(bodies')) /\ Ids' = Ids
  /\ DOMAIN (bodies'[b]) = Fields
  /\ \A x \in {"kind", "parent", "caps", "shares", "line"} : bodies'[b][x] = bodies[b][x]
  /\ \A c \in Ids \ {b} : bodies'[c] = bodies[c]

LEMMA FunctionIsSeq ==
  ASSUME NEW n \in Nat, NEW S, NEW f \in [1 .. n -> S]
  PROVE  f \in Seq(S)
  <1>1. [1 .. n -> S] \in {[1 .. m -> S] : m \in Nat}
    OBVIOUS
  <1>2. f \in UNION {[1 .. m -> S] : m \in Nat}
    BY <1>1, Zenon
  <1>. QED BY <1>2, SeqDef, Zenon

Replaced(b, r) == [bodies EXCEPT ![b] = r]

LEMMA BodyReplaced ==
  ASSUME BodiesAreRecords, NEW b \in Ids, NEW r, NEW bs, bs = Replaced(b, r)
  PROVE  /\ bs \in Seq(Range(bs)) /\ DOMAIN bs = Ids
         /\ bs[b] = r
         /\ \A c \in Ids \ {b} : bs[c] = bodies[c]
  <1>1. DOMAIN bs = Ids /\ bs[b] = r /\ \A c \in Ids \ {b} : bs[c] = bodies[c]
    BY DEF BodiesAreRecords, Ids, Replaced
  <1>2. bs \in Seq(Range(bs))
    <2> DEFINE n == Len(bodies)
    <2>1. n \in Nat /\ Ids = 1 .. n
      BY DEF BodiesAreRecords, Ids
    <2>2. bs \in [1 .. n -> Range(bs)]
      BY <1>1, <2>1 DEF Ids, Range, Replaced
    <2>. QED BY <2>1, <2>2, FunctionIsSeq
  <1>. QED BY <1>1, <1>2

LEMMA BodyChange ==
  ASSUME BodiesAreRecords, NEW b \in Ids, NEW r, bodies' = [bodies EXCEPT ![b] = r]
  PROVE  /\ bodies' \in Seq(Range(bodies')) /\ Ids' = Ids
         /\ bodies'[b] = r
         /\ \A c \in Ids \ {b} : bodies'[c] = bodies[c]
  <1>1. PICK bs : bs = bodies'
    OBVIOUS
  <1>2. bs = Replaced(b, r)
    BY <1>1 DEF Replaced
  <1>. QED BY <1>1, <1>2, BodyReplaced DEF Ids

\* What the ways of changing a body do to it.
LEMMA ProceedTurn ==
  ASSUME BodiesAreRecords, NEW b \in Ids, bodies' = [bodies EXCEPT ![b] = Proceed(@)]
  PROVE  /\ Turn(b) /\ bodies'[b].state = "ready" /\ bodies'[b].code = Tail(bodies[b].code)
         /\ bodies'[b].decided = bodies[b].decided /\ bodies'[b].unsealed = bodies[b].unsealed
  <1>1. DOMAIN Proceed(bodies[b]) = Fields
    BY DEF BodiesAreRecords, Proceed, Fields
  <1>2. /\ Proceed(bodies[b]).state = "ready" /\ Proceed(bodies[b]).code = Tail(bodies[b].code)
        /\ \A x \in {"kind", "parent", "caps", "shares", "line", "decided", "unsealed"} :
             Proceed(bodies[b])[x] = bodies[b][x]
    BY DEF BodiesAreRecords, Proceed, Fields
  <1>. QED BY <1>1, <1>2, BodyChange DEF Turn

LEMMA FailingTurn ==
  ASSUME BodiesAreRecords, NEW b \in Ids, NEW why, bodies' = [bodies EXCEPT ![b] = Failing(@, why)]
  PROVE  /\ Turn(b) /\ bodies'[b].state = "failing" /\ bodies'[b].code = bodies[b].code
         /\ bodies'[b].decided = bodies[b].decided /\ bodies'[b].unsealed = bodies[b].unsealed
  <1> DEFINE r == Failing(bodies[b], why)
  <1>1. DOMAIN r = Fields
    BY DEF BodiesAreRecords, Failing, Fields
  <1>2. /\ r.state = "failing" /\ r.code = bodies[b].code
        /\ \A x \in {"kind", "parent", "caps", "shares", "line", "decided", "unsealed"} :
             r[x] = bodies[b][x]
    BY DEF BodiesAreRecords, Failing, Fields
  <1>3. bodies' = [bodies EXCEPT ![b] = r]
    OBVIOUS
  <1> HIDE DEF r
  <1>. QED BY <1>1, <1>2, <1>3, BodyChange DEF Turn

LEMMA StepTurn ==
  ASSUME BodiesAreRecords, NEW b \in Ids, NEW io, bodies' = [bodies EXCEPT ![b].io = Learnt(@, io)]
  PROVE  /\ Turn(b) /\ bodies'[b].state = bodies[b].state /\ bodies'[b].code = bodies[b].code
         /\ bodies'[b].decided = bodies[b].decided /\ bodies'[b].unsealed = bodies[b].unsealed
         /\ bodies'[b].io = Learnt(bodies[b].io, io)
  <1> DEFINE r == [bodies[b] EXCEPT !.io = Learnt(@, io)]
  <1>1. DOMAIN r = Fields
    BY DEF BodiesAreRecords, Fields
  <1>2. /\ r.io = Learnt(bodies[b].io, io)
        /\ \A x \in Fields \ {"io"} : r[x] = bodies[b][x]
    BY DEF BodiesAreRecords, Fields
  <1>3. bodies' = [bodies EXCEPT ![b] = r]
    OBVIOUS
  <1> HIDE DEF r
  <1>. QED BY <1>1, <1>2, <1>3, BodyChange DEF Turn, Fields

LEMMA PhaseTurn ==
  ASSUME BodiesAreRecords, NEW b \in Ids, NEW phase,
         bodies' = [bodies EXCEPT ![b].io.phase = phase]
  PROVE  /\ Turn(b) /\ bodies'[b].state = bodies[b].state /\ bodies'[b].code = bodies[b].code
         /\ bodies'[b].decided = bodies[b].decided /\ bodies'[b].unsealed = bodies[b].unsealed
         /\ bodies'[b].io = [bodies[b].io EXCEPT !.phase = phase]
  <1> DEFINE r == [bodies[b] EXCEPT !.io = [bodies[b].io EXCEPT !.phase = phase]]
  <1>1. DOMAIN r = Fields
    BY DEF BodiesAreRecords, Fields
  <1>2. /\ r.io = [bodies[b].io EXCEPT !.phase = phase]
        /\ \A x \in Fields \ {"io"} : r[x] = bodies[b][x]
    BY DEF BodiesAreRecords, Fields
  <1>3. bodies' = [bodies EXCEPT ![b] = r]
    OBVIOUS
  <1> HIDE DEF r
  <1>. QED BY <1>1, <1>2, <1>3, BodyChange DEF Turn, Fields

LEMMA StateTurn ==
  ASSUME BodiesAreRecords, NEW b \in Ids, NEW st, bodies' = [bodies EXCEPT ![b].state = st]
  PROVE  /\ Turn(b) /\ bodies'[b].state = st /\ bodies'[b].code = bodies[b].code
         /\ bodies'[b].decided = bodies[b].decided /\ bodies'[b].unsealed = bodies[b].unsealed
  <1> DEFINE r == [bodies[b] EXCEPT !.state = st]
  <1>1. DOMAIN r = Fields
    BY DEF BodiesAreRecords, Fields
  <1>2. /\ r.state = st
        /\ \A x \in Fields \ {"state"} : r[x] = bodies[b][x]
    BY DEF BodiesAreRecords, Fields
  <1>3. bodies' = [bodies EXCEPT ![b] = r]
    OBVIOUS
  <1> HIDE DEF r
  <1>. QED BY <1>1, <1>2, <1>3, BodyChange DEF Turn, Fields

LEMMA AllowTurn ==
  ASSUME BodiesAreRecords, NEW b \in Ids, NEW cap, NEW io, Allow(b, cap, io)
  PROVE  /\ Turn(b) /\ bodies'[b].state = "io" /\ bodies'[b].code = bodies[b].code
         /\ bodies'[b].decided = bodies[b].decided \cup {cap}
         /\ bodies'[b].unsealed = ~receipt.sealed
         /\ bodies'[b].io = io
  <1> DEFINE r == [bodies[b] EXCEPT !.decided = @ \cup {cap}, !.state = "io",
                                    !.unsealed = ~receipt.sealed, !.io = io]
  <1>1. DOMAIN r = Fields
    BY DEF BodiesAreRecords, Fields
  <1>2. /\ r.state = "io" /\ r.io = io /\ r.decided = bodies[b].decided \cup {cap}
        /\ r.unsealed = ~receipt.sealed
        /\ \A x \in {"kind", "parent", "caps", "shares", "line", "code"} : r[x] = bodies[b][x]
    BY DEF BodiesAreRecords, Fields
  <1>3. bodies' = [bodies EXCEPT ![b] = r]
    BY DEF Allow, BodiesAreRecords, Ids
  <1> HIDE DEF r
  <1>. QED BY <1>1, <1>2, <1>3, BodyChange DEF Turn, Fields

\* The start of an instruction.
LEMMA BeginTurn ==
  ASSUME BodiesAreRecords, NEW b \in Ids, Begin(b)
  PROVE  /\ Turn(b) /\ bodies'[b].code = bodies[b].code
         /\ PassesClass(b) =>
              /\ bodies'[b].state = "started" /\ bodies'[b].unsealed = ~receipt.sealed
              /\ bodies'[b].decided = IF IsProvisional(b) THEN {} ELSE {Class(Inst(b).op)}
         /\ ~PassesClass(b) =>
              bodies'[b].state = "failing" /\ bodies'[b].unsealed = bodies[b].unsealed
  <1> DEFINE started == [bodies[b] EXCEPT !.executed = @ + 1, !.decided = {}]
             r == [started EXCEPT !.state = "started", !.unsealed = ~receipt.sealed,
                     !.decided = IF IsProvisional(b) THEN {} ELSE {Class(Inst(b).op)}]
             t == [started EXCEPT !.state = "failing", !.failure = "CAPABILITY_DENIED", !.io = None]
  <1>1. DOMAIN started = Fields
    BY DEF BodiesAreRecords, Fields
  <1>2. DOMAIN r = Fields /\ DOMAIN t = Fields
    BY <1>1 DEF Fields
  <1>3. \A x \in {"kind", "parent", "caps", "shares", "line", "code", "unsealed"} :
          started[x] = bodies[b][x]
    BY DEF BodiesAreRecords, Fields
  <1>4. \A x \in {"kind", "parent", "caps", "shares", "line", "code"} :
          r[x] = bodies[b][x] /\ t[x] = bodies[b][x]
    BY <1>1, <1>3 DEF Fields
  <1>5. /\ r.state = "started" /\ r.unsealed = ~receipt.sealed /\ t.state = "failing"
        /\ t.unsealed = bodies[b].unsealed
        /\ r.decided = IF IsProvisional(b) THEN {} ELSE {Class(Inst(b).op)}
    BY <1>1, <1>3 DEF Fields
  <1>6. bodies' = [bodies EXCEPT ![b] = IF PassesClass(b) THEN r ELSE t]
    BY DEF Begin, Failing
  <1> HIDE DEF r, t
  <1>. QED BY <1>2, <1>4, <1>5, <1>6, BodyChange DEF Turn

\* A body is added after the others.
LEMMA BodyAdded ==
  ASSUME BodiesAreRecords, NEW bs, NEW r, bs \in Seq(Range(bs)), DOMAIN bs = Ids,
         bodies' = Append(bs, r)
  PROVE  /\ bodies' \in Seq(Range(bodies')) /\ Ids' = Ids \cup {Len(bodies) + 1}
         /\ Len(bodies) + 1 \notin Ids /\ 1 \in Ids
         /\ bodies'[Len(bodies) + 1] = r
         /\ \A c \in Ids : bodies'[c] = bs[c]
  <1> DEFINE S == Range(bs) \cup {r}
             n == Len(bodies)
  <1>1. n \in Nat /\ n > 0 /\ Ids = 1 .. n
    BY DEF BodiesAreRecords, Ids
  <1>2. Len(bs) = n
    BY <1>1, LenProperties
  <1>3. bs \in Seq(S)
    BY SeqMonotonic
  <1>4. /\ Append(bs, r) \in Seq(S) /\ Len(Append(bs, r)) = n + 1
        /\ \A i \in 1 .. n : Append(bs, r)[i] = bs[i]
        /\ Append(bs, r)[n + 1] = r
    BY <1>2, <1>3, AppendProperties
  <1>5. bodies' \in Seq(Range(bodies'))
    BY <1>4, SeqOfRange
  <1>6. DOMAIN bodies' = 1 .. n + 1
    BY <1>4, LenProperties
  <1>. QED BY <1>1, <1>4, <1>5, <1>6 DEF Ids

-----------------------------------------------------------------------------
(* The invariant about bodies.                                             *)

AInv ==
  /\ BodiesAreRecords
  /\ CodeIsKnown
  /\ AgentsAreAwaited
  /\ MainRests
  /\ LinesAreCovered

\* A body that is in the middle of something may go on, into an instruction it
\* has, or past it.
GoesOn(b) ==
  /\ Turn(b)
  /\ bodies[b].state \in {"ready", "started", "io", "failing"}
  /\ bodies'[b].state \in {"ready", "started", "io", "failing", "waiting"}
  /\ \/ bodies'[b].code = bodies[b].code /\ bodies[b].code # <<>>
     \/ /\ bodies[b].code # <<>> /\ bodies'[b].code = Tail(bodies[b].code)
        /\ bodies'[b].state = "ready"

LEMMA KnownTail ==
  ASSUME NEW c \in Code, c # <<>>
  PROVE  Tail(c) \in Code
  BY CodeAssumption

\* Everything that GoesOn describes keeps the invariant.
LEMMA GoesOnPreserves ==
  ASSUME AInv, NEW b \in Ids, GoesOn(b), ~ Over(b), evidence' = evidence
  PROVE  AInv'
  <1> USE DEF AInv, GoesOn
  <1>1. BodiesAreRecords'
    <2>1. Len(bodies') = Len(bodies)
      BY LenProperties DEF Turn, BodiesAreRecords, Ids
    <2>. QED BY <2>1 DEF Turn, BodiesAreRecords, Ids
  <1>2. CodeIsKnown'
    BY KnownTail DEF CodeIsKnown, Turn, Caps
  <1>3. AgentsAreAwaited'
    <2>1. \A c \in Ids : Running(c)' => Running(c)
      BY DEF Turn, Running
    <2>2. \A c \in Ids : bodies'[c].parent = bodies[c].parent
      BY DEF Turn
    <2>3. \A c \in Ids : bodies[c].state = "waiting" => bodies'[c].state = "waiting"
      BY DEF Turn
    <2>. QED BY <2>1, <2>2, <2>3 DEF AgentsAreAwaited, Turn
  <1>4. MainRests'
    <2> SUFFICES ASSUME evidence # None PROVE (bodies[1].state = "ended" \/ Over(1))'
      BY DEF MainRests
    <2>1. b # 1 /\ 1 \in Ids
      BY DEF MainRests, BodiesAreRecords, Ids
    <2>2. bodies'[1] = bodies[1]
      BY <2>1 DEF Turn
    <2>. QED BY <2>2 DEF MainRests, Over, Inst
  <1>5. LinesAreCovered'
    <2>1. \A c \in Ids : bodies'[c].line = bodies[c].line /\ bodies'[c].caps = bodies[c].caps
      BY DEF Turn
    <2>. QED BY <2>1 DEF LinesAreCovered, Caps, Turn
  <1>. QED BY <1>1, <1>2, <1>3, <1>4, <1>5

-----------------------------------------------------------------------------
(* Steps of a body.                                                        *)

\* A request that was made is one its body may make.
RequestIsLawful(caps, e) ==
  LET last == Last(e.chain)
  IN  /\ AuthorizesFetch(caps, last)
      /\ MayDial(last.host, e.address)
      /\ IsOptOut(last.host) => last.host = e.chain[1].host
      /\ \A k \in 1 .. Len(e.chain) - 1 :
           e.chain[k].scheme = "https" => e.chain[k + 1].scheme = "https"
      /\ e.referer # None => \A k \in DOMAIN e.chain : SameOrigin(e.chain[k], last)

\* An effect its body has been granted.
Lawful(b, e) ==
  /\ e.body = b /\ e.op \in FileOps \cup {"EXEC", "ENV", "FETCH"}
  /\ e.op \in FileOps => e.request.path \in Seq(Name)
  /\ Permits(Caps(b), e)
  /\ e.op = "FETCH" => RequestIsLawful(Caps(b), e)

\* What every step of a body is: it goes on, into what has been granted to it,
\* and leaves at most one effect, which was granted.
Advances(b) ==
  /\ GoesOn(b) /\ ~ Over(b) /\ Granted(b)'
  /\ evidence' = evidence
  /\ performed' = performed \/ \E e : performed' = performed \cup {e} /\ Lawful(b, e)

Inv == AInv /\ InstructionsAreGranted

\* A body inside an instruction has one, and is not over.
LEMMA InsideInstruction ==
  ASSUME Inv, NEW b \in Ids, bodies[b].state \in {"started", "io"}
  PROVE  bodies[b].code # <<>> /\ bodies[b].code \in Code /\ ~ Over(b) /\ BodiesAreRecords
  BY DEF Inv, AInv, CodeIsKnown, Over

\* Giving up and going on past the instruction need no grant.
LEMMA FailingAdvances ==
  ASSUME Inv, NEW b \in Ids, bodies[b].state \in {"started", "io"}, NEW why,
         bodies' = [bodies EXCEPT ![b] = Failing(@, why)],
         evidence' = evidence, performed' = performed
  PROVE  Advances(b)
  <1>1. /\ Turn(b) /\ bodies'[b].state = "failing" /\ bodies'[b].code = bodies[b].code
        /\ bodies[b].code # <<>> /\ ~ Over(b)
    BY FailingTurn, InsideInstruction
  <1>2. Granted(b)'
    BY <1>1 DEF Granted
  <1>. QED BY <1>1, <1>2 DEF Advances, GoesOn

LEMMA DenyAdvances ==
  ASSUME Inv, NEW b \in Ids, bodies[b].state \in {"started", "io"}, NEW cap, Deny(b, cap),
         evidence' = evidence
  PROVE  Advances(b)
  BY FailingAdvances DEF Deny

LEMMA BreaksAdvances ==
  ASSUME Inv, NEW b \in Ids, bodies[b].state \in {"started", "io"}, Breaks(b) \/ Escapes(b)
  PROVE  Advances(b)
  <1>1. CASE Breaks(b)
    BY <1>1, FailingAdvances DEF Breaks, books
  <1>2. CASE Escapes(b)
    BY <1>2, DenyAdvances DEF Escapes, books
  <1>. QED BY <1>1, <1>2

LEMMA ProceedAdvances ==
  ASSUME Inv, NEW b \in Ids, bodies[b].state \in {"started", "io"},
         bodies' = [bodies EXCEPT ![b] = Proceed(@)],
         evidence' = evidence,
         performed' = performed \/ \E e : performed' = performed \cup {e} /\ Lawful(b, e)
  PROVE  Advances(b)
  <1>1. /\ Turn(b) /\ bodies'[b].state = "ready" /\ bodies'[b].code = Tail(bodies[b].code)
        /\ bodies[b].code # <<>> /\ ~ Over(b)
    BY ProceedTurn, InsideInstruction
  <1>2. Granted(b)'
    BY <1>1 DEF Granted
  <1>. QED BY <1>1, <1>2 DEF Advances, GoesOn

\* The phases of a file operation, of a program and of a request are apart.
LEMMA PhasesApart ==
  ASSUME Inv, NEW b \in Ids, bodies[b].state = "io"
  PROVE  /\ Io(b).phase \in FilePhases => FileIsGranted(b)
         /\ Io(b).phase = "exec" => ProgramIsGranted(b)
         /\ Io(b).phase \in {"dial", "response"} => RequestIsGranted(b)
         /\ PassesClass(b)
  BY DEF Inv, InstructionsAreGranted, Granted, FileIsGranted, ProgramIsGranted,
         RequestIsGranted, FilePhases

\* From phase to phase of a file operation.
LEMMA FileStepAdvances ==
  ASSUME Inv, NEW b \in Ids, bodies[b].state = "io", Io(b).phase \in FilePhases,
         Turn(b), bodies'[b].state = "io", bodies'[b].code = bodies[b].code,
         "phase" \in DOMAIN (bodies'[b].io), bodies'[b].io.phase \in FilePhases,
         evidence' = evidence, performed' = performed
  PROVE  Advances(b)
  <1>1. bodies[b].code # <<>> /\ ~ Over(b)
    BY InsideInstruction
  <1>2. FileIsGranted(b) /\ PassesClass(b)
    BY PhasesApart
  <1>3. Inst(b)' = Inst(b) /\ Caps(b)' = Caps(b)
    BY DEF Inst, Caps, Turn
  <1>4. FileIsGranted(b)'
    BY <1>2, <1>3 DEF FileIsGranted, Io
  <1>5. PassesClass(b)'
    BY <1>2, <1>3 DEF PassesClass
  <1>6. Granted(b)'
    BY <1>4, <1>5 DEF Granted
  <1>. QED BY <1>1, <1>6 DEF Advances, GoesOn

LEMMA StepAdvances ==
  ASSUME Inv, NEW b \in Ids, bodies[b].state = "io", Io(b).phase \in FilePhases,
         NEW io, "phase" \in DOMAIN io, io.phase \in FilePhases,
         bodies' = [bodies EXCEPT ![b].io = Learnt(@, io)],
         evidence' = evidence, performed' = performed
  PROVE  Advances(b)
  <1>1. /\ Turn(b) /\ bodies'[b].state = "io" /\ bodies'[b].code = bodies[b].code
        /\ bodies'[b].io = Learnt(bodies[b].io, io)
    BY StepTurn, InsideInstruction
  <1>2. "phase" \in DOMAIN (bodies'[b].io) /\ bodies'[b].io.phase \in FilePhases
    BY <1>1 DEF Learnt
  <1>. QED BY <1>1, <1>2, FileStepAdvances

\* A file operation is authorised by its grants, whatever its path leads to.
LEMMA AllowsByName ==
  ASSUME NEW caps, NEW mode, NEW path, Allows(tree, caps, mode, path)
  PROVE  PathGranted(caps, mode, path)
  BY DEF Allows, Matches, PathGranted

LEMMA AuthorizeFileAdvances ==
  ASSUME Inv, NEW b \in Ids, AuthorizeFile(b)
  PROVE  Advances(b)
  <1> DEFINE i == Inst(b)
             modes == IF i.op = "STORE_PUT" THEN {"read", "write"} ELSE {Mode(i.op)}
  <1>1. bodies[b].state = "started" /\ i.op \in FileOps /\ evidence' = evidence
    BY DEF AuthorizeFile, Starts, FileOps, books
  <1>2. bodies[b].code # <<>> /\ ~ Over(b) /\ BodiesAreRecords
    BY <1>1, InsideInstruction
  <1>3. CASE Deny(b, "filesystem")
    BY <1>1, <1>3, DenyAdvances
  <1>4. CASE /\ \A mode \in modes : Allows(tree, Caps(b), mode, i.path)
             /\ Allow(b, "filesystem", [phase |-> "scope"])
    <2>1. /\ Turn(b) /\ bodies'[b].state = "io" /\ bodies'[b].code = bodies[b].code
          /\ bodies'[b].io = [phase |-> "scope"]
      BY <1>2, <1>4, AllowTurn
    <2>2. \A mode \in modes : PathGranted(Caps(b), mode, i.path)
      BY <1>4, AllowsByName
    <2>3. Inst(b)' = i /\ Caps(b)' = Caps(b)
      BY <2>1 DEF Inst, Caps, Turn
    <2>4. FileIsGranted(b)'
      BY <1>1, <2>1, <2>2, <2>3 DEF FileIsGranted, Io, FilePhases, FileOps, Mode
    <2>5. PassesClass(b)'
      <3>1. PassesClass(b)
        BY <1>1 DEF Inv, InstructionsAreGranted, Granted
      <3>. QED BY <2>3, <3>1 DEF PassesClass
    <2>6. Granted(b)'
      BY <2>4, <2>5 DEF Granted
    <2>. QED BY <1>1, <1>2, <1>4, <2>1, <2>6 DEF Advances, GoesOn, Allow
  <1>. QED BY <1>3, <1>4 DEF AuthorizeFile

LEMMA InIo ==
  ASSUME NEW b \in Ids, NEW phase, In(b, phase)
  PROVE  bodies[b].state = "io" /\ Io(b).phase = phase
  BY DEF In

\* Learning more about the place of a file.
LEMMA LearningAdvances ==
  ASSUME Inv, NEW b \in Ids, NEW phase \in FilePhases, In(b, phase),
         NEW more, "phase" \in DOMAIN more, more.phase \in FilePhases, Step(b, more)
  PROVE  Advances(b)
  BY InIo, StepAdvances DEF Step, books

LEMMA GivingUpAdvances ==
  ASSUME Inv, NEW b \in Ids, NEW phase, In(b, phase), Breaks(b) \/ Escapes(b)
  PROVE  Advances(b)
  BY InIo, BreaksAdvances

LEMMA FileWays ==
  ASSUME NEW b, NEW pinned
  PROVE  Way(b, pinned) \in FilePhases
  BY DEF Way, FilePhases

LEMMA MatchRootAdvances ==
  ASSUME Inv, NEW b \in Ids, MatchRoot(b)
  PROVE  Advances(b)
  <1>1. In(b, "scope") /\ "scope" \in FilePhases /\ "stat" \in FilePhases
    BY DEF MatchRoot, FilePhases
  <1>2. CASE Step(b, [phase |-> Way(b, FALSE), root |-> <<>>, handle |-> <<>>, pinned |-> FALSE])
    BY <1>1, <1>2, FileWays, LearningAdvances
  <1>3. CASE \E root : Step(b, [phase |-> "stat", root |-> root])
    <2>1. PICK root : Step(b, [phase |-> "stat", root |-> root])
      BY <1>3
    <2>. QED BY <1>1, <2>1, LearningAdvances
  <1>4. CASE Escapes(b)
    BY <1>1, <1>4, GivingUpAdvances
  <1>. QED BY <1>2, <1>3, <1>4 DEF MatchRoot

LEMMA StatRootAdvances ==
  ASSUME Inv, NEW b \in Ids, StatRoot(b)
  PROVE  Advances(b)
  <1>1. In(b, "stat") /\ "stat" \in FilePhases /\ "root" \in FilePhases
    BY DEF StatRoot, FilePhases
  <1>2. PICK pinned : Step(b, [phase |-> "root", pinned |-> pinned])
    BY DEF StatRoot
  <1>. QED BY <1>1, <1>2, LearningAdvances

LEMMA OpenRootAdvances ==
  ASSUME Inv, NEW b \in Ids, OpenRoot(b)
  PROVE  Advances(b)
  <1> DEFINE dir == IF Io(b).pinned THEN Front(Io(b).root) ELSE Io(b).root
  <1>1. /\ {"root", "reopen"} \subseteq FilePhases
        /\ \E phase \in {"root", "reopen"} : In(b, phase)
    BY DEF OpenRoot, FilePhases
  <1>2. PICK phase \in {"root", "reopen"} : In(b, phase)
    BY <1>1
  <1>3. CASE Step(b, [phase |-> Way(b, Io(b).pinned), handle |-> Resolve(tree, dir)])
    BY <1>1, <1>2, <1>3, FileWays, LearningAdvances
  <1>4. CASE /\ bodies' = [bodies EXCEPT ![b].io.phase = "reopen"]
             /\ UNCHANGED <<receipt, books, cancelled, performed, refused>>
    <2>1. bodies[b].state = "io" /\ Io(b).phase \in FilePhases /\ BodiesAreRecords
      BY <1>1, <1>2, InIo, InsideInstruction
    <2>2. /\ Turn(b) /\ bodies'[b].state = "io" /\ bodies'[b].code = bodies[b].code
          /\ bodies'[b].io = [bodies[b].io EXCEPT !.phase = "reopen"]
      BY <1>4, <2>1, PhaseTurn
    <2>3. "phase" \in DOMAIN Io(b)
      BY <2>1, PhasesApart DEF FileIsGranted
    <2>4. "phase" \in DOMAIN (bodies'[b].io) /\ bodies'[b].io.phase \in FilePhases
      BY <1>1, <2>2, <2>3 DEF Io
    <2>. QED BY <1>4, <2>1, <2>2, <2>4, FileStepAdvances DEF books
  <1>5. CASE Breaks(b)
    BY <1>2, <1>5, GivingUpAdvances
  <1>. QED BY <1>3, <1>4, <1>5 DEF OpenRoot

LEMMA LstatTargetAdvances ==
  ASSUME Inv, NEW b \in Ids, LstatTarget(b)
  PROVE  Advances(b)
  <1>1. In(b, "lstat") /\ {"lstat", "pinned", "create"} \subseteq FilePhases
    BY DEF LstatTarget, FilePhases
  <1>2. CASE \E id : Step(b, [phase |-> "pinned", seen |-> id])
    <2>1. PICK id : Step(b, [phase |-> "pinned", seen |-> id])
      BY <1>2
    <2>. QED BY <1>1, <2>1, LearningAdvances
  <1>3. CASE Step(b, [phase |-> "create"])
    BY <1>1, <1>3, LearningAdvances
  <1>4. CASE Breaks(b) \/ Escapes(b)
    BY <1>1, <1>4, GivingUpAdvances
  <1>. QED BY <1>2, <1>3, <1>4 DEF LstatTarget

\* An effect on a file is one that was granted for its path.
LEMMA FileEffectAdvances ==
  ASSUME Inv, NEW b \in Ids, NEW phase \in FilePhases, In(b, phase),
         NEW target, NEW file, Performs(b, target, file)
  PROVE  Advances(b)
  <1> DEFINE e == Effect(b, target, file)
  <1>1. bodies[b].state = "io" /\ Io(b).phase \in FilePhases
    BY InIo
  <1>2. FileIsGranted(b) /\ PassesClass(b)
    BY <1>1, PhasesApart
  <1>3. e.body = b /\ e.op = Inst(b).op /\ e.request = Inst(b)
    BY DEF Effect
  <1>4. Inst(b).op = "STORE_PUT" => HasCoarse(Caps(b), "database")
    BY <1>2, AuthorityAssumption DEF PassesClass, Class, Has
  <1>5. Permits(Caps(b), e)
    BY <1>2, <1>3, <1>4 DEF Permits, FileIsGranted, PathGranted, FileOps
  <1>6. Inst(b).path \in Seq(Name)
    <2>1. bodies[b].code \in Code /\ bodies[b].code # <<>> /\ Inst(b).op \in FileOps
      BY <1>1, <1>2, InsideInstruction DEF FileIsGranted
    <2>. QED BY <2>1, CodeAssumption DEF Inst, FileOps
  <1>7. Lawful(b, e)
    BY <1>2, <1>3, <1>5, <1>6 DEF Lawful, FileIsGranted, FileOps
  <1> HIDE DEF e
  <1>8. /\ bodies' = [bodies EXCEPT ![b] = Proceed(@)] /\ evidence' = evidence
        /\ performed' = performed \cup {Effect(b, target, file)}
    BY DEF Performs, books
  <1>. QED BY <1>1, <1>7, <1>8, ProceedAdvances DEF e

LEMMA OpenTargetAdvances ==
  ASSUME Inv, NEW b \in Ids, OpenTarget(b) \/ MakeDirectory(b) \/ ReplaceTarget(b)
  PROVE  Advances(b)
  <1>1. {"open", "mkdir", "replace"} \subseteq FilePhases
    BY DEF FilePhases
  <1>2. PICK phase \in {"open", "mkdir", "replace"} : In(b, phase)
    BY DEF OpenTarget, MakeDirectory, ReplaceTarget
  <1>3. CASE \E target, file : Performs(b, target, file)
    BY <1>1, <1>2, <1>3, FileEffectAdvances
  <1>4. CASE Breaks(b) \/ Escapes(b)
    BY <1>2, <1>4, GivingUpAdvances
  <1>. QED BY <1>3, <1>4 DEF OpenTarget, MakeDirectory, ReplaceTarget

LEMMA OpenPinnedAdvances ==
  ASSUME Inv, NEW b \in Ids, OpenPinned(b)
  PROVE  Advances(b)
  <1>1. In(b, "pinned") /\ {"pinned", "verify"} \subseteq FilePhases
    BY DEF OpenPinned, FilePhases
  <1>2. CASE \E id : Step(b, [phase |-> "verify", opened |-> id, real |-> Real(b)])
    <2>1. PICK id : Step(b, [phase |-> "verify", opened |-> id, real |-> Real(b)])
      BY <1>2
    <2>. QED BY <1>1, <2>1, LearningAdvances
  <1>3. CASE /\ bodies' = [bodies EXCEPT ![b].io =
                  Learnt(@, [phase |-> "verify", opened |-> NewFile(b), real |-> Real(b)])]
             /\ UNCHANGED <<receipt, books, cancelled, performed, refused>>
    <2> DEFINE more == [phase |-> "verify", opened |-> NewFile(b), real |-> Real(b)]
    <2>1. "phase" \in DOMAIN more /\ more.phase \in FilePhases
      BY <1>1
    <2>2. bodies' = [bodies EXCEPT ![b].io = Learnt(@, more)]
      BY <1>3
    <2>3. evidence' = evidence /\ performed' = performed
      BY <1>3 DEF books
    <2> HIDE DEF more
    <2>. QED BY <1>1, <2>1, <2>2, <2>3, InIo, StepAdvances
  <1>4. CASE Breaks(b)
    BY <1>1, <1>4, GivingUpAdvances
  <1>. QED BY <1>2, <1>3, <1>4 DEF OpenPinned

LEMMA VerifyPinnedAdvances ==
  ASSUME Inv, NEW b \in Ids, VerifyPinned(b) \/ CreatePinned(b)
  PROVE  Advances(b)
  <1>1. {"verify", "create"} \subseteq FilePhases
    BY DEF FilePhases
  <1>2. PICK phase \in {"verify", "create"} : In(b, phase)
    BY DEF VerifyPinned, CreatePinned
  <1>3. CASE \E target, file : Performs(b, target, file)
    BY <1>1, <1>2, <1>3, FileEffectAdvances
  <1>4. CASE Escapes(b)
    BY <1>2, <1>4, GivingUpAdvances
  <1>. QED BY <1>3, <1>4 DEF VerifyPinned, CreatePinned

LEMMA FilesAdvance ==
  ASSUME Inv, NEW b \in Ids, Files(b)
  PROVE  Advances(b)
  <1>1. CASE \E phase : Leaves(b, phase)
    BY <1>1, GivingUpAdvances DEF Leaves
  <1>. QED BY <1>1, AuthorizeFileAdvances, MatchRootAdvances, StatRootAdvances,
             OpenRootAdvances, LstatTargetAdvances, OpenTargetAdvances, OpenPinnedAdvances,
             VerifyPinnedAdvances
           DEF Files

-----------------------------------------------------------------------------
(* Requests.                                                               *)

\* A chain of one granted request is guarded.
LEMMA ChainStarts ==
  ASSUME NEW caps, NEW url, AuthorizesFetch(caps, url)
  PROVE  ChainIsGuarded(caps, <<url>>)
  <1>1. /\ <<url>> \in Seq({url}) /\ Len(<<url>>) = 1 /\ <<url>>[1] = url
        /\ DOMAIN <<url>> = {1}
    OBVIOUS
  <1>2. <<url>> \in Seq(Range(<<url>>))
    BY <1>1, SeqOfRange
  <1>3. Last(<<url>>) = url
    BY <1>1 DEF Last
  <1> DEFINE chain == <<url>>
  <1>4. 1 .. Len(chain) - 1 = {}
    BY <1>1
  <1> HIDE DEF chain
  <1>5. \A k \in DOMAIN chain : SameOrigin(chain[k], Last(chain))
    BY <1>1, <1>3 DEF SameOrigin, chain
  <1>. QED BY <1>1, <1>2, <1>3, <1>4, <1>5 DEF ChainIsGuarded, chain

\* A redirect that was authorised leaves it guarded.
LEMMA ChainGrows ==
  ASSUME NEW caps, NEW chain, ChainIsGuarded(caps, chain), NEW next,
         ~(Last(chain).scheme = "https" /\ next.scheme = "http"),
         next.scheme \in {"http", "https"},
         IsOptOut(next.host) => next.host = chain[1].host,
         AuthorizesFetch(caps, next)
  PROVE  ChainIsGuarded(caps, Append(chain, next))
  <1> DEFINE n == Len(chain)
             longer == Append(chain, next)
             S == Range(chain) \cup {next}
  <1>1. chain \in Seq(Range(chain)) /\ n \in Nat /\ n > 0 /\ DOMAIN chain = 1 .. n
    BY LenProperties DEF ChainIsGuarded
  <1>2. chain \in Seq(S)
    BY <1>1, SeqMonotonic
  <1>3. /\ longer \in Seq(S) /\ Len(longer) = n + 1 /\ DOMAIN longer = 1 .. n + 1
        /\ \A k \in 1 .. n : longer[k] = chain[k]
        /\ longer[n + 1] = next
    BY <1>1, <1>2, AppendProperties, LenProperties
  <1>4. longer \in Seq(Range(longer))
    BY <1>3, SeqOfRange
  <1> HIDE DEF longer, n
  <1>5. Last(longer) = next /\ Last(chain) = chain[n] /\ longer[1] = chain[1] /\ chain[n] = longer[n]
    BY <1>1, <1>3 DEF Last, n
  <1>6. ASSUME NEW k \in 1 .. n, longer[k].scheme = "https"
        PROVE  longer[k + 1].scheme = "https"
    <2>1. CASE k = n
      BY <1>1, <1>3, <1>5, <1>6, <2>1
    <2>2. CASE k # n
      <3>1. k \in 1 .. n - 1 /\ k + 1 \in 1 .. n
        BY <1>1, <2>2
      <3>. QED BY <1>3, <1>6, <3>1 DEF ChainIsGuarded, n
    <2>. QED BY <2>1, <2>2
  <1>7. ASSUME ~ChangedOrigin(longer), NEW k \in 1 .. n + 1
        PROVE  SameOrigin(longer[k], next)
    <2>1. \A j \in 1 .. n : SameOrigin(longer[j], longer[j + 1])
      <3>1. Len(longer) - 1 = n
        BY <1>1, <1>3
      <3>. QED BY <1>7, <3>1 DEF ChangedOrigin
    <2>2. ~ChangedOrigin(chain)
      <3>1. \A j \in 1 .. n - 1 : j \in 1 .. n /\ j + 1 \in 1 .. n
        BY <1>1
      <3>2. \A j \in 1 .. n - 1 : SameOrigin(chain[j], chain[j + 1])
        BY <1>3, <2>1, <3>1
      <3>. QED BY <3>2 DEF ChangedOrigin, n
    <2>3. SameOrigin(chain[n], next)
      BY <1>1, <1>3, <2>1
    <2>4. CASE k = n + 1
      BY <1>3, <2>4 DEF SameOrigin
    <2>5. CASE k # n + 1
      <3>1. k \in 1 .. n /\ longer[k] = chain[k]
        BY <1>1, <1>3, <2>5
      <3>2. SameOrigin(chain[k], chain[n])
        BY <1>1, <1>5, <2>2, <3>1 DEF ChainIsGuarded
      <3>. QED BY <2>3, <3>1, <3>2 DEF SameOrigin
    <2>. QED BY <2>4, <2>5
  <1>8. Len(longer) - 1 = n /\ Len(longer) > 0
    BY <1>1, <1>3
  <1>. QED BY <1>3, <1>4, <1>5, <1>6, <1>7, <1>8 DEF ChainIsGuarded, longer

LEMMA AuthorizeRequestAdvances ==
  ASSUME Inv, NEW b \in Ids, AuthorizeRequest(b)
  PROVE  Advances(b)
  <1> DEFINE url == Inst(b).url
             io == [phase |-> "dial", chain |-> <<url>>, referer |-> None]
  <1>1. bodies[b].state = "started" /\ Inst(b).op = "FETCH" /\ evidence' = evidence
    BY DEF AuthorizeRequest, Starts, books
  <1>2. bodies[b].code # <<>> /\ ~ Over(b) /\ BodiesAreRecords
    BY <1>1, InsideInstruction
  <1>3. CASE Deny(b, "network")
    BY <1>1, <1>3, DenyAdvances
  <1>4. CASE AuthorizesFetch(Caps(b), url) /\ Allow(b, "network", io)
    <2>1. /\ Turn(b) /\ bodies'[b].state = "io" /\ bodies'[b].code = bodies[b].code
          /\ bodies'[b].io = io
      BY <1>2, <1>4, AllowTurn
    <2>2. Inst(b)' = Inst(b) /\ Caps(b)' = Caps(b) /\ Io(b)' = io
      BY <2>1 DEF Inst, Caps, Turn, Io
    <2>3. ChainIsGuarded(Caps(b), <<url>>)
      BY <1>4, ChainStarts
    <2>4. /\ DOMAIN io = {"phase", "chain", "referer"} /\ io.phase = "dial"
          /\ io.chain = <<url>> /\ io.referer = None
      OBVIOUS
    <2> HIDE DEF io, url
    <2>5. RequestIsGranted(b)'
      BY <1>1, <2>2, <2>3, <2>4 DEF RequestIsGranted
    <2>6. PassesClass(b)'
      BY <1>1, <2>2 DEF PassesClass
    <2>7. Granted(b)'
      BY <2>5, <2>6 DEF Granted
    <2>. QED BY <1>1, <1>2, <1>4, <2>1, <2>7 DEF Advances, GoesOn, Allow
  <1>. QED BY <1>3, <1>4 DEF AuthorizeRequest

LEMMA DenyHopAdvances ==
  ASSUME Inv, NEW b \in Ids, bodies[b].state = "io", DenyHop(b)
  PROVE  Advances(b)
  BY FailingAdvances DEF DenyHop, books

LEMMA DialAdvances ==
  ASSUME Inv, NEW b \in Ids, Dial(b)
  PROVE  Advances(b)
  <1>1. bodies[b].state = "io" /\ Io(b).phase = "dial" /\ BodiesAreRecords
        /\ bodies[b].code # <<>> /\ ~ Over(b)
    BY InIo, InsideInstruction DEF Dial
  <1>2. RequestIsGranted(b) /\ PassesClass(b)
    BY <1>1, PhasesApart
  <1>3. CASE DenyHop(b)
    BY <1>1, <1>3, DenyHopAdvances
  <1>4. CASE \E a, target :
               /\ MayDial(Last(Io(b).chain).host, a)
               /\ performed' = performed \cup
                    {[body |-> b, left |-> Len(bodies[b].code), op |-> "FETCH", target |-> target,
                      request |-> Inst(b), unsealed |-> bodies[b].unsealed, chain |-> Io(b).chain,
                      referer |-> Io(b).referer, address |-> a]}
               /\ bodies' = [bodies EXCEPT ![b].io.phase = "response"]
               /\ UNCHANGED books
    <2>1. PICK a, target :
               /\ MayDial(Last(Io(b).chain).host, a)
               /\ performed' = performed \cup
                    {[body |-> b, left |-> Len(bodies[b].code), op |-> "FETCH", target |-> target,
                      request |-> Inst(b), unsealed |-> bodies[b].unsealed, chain |-> Io(b).chain,
                      referer |-> Io(b).referer, address |-> a]}
               /\ bodies' = [bodies EXCEPT ![b].io.phase = "response"]
               /\ UNCHANGED books
      BY <1>4
    <2> DEFINE e == [body |-> b, left |-> Len(bodies[b].code), op |-> "FETCH", target |-> target,
                     request |-> Inst(b), unsealed |-> bodies[b].unsealed, chain |-> Io(b).chain,
                     referer |-> Io(b).referer, address |-> a]
    <2>2. /\ e.body = b /\ e.op = "FETCH" /\ e.chain = Io(b).chain
          /\ e.referer = Io(b).referer /\ e.address = a
      OBVIOUS
    <2>3. performed' = performed \cup {e} /\ evidence' = evidence
      BY <2>1 DEF books
    <2> HIDE DEF e
    <2>4. RequestIsLawful(Caps(b), e)
      BY <1>2, <2>1, <2>2 DEF RequestIsLawful, RequestIsGranted, ChainIsGuarded
    <2>5. Permits(Caps(b), e)
      BY <2>2, <2>4 DEF Permits, RequestIsLawful
    <2>6. Lawful(b, e)
      BY <2>2, <2>4, <2>5 DEF Lawful, FileOps
    <2>7. /\ Turn(b) /\ bodies'[b].state = "io" /\ bodies'[b].code = bodies[b].code
          /\ bodies'[b].io = [bodies[b].io EXCEPT !.phase = "response"]
      BY <1>1, <2>1, PhaseTurn
    <2>8. Inst(b)' = Inst(b) /\ Caps(b)' = Caps(b)
      BY <2>7 DEF Inst, Caps, Turn
    <2>9. RequestIsGranted(b)'
      BY <1>2, <2>7, <2>8 DEF RequestIsGranted, Io
    <2>10. Granted(b)'
      BY <1>2, <2>8, <2>9 DEF Granted, PassesClass
    <2>. QED BY <1>1, <2>3, <2>6, <2>7, <2>10 DEF Advances, GoesOn
  <1>. QED BY <1>3, <1>4 DEF Dial

LEMMA RedirectAdvances ==
  ASSUME Inv, NEW b \in Ids, Redirect(b)
  PROVE  Advances(b)
  <1>1. bodies[b].state = "io" /\ Io(b).phase = "response" /\ BodiesAreRecords
        /\ bodies[b].code # <<>> /\ ~ Over(b)
    BY InIo, InsideInstruction DEF Redirect
  <1>2. RequestIsGranted(b) /\ PassesClass(b)
    BY <1>1, PhasesApart
  <1>3. CASE Breaks(b) \/ DenyHop(b)
    BY <1>1, <1>3, BreaksAdvances, DenyHopAdvances
  <1> DEFINE chain == Io(b).chain
             io(next) == [phase |-> "dial", chain |-> Append(chain, next),
                          referer |-> Referer(Append(chain, next))]
  <1>4. CASE \E next \in Urls :
               /\ ~(Last(chain).scheme = "https" /\ next.scheme = "http")
               /\ IsOptOut(next.host) => next.host = chain[1].host
               /\ AuthorizesFetch(Caps(b), next)
               /\ bodies' = [bodies EXCEPT ![b].unsealed = ~receipt.sealed, ![b].io = io(next)]
               /\ UNCHANGED <<books, performed>>
    <2>1. PICK next \in Urls :
               /\ ~(Last(chain).scheme = "https" /\ next.scheme = "http")
               /\ IsOptOut(next.host) => next.host = chain[1].host
               /\ AuthorizesFetch(Caps(b), next)
               /\ bodies' = [bodies EXCEPT ![b].unsealed = ~receipt.sealed, ![b].io = io(next)]
               /\ UNCHANGED <<books, performed>>
      BY <1>4
    <2>2. ChainIsGuarded(Caps(b), Append(chain, next))
      <3>1. ChainIsGuarded(Caps(b), chain) /\ next.scheme \in {"http", "https"}
        BY <1>2, AuthorityAssumption DEF RequestIsGranted
      <3>. QED BY <2>1, <3>1, ChainGrows
    <2>3. Referer(Append(chain, next)) # None => ~ChangedOrigin(Append(chain, next))
      BY DEF Referer
    <2>5. /\ DOMAIN io(next) = {"phase", "chain", "referer"} /\ io(next).phase = "dial"
          /\ io(next).chain = Append(chain, next)
          /\ io(next).referer = Referer(Append(chain, next))
      OBVIOUS
    <2> HIDE DEF io, chain
    <2>4. /\ Turn(b) /\ bodies'[b].state = "io" /\ bodies'[b].code = bodies[b].code
          /\ bodies'[b].io = io(next)
      <3> DEFINE r == [bodies[b] EXCEPT !.unsealed = ~receipt.sealed, !.io = io(next)]
      <3>1. DOMAIN r = Fields
        BY <1>1 DEF BodiesAreRecords, Fields
      <3>2. r.io = io(next) /\ \A x \in Fields \ {"io", "unsealed"} : r[x] = bodies[b][x]
        BY <1>1 DEF BodiesAreRecords, Fields
      <3>3. bodies' = [bodies EXCEPT ![b] = r]
        BY <1>1, <2>1 DEF BodiesAreRecords, Ids
      <3> HIDE DEF r
      <3>. QED BY <1>1, <3>1, <3>2, <3>3, BodyChange DEF Turn, Fields
    <2>6. Inst(b)' = Inst(b) /\ Caps(b)' = Caps(b) /\ Io(b)' = io(next)
      BY <2>4 DEF Inst, Caps, Turn, Io
    <2>7. RequestIsGranted(b)'
      BY <1>2, <2>2, <2>3, <2>5, <2>6 DEF RequestIsGranted
    <2>8. Granted(b)'
      BY <1>2, <2>6, <2>7 DEF Granted, PassesClass
    <2>9. evidence' = evidence /\ performed' = performed
      BY <2>1 DEF books
    <2>. QED BY <1>1, <2>4, <2>8, <2>9 DEF Advances, GoesOn
  <1>. QED BY <1>3, <1>4 DEF Redirect

LEMMA RespondAdvances ==
  ASSUME Inv, NEW b \in Ids, Respond(b)
  PROVE  Advances(b)
  <1>1. bodies[b].state = "io" /\ evidence' = evidence /\ performed' = performed
    BY InIo DEF Respond, books
  <1>. QED BY <1>1, ProceedAdvances, FailingAdvances DEF Respond

LEMMA FetchesAdvance ==
  ASSUME Inv, NEW b \in Ids, Fetches(b)
  PROVE  Advances(b)
  BY AuthorizeRequestAdvances, DialAdvances, RedirectAdvances, RespondAdvances DEF Fetches

-----------------------------------------------------------------------------
(* Programs, instructions without a scope, and failures.                   *)

LEMMA AuthorizeProgramAdvances ==
  ASSUME Inv, NEW b \in Ids, AuthorizeProgram(b)
  PROVE  Advances(b)
  <1> DEFINE io == [phase |-> "exec", root |-> <<>>, pinned |-> FALSE]
  <1>1. bodies[b].state = "started" /\ Inst(b).op = "EXEC" /\ evidence' = evidence
    BY DEF AuthorizeProgram, Starts, books
  <1>2. bodies[b].code # <<>> /\ ~ Over(b) /\ BodiesAreRecords
    BY <1>1, InsideInstruction
  <1>3. CASE Deny(b, "process")
    BY <1>1, <1>3, DenyAdvances
  <1>4. CASE /\ AuthorizesExec(tree, Caps(b), Inst(b).path, Inst(b).args)
             /\ Allow(b, "process", io)
    <2>1. /\ Turn(b) /\ bodies'[b].state = "io" /\ bodies'[b].code = bodies[b].code
          /\ bodies'[b].io = io
      BY <1>2, <1>4, AllowTurn
    <2>2. Inst(b)' = Inst(b) /\ Caps(b)' = Caps(b) /\ Io(b)' = io
      BY <2>1 DEF Inst, Caps, Turn, Io
    <2>3. \E grant \in Caps(b) : GrantsExec(grant, Inst(b).path, Inst(b).args)
      BY <1>4 DEF AuthorizesExec
    <2>4. io.phase = "exec"
      OBVIOUS
    <2> HIDE DEF io
    <2>5. ProgramIsGranted(b)'
      BY <1>1, <2>2, <2>3, <2>4 DEF ProgramIsGranted
    <2>6. PassesClass(b)'
      <3>1. PassesClass(b)
        BY <1>1 DEF Inv, InstructionsAreGranted, Granted
      <3>. QED BY <2>2, <3>1 DEF PassesClass
    <2>7. Granted(b)'
      BY <2>5, <2>6 DEF Granted
    <2>. QED BY <1>1, <1>2, <1>4, <2>1, <2>7 DEF Advances, GoesOn, Allow
  <1>. QED BY <1>3, <1>4 DEF AuthorizeProgram

LEMMA RunProgramAdvances ==
  ASSUME Inv, NEW b \in Ids, RunProgram(b)
  PROVE  Advances(b)
  <1>1. bodies[b].state = "io" /\ Io(b).phase = "exec"
    BY InIo DEF RunProgram
  <1>2. ProgramIsGranted(b)
    BY <1>1, PhasesApart
  <1>3. CASE Breaks(b)
    BY <1>1, <1>3, BreaksAdvances
  <1>4. CASE Performs(b, Summary(Inst(b)), None)
    <2> DEFINE e == Effect(b, Summary(Inst(b)), None)
    <2>1. e.body = b /\ e.op = Inst(b).op /\ e.request = Inst(b)
      BY DEF Effect
    <2>2. Lawful(b, e)
      BY <1>2, <2>1 DEF Lawful, Permits, ProgramIsGranted, FileOps
    <2>3. /\ bodies' = [bodies EXCEPT ![b] = Proceed(@)] /\ evidence' = evidence
          /\ performed' = performed \cup {e}
      BY <1>4 DEF Performs, books
    <2> HIDE DEF e
    <2>. QED BY <1>1, <2>2, <2>3, ProceedAdvances
  <1>. QED BY <1>3, <1>4 DEF RunProgram

LEMMA ReadEnvironmentAdvances ==
  ASSUME Inv, NEW b \in Ids, ReadEnvironment(b)
  PROVE  Advances(b)
  <1> DEFINE e == [body |-> b, left |-> Len(bodies[b].code), op |-> "ENV", target |-> <<>>,
                   request |-> Inst(b), unsealed |-> bodies[b].unsealed]
  <1>1. bodies[b].state = "started" /\ Inst(b).op = "ENV"
    BY DEF ReadEnvironment, Starts
  <1>2. PassesClass(b)
    BY <1>1 DEF Inv, InstructionsAreGranted, Granted
  <1>3. HasCoarse(Caps(b), "environment")
    BY <1>1, <1>2, AuthorityAssumption DEF PassesClass, Class, Has
  <1>4. e.body = b /\ e.op = "ENV"
    OBVIOUS
  <1>5. /\ bodies' = [bodies EXCEPT ![b] = Proceed(@)] /\ evidence' = evidence
        /\ performed' = performed \cup {e}
    BY DEF ReadEnvironment, books
  <1> HIDE DEF e
  <1>6. Lawful(b, e)
    BY <1>3, <1>4 DEF Lawful, Permits, FileOps
  <1>. QED BY <1>1, <1>5, <1>6, ProceedAdvances

LEMMA UseDictAdvances ==
  ASSUME Inv, NEW b \in Ids, UseDict(b)
  PROVE  Advances(b)
  BY ProceedAdvances DEF UseDict, Starts

LEMMA BeginAdvances ==
  ASSUME Inv, NEW b \in Ids, Begin(b)
  PROVE  Advances(b)
  <1>1. /\ bodies[b].state = "ready" /\ bodies[b].code # <<>> /\ ~ Over(b)
        /\ evidence' = evidence /\ performed' = performed
    BY DEF Begin, books, Over
  <1>2. /\ Turn(b) /\ bodies'[b].code = bodies[b].code
        /\ PassesClass(b) => bodies'[b].state = "started"
        /\ ~ PassesClass(b) => bodies'[b].state = "failing"
    BY BeginTurn DEF Inv, AInv
  <1>3. Inst(b)' = Inst(b) /\ Caps(b)' = Caps(b)
    BY <1>2 DEF Inst, Caps, Turn
  <1>4. PassesClass(b) => PassesClass(b)'
    BY <1>3 DEF PassesClass
  <1>5. Granted(b)'
    BY <1>2, <1>4 DEF Granted
  <1>. QED BY <1>1, <1>2, <1>5 DEF Advances, GoesOn

LEMMA LimitedAdvances ==
  ASSUME Inv, NEW b \in Ids, Limited(b)
  PROVE  Advances(b)
  <1>1. /\ bodies[b].state = "ready" /\ bodies[b].code # <<>> /\ ~ Over(b)
        /\ evidence' = evidence /\ performed' = performed
    BY DEF Limited, books, Over
  <1>2. Turn(b) /\ bodies'[b].code = bodies[b].code /\ bodies'[b].state = "failing"
    BY FailingTurn DEF Inv, AInv, Limited
  <1>. QED BY <1>1, <1>2 DEF Advances, GoesOn, Granted

LEMMA CatchAdvances ==
  ASSUME Inv, NEW b \in Ids, Catch(b)
  PROVE  Advances(b)
  <1>1. /\ bodies[b].state = "failing" /\ bodies[b].code # <<>> /\ ~ Over(b)
        /\ evidence' = evidence /\ performed' = performed
    BY DEF Catch, books, Over, Inv, AInv, CodeIsKnown
  <1>2. Turn(b) /\ bodies'[b].code = Tail(bodies[b].code) /\ bodies'[b].state = "ready"
    BY ProceedTurn DEF Inv, AInv, Catch
  <1>. QED BY <1>1, <1>2 DEF Advances, GoesOn, Granted

\* What a body does that starts and ends no other.
Acts(b) ==
  \/ Begin(b) \/ Limited(b) \/ Files(b) \/ Fetches(b) \/ AuthorizeProgram(b) \/ RunProgram(b)
  \/ ReadEnvironment(b) \/ UseDict(b) \/ Catch(b)

LEMMA ActsAdvance ==
  ASSUME Inv, NEW b \in Ids, Acts(b)
  PROVE  Advances(b)
  BY BeginAdvances, LimitedAdvances, FilesAdvance, FetchesAdvance, AuthorizeProgramAdvances,
     RunProgramAdvances, ReadEnvironmentAdvances, UseDictAdvances, CatchAdvances
  DEF Acts

-----------------------------------------------------------------------------
(* What bodies pass on.                                                    *)

LEMMA PrefixOrder ==
  ASSUME NEW r \in Seq(Name), NEW s \in Seq(Name), NEW t \in Seq(Name)
  PROVE  /\ contained(r, r)
         /\ contained(r, s) /\ contained(s, t) => contained(r, t)
  <1>1. ASSUME NEW u \in Seq(Name), NEW v \in Seq(Name)
        PROVE  contained(u, v) <=> Len(u) <= Len(v) /\ \A i \in 1 .. Len(u) : u[i] = v[i]
    <2>1. /\ Len(u) \in Nat /\ Len(v) \in Nat
          /\ u = [i \in 1 .. Len(u) |-> u[i]] /\ v = [i \in 1 .. Len(v) |-> v[i]]
      BY LenProperties
    <2>2. ASSUME Len(u) <= Len(v)
          PROVE  SubSeq(v, 1, Len(u)) = [i \in 1 .. Len(u) |-> v[i]]
      BY <2>1, <2>2
    <2>3. SubSeq(u, 1, Len(u)) = [i \in 1 .. Len(u) |-> u[i]]
      BY <2>1
    <2>. QED BY <2>1, <2>2, <2>3 DEF contained, IsPrefix
  <1>2. Len(r) \in Nat /\ Len(s) \in Nat /\ Len(t) \in Nat
    OBVIOUS
  <1>. QED BY <1>1, <1>2

\* Covering is reflexive and transitive: bodies can pass on what they hold, and
\* nothing is gained on the way.
LEMMA CoveringOrder ==
  ASSUME NEW caps, NEW inner, NEW innermost,
         RootsAreNamed(caps), RootsAreNamed(inner), RootsAreNamed(innermost)
  PROVE  /\ CoveredBy(caps, caps)
         /\ CoveredBy(caps, inner) /\ CoveredBy(inner, innermost) => CoveredBy(caps, innermost)
  <1>1. CoveredBy(caps, caps)
    BY PrefixOrder DEF CoveredBy, Covers, RootsAreNamed, Names
  <1>2. ASSUME CoveredBy(caps, inner), CoveredBy(inner, innermost), NEW held \in innermost
        PROVE  Covers(caps, held)
    <2>1. Covers(inner, held)
      BY <1>2 DEF CoveredBy
    <2>2. CASE held.kind # "root" /\ held \in inner
      BY <1>2, <2>2 DEF CoveredBy, Covers
    <2>3. CASE held.kind = "root" /\ HasCoarse(inner, "filesystem")
      BY <1>2, <2>3 DEF CoveredBy, Covers, HasCoarse, Coarse
    <2>4. CASE held.kind = "root" /\ \E root \in inner : Names(root, held.mode, held.path)
      <3>1. PICK root \in inner : Names(root, held.mode, held.path)
        BY <2>4
      <3>2. Covers(caps, root) /\ root.kind = "root" /\ root.mode = held.mode
        BY <1>2, <3>1 DEF CoveredBy, Names
      <3>3. CASE HasCoarse(caps, "filesystem")
        BY <2>4, <3>3 DEF Covers
      <3>4. CASE \E outer \in caps : Names(outer, root.mode, root.path)
        <4>1. PICK outer \in caps : Names(outer, root.mode, root.path)
          BY <3>4
        <4>2. outer.path \in Seq(Name) /\ root.path \in Seq(Name) /\ held.path \in Seq(Name)
          BY <1>2, <2>4, <3>2, <4>1 DEF Names, RootsAreNamed
        <4>3. contained(outer.path, held.path)
          BY <3>1, <4>1, <4>2, PrefixOrder DEF Names
        <4>. QED BY <2>4, <3>2, <4>1, <4>3 DEF Covers, Names
      <3>. QED BY <3>2, <3>3, <3>4 DEF Covers
    <2>. QED BY <2>1, <2>2, <2>3, <2>4 DEF Covers
  <1>. QED BY <1>1, <1>2 DEF CoveredBy

\* A child holds what its parent holds, or less.
LEMMA AttenuationIsCovered ==
  ASSUME NEW caps, NEW requested, RootsAreNamed(caps), RootsAreNamed(requested),
         MayAttenuate(caps, requested)
  PROVE  /\ CoveredBy(caps, Attenuate(caps, requested))
         /\ RootsAreNamed(Attenuate(caps, requested))
  <1>1. \A g \in Attenuate(caps, requested) :
          \/ g \in requested /\ g # InheritFilesystem
          \/ g \in caps
    BY DEF Attenuate
  <1>2. CoveredBy(caps, caps)
    BY CoveringOrder
  <1>. QED BY <1>1, <1>2 DEF CoveredBy, MayAttenuate, RootsAreNamed

\* What is permitted to a body is permitted to every body that holds as much.
LEMMA PermissionsAreInherited ==
  ASSUME NEW caps, NEW inner, RootsAreNamed(caps), RootsAreNamed(inner), CoveredBy(caps, inner),
         NEW b, NEW e, Lawful(b, e), Permits(inner, e)
  PROVE  Permits(caps, e)
  <1> DEFINE i == e.request
  <1>1. ASSUME NEW cap, HasCoarse(inner, cap)
        PROVE  HasCoarse(caps, cap)
    BY <1>1 DEF HasCoarse, Coarse, CoveredBy, Covers
  <1>2. ASSUME NEW mode, PathGranted(inner, mode, i.path), e.op \in FileOps
        PROVE  PathGranted(caps, mode, i.path)
    <2>1. CASE HasCoarse(inner, "filesystem")
      BY <1>1, <2>1 DEF PathGranted
    <2>2. CASE \E root \in inner : Names(root, mode, i.path)
      <3>1. PICK root \in inner : Names(root, mode, i.path)
        BY <2>2
      <3>2. Covers(caps, root) /\ root.kind = "root" /\ root.mode = mode
        BY <3>1 DEF CoveredBy, Names
      <3>3. CASE \E outer \in caps : Names(outer, root.mode, root.path)
        <4>1. PICK outer \in caps : Names(outer, root.mode, root.path)
          BY <3>3
        <4>2. outer.path \in Seq(Name) /\ root.path \in Seq(Name) /\ i.path \in Seq(Name)
          BY <1>2, <3>2, <4>1 DEF Names, RootsAreNamed, Lawful
        <4>3. contained(outer.path, i.path)
          BY <3>1, <4>1, <4>2, PrefixOrder DEF Names
        <4>. QED BY <3>2, <4>1, <4>3 DEF PathGranted, Names
      <3>. QED BY <3>2, <3>3 DEF Covers, PathGranted
    <2>. QED BY <1>2, <2>1, <2>2 DEF PathGranted
  <1>3. ASSUME NEW grant \in inner, grant.kind # "root"
        PROVE  grant \in caps
    BY <1>3 DEF CoveredBy, Covers
  <1>4. CASE e.op \in FileOps
    BY <1>1, <1>2, <1>4 DEF Permits, PathGranted, FileOps
  <1>5. CASE e.op = "EXEC"
    BY <1>3, <1>5 DEF Permits, GrantsExec
  <1>6. CASE e.op = "ENV"
    BY <1>1, <1>6 DEF Permits
  <1>7. CASE e.op = "FETCH"
    BY <1>3, <1>7 DEF Permits, AuthorizesFetch, GrantsFetch
  <1>. QED BY <1>4, <1>5, <1>6, <1>7 DEF Lawful

\* Everything an effect was done under, and under whose grants.
EffectsAreGranted ==
  \A e \in performed :
    /\ e.body \in Ids /\ Lawful(e.body, e)
    /\ \A a \in bodies[e.body].line : Permits(Caps(a), e)

IInv == Inv /\ EffectsAreGranted

\* Bodies keep what they hold and whom they descend from.
BodiesKeep ==
  \A c \in Ids : c \in Ids' /\ bodies'[c].caps = bodies[c].caps /\ bodies'[c].line = bodies[c].line

LEMMA EffectsStayGranted ==
  ASSUME IInv, BodiesKeep,
         performed' = performed \/ \E b \in Ids : \E e : performed' = performed \cup {e} /\ Lawful(b, e)
  PROVE  EffectsAreGranted'
  <1>1. \A c \in Ids : Caps(c)' = Caps(c)
    BY DEF BodiesKeep, Caps
  <1>2. ASSUME NEW e, e.body \in Ids, Lawful(e.body, e)
        PROVE  /\ \A a \in bodies[e.body].line : Permits(Caps(a), e)
               /\ Lawful(e.body, e)' /\ (e.body \in Ids)'
               /\ \A a \in bodies'[e.body].line : Permits(Caps(a)', e)
    <2> DEFINE b == e.body
    <2>1. Lawful(e.body, e)'
      BY <1>1, <1>2 DEF Lawful
    <2>2. \A a \in bodies[b].line : a \in Ids /\ CoveredBy(Caps(a), Caps(b))
      BY <1>2 DEF IInv, Inv, AInv, LinesAreCovered
    <2>3. \A a \in Ids : RootsAreNamed(Caps(a))
      BY DEF IInv, Inv, AInv, CodeIsKnown
    <2>4. \A a \in bodies[b].line : Permits(Caps(a), e)
      BY <1>2, <2>2, <2>3, PermissionsAreInherited DEF Lawful
    <2>5. bodies'[b].line = bodies[b].line /\ (b \in Ids)'
      BY <1>2 DEF BodiesKeep
    <2>. QED BY <1>1, <2>1, <2>2, <2>4, <2>5
  <1>3. ASSUME NEW e \in performed'
        PROVE  e.body \in Ids /\ Lawful(e.body, e)
    BY <1>3 DEF IInv, EffectsAreGranted, Lawful
  <1>4. ASSUME NEW e \in performed'
        PROVE  (e.body \in Ids)' /\ Lawful(e.body, e)' /\ \A a \in bodies'[e.body].line : Permits(Caps(a)', e)
    BY <1>2, <1>3, <1>4
  <1>. QED BY <1>4 DEF EffectsAreGranted

LEMMA AdvancePreserves ==
  ASSUME IInv, NEW b \in Ids, Advances(b)
  PROVE  IInv'
  <1>1. AInv'
    BY GoesOnPreserves DEF IInv, Inv, Advances
  <1>2. InstructionsAreGranted'
    <2>1. ASSUME NEW c \in Ids \ {b}
          PROVE  Granted(c)'
      <3>1. bodies'[c] = bodies[c] /\ Granted(c)
        BY <2>1 DEF Advances, GoesOn, Turn, IInv, Inv, InstructionsAreGranted
      <3>. QED BY <3>1 DEF Granted, PassesClass, FileIsGranted, ProgramIsGranted, RequestIsGranted,
                          Inst, Caps, Io
    <2>2. Ids' = Ids /\ Granted(b)'
      BY DEF Advances, GoesOn, Turn
    <2>. QED BY <2>1, <2>2 DEF InstructionsAreGranted
  <1>3. BodiesKeep
    BY DEF BodiesKeep, Advances, GoesOn, Turn
  <1>4. EffectsAreGranted'
    BY <1>3, EffectsStayGranted DEF Advances
  <1>. QED BY <1>1, <1>2, <1>4 DEF IInv, Inv

\* A body starts another, and goes on beside it or waits for it.
Starting(b, child, bs) ==
  /\ bodies[b].state = "started" /\ Inst(b).op \in {"SPAWN", "SPAWN_AGENT"}
  /\ MayAttenuate(Caps(b), Inst(b).grants)
  /\ DOMAIN child = Fields
  /\ child.kind \in {"agent", "detached"} /\ child.parent = b /\ child.state = "ready"
  /\ child.caps = Attenuate(Caps(b), Inst(b).grants) /\ child.code = Inst(b).body
  /\ child.line = bodies[b].line \cup {Len(bodies) + 1}
  /\ bs \in Seq(Range(bs)) /\ DOMAIN bs = Ids /\ DOMAIN bs[b] = Fields
  /\ \A x \in {"kind", "parent", "caps", "line"} : bs[b][x] = bodies[b][x]
  /\ \A c \in Ids \ {b} : bs[c] = bodies[c]
  /\ \/ bs[b].state = "waiting" /\ bs[b].code = bodies[b].code
     \/ /\ bs[b].state = "ready" /\ bs[b].code = Tail(bodies[b].code)
        /\ child.kind = "detached"
  /\ bodies' = Append(bs, child)
  /\ evidence' = evidence /\ performed' = performed

LEMMA StartingPreserves ==
  ASSUME IInv, NEW b \in Ids, NEW child, NEW bs, Starting(b, child, bs)
  PROVE  IInv'
  <1>0. PICK new : new = Len(bodies) + 1
    OBVIOUS
  <1>1. BodiesAreRecords /\ CodeIsKnown /\ AgentsAreAwaited /\ MainRests /\ LinesAreCovered
    BY DEF IInv, Inv, AInv
  <1>2. /\ bodies' \in Seq(Range(bodies')) /\ Ids' = Ids \cup {new} /\ new \notin Ids /\ 1 \in Ids
        /\ bodies'[new] = child
        /\ \A c \in Ids : bodies'[c] = bs[c]
    BY <1>0, <1>1, BodyAdded DEF Starting
  <1>3. /\ \A c \in Ids \ {b} : bodies'[c] = bodies[c]
        /\ bodies'[b] = bs[b]
        /\ \A c \in Ids : \A x \in {"kind", "parent", "caps", "line"} : bodies'[c][x] = bodies[c][x]
    BY <1>2 DEF Starting
  <1>4. bodies[b].code \in Code /\ bodies[b].code # <<>>
    BY <1>1 DEF CodeIsKnown, Starting
  <1>5. /\ Inst(b).body \in Code /\ RootsAreNamed(Inst(b).grants) /\ Tail(bodies[b].code) \in Code
    BY <1>4, CodeAssumption DEF Inst, Starting
  <1>6. RootsAreNamed(Caps(b))
    BY <1>1 DEF CodeIsKnown
  <1>7. CoveredBy(Caps(b), child.caps) /\ RootsAreNamed(child.caps)
    BY <1>5, <1>6, AttenuationIsCovered DEF Starting
  <1>8. BodiesAreRecords'
    <2>1. Len(bodies') > 0
      BY <1>1, <1>2, LenProperties DEF BodiesAreRecords, Ids
    <2>2. \A c \in Ids : DOMAIN (bodies'[c]) = Fields /\ (bodies'[c].kind = "main" <=> c = 1)
      BY <1>1, <1>3 DEF BodiesAreRecords, Starting
    <2>3. DOMAIN child = Fields /\ child.kind # "main" /\ new # 1
      BY <1>2 DEF Starting
    <2>. QED BY <1>2, <2>1, <2>2, <2>3 DEF BodiesAreRecords
  <1>9. CodeIsKnown'
    <2>1. ASSUME NEW c \in Ids
          PROVE  /\ bodies'[c].code \in Code /\ RootsAreNamed(bodies'[c].caps)
                 /\ bodies'[c].state \in {"started", "io", "failing", "waiting"} =>
                      bodies'[c].code # <<>>
      BY <1>1, <1>3, <1>4, <1>5 DEF CodeIsKnown, Starting, Caps
    <2>2. child.code \in Code /\ child.state = "ready"
      BY <1>5 DEF Starting
    <2>. QED BY <1>2, <1>7, <2>1, <2>2 DEF CodeIsKnown, Caps
  <1>10. AgentsAreAwaited'
    <2>1. \A c \in Ids : Running(c)' <=> Running(c)
      BY <1>3 DEF Running, Starting
    <2>2. \A c \in Ids : Running(c) =>
            /\ bodies[c].parent \in Ids /\ bodies[c].parent # b
            /\ bodies'[bodies[c].parent].state = "waiting"
      BY <1>1, <1>3 DEF AgentsAreAwaited, Starting
    <2>3. Running(new)' => bodies'[b].state = "waiting"
      BY <1>2, <1>3 DEF Running, Starting
    <2>4. bodies'[new].parent = b /\ b # new
      BY <1>2 DEF Starting
    <2>5. ASSUME NEW c \in Ids, Running(c)'
          PROVE  /\ bodies'[c].parent \in Ids' /\ bodies'[c].parent # c
                 /\ bodies'[bodies'[c].parent].state = "waiting"
                 /\ \A k \in Ids' : Running(k)' /\ bodies'[k].parent = bodies'[c].parent => k = c
      BY <1>1, <1>2, <1>3, <2>1, <2>2, <2>4, <2>5 DEF AgentsAreAwaited
    <2>6. ASSUME Running(new)'
          PROVE  /\ bodies'[new].parent \in Ids' /\ bodies'[new].parent # new
                 /\ bodies'[bodies'[new].parent].state = "waiting"
                 /\ \A k \in Ids' : Running(k)' /\ bodies'[k].parent = bodies'[new].parent => k = new
      BY <1>2, <1>3, <2>1, <2>2, <2>3, <2>4, <2>6
    <2>. QED BY <1>2, <2>5, <2>6 DEF AgentsAreAwaited
  <1>11. MainRests'
    <2> SUFFICES ASSUME evidence # None PROVE (bodies[1].state = "ended" \/ Over(1))'
      BY DEF MainRests, Starting
    <2>1. b # 1
      BY <1>1, <1>4 DEF MainRests, Over, Starting
    <2>2. bodies'[1] = bodies[1]
      BY <1>2, <1>3, <2>1
    <2>. QED BY <1>1, <2>2 DEF MainRests, Over, Inst
  <1>12. LinesAreCovered'
    <2>1. \A c \in Ids : Caps(c)' = Caps(c)
      BY <1>3 DEF Caps
    <2>2. Caps(new)' = child.caps
      BY <1>2 DEF Caps
    <2>3. \A c \in Ids : \A a \in bodies'[c].line : a \in Ids' /\ CoveredBy(Caps(a)', Caps(c)')
      BY <1>1, <1>2, <1>3, <2>1 DEF LinesAreCovered
    <2>4. ASSUME NEW a \in bodies[b].line
          PROVE  a \in Ids' /\ CoveredBy(Caps(a)', Caps(new)')
      <3>1. a \in Ids /\ CoveredBy(Caps(a), Caps(b)) /\ RootsAreNamed(Caps(a))
        BY <1>1 DEF LinesAreCovered, CodeIsKnown
      <3>2. CoveredBy(Caps(a), child.caps)
        BY <1>6, <1>7, <3>1, CoveringOrder
      <3>. QED BY <1>2, <2>1, <2>2, <3>1, <3>2
    <2>5. CoveredBy(Caps(new)', Caps(new)')
      BY <1>7, <2>2, CoveringOrder
    <2>6. bodies'[new].line = bodies[b].line \cup {new}
      BY <1>0, <1>2 DEF Starting
    <2>. QED BY <1>2, <2>3, <2>4, <2>5, <2>6 DEF LinesAreCovered
  <1>13. InstructionsAreGranted'
    <2>1. ASSUME NEW c \in Ids \ {b}
          PROVE  Granted(c)'
      <3>1. bodies'[c] = bodies[c] /\ Granted(c)
        BY <1>3, <2>1 DEF IInv, Inv, InstructionsAreGranted
      <3>. QED BY <3>1 DEF Granted, PassesClass, FileIsGranted, ProgramIsGranted, RequestIsGranted,
                          Inst, Caps, Io
    <2>2. Granted(b)' /\ Granted(new)'
      BY <1>2, <1>3 DEF Granted, Starting
    <2>. QED BY <1>2, <2>1, <2>2 DEF InstructionsAreGranted
  <1>14. EffectsAreGranted'
    <2>1. BodiesKeep
      BY <1>2, <1>3 DEF BodiesKeep
    <2>. QED BY <2>1, EffectsStayGranted DEF Starting
  <1>. QED BY <1>8, <1>9, <1>10, <1>11, <1>12, <1>13, <1>14 DEF IInv, Inv, AInv

LEMMA SpawnStarts ==
  ASSUME IInv, NEW b \in Ids, Spawn(b)
  PROVE  Deny(b, "process") \/ \E child, bs : Starting(b, child, bs)
  <1>1. /\ bodies[b].state = "started" /\ Inst(b).op = "SPAWN" /\ evidence' = evidence
        /\ BodiesAreRecords
    BY DEF Spawn, Starts, books, IInv, Inv, AInv
  <1>2. CASE /\ MayAttenuate(Caps(b), Inst(b).grants)
             /\ bodies' = Append([bodies EXCEPT ![b] = Proceed(@)], Child("detached", b, Inst(b)))
             /\ performed' = performed
    <2> DEFINE child == Child("detached", b, Inst(b))
    <2>1. /\ DOMAIN child = Fields
          /\ child.kind = "detached" /\ child.parent = b /\ child.state = "ready"
          /\ child.caps = Attenuate(Caps(b), Inst(b).grants) /\ child.code = Inst(b).body
          /\ child.line = bodies[b].line \cup {Len(bodies) + 1}
      BY DEF Child, Body, Fields, Caps
    <2> DEFINE past == Proceed(bodies[b])
    <2>2. PICK bs : bs = Replaced(b, past)
      OBVIOUS
    <2> HIDE DEF past
    <2>3. /\ bs \in Seq(Range(bs)) /\ DOMAIN bs = Ids /\ bs[b] = past
          /\ \A c \in Ids \ {b} : bs[c] = bodies[c]
      BY <1>1, <2>2, BodyReplaced
    <2>4. /\ DOMAIN bs[b] = Fields
          /\ \A x \in {"kind", "parent", "caps", "line"} : bs[b][x] = bodies[b][x]
          /\ bs[b].state = "ready" /\ bs[b].code = Tail(bodies[b].code)
      BY <1>1, <2>3 DEF BodiesAreRecords, Proceed, Fields, past
    <2>5. bodies' = Append(bs, child)
      BY <1>2, <2>2 DEF past, Replaced
    <2> HIDE DEF child
    <2>6. Starting(b, child, bs)
      BY <1>1, <1>2, <2>1, <2>3, <2>4, <2>5 DEF Starting
    <2>. QED BY <2>6
  <1>. QED BY <1>2 DEF Spawn

LEMMA SpawnPreserves ==
  ASSUME IInv, NEW b \in Ids, Spawn(b)
  PROVE  IInv'
  <1>1. bodies[b].state = "started" /\ evidence' = evidence
    BY DEF Spawn, Starts, books
  <1>2. CASE Deny(b, "process")
    BY <1>1, <1>2, DenyAdvances, AdvancePreserves DEF IInv
  <1>. QED BY <1>2, SpawnStarts, StartingPreserves

LEMMA SpawnAgentStarts ==
  ASSUME IInv, NEW b \in Ids, SpawnAgent(b)
  PROVE  \/ Deny(b, "process")
         \/ bodies' = [bodies EXCEPT ![b] = Failing(@, "LIMIT_EXCEEDED")] /\ performed' = performed
         \/ \E child, bs : Starting(b, child, bs)
  <1>1. /\ bodies[b].state = "started" /\ Inst(b).op = "SPAWN_AGENT" /\ evidence' = evidence
        /\ BodiesAreRecords
    BY DEF SpawnAgent, Starts, books, IInv, Inv, AInv
  <1>2. CASE /\ MayAttenuate(Caps(b), Inst(b).grants)
             /\ bodies' = Append([bodies EXCEPT ![b].state = "waiting"],
                    [Child("agent", b, Inst(b)) EXCEPT !.executed = bodies[b].executed,
                                                       !.depth = bodies[b].depth + 1])
             /\ performed' = performed
    <2> DEFINE child == [Child("agent", b, Inst(b)) EXCEPT !.executed = bodies[b].executed,
                                                           !.depth = bodies[b].depth + 1]
               rest == [bodies[b] EXCEPT !.state = "waiting"]
    <2>1. /\ DOMAIN child = Fields
          /\ child.kind = "agent" /\ child.parent = b /\ child.state = "ready"
          /\ child.caps = Attenuate(Caps(b), Inst(b).grants) /\ child.code = Inst(b).body
          /\ child.line = bodies[b].line \cup {Len(bodies) + 1}
      BY DEF Child, Body, Fields, Caps
    <2>2. /\ DOMAIN rest = Fields /\ rest.state = "waiting" /\ rest.code = bodies[b].code
          /\ \A x \in {"kind", "parent", "caps", "line"} : rest[x] = bodies[b][x]
      BY <1>1 DEF BodiesAreRecords, Fields
    <2>3. PICK bs : bs = Replaced(b, rest)
      OBVIOUS
    <2>4. bodies' = Append(bs, child)
      BY <1>2, <2>3 DEF Replaced
    <2> HIDE DEF child, rest
    <2>5. /\ bs \in Seq(Range(bs)) /\ DOMAIN bs = Ids /\ bs[b] = rest
          /\ \A c \in Ids \ {b} : bs[c] = bodies[c]
      BY <1>1, <2>3, BodyReplaced
    <2>6. Starting(b, child, bs)
      BY <1>1, <1>2, <2>1, <2>2, <2>4, <2>5 DEF Starting
    <2>. QED BY <2>6
  <1>. QED BY <1>2 DEF SpawnAgent

LEMMA SpawnAgentPreserves ==
  ASSUME IInv, NEW b \in Ids, SpawnAgent(b)
  PROVE  IInv'
  <1>1. bodies[b].state = "started" /\ evidence' = evidence
    BY DEF SpawnAgent, Starts, books
  <1>2. CASE Deny(b, "process")
    BY <1>1, <1>2, DenyAdvances, AdvancePreserves DEF IInv
  <1>3. CASE bodies' = [bodies EXCEPT ![b] = Failing(@, "LIMIT_EXCEEDED")] /\ performed' = performed
    BY <1>1, <1>3, FailingAdvances, AdvancePreserves DEF IInv
  <1>. QED BY <1>2, <1>3, SpawnAgentStarts, StartingPreserves

\* A body that nobody waits for ends.
LEMMA EndingPreserves ==
  ASSUME IInv, NEW b \in Ids, Turn(b), bodies[b].kind # "agent", bodies[b].state # "waiting",
         bodies'[b].state = "ended", bodies'[b].code = bodies[b].code,
         evidence' = evidence, performed' = performed
  PROVE  IInv'
  <1>1. BodiesAreRecords /\ CodeIsKnown /\ AgentsAreAwaited /\ MainRests /\ LinesAreCovered
    BY DEF IInv, Inv, AInv
  <1>2. /\ \A c \in Ids \ {b} : bodies'[c] = bodies[c]
        /\ Ids' = Ids
        /\ \A c \in Ids : \A x \in {"kind", "parent", "caps", "line"} : bodies'[c][x] = bodies[c][x]
    BY DEF Turn
  <1>3. BodiesAreRecords'
    <2>1. Len(bodies') > 0
      BY <1>1, <1>2, LenProperties DEF BodiesAreRecords, Ids, Turn
    <2>. QED BY <1>1, <1>2, <2>1 DEF BodiesAreRecords, Turn
  <1>4. CodeIsKnown'
    BY <1>1, <1>2 DEF CodeIsKnown, Caps
  <1>5. AgentsAreAwaited'
    <2>1. \A c \in Ids : Running(c)' <=> Running(c)
      BY <1>2 DEF Running
    <2>. QED BY <1>1, <1>2, <2>1 DEF AgentsAreAwaited
  <1>6. MainRests'
    BY <1>1, <1>2 DEF MainRests, Over, Inst, BodiesAreRecords, Ids
  <1>7. LinesAreCovered'
    BY <1>1, <1>2 DEF LinesAreCovered, Caps
  <1>8. InstructionsAreGranted'
    <2>1. ASSUME NEW c \in Ids \ {b}
          PROVE  Granted(c)'
      <3>1. bodies'[c] = bodies[c] /\ Granted(c)
        BY <1>2, <2>1 DEF IInv, Inv, InstructionsAreGranted
      <3>. QED BY <3>1 DEF Granted, PassesClass, FileIsGranted, ProgramIsGranted, RequestIsGranted,
                          Inst, Caps, Io
    <2>2. Granted(b)'
      BY DEF Granted
    <2>. QED BY <1>2, <2>1, <2>2 DEF InstructionsAreGranted
  <1>9. EffectsAreGranted'
    BY <1>2, EffectsStayGranted DEF BodiesKeep
  <1>. QED BY <1>3, <1>4, <1>5, <1>6, <1>7, <1>8, <1>9 DEF IInv, Inv, AInv

LEMMA DetachedEndsPreserves ==
  ASSUME IInv, NEW b \in Ids, DetachedEnds(b)
  PROVE  IInv'
  <1>1. /\ bodies[b].kind # "agent" /\ bodies[b].state # "waiting" /\ BodiesAreRecords
        /\ evidence' = evidence /\ performed' = performed
    BY DEF DetachedEnds, Over, books, IInv, Inv, AInv
  <1>2. Turn(b) /\ bodies'[b].state = "ended" /\ bodies'[b].code = bodies[b].code
    BY <1>1, StateTurn DEF DetachedEnds
  <1>. QED BY <1>1, <1>2, EndingPreserves

LEMMA SealPreserves ==
  ASSUME IInv, Seal
  PROVE  IInv'
  <1>1. BodiesAreRecords /\ MainRests /\ 1 \in Ids
    BY DEF IInv, Inv, AInv, BodiesAreRecords, Ids
  <1>2. /\ bodies[1].kind # "agent" /\ bodies[1].state # "waiting"
        /\ evidence' = evidence /\ performed' = performed
    BY <1>1 DEF Seal, MainRests, Over, books, BodiesAreRecords
  <1>3. Turn(1) /\ bodies'[1].state = "ended" /\ bodies'[1].code = bodies[1].code
    BY <1>1, StateTurn DEF Seal
  <1>. QED BY <1>1, <1>2, <1>3, EndingPreserves

\* An agent ends, and the body that waits for it goes on.
LEMMA AgentEndsTurns ==
  ASSUME IInv, NEW b \in Ids, AgentEnds(b), NEW p, p = bodies[b].parent
  PROVE  /\ p \in Ids /\ p # b /\ bodies[p].state = "waiting" /\ bodies[p].code # <<>>
         /\ bodies[p].code \in Code /\ bodies' \in Seq(Range(bodies')) /\ Ids' = Ids
         /\ bodies'[b].state = "ended" /\ bodies'[b].code = bodies[b].code
         /\ \/ bodies'[p].state = "failing" /\ bodies'[p].code = bodies[p].code
            \/ bodies'[p].state = "ready" /\ bodies'[p].code = Tail(bodies[p].code)
         /\ \A c \in Ids \ {b, p} : bodies'[c] = bodies[c]
         /\ \A c \in Ids : DOMAIN (bodies'[c]) = Fields
         /\ \A c \in Ids : \A x \in {"kind", "parent", "caps", "line"} : bodies'[c][x] = bodies[c][x]
  <1>1. BodiesAreRecords /\ CodeIsKnown /\ AgentsAreAwaited /\ MainRests /\ LinesAreCovered
    BY DEF IInv, Inv, AInv
  <1>3. /\ Running(b) /\ bodies[b].state \in {"ready", "failing"} /\ b # 1
        /\ evidence' = evidence /\ performed' = performed
    BY <1>1 DEF AgentEnds, Running, Over, books, BodiesAreRecords
  <1>4. p \in Ids /\ p # b /\ bodies[p].state = "waiting" /\ bodies[p].code # <<>>
        /\ bodies[p].code \in Code
    BY <1>1, <1>3 DEF AgentsAreAwaited, CodeIsKnown
  <1> DEFINE counted == [bodies[p] EXCEPT !.executed = bodies[b].executed]
             last == [bodies[b] EXCEPT !.state = "ended"]
             next == IF bodies[b].failure = "LIMIT_EXCEEDED" THEN Failing(counted, "LIMIT_EXCEEDED")
                     ELSE Proceed(counted)
  <1>5. /\ DOMAIN last = Fields /\ last.state = "ended" /\ last.code = bodies[b].code
        /\ \A x \in {"kind", "parent", "caps", "line"} : last[x] = bodies[b][x]
    BY <1>1 DEF BodiesAreRecords, Fields
  <1>6. /\ DOMAIN next = Fields
        /\ \A x \in {"kind", "parent", "caps", "line"} : next[x] = bodies[p][x]
        /\ \/ next.state = "failing" /\ next.code = bodies[p].code
           \/ next.state = "ready" /\ next.code = Tail(bodies[p].code)
    <2>1. DOMAIN counted = Fields /\ \A x \in Fields \ {"executed"} : counted[x] = bodies[p][x]
      BY <1>1, <1>4 DEF BodiesAreRecords, Fields
    <2> HIDE DEF counted
    <2>2. CASE bodies[b].failure = "LIMIT_EXCEEDED"
      BY <2>1, <2>2 DEF Failing, Fields
    <2>3. CASE bodies[b].failure # "LIMIT_EXCEEDED"
      BY <2>1, <2>3 DEF Proceed, Fields
    <2>. QED BY <2>2, <2>3
  <1>7. bodies' = [bodies EXCEPT ![b] = last, ![p] = next]
    BY <1>1, <1>4 DEF AgentEnds, BodiesAreRecords, Ids
  <1> HIDE DEF last, next
  <1>8. /\ bodies' \in Seq(Range(bodies')) /\ Ids' = Ids
        /\ bodies'[b] = last /\ bodies'[p] = next
        /\ \A c \in Ids \ {b, p} : bodies'[c] = bodies[c]
    <2> DEFINE n == Len(bodies)
    <2>1. n \in Nat /\ Ids = 1 .. n
      BY <1>1 DEF BodiesAreRecords, Ids
    <2>2. /\ Ids' = Ids /\ bodies'[b] = last /\ bodies'[p] = next
          /\ \A c \in Ids \ {b, p} : bodies'[c] = bodies[c]
      BY <1>1, <1>4, <1>7 DEF BodiesAreRecords, Ids
    <2>3. bodies' \in [1 .. n -> Range(bodies')]
      BY <1>7, <2>1, <2>2 DEF Ids, Range
    <2>4. bodies' \in Seq(Range(bodies'))
      BY <2>1, <2>3, FunctionIsSeq
    <2>. QED BY <2>2, <2>4
  <1>9. \A c \in Ids : \A x \in {"kind", "parent", "caps", "line"} : bodies'[c][x] = bodies[c][x]
    BY <1>5, <1>6, <1>8
  <1>10. \A c \in Ids : DOMAIN (bodies'[c]) = Fields
    BY <1>1, <1>5, <1>6, <1>8 DEF BodiesAreRecords
  <1>. QED BY <1>4, <1>5, <1>6, <1>8, <1>9, <1>10

LEMMA AgentEndsPreserves ==
  ASSUME IInv, NEW b \in Ids, AgentEnds(b)
  PROVE  IInv'
  <1>1. BodiesAreRecords /\ CodeIsKnown /\ AgentsAreAwaited /\ MainRests /\ LinesAreCovered
    BY DEF IInv, Inv, AInv
  <1>2. PICK p : p = bodies[b].parent
    OBVIOUS
  <1>3. /\ Running(b) /\ bodies[b].state \in {"ready", "failing"} /\ b # 1
        /\ evidence' = evidence /\ performed' = performed
    BY <1>1 DEF AgentEnds, Running, Over, books, BodiesAreRecords
  <1>4. p \in Ids /\ p # b /\ bodies[p].state = "waiting" /\ bodies[p].code # <<>>
        /\ bodies[p].code \in Code
    BY <1>2, AgentEndsTurns
  <1>5. bodies'[b].state = "ended" /\ bodies'[b].code = bodies[b].code
    BY <1>2, AgentEndsTurns
  <1>6. \/ bodies'[p].state = "failing" /\ bodies'[p].code = bodies[p].code
        \/ bodies'[p].state = "ready" /\ bodies'[p].code = Tail(bodies[p].code)
    BY <1>2, AgentEndsTurns
  <1>7. /\ bodies' \in Seq(Range(bodies')) /\ Ids' = Ids
        /\ \A c \in Ids : DOMAIN (bodies'[c]) = Fields
    BY <1>2, AgentEndsTurns
  <1>8. \A c \in Ids \ {b, p} : bodies'[c] = bodies[c]
    BY <1>2, AgentEndsTurns
  <1>9. \A c \in Ids : \A x \in {"kind", "parent", "caps", "line"} : bodies'[c][x] = bodies[c][x]
    BY <1>2, AgentEndsTurns
  <1>10. BodiesAreRecords'
    <2>1. Len(bodies') > 0
      BY <1>1, <1>7, LenProperties DEF BodiesAreRecords, Ids
    <2>. QED BY <1>1, <1>7, <1>9, <2>1 DEF BodiesAreRecords
  <1>11. CodeIsKnown'
    <2>1. ASSUME NEW c \in Ids
          PROVE  /\ bodies'[c].code \in Code
                 /\ bodies'[c].state \in {"started", "io", "failing", "waiting"} =>
                      bodies'[c].code # <<>>
      <3>1. CASE c = b
        BY <1>1, <1>5, <3>1 DEF CodeIsKnown
      <3>2. CASE c = p
        BY <1>4, <1>6, <3>2, KnownTail
      <3>3. CASE c \notin {b, p}
        BY <1>1, <1>8, <3>3 DEF CodeIsKnown
      <3>. QED BY <3>1, <3>2, <3>3
    <2>2. \A c \in Ids : RootsAreNamed(bodies'[c].caps)
      BY <1>1, <1>9 DEF CodeIsKnown, Caps
    <2>. QED BY <1>7, <2>1, <2>2 DEF CodeIsKnown, Caps
  <1>12. AgentsAreAwaited'
    <2>1. ASSUME NEW c \in Ids, Running(c)'
          PROVE  Running(c) /\ c # b
      <3>1. c # b
        BY <1>5, <2>1 DEF Running
      <3>2. CASE c = p
        BY <1>4, <1>9, <2>1, <3>2 DEF Running
      <3>3. CASE c # p
        BY <1>8, <2>1, <3>1, <3>3 DEF Running
      <3>. QED BY <3>1, <3>2, <3>3
    <2>2. ASSUME NEW c \in Ids, Running(c)'
          PROVE  /\ bodies[c].parent \in Ids /\ bodies[c].parent # c
                 /\ bodies'[bodies[c].parent].state = "waiting"
      <3>1. /\ bodies[c].parent \in Ids /\ bodies[c].parent # c
            /\ bodies[bodies[c].parent].state = "waiting"
        BY <1>1, <2>1, <2>2 DEF AgentsAreAwaited
      <3>2. bodies[c].parent # p
        BY <1>1, <1>2, <1>3, <2>1, <2>2 DEF AgentsAreAwaited
      <3>3. bodies[c].parent # b
        BY <1>3, <3>1
      <3>. QED BY <1>8, <3>1, <3>2, <3>3
    <2>3. ASSUME NEW c \in Ids, Running(c)', NEW k \in Ids, Running(k)', bodies[k].parent = bodies[c].parent
          PROVE  k = c
      BY <1>1, <2>1, <2>3 DEF AgentsAreAwaited
    <2>. QED BY <1>7, <1>9, <2>2, <2>3 DEF AgentsAreAwaited
  <1>13. MainRests'
    <2> SUFFICES ASSUME evidence # None PROVE (bodies[1].state = "ended" \/ Over(1))'
      BY <1>3 DEF MainRests
    <2>1. p # 1 /\ 1 \in Ids
      BY <1>1, <1>4 DEF MainRests, Over, BodiesAreRecords, Ids
    <2>2. bodies'[1] = bodies[1]
      BY <1>3, <1>8, <2>1
    <2>. QED BY <1>1, <2>2 DEF MainRests, Over, Inst
  <1>14. LinesAreCovered'
    BY <1>1, <1>7, <1>9 DEF LinesAreCovered, Caps
  <1>15. InstructionsAreGranted'
    <2>1. ASSUME NEW c \in Ids \ {b, p}
          PROVE  Granted(c)'
      <3>1. bodies'[c] = bodies[c] /\ Granted(c)
        BY <1>8, <2>1 DEF IInv, Inv, InstructionsAreGranted
      <3>. QED BY <3>1 DEF Granted, PassesClass, FileIsGranted, ProgramIsGranted, RequestIsGranted,
                          Inst, Caps, Io
    <2>2. bodies'[b].state \notin {"started", "io"} /\ bodies'[p].state \notin {"started", "io"}
      BY <1>5, <1>6
    <2>3. ASSUME NEW c \in {b, p}
          PROVE  Granted(c)'
      BY <2>2 DEF Granted
    <2>. QED BY <1>7, <2>1, <2>3 DEF InstructionsAreGranted
  <1>16. EffectsAreGranted'
    BY <1>3, <1>7, <1>9, EffectsStayGranted DEF BodiesKeep
  <1>. QED BY <1>10, <1>11, <1>12, <1>13, <1>14, <1>15, <1>16 DEF IInv, Inv, AInv

\* Whatever leaves the bodies alone.
LEMMA ElsewherePreserves ==
  ASSUME IInv, bodies' = bodies, performed' = performed,
         evidence' = evidence \/ Over(1)
  PROVE  IInv'
  <1>1. Ids' = Ids /\ \A c \in Ids : Caps(c)' = Caps(c) /\ Inst(c)' = Inst(c)
    BY DEF Ids, Caps, Inst
  <1>2. MainRests'
    BY DEF MainRests, Over, Inst, IInv, Inv, AInv
  <1>3. BodiesAreRecords' /\ CodeIsKnown' /\ AgentsAreAwaited' /\ LinesAreCovered'
    BY <1>1 DEF BodiesAreRecords, CodeIsKnown, AgentsAreAwaited, Running, LinesAreCovered,
                IInv, Inv, AInv
  <1>4. InstructionsAreGranted'
    <2>1. ASSUME NEW c \in Ids
          PROVE  Granted(c)'
      <3>1. Granted(c)
        BY DEF IInv, Inv, InstructionsAreGranted
      <3>. QED BY <1>1, <3>1 DEF Granted, PassesClass, FileIsGranted, ProgramIsGranted,
                                RequestIsGranted, Io
    <2>. QED BY <1>1, <2>1 DEF InstructionsAreGranted
  <1>5. EffectsAreGranted'
    BY <1>1, EffectsStayGranted DEF BodiesKeep
  <1>. QED BY <1>2, <1>3, <1>4, <1>5 DEF IInv, Inv, AInv

LEMMA StepPreserves ==
  ASSUME IInv, [Next]_vars
  PROVE  IInv'
  <1>1. ASSUME NEW b \in Ids, Acts(b)
        PROVE  IInv'
    BY <1>1, ActsAdvance, AdvancePreserves DEF IInv
  <1>2. ASSUME NEW b \in Ids, Bodies(b)
        PROVE  IInv'
    BY <1>1, <1>2, SpawnPreserves, SpawnAgentPreserves, AgentEndsPreserves, DetachedEndsPreserves
    DEF Bodies, Acts
  <1>3. CASE CopyEvidence \/ Cancel \/ Outside
    BY <1>3, ElsewherePreserves DEF CopyEvidence, Cancel, Outside, books
  <1>4. CASE UNCHANGED vars
    BY <1>4, ElsewherePreserves DEF vars
  <1>. QED BY <1>2, <1>3, <1>4, SealPreserves DEF Next, Main

LEMMA InitHolds ==
  ASSUME Init
  PROVE  IInv
  <1> DEFINE main == Body("main", 0, program.caps, program.code)
  <1>1. /\ DOMAIN main = Fields /\ main.kind = "main" /\ main.state = "ready"
        /\ main.caps = program.caps /\ main.code = program.code /\ main.line = {1}
    BY DEF Body, Fields
  <1> HIDE DEF main
  <1>2. bodies = <<main>> /\ program \in Programs /\ evidence = None /\ performed = {}
    BY DEF Init, main
  <1>3. bodies \in Seq({main}) /\ Len(bodies) = 1 /\ bodies[1] = main /\ Ids = {1}
    BY <1>2 DEF Ids
  <1>4. BodiesAreRecords
    BY <1>1, <1>3, SeqOfRange DEF BodiesAreRecords
  <1>5. main.code \in Code /\ RootsAreNamed(main.caps)
    BY <1>1, <1>2, CodeAssumption
  <1>6. CodeIsKnown /\ LinesAreCovered
    <2>1. CoveredBy(main.caps, main.caps)
      BY <1>5, CoveringOrder
    <2>. QED BY <1>1, <1>3, <1>5, <2>1 DEF CodeIsKnown, LinesAreCovered, Caps
  <1>7. AgentsAreAwaited /\ MainRests /\ InstructionsAreGranted
    BY <1>1, <1>2, <1>3 DEF AgentsAreAwaited, Running, MainRests, InstructionsAreGranted, Granted
  <1>8. EffectsAreGranted
    BY <1>2 DEF EffectsAreGranted
  <1>. QED BY <1>4, <1>6, <1>7, <1>8 DEF IInv, Inv, AInv

\* Every body runs code of its program, waits for each agent it starts, holds no
\* more than the bodies above it, and has been granted what it is doing.
THEOREM InvariantHolds == Spec => []IInv
  BY InitHolds, StepPreserves, PTL DEF Spec

\* No chain of attenuated children does what a body above them was not granted,
\* however their grants were narrowed and renamed on the way.
THEOREM ChildrenCovered == Spec => []ChildrenStayCovered
  <1>1. IInv => ChildrenStayCovered
    BY DEF IInv, EffectsAreGranted, ChildrenStayCovered
  <1>. QED BY <1>1, InvariantHolds, PTL

\* Each request that was made was granted, dialled an address its host may have
\* and followed from a guarded chain, through any number of redirects.
THEOREM ChainsGuarded == Spec => []ChainsAreGuarded
  <1>1. IInv => ChainsAreGuarded
    BY DEF IInv, EffectsAreGranted, ChainsAreGuarded, Lawful, RequestIsLawful
  <1>. QED BY <1>1, InvariantHolds, PTL
=============================================================================
