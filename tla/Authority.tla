------------------------------ MODULE Authority -----------------------------
(***************************************************************************)
(* Effects of a governed run and what accounts for them                    *)
(* (internal/vm, internal/capability).                                     *)
(*                                                                         *)
(* A run is the main body, the agents it waits for and the bodies it       *)
(* detaches.  Every instruction of a body is checked against the body's    *)
(* grants, its decision is written to the receipt, and only then is the    *)
(* effect performed, step by step, while other bodies run and another      *)
(* process changes the directory tree.  When the main body ends, evidence  *)
(* of its dictionaries is copied and the receipt is sealed; detached       *)
(* bodies may go on.                                                       *)
(*                                                                         *)
(* Not modelled: how values are computed (Vm does that), the contents of   *)
(* files and responses, and names of environment variables.                *)
(***************************************************************************)
EXTENDS Grants, FiniteSets

CONSTANTS
  Programs,         \* [caps, tree, changes, deadline, code] of each run considered
  Urls,             \* where a server may redirect to
  HostKind,         \* of each host: "name", "literal" or "localhost"
  Addresses,        \* what a name may resolve to
  Dicts,            \* dictionaries a program creates
  MaxInstructions, MaxCallDepth, MaxEffects, MaxRedirects, MaxEvents, MaxResources,
  MaxChanges,       \* bound on the changes another process makes to the tree
  Name,             \* what a path is made of
  Code,             \* what is left to run of a body: of the runs, and of bodies they start
  None

ASSUME AuthorityAssumption ==
  /\ MaxInstructions \in Nat /\ MaxCallDepth \in Nat /\ MaxEffects \in Nat
  /\ MaxRedirects \in Nat /\ MaxEvents \in Nat /\ MaxResources \in Nat /\ MaxChanges \in Nat
  /\ \A u \in Urls : /\ u.scheme \in {"http", "https"}
                     /\ HostKind[u.host] \in {"name", "literal", "localhost"}
  /\ Addresses \subseteq {"public", "private", "loopback", "multicast"}
  /\ None \notin Nat \cup {"filesystem", "database", "process", "network", "environment"}

\* Roots are sequences of names, as absolute paths are.
RootsAreNamed(caps) == \A g \in caps : g.kind = "root" => g.path \in Seq(Name)

\* Every suffix of a body's code, and the code of every body it starts, is Code,
\* and names its files and grants by paths.
ASSUME CodeAssumption ==
  /\ \A r \in Programs : r.code \in Code /\ RootsAreNamed(r.caps)
  /\ \A c \in Code :
       /\ c \in Seq(Range(c))
       /\ c # <<>> =>
            LET i == Head(c)
            IN  /\ Tail(c) \in Code
                /\ i.op \in {"READ_FILE", "WRITE_FILE", "MKDIR", "STORE_PUT"} =>
                     i.path \in Seq(Name)
                /\ i.op \in {"SPAWN", "SPAWN_AGENT"} =>
                     i.body \in Code /\ RootsAreNamed(i.grants)

\* Trees, and what other processes do to them, are made of files, directories
\* and links that lead to paths.
IsEntry(e) ==
  \/ e \in {Absent, Directory}
  \/ e.kind = "file" /\ e = File(e.id)
  \/ e.kind = "link" /\ e = Link(e.to) /\ e.to \in Seq(Name)

ASSUME TreeAssumption ==
  \A r \in Programs :
    /\ \A p \in DOMAIN r.tree : p \in Seq(Name) /\ IsEntry(r.tree[p])
    /\ \A c \in r.changes : c.path \in Seq(Name) /\ IsEntry(c.entry)

VARIABLES
  bodies,     \* sequence of the run's bodies; the first is main
  tree,       \* what each path names
  changes,    \* changes another process made to it
  entries,    \* every file a path has been an entry of: <<path, file>>
  program,    \* the run considered
  receipt,    \* receiptRecorder: its effects, whether truncated, whether sealed
  ledger,     \* mapStateLedger of main: complete, events, version of each dictionary
  evidence,   \* the ledger as copied when main ended
  cancelled,  \* the context all bodies share
  performed,  \* history: every effect that reached the world
  refused,    \* history: every effect that was refused
  changed     \* history: how often a dictionary changed, and who else changed it

vars == <<bodies, tree, changes, entries, program, receipt, ledger, evidence, cancelled,
          performed, refused, changed>>

world == <<tree, changes, entries, program>>
books == <<ledger, evidence, changed>>

\* A new body.  It shares the run's dictionaries unless it works on copies;
\* line is the bodies it descends from, itself included.
Body(kind, parent, caps, code) ==
  [kind |-> kind, parent |-> parent, caps |-> caps, code |-> code, state |-> "ready",
   executed |-> 0, depth |-> 0, decided |-> {}, unsealed |-> TRUE, io |-> None,
   failure |-> None, shares |-> TRUE, line |-> {1}]

Child(kind, b, i) ==
  [Body(kind, b, Attenuate(bodies[b].caps, i.grants), i.body) EXCEPT
     !.line = bodies[b].line \cup {Len(bodies) + 1},
     !.shares = bodies[b].shares /\ kind = "detached"]

Init ==
  /\ program \in Programs
  /\ bodies = <<Body("main", 0, program.caps, program.code)>>
  /\ tree = program.tree /\ changes = 0
  /\ entries = {<<p, tree[p].id>> : p \in {q \in DOMAIN tree : tree[q].kind = "file"}}
  /\ receipt = [effects |-> <<>>, truncated |-> FALSE, sealed |-> FALSE]
  /\ ledger = [complete |-> TRUE, events |-> <<>>, version |-> [d \in Dicts |-> None]]
  /\ evidence = None
  /\ cancelled = FALSE
  /\ performed = {} /\ refused = {}
  /\ changed = [d \in Dicts |-> [times |-> 0, elsewhere |-> FALSE]]

Ids == DOMAIN bodies
Inst(b) == Head(bodies[b].code)
Caps(b) == bodies[b].caps

Proceed(b) == [b EXCEPT !.code = Tail(@), !.state = "ready", !.io = None, !.failure = None]
Failing(b, why) == [b EXCEPT !.state = "failing", !.failure = why, !.io = None]

-----------------------------------------------------------------------------
(* The receipt.                                                            *)

Entry(op, cap, target, decision) ==
  [op |-> op, cap |-> cap, target |-> target, decision |-> decision]

\* Mutants: a recorder that goes on after finish; one that keeps each entry once.
NotedLate(r, e) ==
  IF Len(r.effects) >= MaxEffects THEN [r EXCEPT !.truncated = TRUE]
  ELSE [r EXCEPT !.effects = Append(@, e)]
NotedOnce(r, e) ==
  IF r.sealed \/ e \in Range(r.effects) THEN r ELSE NotedLate(r, e)

Noted(r, e) ==
  IF r.sealed THEN r
  ELSE IF Len(r.effects) >= MaxEffects THEN [r EXCEPT !.truncated = TRUE]
  ELSE [r EXCEPT !.effects = Append(@, e)]

\* effectSummary: paths as they are given, URLs cut down to scheme and host,
\* programs to their name.
Summary(i) ==
  CASE i.op \in {"READ_FILE", "WRITE_FILE", "MKDIR", "STORE_PUT"} -> i.path
    [] i.op = "FETCH" -> <<i.url.scheme, i.url.host>>
    [] i.op = "EXEC" -> <<Last(i.path)>>
    [] OTHER -> <<>>

\* recordEffectGrant: the first decision of an instruction for a capability.
Record(r, b, cap, decision) ==
  IF cap \in bodies[b].decided THEN r
  ELSE Noted(r, Entry(Inst(b).op, cap, Summary(Inst(b)), decision))

\* recordHop: every hop of a fetch.
RecordHop(b, decision) == Noted(receipt, Entry("FETCH", "network", <<"redirect">>, decision))

Refusal(b, cap, target) ==
  [body |-> b, left |-> Len(bodies[b].code), op |-> Inst(b).op, cap |-> cap,
   target |-> target, unsealed |-> ~receipt.sealed, decided |-> bodies[b].decided]

Allow(b, cap, io) ==
  /\ receipt' = Record(receipt, b, cap, "allowed")
  /\ bodies' = [bodies EXCEPT ![b].decided = @ \cup {cap}, ![b].state = "io",
                              ![b].unsealed = ~receipt.sealed, ![b].io = io]
  /\ UNCHANGED <<refused, performed>>

\* Mutant: a refusal leaves no entry.
DenyUnrecorded(b, cap) ==
  /\ refused' = refused \cup {Refusal(b, cap, Summary(Inst(b)))}
  /\ bodies' = [bodies EXCEPT ![b] = Failing(@, "CAPABILITY_DENIED")]
  /\ UNCHANGED <<performed, receipt>>

Deny(b, cap) ==
  /\ receipt' = Record(receipt, b, cap, "denied")
  /\ refused' = refused \cup {Refusal(b, cap, Summary(Inst(b)))}
  /\ bodies' = [bodies EXCEPT ![b] = Failing(@, "CAPABILITY_DENIED")]
  /\ UNCHANGED performed

-----------------------------------------------------------------------------
(* The start of an instruction: deadline, instruction limit, and the       *)
(* capability its opcode is registered with.                               *)

Class(op) ==
  CASE op \in {"READ_FILE", "WRITE_FILE", "MKDIR"} -> "filesystem"
    [] op = "STORE_PUT" -> "database"
    [] op \in {"EXEC", "SPAWN", "SPAWN_AGENT"} -> "process"
    [] op = "FETCH" -> "network"
    [] op = "ENV" -> "environment"
    [] OTHER -> None

\* requireCapability: what it lets through, and what it writes down already.
PassesClass(b) ==
  LET op == Inst(b).op
      c == Class(op)
  IN  \/ c = None \/ op = "FETCH"
      \/ op \in {"SPAWN", "SPAWN_AGENT"} /\ HasCoarse(Caps(b), c)
      \/ op \notin {"SPAWN", "SPAWN_AGENT"} /\ Has(Caps(b), c)

IsProvisional(b) ==
  LET c == Class(Inst(b).op)
  IN  \/ c \in {None, "network", "process"}
      \/ c = "filesystem" /\ ~HasCoarse(Caps(b), c)

Begin(b) ==
  /\ bodies[b].state = "ready" /\ bodies[b].code # <<>>
  /\ ~cancelled /\ bodies[b].executed < MaxInstructions
  /\ LET started == [bodies[b] EXCEPT !.executed = @ + 1, !.decided = {}]
         c == Class(Inst(b).op)
     IN  IF PassesClass(b)
         THEN /\ receipt' = IF IsProvisional(b) THEN receipt
                            ELSE Noted(receipt, Entry(Inst(b).op, c, Summary(Inst(b)), "allowed"))
              /\ bodies' = [bodies EXCEPT ![b] =
                   [started EXCEPT !.state = "started", !.unsealed = ~receipt.sealed,
                                   !.decided = IF IsProvisional(b) THEN {} ELSE {c}]]
              /\ UNCHANGED refused
         ELSE /\ receipt' = Noted(receipt, Entry(Inst(b).op, c, Summary(Inst(b)), "denied"))
              /\ bodies' = [bodies EXCEPT ![b] = Failing(started, "CAPABILITY_DENIED")]
              /\ refused' = refused \cup
                   {[Refusal(b, c, Summary(Inst(b))) EXCEPT !.decided = {}]}
  /\ UNCHANGED <<world, books, cancelled, performed>>

Limited(b) ==
  /\ bodies[b].state = "ready" /\ bodies[b].code # <<>>
  /\ cancelled \/ bodies[b].executed >= MaxInstructions
  /\ bodies' = [bodies EXCEPT ![b] = Failing(@, "LIMIT_EXCEEDED")]
  /\ UNCHANGED <<world, receipt, books, cancelled, performed, refused>>

Starts(b, ops) == bodies[b].state = "started" /\ Inst(b).op \in ops

-----------------------------------------------------------------------------
(* Files: authorisation, then the scope, then the target, each step apart  *)
(* from the others.                                                        *)

Io(b) == bodies[b].io
In(b, phase) == bodies[b].state = "io" /\ Io(b).phase = phase

Mode(op) == IF op = "READ_FILE" THEN "read" ELSE "write"

\* requireFilesystem; a store that changes its file must also be readable.
AuthorizeFile(b) ==
  /\ Starts(b, {"READ_FILE", "WRITE_FILE", "MKDIR", "STORE_PUT"})
  /\ LET i == Inst(b)
         modes == IF i.op = "STORE_PUT" THEN {"read", "write"} ELSE {Mode(i.op)}
     IN  IF \A mode \in modes : Allows(tree, Caps(b), mode, i.path)
         THEN Allow(b, "filesystem", [phase |-> "scope"])
         ELSE Deny(b, "filesystem")
  /\ UNCHANGED <<world, books, cancelled>>

\* failScopedFilesystem, and every other failure of the operating system.
Escapes(b) ==
  /\ Deny(b, "filesystem")
  /\ UNCHANGED <<world, books, cancelled>>

Breaks(b) ==
  /\ bodies' = [bodies EXCEPT ![b] = Failing(@, "IO_ERROR")]
  /\ UNCHANGED <<world, receipt, books, cancelled, performed, refused>>

\* What an operation knows, once it has learnt more.
Learnt(io, more) ==
  [x \in DOMAIN io \cup DOMAIN more |-> IF x \in DOMAIN more THEN more[x] ELSE io[x]]

Step(b, more) ==
  /\ bodies' = [bodies EXCEPT ![b].io = Learnt(@, more)]
  /\ UNCHANGED <<world, receipt, books, cancelled, performed, refused>>

\* What is done with the target once the directory is open.
Way(b, pinned) ==
  CASE Inst(b).op = "STORE_PUT" -> "replace"
    [] Inst(b).op = "MKDIR" -> "mkdir"
    [] OTHER -> IF pinned THEN "lstat" ELSE "open"

\* openScope: the grant that covers the path now, then whether it names one
\* file, then a handle on the directory.
MatchRoot(b) ==
  /\ In(b, "scope")
  /\ LET covering == {g \in Caps(b) : Matches(tree, g, Mode(Inst(b).op), Inst(b).path)}
     IN  \/ /\ HasCoarse(Caps(b), "filesystem")
            /\ Step(b, [phase |-> Way(b, FALSE), root |-> <<>>, handle |-> <<>>, pinned |-> FALSE])
         \/ /\ ~HasCoarse(Caps(b), "filesystem")
            /\ \E g \in covering : Step(b, [phase |-> "stat", root |-> g.path])
         \/ ~HasCoarse(Caps(b), "filesystem") /\ covering = {} /\ Escapes(b)

StatRoot(b) ==
  /\ In(b, "stat")
  /\ LET named == Reached(tree, Io(b).root)
     IN  Step(b, [phase |-> "root",
                  pinned |-> /\ Inst(b).path = Io(b).root /\ named # Directory
                             /\ named = Absent => Inst(b).op # "MKDIR"])

Put(p, e) ==
  /\ tree' = [q \in DOMAIN tree \cup {p} |-> IF q = p THEN e ELSE tree[q]]
  /\ entries' = IF e.kind = "file" THEN entries \cup {<<p, e.id>>} ELSE entries
  /\ UNCHANGED program

\* MKDIR makes a root that is missing, and opens it again.
OpenRoot(b) ==
  LET dir == IF Io(b).pinned THEN Front(Io(b).root) ELSE Io(b).root
  IN  \/ /\ In(b, "root") \/ In(b, "reopen")
         /\ Reached(tree, dir) = Directory
         /\ Step(b, [phase |-> Way(b, Io(b).pinned), handle |-> Resolve(tree, dir)])
      \/ /\ In(b, "root") /\ Inst(b).op = "MKDIR" /\ At(tree, dir) = Absent
         /\ Put(dir, Directory) /\ UNCHANGED changes
         /\ bodies' = [bodies EXCEPT ![b].io.phase = "reopen"]
         /\ UNCHANGED <<receipt, books, cancelled, performed, refused>>
      \/ /\ In(b, "root") /\ ~(Inst(b).op = "MKDIR" /\ At(tree, dir) = Absent)
         /\ Reached(tree, dir) # Directory /\ Breaks(b)
      \/ In(b, "reopen") /\ Reached(tree, dir) # Directory /\ Breaks(b)

\* The target under the handle, and where an open through the handle ends.
Target(b) ==
  Io(b).handle \o SubSeq(Inst(b).path, Len(Io(b).root) + (IF Io(b).pinned THEN 0 ELSE 1),
                         Len(Inst(b).path))
Real(b) == Resolve(tree, Target(b))
StaysIn(b) == contained(Io(b).handle, Real(b))
Leaves(b, phase) == In(b, phase) /\ ~StaysIn(b) /\ Escapes(b)

LstatTarget(b) ==
  /\ In(b, "lstat")
  /\ LET e == At(tree, Target(b))
     IN  \/ e.kind = "link" /\ Escapes(b)
         \/ e.kind = "file" /\ Step(b, [phase |-> "pinned", seen |-> e.id])
         \/ e = Absent /\ Inst(b).op = "WRITE_FILE" /\ Step(b, [phase |-> "create"])
         \/ e = Absent /\ Inst(b).op = "READ_FILE" /\ Breaks(b)
         \/ e = Directory /\ Breaks(b)

Effect(b, target, file) ==
  [body |-> b, left |-> Len(bodies[b].code), op |-> Inst(b).op, target |-> target,
   request |-> Inst(b), unsealed |-> bodies[b].unsealed,
   root |-> Io(b).root, pinned |-> Io(b).pinned, file |-> file]

Performs(b, target, file) ==
  /\ performed' = performed \cup {Effect(b, target, file)}
  /\ bodies' = [bodies EXCEPT ![b] = Proceed(@)]
  /\ UNCHANGED <<receipt, books, cancelled, refused>>

NewFile(b) == <<"new", b, Len(bodies[b].code)>>

\* READ_FILE and WRITE_FILE through a directory grant act as they open.
OpenTarget(b) ==
  /\ In(b, "open") /\ StaysIn(b)
  /\ LET e == At(tree, Real(b))
     IN  \/ e.kind = "file" /\ Performs(b, Real(b), e.id) /\ UNCHANGED world
         \/ /\ e = Absent /\ Inst(b).op = "WRITE_FILE"
            /\ Put(Real(b), File(NewFile(b))) /\ UNCHANGED changes
            /\ Performs(b, Real(b), NewFile(b))
         \/ e = Absent /\ Inst(b).op = "READ_FILE" /\ Breaks(b)
         \/ e = Directory /\ Breaks(b)

\* A single file is opened without truncating it and compared with what Lstat
\* saw.  O_CREATE stays set: a name that vanished meanwhile is created.
OpenPinned(b) ==
  /\ In(b, "pinned") /\ StaysIn(b)
  /\ LET e == At(tree, Real(b))
     IN  \/ e.kind = "file" /\ Step(b, [phase |-> "verify", opened |-> e.id, real |-> Real(b)])
         \/ /\ e = Absent /\ Inst(b).op = "WRITE_FILE"
            /\ Put(Real(b), File(NewFile(b))) /\ UNCHANGED changes
            /\ bodies' = [bodies EXCEPT ![b].io =
                 Learnt(@, [phase |-> "verify", opened |-> NewFile(b), real |-> Real(b)])]
            /\ UNCHANGED <<receipt, books, cancelled, performed, refused>>
         \/ e = Absent /\ Inst(b).op = "READ_FILE" /\ Breaks(b)
         \/ e = Directory /\ Breaks(b)

\* Mutant: what was opened is not compared with what was seen.
VerifyNothing(b) ==
  /\ In(b, "verify")
  /\ Performs(b, Io(b).real, Io(b).opened) /\ UNCHANGED world

VerifyPinned(b) ==
  /\ In(b, "verify")
  /\ IF Io(b).opened = Io(b).seen
     THEN Performs(b, Io(b).real, Io(b).opened) /\ UNCHANGED world
     ELSE Escapes(b)

CreatePinned(b) ==
  /\ In(b, "create")
  /\ IF At(tree, Target(b)) # Absent THEN Escapes(b)
     ELSE /\ Put(Target(b), File(NewFile(b))) /\ UNCHANGED changes
          /\ Performs(b, Target(b), NewFile(b))

\* MKDIR creates the directory under the handle.
MakeDirectory(b) ==
  /\ In(b, "mkdir") /\ StaysIn(b)
  /\ LET e == At(tree, Real(b))
     IN  \/ e = Directory /\ Performs(b, Real(b), None) /\ UNCHANGED world
         \/ /\ e = Absent
            /\ Put(Real(b), Directory) /\ UNCHANGED changes
            /\ Performs(b, Real(b), None)
         \/ e.kind = "file" /\ Breaks(b)

\* A store renames a temporary file of the same directory over its own: the
\* directory is looked up through the handle, the last name is not followed.
ReplaceTarget(b) ==
  /\ In(b, "replace")
  /\ LET dir == Resolve(tree, Front(Target(b)))
         p == Append(dir, Last(Target(b)))
     IN  \/ ~contained(Io(b).handle, dir) /\ Escapes(b)
         \/ /\ contained(Io(b).handle, dir) /\ At(tree, dir) = Directory
            /\ At(tree, p) # Directory
            /\ Put(p, File(NewFile(b))) /\ UNCHANGED changes
            /\ Performs(b, p, NewFile(b))
         \/ Breaks(b)

Files(b) ==
  \/ AuthorizeFile(b) \/ MatchRoot(b) \/ StatRoot(b) \/ OpenRoot(b) \/ LstatTarget(b)
  \/ OpenTarget(b) \/ OpenPinned(b) \/ VerifyPinned(b) \/ CreatePinned(b)
  \/ MakeDirectory(b) \/ ReplaceTarget(b)
  \/ \E phase \in {"open", "pinned", "mkdir"} : Leaves(b, phase)

-----------------------------------------------------------------------------
(* Outbound requests: the URL is authorised, every address its host        *)
(* resolves to is vetted, and each redirect is authorised again.           *)

SameOrigin(u, v) == u.scheme = v.scheme /\ u.host = v.host /\ u.port = v.port

\* Mutant: only the first request is compared with the last.
ReturnedToOrigin(chain) == ~SameOrigin(chain[1], Last(chain))

ChangedOrigin(chain) ==
  \E k \in 1 .. Len(chain) - 1 : ~SameOrigin(chain[k], chain[k + 1])

IsOptOut(host) == HostKind[host] # "name"

\* checkDial: multicast never, a literal anything else, localhost loopback
\* only, a name only what is public.
MayDial(host, address) ==
  /\ address # "multicast"
  /\ HostKind[host] = "localhost" => address = "loopback"
  /\ HostKind[host] = "name" => address = "public"

\* requireFetch
AuthorizeRequest(b) ==
  /\ Starts(b, {"FETCH"})
  /\ LET url == Inst(b).url
     IN  IF AuthorizesFetch(Caps(b), url)
         THEN Allow(b, "network", [phase |-> "dial", chain |-> <<url>>, referer |-> None])
         ELSE Deny(b, "network")
  /\ UNCHANGED <<world, books, cancelled>>

\* denyFetchHop
DenyHop(b) ==
  /\ receipt' = RecordHop(b, "denied")
  /\ refused' = refused \cup {[Refusal(b, "network", <<"redirect">>) EXCEPT !.decided = {}]}
  /\ bodies' = [bodies EXCEPT ![b] = Failing(@, "CAPABILITY_DENIED")]
  /\ UNCHANGED <<world, books, cancelled, performed>>

\* The host is looked up, all its addresses are vetted, and one answers.
Dial(b) ==
  /\ In(b, "dial")
  /\ LET url == Last(Io(b).chain)
     IN  \E answers \in (SUBSET Addresses) \ {{}} :
           /\ HostKind[url.host] = "literal" => Cardinality(answers) = 1
           /\ IF \A a \in answers : MayDial(url.host, a)
              THEN \E a \in answers :
                     /\ performed' = performed \cup
                          {[body |-> b, left |-> Len(bodies[b].code), op |-> "FETCH",
                            target |-> IF Len(Io(b).chain) = 1 THEN Summary(Inst(b))
                                       ELSE <<"redirect">>,
                            request |-> Inst(b), unsealed |-> bodies[b].unsealed, chain |-> Io(b).chain,
                            referer |-> Io(b).referer, address |-> a]}
                     /\ bodies' = [bodies EXCEPT ![b].io.phase = "response"]
                     /\ UNCHANGED <<world, receipt, books, cancelled, refused>>
              ELSE DenyHop(b)

\* net/http names the URL it comes from before CheckRedirect sees the next
\* request, except from https to http; StripCrossOriginHeaders removes it.
Referer(chain) == IF ChangedOrigin(chain) THEN None ELSE chain[Len(chain) - 1]

Redirect(b) ==
  /\ In(b, "response")
  /\ \E next \in Urls :
       LET chain == Io(b).chain
           longer == Append(chain, next)
       IN  \/ Len(chain) > MaxRedirects /\ Breaks(b)
           \/ /\ Len(chain) <= MaxRedirects
              /\ \/ Last(chain).scheme = "https" /\ next.scheme = "http"
                 \/ next.user
                 \/ IsOptOut(next.host) /\ next.host # chain[1].host
                 \/ ~AuthorizesFetch(Caps(b), next)
              /\ DenyHop(b)
           \/ /\ Len(chain) <= MaxRedirects
              /\ ~(Last(chain).scheme = "https" /\ next.scheme = "http")
              /\ ~next.user
              /\ IsOptOut(next.host) => next.host = chain[1].host
              /\ AuthorizesFetch(Caps(b), next)
              /\ receipt' = RecordHop(b, "allowed")
              /\ bodies' = [bodies EXCEPT ![b].unsealed = ~receipt.sealed,
                   ![b].io = [phase |-> "dial", chain |-> longer, referer |-> Referer(longer)]]
              /\ UNCHANGED <<world, books, cancelled, performed, refused>>

\* A body within the limit, one that exceeds it, or none.
Respond(b) ==
  /\ In(b, "response")
  /\ \/ bodies' = [bodies EXCEPT ![b] = Proceed(@)]
     \/ bodies' = [bodies EXCEPT ![b] = Failing(@, "LIMIT_EXCEEDED")]
     \/ bodies' = [bodies EXCEPT ![b] = Failing(@, "IO_ERROR")]
  /\ UNCHANGED <<world, receipt, books, cancelled, performed, refused>>

Fetches(b) == AuthorizeRequest(b) \/ Dial(b) \/ Redirect(b) \/ Respond(b)

-----------------------------------------------------------------------------
(* Programs, the environment and other instructions without a scope.       *)

AuthorizeProgram(b) ==
  /\ Starts(b, {"EXEC"})
  /\ IF AuthorizesExec(tree, Caps(b), Inst(b).path, Inst(b).args)
     THEN Allow(b, "process", [phase |-> "exec", root |-> <<>>, pinned |-> FALSE])
     ELSE Deny(b, "process")
  /\ UNCHANGED <<world, books, cancelled>>

RunProgram(b) ==
  /\ In(b, "exec")
  /\ \/ Performs(b, Summary(Inst(b)), None) /\ UNCHANGED world
     \/ Breaks(b)

\* What the class check has already written down is done at once.
ReadEnvironment(b) ==
  /\ Starts(b, {"ENV"})
  /\ performed' = performed \cup
       {[body |-> b, left |-> Len(bodies[b].code), op |-> "ENV", target |-> <<>>,
         request |-> Inst(b), unsealed |-> bodies[b].unsealed]}
  /\ bodies' = [bodies EXCEPT ![b] = Proceed(@)]
  /\ UNCHANGED <<world, receipt, books, cancelled, refused>>

-----------------------------------------------------------------------------
(* Dictionaries and the ledger of them that the main body keeps.           *)

\* The ledger once a dictionary is registered.
Registered(l, d) ==
  IF ~l.complete \/ l.version[d] # None THEN l
  ELSE IF Cardinality({e \in Dicts : l.version[e] # None}) >= MaxResources
  THEN [l EXCEPT !.complete = FALSE]
  ELSE [l EXCEPT !.version[d] = 0]

\* Mutant: events beyond the limit are dropped without a word.
LoggedQuietly(l, op, d) ==
  IF ~l.complete \/ Len(l.events) >= MaxEvents THEN l
  ELSE [l EXCEPT !.events = Append(@, [op |-> op, dict |-> d, version |-> l.version[d]])]

Logged(l, op, d) ==
  IF ~l.complete THEN l
  ELSE IF Len(l.events) >= MaxEvents THEN [l EXCEPT !.complete = FALSE, !.events = <<>>]
  ELSE [l EXCEPT !.events = Append(@, [op |-> op, dict |-> d, version |-> l.version[d]])]

Bumped(l, d) == IF l.complete THEN [l EXCEPT !.version[d] = @ + 1] ELSE l

\* MAKE_DICT, MAP_SET, MAP_DELETE and MAP_GET; agents work on copies.
UseDict(b) ==
  /\ Starts(b, {"MAKE_DICT", "MAP_SET", "MAP_GET"})
  /\ LET d == Inst(b).dict
         sets == Inst(b).op = "MAP_SET"
         known == Registered(ledger, d)
     IN  /\ ledger' = IF b # 1 THEN ledger
                      ELSE Logged(IF sets THEN Bumped(known, d) ELSE known, Inst(b).op, d)
         /\ changed' = IF sets /\ bodies[b].shares
                       THEN [changed EXCEPT ![d].times = @ + 1, ![d].elsewhere = @ \/ b # 1]
                       ELSE changed
  /\ bodies' = [bodies EXCEPT ![b] = Proceed(@)]
  /\ UNCHANGED <<world, receipt, evidence, cancelled, performed, refused>>

-----------------------------------------------------------------------------
(* Child bodies.                                                           *)

\* attenuateChild for a detached body: it runs beside its parent, counts its
\* own instructions and shares the dictionaries.
Spawn(b) ==
  /\ Starts(b, {"SPAWN"})
  /\ IF MayAttenuate(Caps(b), Inst(b).grants)
     THEN /\ receipt' = Record(receipt, b, "process", "allowed")
          /\ bodies' = Append([bodies EXCEPT ![b] = Proceed(@)],
                              Child("detached", b, Inst(b)))
          /\ UNCHANGED <<performed, refused>>
     ELSE Deny(b, "process")
  /\ UNCHANGED <<world, books, cancelled>>

\* An agent: its parent waits for it, and they share the instruction count.
SpawnAgent(b) ==
  /\ Starts(b, {"SPAWN_AGENT"})
  /\ \/ ~MayAttenuate(Caps(b), Inst(b).grants) /\ Deny(b, "process")
     \/ /\ MayAttenuate(Caps(b), Inst(b).grants)
        /\ receipt' = Record(receipt, b, "process", "allowed")
        /\ bodies' =
             IF bodies[b].depth >= MaxCallDepth
             THEN [bodies EXCEPT ![b] = Failing(@, "LIMIT_EXCEEDED")]
             ELSE Append([bodies EXCEPT ![b].state = "waiting"],
                    [Child("agent", b, Inst(b)) EXCEPT !.executed = bodies[b].executed,
                                                       !.depth = bodies[b].depth + 1])
        /\ UNCHANGED <<performed, refused>>
  /\ UNCHANGED <<world, books, cancelled>>

\* A failure inside try_let is caught; any other ends its body.
Catch(b) ==
  /\ bodies[b].state = "failing" /\ Inst(b).caught
  /\ bodies' = [bodies EXCEPT ![b] = Proceed(@)]
  /\ UNCHANGED <<world, receipt, books, cancelled, performed, refused>>

Over(b) ==
  \/ bodies[b].state = "ready" /\ bodies[b].code = <<>>
  \/ bodies[b].state = "failing" /\ ~Inst(b).caught

\* The parent goes on after an agent, however it failed, unless it failed on
\* a limit.
AgentEnds(b) ==
  /\ bodies[b].kind = "agent" /\ Over(b)
  /\ LET p == bodies[b].parent
         counted == [bodies[p] EXCEPT !.executed = bodies[b].executed]
     IN  bodies' = [bodies EXCEPT
           ![b].state = "ended",
           ![p] = IF bodies[b].failure = "LIMIT_EXCEEDED" THEN Failing(counted, "LIMIT_EXCEEDED")
                  ELSE Proceed(counted)]
  /\ UNCHANGED <<world, receipt, books, cancelled, performed, refused>>

DetachedEnds(b) ==
  /\ bodies[b].kind = "detached" /\ Over(b)
  /\ bodies' = [bodies EXCEPT ![b].state = "ended"]
  /\ UNCHANGED <<world, receipt, books, cancelled, performed, refused>>

-----------------------------------------------------------------------------
(* The end of the run, and the process beside it.                          *)

\* The deferred function of runBytecodeEvidence: evidence, then the seal.
CopyEvidence ==
  /\ Over(1) /\ evidence = None
  /\ evidence' = ledger
  /\ UNCHANGED <<bodies, world, receipt, ledger, changed, cancelled, performed, refused>>

\* Mutant: the receipt is sealed only when main returns, not deferred.
SealOnReturn ==
  /\ evidence # None /\ ~receipt.sealed
  /\ bodies[1].failure = None
  /\ receipt' = [receipt EXCEPT !.sealed = TRUE]
  /\ bodies' = [bodies EXCEPT ![1].state = "ended"]
  /\ UNCHANGED <<world, books, cancelled, performed, refused>>

Seal ==
  /\ evidence # None /\ ~receipt.sealed
  /\ receipt' = [receipt EXCEPT !.sealed = TRUE]
  /\ bodies' = [bodies EXCEPT ![1].state = "ended"]
  /\ UNCHANGED <<world, books, cancelled, performed, refused>>

\* The deadline passes, or the run returns and its deferred cancel is called.
Cancel ==
  /\ program.deadline /\ ~cancelled
  /\ cancelled' = TRUE
  /\ UNCHANGED <<bodies, world, receipt, books, performed, refused>>

\* Another process makes one of the changes the run allows for.
Outside ==
  /\ changes < MaxChanges
  /\ \E c \in program.changes : Put(c.path, c.entry)
  /\ changes' = changes + 1
  /\ UNCHANGED <<bodies, receipt, books, cancelled, performed, refused>>

Bodies(b) ==
  \/ Begin(b) \/ Limited(b) \/ Files(b) \/ Fetches(b)
  \/ AuthorizeProgram(b) \/ RunProgram(b) \/ ReadEnvironment(b) \/ UseDict(b)
  \/ Spawn(b) \/ SpawnAgent(b) \/ Catch(b) \/ AgentEnds(b) \/ DetachedEnds(b)

Main == CopyEvidence \/ Seal

Next == (\E b \in Ids : Bodies(b)) \/ Main \/ Cancel \/ Outside

Spec == Init /\ [][Next]_vars

\* Servers answer, and every goroutine runs on.
FairSpec ==
  /\ Spec
  /\ WF_vars(Main)
  /\ \A b \in 1 .. MaxInstructions : WF_vars(b \in Ids /\ Bodies(b))

-----------------------------------------------------------------------------
(* Properties.                                                             *)

Permits(caps, e) ==
  LET i == e.request
      Path(mode) == HasCoarse(caps, "filesystem") \/ \E g \in caps : Names(g, mode, i.path)
  IN  CASE e.op = "READ_FILE" -> Path("read")
        [] e.op \in {"WRITE_FILE", "MKDIR"} -> Path("write")
        [] e.op = "STORE_PUT" -> Path("read") /\ Path("write") /\ HasCoarse(caps, "database")
        [] e.op = "EXEC" -> \E g \in caps : GrantsExec(g, i.path, i.args)
        [] e.op = "ENV" -> HasCoarse(caps, "environment")
        [] e.op = "FETCH" -> AuthorizesFetch(caps, Last(e.chain))

\* However bodies start others and pass grants on (vm.go:4618, process.go:258),
\* nothing is done that any body above the one that did it was not granted.
ChildrenStayCovered ==
  \A e \in performed : \A a \in bodies[e.body].line : Permits(Caps(a), e)

FileOps == {"READ_FILE", "WRITE_FILE", "MKDIR", "STORE_PUT"}

\* The directories and files that bodies may be granted, and the whole tree.
GrantsIn(codes) ==
  UNION {Head(c).grants : c \in {k \in codes : k # <<>> /\ Head(k).op \in {"SPAWN", "SPAWN_AGENT"}}}
Roots ==
  {<<>>} \cup {g.path : g \in {h \in (UNION {r.caps : r \in Programs}) \cup GrantsIn(Code) : h.kind = "root"}}

\* A file that stays a file, and to which no links lead.
SteadyFile(r, p) ==
  /\ p \in Seq(Name) /\ At(r.tree, p).kind = "file" /\ LinksOn(r.tree, p) = {}
  /\ \A c \in r.changes : /\ contained(c.path, p) => c.entry.kind # "link"
                          /\ c.path = p => c.entry.kind = "file"

\* What openScope relies on: roots are named by their own paths, and another
\* process puts no link there that leads to another directory.
RootsStandFirm ==
  \A r \in Programs : \A root \in Roots :
    /\ LinksOn(r.tree, root) = {}
    /\ \A c \in r.changes :
         c.entry.kind = "link" /\ contained(c.path, root) =>
           c.path = root /\ SteadyFile(r, c.entry.to)

\* What os.SameFile relies on: a file is known by its number, another process
\* neither renames nor links it, and what a body creates is new.
Named(r) ==
  {<<p, r.tree[p].id>> : p \in {q \in DOMAIN r.tree : r.tree[q].kind = "file"}}
    \cup {<<c.path, c.entry.id>> : c \in {k \in r.changes : k.entry.kind = "file"}}
FilesKeepNames ==
  \A r \in Programs : \A x \in Named(r) :
    /\ ~(DOMAIN x[2] = 1 .. 3 /\ x[2][1] = "new")
    /\ \A y \in Named(r) : y[2] = x[2] => y[1] = x[1]

\* While another process replaces what paths name, a file operation ends under
\* the root that granted it, and one granted for a single file reads and writes
\* only a file that had that very name (scopedfs.go:80).
FilesStayInRoots ==
  \A e \in performed :
    e.op \in FileOps =>
      /\ contained(Resolve(program.tree, e.root), e.target)
      /\ e.pinned /\ e.op \in {"READ_FILE", "WRITE_FILE"} =>
           <<Append(Resolve(program.tree, Front(e.root)), Last(e.root)), e.file>> \in entries

Amount(op, cap, target, decision) ==
  Cardinality({k \in DOMAIN receipt.effects :
                 receipt.effects[k] = Entry(op, cap, target, decision)})

CapOf(op) == IF op = "STORE_PUT" THEN "filesystem" ELSE Class(op)
Label(e) == IF e.op = "FETCH" /\ Len(e.chain) > 1 THEN <<"redirect">> ELSE Summary(e.request)

\* Each effect that was authorised before the seal has its own entry in the
\* receipt, unless the receipt says it is truncated (receipt.go:94).
EffectsAreRecorded ==
  receipt.truncated \/
  \A e \in performed :
    Cardinality({f \in performed : f.unsealed /\ f.op = e.op /\ Label(f) = Label(e)})
      <= Amount(e.op, CapOf(e.op), Label(e), "allowed")

\* So has each refusal, unless its instruction had been allowed the same
\* capability before (receipt.go:102).
RefusalsAreRecorded ==
  receipt.truncated \/
  \A r \in refused :
    Cardinality({f \in refused : /\ f.unsealed /\ f.cap \notin f.decided
                                 /\ f.op = r.op /\ f.cap = r.cap /\ f.target = r.target})
      <= Amount(r.op, r.cap, r.target, "denied")

\* A detached body that runs on does not change a sealed receipt
\* (receipt.go:111).
SealedReceiptStands == [][receipt.sealed => receipt' = receipt]_vars

\* However a chain of redirects winds, each request of it was granted to its
\* body, went to an address its host may have, left https for nothing else and
\* entered a private host only if it began there; and no request names the one
\* before it once the chain has left its origin (network.go:373).
ChainsAreGuarded ==
  \A e \in performed :
    e.op = "FETCH" =>
      LET chain == e.chain
          last == Last(chain)
      IN  /\ AuthorizesFetch(Caps(e.body), last)
          /\ MayDial(last.host, e.address)
          /\ IsOptOut(last.host) => last.host = chain[1].host
          /\ \A k \in 1 .. Len(chain) - 1 :
               chain[k].scheme = "https" => chain[k + 1].scheme = "https"
          /\ e.referer # None => \A k \in DOMAIN chain : SameOrigin(chain[k], last)

Sets(d) ==
  {k \in DOMAIN evidence.events :
     evidence.events[k].op = "MAP_SET" /\ evidence.events[k].dict = d}

\* Evidence that says its ledger is complete has every change of every
\* dictionary that no detached body changed as well, in order (vm.go:1751).
LedgerIsFaithful ==
  evidence # None /\ evidence.complete =>
    \A d \in Dicts :
      ~changed[d].elsewhere =>
        /\ Cardinality(Sets(d)) = changed[d].times
        /\ \A k \in Sets(d) :
             evidence.events[k].version = Cardinality({j \in Sets(d) : j <= k})

\* Every run ends with a sealed receipt (vm.go:2118): redirects, agents and
\* caught failures do not keep it going.
RunIsSealed == <>receipt.sealed
=============================================================================
