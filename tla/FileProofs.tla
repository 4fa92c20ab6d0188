----------------------------- MODULE FileProofs ----------------------------
(***************************************************************************)
(* That file operations end under the root that granted them, for any      *)
(* trees, any grants and any number of bodies, whatever another process    *)
(* replaces between their system calls.  Two things are not theirs to      *)
(* guarantee and are named: the roots are where their paths say, and a     *)
(* file keeps its name (RootsStandFirm, FilesKeepNames).                   *)
(***************************************************************************)
EXTENDS AuthorityProofs, WellFoundedInduction

-----------------------------------------------------------------------------
(* Paths and links.                                                        *)

LEMMA FrontOfPath ==
  ASSUME NEW p \in Seq(Name), p # <<>>
  PROVE  /\ Front(p) \in Seq(Name) /\ Len(Front(p)) = Len(p) - 1 /\ Len(p) \in Nat \ {0}
         /\ \A i \in 1 .. Len(p) - 1 : SubSeq(Front(p), 1, i) = SubSeq(p, 1, i)
         /\ Append(Front(p), Last(p)) = p
         /\ Front(p) \o SubSeq(p, Len(p), Len(p)) = p
  <1>1. Len(p) \in Nat \ {0} /\ \A i \in 1 .. Len(p) : p[i] \in Name
    BY EmptySeq
  <1>2. /\ Front(p) \in Seq(Name) /\ Len(Front(p)) = Len(p) - 1
        /\ \A i \in 1 .. Len(p) - 1 : Front(p)[i] = p[i]
    <2>1. PICK n \in Nat : n = Len(p) - 1
      BY <1>1
    <2>2. \A i \in 1 .. n : p[i] \in Name
      BY <1>1, <2>1
    <2>3. /\ SubSeq(p, 1, n) \in Seq(Name)
          /\ Len(SubSeq(p, 1, n)) = IF 1 <= n THEN n - 1 + 1 ELSE 0
          /\ \A i \in 1 .. n - 1 + 1 : SubSeq(p, 1, n)[i] = p[1 + i - 1]
      BY <2>2, SubSeqProperties
    <2>4. Len(SubSeq(p, 1, n)) = n /\ \A i \in 1 .. n : SubSeq(p, 1, n)[i] = p[i]
      BY <2>1, <2>3
    <2>. QED BY <2>1, <2>3, <2>4 DEF Front
  <1>3. ASSUME NEW i \in 1 .. Len(p) - 1
        PROVE  SubSeq(Front(p), 1, i) = SubSeq(p, 1, i)
    BY <1>1, <1>2
  <1>4. Append(Front(p), Last(p)) = p
    <2>1. Last(p) \in Name /\ Last(p) = p[Len(p)]
      BY <1>1 DEF Last
    <2> DEFINE s == Append(Front(p), Last(p))
    <2>2. /\ s \in Seq(Name) /\ Len(s) = Len(p)
          /\ \A i \in 1 .. Len(p) - 1 : s[i] = p[i]
          /\ s[Len(p)] = p[Len(p)]
      BY <1>1, <1>2, <2>1, AppendProperties
    <2> HIDE DEF s
    <2>3. \A i \in 1 .. Len(p) : s[i] = p[i]
      BY <1>1, <2>2
    <2>4. s = p
      BY <2>2, <2>3, SeqEqual
    <2>. QED BY <2>4 DEF s
  <1>5. Front(p) \o SubSeq(p, Len(p), Len(p)) = p
    <2>1. SubSeq(p, 1, Len(p) - 1) \o SubSeq(p, (Len(p) - 1) + 1, Len(p)) = SubSeq(p, 1, Len(p))
      <3>1. /\ 1 \in 1 .. Len(p) + 1 /\ Len(p) - 1 \in (1 - 1) .. Len(p)
            /\ Len(p) \in (Len(p) - 1) .. Len(p)
        BY <1>1
      <3>. QED BY <3>1, ConcatAdjacentSubSeq
    <2>2. (Len(p) - 1) + 1 = Len(p) /\ SubSeq(p, 1, Len(p)) = p
      BY <1>1, SubSeqFull
    <2>. QED BY <2>1, <2>2 DEF Front
  <1>. QED BY <1>1, <1>2, <1>3, <1>4, <1>5

\* What is below a path is below it with one more name.
LEMMA BelowTheSame ==
  ASSUME NEW p \in Seq(Name), NEW q \in Seq(Name), NEW name, contained(p, q)
  PROVE  contained(p, Append(q, name))
  <1> DEFINE S == Name \cup {name}
             longer == Append(q, name)
  <1>1. p \in Seq(S) /\ q \in Seq(S) /\ name \in S
    BY SeqMonotonic
  <1>2. /\ longer \in Seq(S) /\ Len(longer) = Len(q) + 1
        /\ \A i \in 1 .. Len(q) : longer[i] = q[i]
    BY <1>1, AppendProperties
  <1> HIDE DEF longer
  <1>3. Len(p) \in Nat /\ Len(q) \in Nat /\ Len(p) <= Len(q)
        /\ SubSeq(p, 1, Len(p)) = SubSeq(q, 1, Len(p))
    BY DEF contained, IsPrefix
  <1>4. SubSeq(longer, 1, Len(p)) = SubSeq(q, 1, Len(p))
    BY <1>2, <1>3
  <1>. QED BY <1>2, <1>3, <1>4 DEF contained, IsPrefix, longer

LEMMA NoLinksNoDetour ==
  ASSUME NEW t, NEW p, LinksOn(t, p) = {}
  PROVE  Resolve(t, p) = p
  BY DEF Resolve, Follow

\* Of the links on a path, one is the first.
LEMMA FirstNatural ==
  ASSUME NEW T \in SUBSET Nat, T # {}
  PROVE  \E n \in T : \A m \in T : n <= m
  <1>1. PICK n \in T : \A m \in T : <<m, n>> \notin OpToRel(<, Nat)
    BY NatLessThanWellFounded, WFMin
  <1>2. \A m, k \in Nat : <<m, k>> \in OpToRel(<, Nat) <=> m < k
    BY DEF OpToRel
  <1>3. \A m \in T : ~(m < n)
    BY <1>1, <1>2
  <1>. QED BY <1>3

\* Where a path leads is a path.
LEMMA FollowedIsPath ==
  ASSUME NEW t, \A q \in DOMAIN t : IsEntry(t[q]), NEW p \in Seq(Name)
  PROVE  Follow(t, p) \in Seq(Name)
  <1>1. CASE LinksOn(t, p) = {}
    BY <1>1 DEF Follow
  <1>2. CASE LinksOn(t, p) # {}
    <2>1. /\ LinksOn(t, p) \subseteq 1 .. Len(p) /\ Len(p) \in Nat
          /\ \A i \in 1 .. Len(p) : p[i] \in Name
      BY DEF LinksOn
    <2>2. ASSUME NEW i \in 1 .. Len(p), i \in LinksOn(t, p)
          PROVE  At(t, SubSeq(p, 1, i)).to \o SubSeq(p, i + 1, Len(p)) \in Seq(Name)
      <3>1. At(t, SubSeq(p, 1, i)).kind = "link"
        BY <2>2 DEF LinksOn
      <3>2. IsEntry(At(t, SubSeq(p, 1, i)))
        BY <3>1 DEF At, Absent, Directory, IsEntry
      <3>3. At(t, SubSeq(p, 1, i)).to \in Seq(Name)
        BY <3>1, <3>2 DEF IsEntry, Absent, Directory, File
      <3>4. SubSeq(p, i + 1, Len(p)) \in Seq(Name)
        BY <2>1, SubSeqProperties
      <3>. QED BY <3>3, <3>4, ConcatProperties
    <2>3. \E i \in LinksOn(t, p) : \A k \in LinksOn(t, p) : i <= k
      <3>1. LinksOn(t, p) \in SUBSET Nat
        BY <2>1
      <3>. QED BY <1>2, <3>1, FirstNatural
    <2>4. PICK i : i = CHOOSE j \in LinksOn(t, p) : \A k \in LinksOn(t, p) : j <= k
      OBVIOUS
    <2>5. i \in LinksOn(t, p)
      BY <2>3, <2>4
    <2>6. Follow(t, p) = At(t, SubSeq(p, 1, i)).to \o SubSeq(p, i + 1, Len(p))
      BY <1>2, <2>4 DEF Follow
    <2>. QED BY <2>1, <2>2, <2>5, <2>6
  <1>. QED BY <1>1, <1>2

\* Without links on the way to it, the directory of a path is where its path says.
LEMMA NoLinksAbove ==
  ASSUME NEW t, NEW p \in Seq(Name), p # <<>>,
         \A i \in 1 .. Len(p) - 1 : At(t, SubSeq(p, 1, i)).kind # "link"
  PROVE  Resolve(t, Front(p)) = Front(p)
  <1>1. /\ Len(Front(p)) = Len(p) - 1 /\ Len(p) \in Nat \ {0}
        /\ \A i \in 1 .. Len(p) - 1 : SubSeq(Front(p), 1, i) = SubSeq(p, 1, i)
    BY FrontOfPath
  <1>2. LinksOn(t, Front(p)) = {}
    BY <1>1 DEF LinksOn
  <1>. QED BY <1>2, NoLinksNoDetour

-----------------------------------------------------------------------------
(* The tree while bodies and another process change it.                    *)

\* Only a root itself may be a link, and that leads to a file that stays one.
TreeIsFirm ==
  /\ program \in Programs
  /\ \A p \in DOMAIN tree : IsEntry(tree[p])
  /\ \A root \in Roots : \A i \in 1 .. Len(root) :
       At(tree, SubSeq(root, 1, i)).kind = "link" =>
         i = Len(root) /\ SteadyFile(program, At(tree, root).to)
  /\ \A p \in DOMAIN program.tree :
       SteadyFile(program, p) => LinksOn(tree, p) = {} /\ At(tree, p).kind = "file"

\* What has been done about a name that body b makes up with n instructions left.
Spent(b, n) ==
  \/ n > Len(bodies[b].code)
  \/ n = Len(bodies[b].code) /\ (bodies[b].state \in {"failing", "ended"} \/ In(b, "verify"))

\* A file has had one name only, and what bodies created is none of another's.
EntriesAreNamed ==
  /\ \A p \in DOMAIN tree : tree[p].kind = "file" => <<p, tree[p].id>> \in entries
  /\ \A x, y \in entries : x[2] = y[2] => x[1] = y[1]
  /\ \A x \in entries :
       x \in Named(program) \/ \E b \in Ids : \E n \in Nat : x[2] = <<"new", b, n>> /\ Spent(b, n)

GrantsAreKnown == \A b \in Ids : \A g \in Caps(b) : g.kind = "root" => g.path \in Roots

\* What an operation on a file knows by the time it is at a phase: the handle
\* is the directory its root names, and a single file was a name's it opened.
Placed(io, i, es) ==
  /\ {"phase", "root"} \subseteq DOMAIN io /\ io.root \in Roots
  /\ io.phase # "stat" =>
       /\ "pinned" \in DOMAIN io /\ io.pinned \in BOOLEAN
       /\ io.pinned => i.path = io.root /\ io.root # <<>>
  /\ io.phase \notin {"stat", "root", "reopen"} =>
       /\ "handle" \in DOMAIN io /\ io.handle = IF io.pinned THEN Front(io.root) ELSE io.root
       /\ io.phase = "mkdir" => i.op = "MKDIR"
       /\ io.phase = "replace" => i.op = "STORE_PUT"
       /\ io.phase = "open" => ~io.pinned
       /\ io.phase \in {"lstat", "create", "pinned", "verify"} => io.pinned
  /\ io.phase \in {"pinned", "verify"} => "seen" \in DOMAIN io /\ <<io.root, io.seen>> \in es
  /\ io.phase = "verify" => {"opened", "real"} \subseteq DOMAIN io /\ <<io.real, io.opened>> \in es

PlaceIsKnown(b) ==
  bodies[b].state = "io" /\ Io(b).phase \in FilePhases \ {"scope"} => Placed(Io(b), Inst(b), entries)
PlacesAreKnown == \A b \in Ids : PlaceIsKnown(b)

FInv == TreeIsFirm /\ EntriesAreNamed /\ GrantsAreKnown /\ PlacesAreKnown /\ FilesStayInRoots

LEMMA RootsArePaths == Roots \subseteq Seq(Name)
  <1>1. \A r \in Programs : RootsAreNamed(r.caps)
    BY CodeAssumption
  <1>2. \A c \in Code : c # <<>> /\ Head(c).op \in {"SPAWN", "SPAWN_AGENT"} => RootsAreNamed(Head(c).grants)
    BY CodeAssumption
  <1>3. \A g \in (UNION {r.caps : r \in Programs}) \cup GrantsIn(Code) : g.kind = "root" => g.path \in Seq(Name)
    BY <1>1, <1>2 DEF GrantsIn, RootsAreNamed
  <1>4. <<>> \in Seq(Name)
    OBVIOUS
  <1>. QED BY <1>3, <1>4 DEF Roots

LEMMA GrantedRootsAreKnown ==
  /\ \A r \in Programs : \A g \in r.caps : g.kind = "root" => g.path \in Roots
  /\ \A c \in Code : c # <<>> /\ Head(c).op \in {"SPAWN", "SPAWN_AGENT"} =>
       \A g \in Head(c).grants : g.kind = "root" => g.path \in Roots
  BY DEF Roots, GrantsIn

\* In a firm tree, a root is where its path says, or a link to a file; what it
\* lies in is where its path says.
LEMMA FirmPaths ==
  ASSUME TreeIsFirm, NEW root \in Roots
  PROVE  /\ root # <<>> => Resolve(tree, Front(root)) = Front(root)
         /\ Resolve(tree, root) = root \/ Reached(tree, root).kind = "file"
  <1>1. root \in Seq(Name) /\ Len(root) \in Nat
    BY RootsArePaths
  <1>2. root # <<>> => Resolve(tree, Front(root)) = Front(root)
    BY <1>1, NoLinksAbove DEF TreeIsFirm
  <1>3. CASE LinksOn(tree, root) = {}
    BY <1>2, <1>3, NoLinksNoDetour
  <1>4. CASE LinksOn(tree, root) # {}
    <2> DEFINE t == At(tree, root).to
               n == Len(root)
    <2>1. LinksOn(tree, root) = {n} /\ SteadyFile(program, t)
      BY <1>1, <1>4 DEF LinksOn, TreeIsFirm
    <2>2. SubSeq(root, 1, n) = root /\ SubSeq(root, n + 1, n) = <<>>
      BY <1>1, SubSeqFull, SubSeqEmpty
    <2>3. t \in Seq(Name) /\ At(program.tree, t).kind = "file"
      BY <2>1 DEF SteadyFile
    <2>4. t \in DOMAIN program.tree
      BY <2>3 DEF At, Absent, Directory
    <2>5. LinksOn(tree, t) = {} /\ At(tree, t).kind = "file"
      BY <2>1, <2>4 DEF TreeIsFirm
    <2>6. Follow(tree, root) = t \o <<>>
      <3>1. (CHOOSE j \in {n} : \A k \in {n} : j <= k) = n
        BY <1>1
      <3>. QED BY <2>1, <2>2, <3>1 DEF Follow
    <2>7. t \o <<>> = t
      BY <2>3, ConcatEmptySeq
    <2>8. Resolve(tree, root) = t
      BY <2>5, <2>6, <2>7 DEF Resolve, Follow
    <2>. QED BY <1>2, <2>5, <2>8 DEF Reached
  <1>. QED BY <1>3, <1>4

\* As the run begins, and for ever in the tree the properties speak of.
LEMMA RootsAreTheirPaths ==
  ASSUME RootsStandFirm, NEW r \in Programs, NEW root \in Roots
  PROVE  /\ Resolve(r.tree, root) = root
         /\ root # <<>> => Resolve(r.tree, Front(root)) = Front(root)
  <1>1. root \in Seq(Name) /\ LinksOn(r.tree, root) = {}
    BY RootsArePaths DEF RootsStandFirm
  <1>2. Resolve(r.tree, root) = root
    BY <1>1, NoLinksNoDetour
  <1>3. ASSUME root # <<>>
        PROVE  Resolve(r.tree, Front(root)) = Front(root)
    <2>1. Len(root) \in Nat
      BY <1>1
    <2>2. \A i \in 1 .. Len(root) - 1 : At(r.tree, SubSeq(root, 1, i)).kind # "link"
      BY <1>1, <2>1 DEF LinksOn
    <2>. QED BY <1>1, <1>3, <2>2, NoLinksAbove
  <1>. QED BY <1>2, <1>3

LEMMA PutAt ==
  ASSUME NEW p, NEW e, Put(p, e)
  PROVE  /\ program' = program /\ DOMAIN tree' = DOMAIN tree \cup {p} /\ entries \subseteq entries'
         /\ \A q \in DOMAIN tree' : tree'[q] = IF q = p THEN e ELSE tree[q]
         /\ \A q : At(tree', q) = IF q = <<>> THEN Directory ELSE IF q = p THEN e ELSE At(tree, q)
  BY DEF Put, At

\* Bodies make files and directories, and a directory only where nothing is.
LEMMA MakingKeepsFirm ==
  ASSUME TreeIsFirm, NEW p, NEW e, Put(p, e),
         (e = Directory /\ At(tree, p) = Absent) \/ \E id : e = File(id)
  PROVE  TreeIsFirm'
  <1>1. /\ program' = program /\ DOMAIN tree' = DOMAIN tree \cup {p}
        /\ \A q \in DOMAIN tree' : tree'[q] = IF q = p THEN e ELSE tree[q]
        /\ \A q : At(tree', q) = IF q = <<>> THEN Directory ELSE IF q = p THEN e ELSE At(tree, q)
    BY PutAt
  <1>2. IsEntry(e) /\ e.kind \in {"directory", "file"} /\ Directory.kind = "directory"
    BY DEF IsEntry, Directory, File
  <1>3. \A q \in DOMAIN tree' : IsEntry(tree'[q])
    BY <1>1, <1>2 DEF TreeIsFirm
  <1>4. \A q : At(tree', q).kind = "link" => At(tree', q) = At(tree, q)
    BY <1>1, <1>2
  <1>5. ASSUME NEW root \in Roots, NEW i \in 1 .. Len(root), At(tree', SubSeq(root, 1, i)).kind = "link"
        PROVE  i = Len(root) /\ SteadyFile(program, At(tree', root).to)
    <2>1. i = Len(root) /\ SteadyFile(program, At(tree, root).to)
      BY <1>4, <1>5 DEF TreeIsFirm
    <2>2. SubSeq(root, 1, i) = root
      BY <2>1, RootsArePaths, SubSeqFull
    <2>. QED BY <1>4, <1>5, <2>1, <2>2
  <1>6. ASSUME NEW q \in DOMAIN program.tree, SteadyFile(program, q)
        PROVE  LinksOn(tree', q) = {} /\ At(tree', q).kind = "file"
    <2>1. LinksOn(tree, q) = {} /\ At(tree, q).kind = "file" /\ q # <<>>
      BY <1>6 DEF TreeIsFirm, At, Directory
    <2>2. LinksOn(tree', q) = {}
      BY <1>4, <2>1 DEF LinksOn
    <2>3. At(tree', q).kind = "file"
      BY <1>1, <1>2, <2>1 DEF Absent, File
    <2>. QED BY <2>2, <2>3
  <1>. QED BY <1>1, <1>3, <1>5, <1>6 DEF TreeIsFirm, SteadyFile

LEMMA PartsAreContained ==
  ASSUME NEW p \in Seq(Name), NEW i \in 1 .. Len(p)
  PROVE  contained(SubSeq(p, 1, i), p) /\ SubSeq(p, 1, i) # <<>> /\ Len(SubSeq(p, 1, i)) = i
  <1>1. Len(p) \in Nat /\ \A k \in 1 .. i : p[k] \in Name
    OBVIOUS
  <1>2. /\ SubSeq(p, 1, i) \in Seq(Name) /\ Len(SubSeq(p, 1, i)) = i
    BY <1>1, SubSeqProperties
  <1>3. SubSeq(SubSeq(p, 1, i), 1, i) = SubSeq(p, 1, i)
    BY <1>2, SubSeqFull
  <1>. QED BY <1>1, <1>2, <1>3 DEF contained, IsPrefix

\* Another process keeps to what the roots need.
LEMMA OutsideKeepsFirm ==
  ASSUME RootsStandFirm, TreeIsFirm, NEW c \in program.changes, Put(c.path, c.entry)
  PROVE  TreeIsFirm'
  <1> DEFINE p == c.path
             e == c.entry
  <1>1. /\ program' = program /\ DOMAIN tree' = DOMAIN tree \cup {p}
        /\ \A q \in DOMAIN tree' : tree'[q] = IF q = p THEN e ELSE tree[q]
        /\ \A q : At(tree', q) = IF q = <<>> THEN Directory ELSE IF q = p THEN e ELSE At(tree, q)
    BY PutAt
  <1>2. IsEntry(e) /\ program \in Programs
    BY TreeAssumption DEF TreeIsFirm
  <1>3. \A q \in DOMAIN tree' : IsEntry(tree'[q])
    BY <1>1, <1>2 DEF TreeIsFirm
  <1>5. ASSUME NEW root \in Roots, NEW i \in 1 .. Len(root), At(tree', SubSeq(root, 1, i)).kind = "link"
        PROVE  i = Len(root) /\ SteadyFile(program, At(tree', root).to)
    <2> DEFINE q == SubSeq(root, 1, i)
    <2>1. root \in Seq(Name) /\ contained(q, root) /\ q # <<>> /\ Len(q) = i
      BY RootsArePaths, PartsAreContained
    <2>2. CASE q = p
      <3>1. e.kind = "link"
        BY <1>1, <1>5, <2>1, <2>2
      <3>2. p = root /\ SteadyFile(program, e.to)
        BY <1>2, <2>1, <2>2, <3>1 DEF RootsStandFirm
      <3>3. At(tree', root) = e
        BY <1>1, <2>1, <2>2, <3>2
      <3>. QED BY <2>1, <2>2, <3>2, <3>3
    <2>3. CASE q # p
      <3>1. At(tree', q) = At(tree, q)
        BY <1>1, <2>1, <2>3
      <3>2. i = Len(root) /\ SteadyFile(program, At(tree, root).to)
        BY <1>5, <3>1 DEF TreeIsFirm
      <3>3. q = root
        BY <2>1, <3>2, SubSeqFull
      <3>. QED BY <3>1, <3>2, <3>3
    <2>. QED BY <2>2, <2>3
  <1>6. ASSUME NEW q \in DOMAIN program.tree, SteadyFile(program, q)
        PROVE  LinksOn(tree', q) = {} /\ At(tree', q).kind = "file"
    <2>1. LinksOn(tree, q) = {} /\ At(tree, q).kind = "file" /\ q # <<>> /\ q \in Seq(Name)
      BY <1>6 DEF TreeIsFirm, At, Directory, SteadyFile
    <2>2. ASSUME NEW i \in 1 .. Len(q)
          PROVE  At(tree', SubSeq(q, 1, i)).kind # "link"
      <3>1. contained(SubSeq(q, 1, i), q) /\ SubSeq(q, 1, i) # <<>>
        BY <2>1, PartsAreContained
      <3>2. At(tree, SubSeq(q, 1, i)).kind # "link"
        BY <2>1 DEF LinksOn
      <3>3. SubSeq(q, 1, i) = p => e.kind # "link"
        BY <1>6, <3>1 DEF SteadyFile
      <3>. QED BY <1>1, <3>1, <3>2, <3>3
    <2>3. At(tree', q).kind = "file"
      BY <1>1, <1>6, <2>1 DEF SteadyFile
    <2>. QED BY <2>2, <2>3 DEF LinksOn
  <1>. QED BY <1>1, <1>3, <1>5, <1>6 DEF TreeIsFirm, SteadyFile

-----------------------------------------------------------------------------
(* The names of files.                                                     *)

\* Nobody forgets which names were made up.
SpentStays == \A c \in Ids : c \in Ids' /\ \A n \in Nat : Spent(c, n) => Spent(c, n)'

LEMMA SameEntriesStayNamed ==
  ASSUME EntriesAreNamed, SpentStays, tree' = tree, entries' = entries, program' = program
  PROVE  EntriesAreNamed'
  <1>1. Named(program)' = Named(program)
    BY DEF Named
  <1>. QED BY <1>1 DEF EntriesAreNamed, SpentStays

\* A name is given to a file of its own: one that another process has for that
\* name, or one that a body makes up for the first time.
LEMMA NamedStayNamed ==
  ASSUME FilesKeepNames, TreeIsFirm, EntriesAreNamed, SpentStays, NEW p, NEW e, Put(p, e),
         e.kind = "file" =>
           \/ <<p, e.id>> \in Named(program)
           \/ \E b \in Ids : \E n \in Nat : e.id = <<"new", b, n>> /\ ~ Spent(b, n) /\ Spent(b, n)'
  PROVE  EntriesAreNamed'
  <1>1. /\ program' = program /\ DOMAIN tree' = DOMAIN tree \cup {p} /\ entries \subseteq entries'
        /\ \A q \in DOMAIN tree' : tree'[q] = IF q = p THEN e ELSE tree[q]
    BY PutAt
  <1>2. Named(program)' = Named(program) /\ program \in Programs
    BY <1>1 DEF Named, TreeIsFirm
  <1>3. \A q \in DOMAIN tree' : tree'[q].kind = "file" => <<q, tree'[q].id>> \in entries'
    BY <1>1 DEF EntriesAreNamed, Put
  <1>4. \A x \in entries : x \in Named(program)' \/
          \E b \in Ids' : \E n \in Nat : x[2] = <<"new", b, n>> /\ Spent(b, n)'
    BY <1>2 DEF EntriesAreNamed, SpentStays
  <1>5. CASE e.kind # "file"
    <2>1. entries' = entries
      BY <1>5 DEF Put
    <2>. QED BY <1>3, <1>4, <2>1 DEF EntriesAreNamed
  <1>6. CASE e.kind = "file"
    <2> DEFINE new == <<p, e.id>>
    <2>1. entries' = entries \cup {new} /\ new[1] = p /\ new[2] = e.id
      BY <1>6 DEF Put
    <2>2. \A x \in Named(program) : ~(DOMAIN x[2] = 1 .. 3 /\ x[2][1] = "new")
      BY <1>2 DEF FilesKeepNames
    <2>3. ASSUME NEW b, NEW n, NEW x \in Named(program)
          PROVE  x[2] # <<"new", b, n>>
      <3>1. DOMAIN <<"new", b, n>> = 1 .. 3 /\ <<"new", b, n>>[1] = "new"
        OBVIOUS
      <3>. QED BY <2>2, <3>1
    <2>4. ASSUME NEW x \in entries, x[2] = e.id
          PROVE  x[1] = p
      <3>1. CASE new \in Named(program)
        <4>1. x \in Named(program)
          BY <2>1, <2>3, <2>4, <3>1 DEF EntriesAreNamed
        <4>. QED BY <1>2, <2>1, <2>4, <3>1, <4>1 DEF FilesKeepNames
      <3>2. CASE new \notin Named(program)
        <4>1. PICK b \in Ids, n \in Nat : e.id = <<"new", b, n>> /\ ~ Spent(b, n)
          BY <1>6, <3>2
        <4>2. x \notin Named(program)
          BY <2>3, <2>4, <4>1
        <4>3. PICK c \in Ids, k \in Nat : x[2] = <<"new", c, k>> /\ Spent(c, k)
          BY <4>2 DEF EntriesAreNamed
        <4>4. c = b /\ k = n
          BY <2>4, <4>1, <4>3
        <4>. QED BY <4>1, <4>3, <4>4
      <3>. QED BY <3>1, <3>2
    <2>5. \A x, y \in entries' : x[2] = y[2] => x[1] = y[1]
      BY <2>1, <2>4 DEF EntriesAreNamed
    <2>6. new \in Named(program)' \/
            \E b \in Ids' : \E n \in Nat : new[2] = <<"new", b, n>> /\ Spent(b, n)'
      BY <1>2, <1>6, <2>1 DEF SpentStays
    <2>7. \A x \in entries' : x \in Named(program)' \/
            \E b \in Ids' : \E n \in Nat : x[2] = <<"new", b, n>> /\ Spent(b, n)'
      BY <1>4, <2>1, <2>6
    <2>. QED BY <1>3, <2>5, <2>7 DEF EntriesAreNamed
  <1>. QED BY <1>5, <1>6

LEMMA CodeShrinks ==
  ASSUME NEW c \in Code, c # <<>>
  PROVE  Len(c) \in Nat /\ Len(Tail(c)) = Len(c) - 1
  <1>1. c \in Seq(Range(c))
    BY CodeAssumption
  <1>. QED BY <1>1, HeadTailProperties, LenProperties

\* A body that goes on forgets no name it made up: it gives up its instruction,
\* or goes past it, or had made up none for it.
LEMMA GoingOnKeepsSpent ==
  ASSUME Inv, NEW b \in Ids, GoesOn(b),
         \/ bodies[b].state # "failing" /\ ~ In(b, "verify")
         \/ bodies'[b].code = Tail(bodies[b].code)
         \/ bodies'[b].state = "failing"
  PROVE  SpentStays
  <1>1. Ids' = Ids /\ \A c \in Ids \ {b} : bodies'[c] = bodies[c]
    BY DEF GoesOn, Turn
  <1>2. \A c \in Ids \ {b} : \A n \in Nat : Spent(c, n) => Spent(c, n)'
    BY <1>1 DEF Spent, In, Io
  <1>3. bodies[b].code \in Code /\ bodies[b].code # <<>> /\ bodies[b].state # "ended"
    BY DEF Inv, AInv, CodeIsKnown, GoesOn
  <1>4. Len(bodies[b].code) \in Nat /\ Len(Tail(bodies[b].code)) = Len(bodies[b].code) - 1
    BY <1>3, CodeShrinks
  <1>5. ASSUME NEW n \in Nat, Spent(b, n)
        PROVE  Spent(b, n)'
    <2>1. CASE bodies'[b].code = Tail(bodies[b].code)
      BY <1>4, <1>5, <2>1 DEF Spent
    <2>2. CASE bodies'[b].code = bodies[b].code
      BY <1>3, <1>4, <1>5, <2>1, <2>2 DEF Spent
    <2>. QED BY <2>1, <2>2 DEF GoesOn
  <1>. QED BY <1>1, <1>2, <1>5 DEF SpentStays

-----------------------------------------------------------------------------
(* Steps of a body.                                                        *)

\* What a file operation that is done must have kept to.
InRoots(e) ==
  e.op \in FileOps =>
    /\ contained(Resolve(program.tree, e.root), e.target)
    /\ e.pinned /\ e.op \in {"READ_FILE", "WRITE_FILE"} =>
         <<Append(Resolve(program.tree, Front(e.root)), Last(e.root)), e.file>> \in entries

LEMMA OperationsStayInRoots ==
  ASSUME FilesStayInRoots, program' = program, entries \subseteq entries',
         performed' = performed \/ \E e : performed' = performed \cup {e} /\ InRoots(e)'
  PROVE  FilesStayInRoots'
  <1>1. \A e \in performed : InRoots(e)'
    BY DEF FilesStayInRoots, InRoots
  <1>2. \A e \in performed' : InRoots(e)'
    BY <1>1
  <1>. QED BY <1>2 DEF FilesStayInRoots, InRoots

\* The other bodies stay where they are.
LEMMA TurnKeepsFiles ==
  ASSUME FInv, NEW b \in Ids, Turn(b), PlaceIsKnown(b)', TreeIsFirm', EntriesAreNamed',
         program' = program, entries \subseteq entries',
         performed' = performed \/ \E e : performed' = performed \cup {e} /\ InRoots(e)'
  PROVE  FInv'
  <1>1. GrantsAreKnown'
    BY DEF FInv, GrantsAreKnown, Turn, Caps
  <1>2. ASSUME NEW c \in Ids \ {b}
        PROVE  PlaceIsKnown(c)'
    <2>1. bodies'[c] = bodies[c] /\ PlaceIsKnown(c)
      BY DEF Turn, FInv, PlacesAreKnown
    <2>. QED BY <2>1 DEF PlaceIsKnown, Placed, Io, Inst
  <1>3. PlacesAreKnown'
    BY <1>2 DEF PlacesAreKnown, Turn
  <1>4. FilesStayInRoots'
    BY OperationsStayInRoots DEF FInv
  <1>. QED BY <1>1, <1>3, <1>4 DEF FInv

LEMMA SameTreeIsFirm ==
  ASSUME TreeIsFirm, tree' = tree, program' = program
  PROVE  TreeIsFirm'
  BY DEF TreeIsFirm, SteadyFile

\* What has no part in the tree, or makes nothing of what it has seen there.
LEMMA QuietTurn ==
  ASSUME Inv, FInv, NEW b \in Ids, Advances(b), UNCHANGED world,
         \/ bodies[b].state # "failing" /\ ~ In(b, "verify")
         \/ bodies'[b].code = Tail(bodies[b].code)
         \/ bodies'[b].state = "failing",
         PlaceIsKnown(b)',
         performed' = performed \/ \E e : performed' = performed \cup {e} /\ InRoots(e)
  PROVE  FInv'
  <1>1. Turn(b) /\ GoesOn(b) /\ tree' = tree /\ program' = program /\ entries' = entries
    BY DEF Advances, GoesOn, world
  <1>2. TreeIsFirm'
    BY <1>1, SameTreeIsFirm DEF FInv
  <1>3. EntriesAreNamed'
    BY <1>1, GoingOnKeepsSpent, SameEntriesStayNamed DEF FInv
  <1>4. \A e : InRoots(e)' <=> InRoots(e)
    BY <1>1 DEF InRoots
  <1>. QED BY <1>1, <1>2, <1>3, <1>4, TurnKeepsFiles

\* A body that is in no file operation has no place.
LEMMA NoPlace ==
  ASSUME NEW b, bodies[b].state # "io" \/ Io(b).phase \notin FilePhases \ {"scope"}
  PROVE  PlaceIsKnown(b)
  BY DEF PlaceIsKnown

\* What is done otherwise than to files.
LEMMA OtherEffects ==
  ASSUME NEW e, e.op \notin FileOps
  PROVE  InRoots(e)
  BY DEF InRoots

\* Wherever an operation gives up, nothing has come of what it made up.
LEMMA FailingKeepsFiles ==
  ASSUME Inv, FInv, NEW b \in Ids, Advances(b), UNCHANGED world, performed' = performed,
         bodies'[b].state = "failing"
  PROVE  FInv'
  <1>1. PlaceIsKnown(b)'
    BY DEF PlaceIsKnown
  <1>. QED BY <1>1, QuietTurn

LEMMA GivingUpKeepsFiles ==
  ASSUME Inv, FInv, NEW b \in Ids, bodies[b].state = "io", Breaks(b) \/ Escapes(b)
  PROVE  FInv'
  <1>1. Advances(b) /\ BodiesAreRecords
    BY BreaksAdvances DEF Inv, AInv
  <1>2. bodies'[b].state = "failing" /\ UNCHANGED world /\ performed' = performed
    BY <1>1, FailingTurn DEF Breaks, Escapes, Deny
  <1>. QED BY <1>1, <1>2, FailingKeepsFiles

\* The instruction is over, or has not come to an effect.
LEMMA OtherActsKeepFiles ==
  ASSUME Inv, FInv, NEW b \in Ids, Advances(b), UNCHANGED world,
         \/ bodies[b].state # "failing" /\ ~ In(b, "verify")
         \/ bodies'[b].code = Tail(bodies[b].code),
         bodies'[b].state # "io",
         performed' = performed \/ \E e : performed' = performed \cup {e} /\ e.op \notin FileOps
  PROVE  FInv'
  <1>1. PlaceIsKnown(b)'
    BY DEF PlaceIsKnown
  <1>2. performed' = performed \/ \E e : performed' = performed \cup {e} /\ InRoots(e)
    BY OtherEffects
  <1>. QED BY <1>1, <1>2, QuietTurn

\* An instruction of another kind has no part in files.
LEMMA OtherOpsKeepFiles ==
  ASSUME Inv, FInv, NEW b \in Ids, Advances(b), UNCHANGED world,
         bodies[b].state \in {"started", "io"}, Inst(b).op \notin FileOps,
         performed' = performed \/ \E e : performed' = performed \cup {e} /\ e.op \notin FileOps
  PROVE  FInv'
  <1>1. ~ In(b, "verify")
    BY PhasesApart DEF In, FileIsGranted, FilePhases
  <1>2. ASSUME bodies'[b].state = "io"
        PROVE  bodies'[b].io.phase \in {"exec", "dial", "response"}
    <2>1. Inst(b)' = Inst(b)
      BY <1>2 DEF Advances, GoesOn, Inst
    <2>. QED BY <1>2, <2>1 DEF Advances, Granted, FileIsGranted, ProgramIsGranted, RequestIsGranted, Io
  <1>3. PlaceIsKnown(b)'
    BY <1>2 DEF PlaceIsKnown, Io, FilePhases
  <1>4. performed' = performed \/ \E e : performed' = performed \cup {e} /\ InRoots(e)
    BY OtherEffects
  <1>. QED BY <1>1, <1>3, <1>4, QuietTurn

LEMMA FetchesKeepFiles ==
  ASSUME Inv, FInv, NEW b \in Ids, Fetches(b)
  PROVE  FInv'
  <1>1. Advances(b) /\ UNCHANGED world
    BY FetchesAdvance
    DEF Fetches, AuthorizeRequest, Dial, Redirect, Respond, Breaks, DenyHop
  <1>2. bodies[b].state \in {"started", "io"} /\ Inst(b).op = "FETCH"
    <2>1. CASE AuthorizeRequest(b)
      BY <2>1 DEF AuthorizeRequest, Starts
    <2>2. CASE Dial(b) \/ Redirect(b) \/ Respond(b)
      BY <2>2, PhasesApart DEF Dial, Redirect, Respond, In, RequestIsGranted
    <2>. QED BY <2>1, <2>2 DEF Fetches
  <1>3. performed' = performed \/ \E e : performed' = performed \cup {e} /\ e.op = "FETCH"
    <2>1. CASE Dial(b)
      <3>1. ASSUME NEW a,
                   performed' = performed \cup
                          {[body |-> b, left |-> Len(bodies[b].code), op |-> "FETCH",
                            target |-> IF Len(Io(b).chain) = 1 THEN Summary(Inst(b))
                                       ELSE <<"redirect">>,
                            request |-> Inst(b), unsealed |-> bodies[b].unsealed, chain |-> Io(b).chain,
                            referer |-> Io(b).referer, address |-> a]}
            PROVE  \E e : performed' = performed \cup {e} /\ e.op = "FETCH"
        <4> DEFINE e == [body |-> b, left |-> Len(bodies[b].code), op |-> "FETCH",
                            target |-> IF Len(Io(b).chain) = 1 THEN Summary(Inst(b))
                                       ELSE <<"redirect">>,
                            request |-> Inst(b), unsealed |-> bodies[b].unsealed, chain |-> Io(b).chain,
                            referer |-> Io(b).referer, address |-> a]
        <4>1. e.op = "FETCH" /\ performed' = performed \cup {e}
          BY <3>1
        <4> HIDE DEF e
        <4>. QED BY <4>1
      <3>. QED BY <2>1, <3>1 DEF Dial, DenyHop
    <2>2. CASE AuthorizeRequest(b)
      BY <2>2 DEF AuthorizeRequest, Allow, Deny
    <2>3. CASE Redirect(b) \/ Respond(b)
      BY <2>3 DEF Redirect, DenyHop, Breaks, Respond
    <2>. QED BY <2>1, <2>2, <2>3 DEF Fetches
  <1>. QED BY <1>1, <1>2, <1>3, OtherOpsKeepFiles DEF FileOps

LEMMA ProgramsKeepFiles ==
  ASSUME Inv, FInv, NEW b \in Ids, AuthorizeProgram(b) \/ RunProgram(b)
  PROVE  FInv'
  <1>1. Advances(b) /\ UNCHANGED world
    BY AuthorizeProgramAdvances, RunProgramAdvances DEF AuthorizeProgram, RunProgram, Breaks
  <1>2. bodies[b].state \in {"started", "io"} /\ Inst(b).op = "EXEC"
    BY PhasesApart DEF AuthorizeProgram, Starts, RunProgram, In, ProgramIsGranted
  <1>3. performed' = performed \/ \E e : performed' = performed \cup {e} /\ e.op = Inst(b).op
    <2>1. CASE Performs(b, Summary(Inst(b)), None)
      BY <2>1 DEF Performs, Effect
    <2>2. CASE AuthorizeProgram(b) \/ Breaks(b)
      BY <2>2 DEF AuthorizeProgram, Allow, Deny, Breaks
    <2>. QED BY <2>1, <2>2 DEF RunProgram
  <1>. QED BY <1>1, <1>2, <1>3, OtherOpsKeepFiles DEF FileOps

LEMMA PlainActsKeepFiles ==
  ASSUME Inv, FInv, NEW b \in Ids,
         Begin(b) \/ Limited(b) \/ ReadEnvironment(b) \/ UseDict(b) \/ Catch(b)
  PROVE  FInv'
  <1>0. BodiesAreRecords
    BY DEF Inv, AInv
  <1>1. CASE Begin(b)
    <2>1. bodies[b].state = "ready" /\ UNCHANGED world /\ performed' = performed
      BY <1>1 DEF Begin
    <2>2. bodies'[b].state \in {"started", "failing"} /\ Advances(b)
      BY <1>0, <1>1, BeginTurn, BeginAdvances
    <2>. QED BY <2>1, <2>2, OtherActsKeepFiles DEF In
  <1>2. CASE Limited(b)
    <2>1. UNCHANGED world /\ performed' = performed /\ bodies'[b].state = "failing" /\ Advances(b)
      BY <1>0, <1>2, FailingTurn, LimitedAdvances DEF Limited
    <2>. QED BY <2>1, FailingKeepsFiles
  <1>3. CASE ReadEnvironment(b)
    <2> DEFINE e == [body |-> b, left |-> Len(bodies[b].code), op |-> "ENV", target |-> <<>>,
                     request |-> Inst(b), unsealed |-> bodies[b].unsealed]
    <2>1. /\ bodies[b].state = "started" /\ Inst(b).op = "ENV" /\ UNCHANGED world
          /\ performed' = performed \cup {e} /\ e.op = "ENV"
      BY <1>3 DEF ReadEnvironment, Starts
    <2> HIDE DEF e
    <2>. QED BY <1>3, <2>1, ReadEnvironmentAdvances, OtherOpsKeepFiles DEF FileOps
  <1>4. CASE UseDict(b)
    <2>1. /\ bodies[b].state = "started" /\ Inst(b).op \notin FileOps /\ UNCHANGED world
          /\ performed' = performed
      BY <1>4 DEF UseDict, Starts, FileOps
    <2>. QED BY <1>4, <2>1, UseDictAdvances, OtherOpsKeepFiles
  <1>5. CASE Catch(b)
    <2>1. UNCHANGED world /\ performed' = performed
      BY <1>5 DEF Catch
    <2>2. bodies'[b].state = "ready" /\ bodies'[b].code = Tail(bodies[b].code) /\ Advances(b)
      BY <1>0, <1>5, ProceedTurn, CatchAdvances DEF Catch
    <2>. QED BY <2>1, <2>2, OtherActsKeepFiles
  <1>. QED BY <1>1, <1>2, <1>3, <1>4, <1>5

-----------------------------------------------------------------------------
(* Operations on files.                                                    *)

LEMMA PlaceHolds ==
  ASSUME FInv, NEW b \in Ids, NEW phase \in FilePhases \ {"scope"}, In(b, phase)
  PROVE  Placed(Io(b), Inst(b), entries) /\ Io(b).phase = phase
  BY InIo DEF FInv, PlacesAreKnown, PlaceIsKnown

\* Learning more, where that is the place of the file.
LEMMA LearningKeepsFiles ==
  ASSUME Inv, FInv, NEW b \in Ids, NEW phase \in FilePhases \ {"verify"}, In(b, phase),
         NEW more, "phase" \in DOMAIN more, more.phase \in FilePhases, Step(b, more),
         Placed(Learnt(Io(b), more), Inst(b), entries)
  PROVE  FInv'
  <1>1. Advances(b) /\ UNCHANGED world /\ performed' = performed
    BY LearningAdvances DEF Step
  <1>2. bodies[b].state = "io" /\ ~ In(b, "verify") /\ BodiesAreRecords
    BY InIo DEF In, Inv, AInv
  <1>3. bodies'[b].io = Learnt(Io(b), more) /\ bodies'[b].code = bodies[b].code
    BY <1>2, StepTurn DEF Step, Io
  <1>4. PlaceIsKnown(b)'
    BY <1>1, <1>3 DEF PlaceIsKnown, Placed, Io, Inst, world
  <1>. QED BY <1>1, <1>2, <1>4, QuietTurn

LEMMA AuthorizeFileKeepsFiles ==
  ASSUME Inv, FInv, NEW b \in Ids, AuthorizeFile(b)
  PROVE  FInv'
  <1>1. Advances(b) /\ UNCHANGED world /\ bodies[b].state = "started" /\ BodiesAreRecords
    BY AuthorizeFileAdvances DEF AuthorizeFile, Starts, Inv, AInv
  <1>2. CASE Deny(b, "filesystem")
    BY <1>1, <1>2, FailingTurn, FailingKeepsFiles DEF Deny
  <1>3. CASE Allow(b, "filesystem", [phase |-> "scope"])
    <2>0. performed' = performed
      BY <1>3 DEF Allow
    <2>1. bodies'[b].io = [phase |-> "scope"]
      BY <1>1, <1>3, AllowTurn
    <2>2. PlaceIsKnown(b)'
      BY <2>1 DEF PlaceIsKnown, Io
    <2>. QED BY <1>1, <2>0, <2>2, QuietTurn DEF In
  <1>. QED BY <1>2, <1>3 DEF AuthorizeFile

LEMMA MatchRootKeepsFiles ==
  ASSUME Inv, FInv, NEW b \in Ids, MatchRoot(b)
  PROVE  FInv'
  <1>1. In(b, "scope") /\ "scope" \in FilePhases \ {"verify"} /\ "stat" \in FilePhases
    BY DEF MatchRoot, FilePhases
  <1>2. CASE Step(b, [phase |-> Way(b, FALSE), root |-> <<>>, handle |-> <<>>, pinned |-> FALSE])
    <2> DEFINE more == [phase |-> Way(b, FALSE), root |-> <<>>, handle |-> <<>>, pinned |-> FALSE]
    <2>2. /\ DOMAIN more = {"phase", "root", "handle", "pinned"} /\ more.phase = Way(b, FALSE)
          /\ more.root = <<>> /\ more.handle = <<>> /\ more.pinned = FALSE
      OBVIOUS
    <2>3. /\ Way(b, FALSE) \in {"replace", "mkdir", "open"} /\ Way(b, FALSE) \in FilePhases
          /\ Way(b, FALSE) = "mkdir" => Inst(b).op = "MKDIR"
          /\ Way(b, FALSE) = "replace" => Inst(b).op = "STORE_PUT"
      BY FileWays DEF Way
    <2>4. <<>> \in Roots
      BY DEF Roots
    <2>5. Step(b, more)
      BY <1>2
    <2> HIDE DEF more
    <2>1. PICK io : io = Learnt(Io(b), more)
      OBVIOUS
    <2>6. \A x \in DOMAIN more : x \in DOMAIN io /\ io[x] = more[x]
      BY <2>1 DEF Learnt
    <2>7. Placed(io, Inst(b), entries)
      BY <2>2, <2>3, <2>4, <2>6 DEF Placed
    <2>. QED BY <1>1, <2>1, <2>2, <2>3, <2>5, <2>7, LearningKeepsFiles
  <1>3. ASSUME NEW g \in Caps(b), Matches(tree, g, Mode(Inst(b).op), Inst(b).path),
               Step(b, [phase |-> "stat", root |-> g.path])
        PROVE  FInv'
    <2> DEFINE more == [phase |-> "stat", root |-> g.path]
    <2>2. /\ DOMAIN more = {"phase", "root"} /\ more.phase = "stat" /\ more.root = g.path
          /\ Step(b, more)
      BY <1>3
    <2>3. g.path \in Roots
      BY <1>3 DEF Matches, Names, FInv, GrantsAreKnown
    <2> HIDE DEF more
    <2>1. PICK io : io = Learnt(Io(b), more)
      OBVIOUS
    <2>4. \A x \in DOMAIN more : x \in DOMAIN io /\ io[x] = more[x]
      BY <2>1 DEF Learnt
    <2>5. Placed(io, Inst(b), entries)
      BY <2>2, <2>3, <2>4 DEF Placed
    <2>. QED BY <1>1, <2>1, <2>2, <2>5, LearningKeepsFiles
  <1>4. CASE Escapes(b)
    BY <1>1, <1>4, GivingUpKeepsFiles, InIo
  <1>. QED BY <1>2, <1>3, <1>4 DEF MatchRoot

LEMMA StatRootKeepsFiles ==
  ASSUME Inv, FInv, NEW b \in Ids, StatRoot(b)
  PROVE  FInv'
  <1>1. In(b, "stat") /\ "stat" \in FilePhases \ {"scope", "verify"} /\ "root" \in FilePhases
    BY DEF StatRoot, FilePhases
  <1>2. Placed(Io(b), Inst(b), entries) /\ Io(b).phase = "stat"
    BY <1>1, PlaceHolds
  <1>3. PICK pinned \in BOOLEAN :
          /\ pinned => Inst(b).path = Io(b).root /\ Reached(tree, Io(b).root) # Directory
          /\ Step(b, [phase |-> "root", pinned |-> pinned])
    BY DEF StatRoot
  <1>4. Reached(tree, <<>>) = Directory
    <2>1. LinksOn(tree, <<>>) = {}
      BY DEF LinksOn
    <2>. QED BY <2>1, NoLinksNoDetour DEF Reached, At
  <1> DEFINE more == [phase |-> "root", pinned |-> pinned]
  <1>6. /\ DOMAIN more = {"phase", "pinned"} /\ more.phase = "root" /\ more.pinned = pinned
        /\ Step(b, more)
    BY <1>3
  <1> HIDE DEF more
  <1>5. PICK old, io : old = Io(b) /\ io = Learnt(old, more)
    OBVIOUS
  <1>7. /\ \A x \in DOMAIN more : x \in DOMAIN io /\ io[x] = more[x]
        /\ \A x \in DOMAIN old \ DOMAIN more : x \in DOMAIN io /\ io[x] = old[x]
    BY <1>5 DEF Learnt
  <1>8. Placed(io, Inst(b), entries)
    BY <1>2, <1>3, <1>4, <1>5, <1>6, <1>7 DEF Placed
  <1>. QED BY <1>1, <1>5, <1>6, <1>8, LearningKeepsFiles

\* A body makes a directory where nothing is, or a file with a name it made up.
LEMMA MakingKeepsFiles ==
  ASSUME Inv, FInv, FilesKeepNames, NEW b \in Ids, Advances(b),
         bodies[b].state = "io", ~ In(b, "verify"), NEW p, NEW e, Put(p, e),
         \/ e = Directory /\ At(tree, p) = Absent
         \/ e = File(NewFile(b)) /\ (bodies'[b].code = Tail(bodies[b].code) \/ In(b, "verify")'),
         PlaceIsKnown(b)',
         performed' = performed \/ \E x : performed' = performed \cup {x} /\ InRoots(x)'
  PROVE  FInv'
  <1>1. Turn(b) /\ GoesOn(b) /\ bodies[b].code # <<>> /\ bodies[b].code \in Code
    BY InsideInstruction DEF Advances, GoesOn
  <1>2. SpentStays
    BY <1>1, GoingOnKeepsSpent
  <1>3. program' = program /\ entries \subseteq entries'
    BY PutAt
  <1>4. TreeIsFirm'
    <2>1. (e = Directory /\ At(tree, p) = Absent) \/ \E id : e = File(id)
      OBVIOUS
    <2>. QED BY <2>1, MakingKeepsFirm DEF FInv
  <1>5. ASSUME e.kind = "file"
        PROVE  \E c \in Ids : \E n \in Nat : e.id = <<"new", c, n>> /\ ~ Spent(c, n) /\ Spent(c, n)'
    <2>1. PICK n \in Nat : n = Len(bodies[b].code) /\ Len(Tail(bodies[b].code)) = n - 1
      BY <1>1, CodeShrinks
    <2>2. e.id = <<"new", b, n>> /\ (bodies'[b].code = Tail(bodies[b].code) \/ In(b, "verify")')
      BY <1>5, <2>1 DEF Directory, File, NewFile
    <2>3. ~ Spent(b, n)
      BY <2>1 DEF Spent
    <2>4. Spent(b, n)'
      <3>1. CASE bodies'[b].code = bodies[b].code
        <4>1. Len(bodies'[b].code) = n
          BY <2>1, <3>1
        <4>2. bodies'[b].code # Tail(bodies[b].code)
          <5>1. n # n - 1
            OBVIOUS
          <5>. QED BY <2>1, <4>1, <5>1, Zenon
        <4>. QED BY <2>2, <4>1, <4>2 DEF Spent
      <3>2. CASE bodies'[b].code = Tail(bodies[b].code)
        <4>1. n > Len(bodies'[b].code)
          BY <2>1, <3>2
        <4>. QED BY <4>1 DEF Spent
      <3>. QED BY <1>1, <3>1, <3>2 DEF GoesOn
    <2>. QED BY <2>1, <2>2, <2>3, <2>4
  <1>6. EntriesAreNamed'
    BY <1>2, <1>5, NamedStayNamed DEF FInv
  <1>. QED BY <1>1, <1>3, <1>4, <1>6, TurnKeepsFiles

\* A directory is opened where its path says, and made only if it is missing.
LEMMA OpenRootKeepsFiles ==
  ASSUME Inv, FInv, FilesKeepNames, NEW b \in Ids, OpenRoot(b)
  PROVE  FInv'
  <1>1. PICK phase \in {"root", "reopen"} : In(b, phase)
    BY DEF OpenRoot
  <1>2. /\ phase \in FilePhases \ {"scope", "verify"} /\ "reopen" \in FilePhases
        /\ bodies[b].state = "io" /\ ~ In(b, "verify") /\ BodiesAreRecords
    BY <1>1 DEF FilePhases, In, Inv, AInv
  <1>3. Placed(Io(b), Inst(b), entries) /\ Io(b).phase = phase
    BY <1>1, <1>2, PlaceHolds
  <1>4. Io(b).root \in Roots /\ (Io(b).pinned => Io(b).root # <<>>)
    BY <1>3 DEF Placed
  <1>5. PICK dir : dir = IF Io(b).pinned THEN Front(Io(b).root) ELSE Io(b).root
    OBVIOUS
  <1>6. CASE Reached(tree, dir) = Directory /\ Step(b, [phase |-> Way(b, Io(b).pinned), handle |-> Resolve(tree, dir)])
    <2>1. Resolve(tree, dir) = dir
      BY <1>4, <1>5, <1>6, FirmPaths DEF FInv, Directory
    <2> DEFINE more == [phase |-> Way(b, Io(b).pinned), handle |-> Resolve(tree, dir)]
    <2>2. /\ DOMAIN more = {"phase", "handle"} /\ more.phase = Way(b, Io(b).pinned) /\ more.handle = dir
          /\ Step(b, more)
      BY <1>6, <2>1
    <2> HIDE DEF more
    <2>3. PICK old, io : old = Io(b) /\ io = Learnt(old, more)
      OBVIOUS
    <2>4. /\ \A x \in DOMAIN more : x \in DOMAIN io /\ io[x] = more[x]
          /\ \A x \in DOMAIN old \ DOMAIN more : x \in DOMAIN io /\ io[x] = old[x]
      BY <2>3 DEF Learnt
    <2>5. /\ Way(b, Io(b).pinned) \in {"replace", "mkdir", "lstat", "open"}
          /\ Way(b, Io(b).pinned) = "mkdir" => Inst(b).op = "MKDIR"
          /\ Way(b, Io(b).pinned) = "replace" => Inst(b).op = "STORE_PUT"
          /\ Way(b, Io(b).pinned) = "lstat" => Io(b).pinned
          /\ Way(b, Io(b).pinned) = "open" => ~ Io(b).pinned
      BY DEF Way
    <2>6. /\ {"phase", "root", "pinned", "handle"} \subseteq DOMAIN io /\ io.root = old.root
          /\ io.pinned = old.pinned /\ io.handle = dir /\ io.phase = Way(b, Io(b).pinned)
      BY <1>1, <1>3, <2>2, <2>3, <2>4 DEF Placed
    <2>7. Placed(io, Inst(b), entries)
      BY <1>1, <1>3, <1>5, <2>3, <2>5, <2>6 DEF Placed
    <2>. QED BY <1>1, <1>2, <2>2, <2>3, <2>7, FileWays, LearningKeepsFiles
  <1>7. CASE /\ In(b, "root") /\ At(tree, dir) = Absent /\ Put(dir, Directory)
             /\ bodies' = [bodies EXCEPT ![b].io.phase = "reopen"] /\ performed' = performed
    <2>1. Advances(b)
      BY OpenRootAdvances
    <2>2. bodies'[b].io = [bodies[b].io EXCEPT !.phase = "reopen"] /\ bodies'[b].code = bodies[b].code
      BY <1>2, <1>7, PhaseTurn
    <2>3. PICK old, io : old = Io(b) /\ io = [old EXCEPT !.phase = "reopen"]
      OBVIOUS
    <2>4. Io(b)' = io /\ Inst(b)' = Inst(b)
      BY <2>2, <2>3 DEF Io, Inst
    <2>5. /\ {"phase", "root", "pinned"} \subseteq DOMAIN io /\ io.phase = "reopen"
          /\ io.root = old.root /\ io.pinned = old.pinned
      BY <1>1, <1>3, <2>3 DEF Placed
    <2>6. Placed(io, Inst(b), entries')
      BY <1>1, <1>3, <2>3, <2>5 DEF Placed
    <2>7. PlaceIsKnown(b)'
      BY <2>4, <2>6 DEF PlaceIsKnown
    <2>. QED BY <1>2, <1>7, <2>1, <2>7, MakingKeepsFiles
  <1>8. CASE Breaks(b)
    BY <1>2, <1>8, GivingUpKeepsFiles
  <1>. QED BY <1>5, <1>6, <1>7, <1>8 DEF OpenRoot

\* The target of an operation on a single file is that file.
LEMMA PinnedTarget ==
  ASSUME FInv, NEW b \in Ids, NEW phase \in FilePhases \ {"scope", "stat", "root", "reopen"}, In(b, phase),
         Io(b).pinned
  PROVE  Target(b) = Io(b).root
  <1>1. PICK root \in Roots : /\ Io(b).root = root /\ root # <<>> /\ Inst(b).path = root
                              /\ Io(b).handle = Front(root)
    BY PlaceHolds DEF Placed
  <1>2. Front(root) \o SubSeq(root, Len(root), Len(root)) = root /\ Len(root) + 0 = Len(root)
    BY <1>1, RootsArePaths, FrontOfPath
  <1>. QED BY <1>1, <1>2 DEF Target

\* What a name of an open directory is found to be is something it was opened for.
LEMMA LstatTargetKeepsFiles ==
  ASSUME Inv, FInv, NEW b \in Ids, LstatTarget(b)
  PROVE  FInv'
  <1>1. /\ In(b, "lstat") /\ "lstat" \in FilePhases \ {"scope", "stat", "root", "reopen", "verify"}
        /\ {"pinned", "create"} \subseteq FilePhases
    BY DEF LstatTarget, FilePhases
  <1>2. Placed(Io(b), Inst(b), entries) /\ Io(b).phase = "lstat" /\ Io(b).pinned /\ Io(b).root # <<>>
    BY <1>1, PlaceHolds DEF Placed
  <1>3. Target(b) = Io(b).root
    BY <1>1, <1>2, PinnedTarget
  <1>4. CASE LET e == At(tree, Target(b)) IN e.kind = "file" /\ Step(b, [phase |-> "pinned", seen |-> e.id])
    <2>1. PICK e : e = At(tree, Io(b).root)
      OBVIOUS
    <2> DEFINE more == [phase |-> "pinned", seen |-> e.id]
    <2>2. /\ DOMAIN more = {"phase", "seen"} /\ more.phase = "pinned" /\ more.seen = e.id
          /\ Step(b, more) /\ e.kind = "file"
      BY <1>3, <1>4, <2>1
    <2> HIDE DEF more
    <2>3. <<Io(b).root, e.id>> \in entries
      BY <1>2, <2>1, <2>2 DEF FInv, EntriesAreNamed, At, Absent
    <2>4. PICK old, io : old = Io(b) /\ io = Learnt(old, more)
      OBVIOUS
    <2>5. /\ \A x \in DOMAIN more : x \in DOMAIN io /\ io[x] = more[x]
          /\ \A x \in DOMAIN old \ DOMAIN more : x \in DOMAIN io /\ io[x] = old[x]
      BY <2>4 DEF Learnt
    <2>6. /\ {"phase", "root", "pinned", "handle", "seen"} \subseteq DOMAIN io /\ io.root = old.root
          /\ io.pinned = old.pinned /\ io.handle = old.handle /\ io.phase = "pinned" /\ io.seen = e.id
      BY <1>2, <2>2, <2>4, <2>5 DEF Placed
    <2>7. Placed(io, Inst(b), entries)
      BY <1>2, <2>3, <2>4, <2>6 DEF Placed
    <2>. QED BY <1>1, <2>2, <2>4, <2>7, LearningKeepsFiles
  <1>5. CASE Step(b, [phase |-> "create"])
    <2> DEFINE more == [phase |-> "create"]
    <2>2. DOMAIN more = {"phase"} /\ more.phase = "create" /\ Step(b, more)
      BY <1>5
    <2> HIDE DEF more
    <2>4. PICK old, io : old = Io(b) /\ io = Learnt(old, more)
      OBVIOUS
    <2>5. /\ \A x \in DOMAIN more : x \in DOMAIN io /\ io[x] = more[x]
          /\ \A x \in DOMAIN old \ DOMAIN more : x \in DOMAIN io /\ io[x] = old[x]
      BY <2>4 DEF Learnt
    <2>6. /\ {"phase", "root", "pinned", "handle"} \subseteq DOMAIN io /\ io.root = old.root
          /\ io.pinned = old.pinned /\ io.handle = old.handle /\ io.phase = "create"
      BY <1>2, <2>2, <2>4, <2>5 DEF Placed
    <2>7. Placed(io, Inst(b), entries)
      BY <1>2, <2>4, <2>6 DEF Placed
    <2>. QED BY <1>1, <2>2, <2>4, <2>7, LearningKeepsFiles
  <1>6. CASE Breaks(b) \/ Escapes(b)
    BY <1>1, <1>6, InIo, GivingUpKeepsFiles
  <1>. QED BY <1>4, <1>5, <1>6 DEF LstatTarget

-----------------------------------------------------------------------------
(* Effects on files.                                                       *)

\* An effect below the root that was matched, and on a name of it if it is one file.
LEMMA EffectIsInRoots ==
  ASSUME RootsStandFirm, FInv, NEW b \in Ids,
         NEW phase \in FilePhases \ {"scope", "stat", "root", "reopen"}, In(b, phase),
         NEW target, NEW file, NEW e, e = Effect(b, target, file), program' = program,
         contained(Io(b).root, target),
         Io(b).pinned /\ Inst(b).op \in {"READ_FILE", "WRITE_FILE"} => <<Io(b).root, file>> \in entries'
  PROVE  InRoots(e)'
  <1>1. PICK root \in Roots : Io(b).root = root /\ (Io(b).pinned => root # <<>>)
    BY PlaceHolds DEF Placed
  <1>2. Resolve(program.tree, root) = root /\ (root # <<>> => Resolve(program.tree, Front(root)) = Front(root))
    BY RootsAreTheirPaths DEF FInv, TreeIsFirm
  <1>3. root # <<>> => Append(Front(root), Last(root)) = root
    BY RootsArePaths, FrontOfPath
  <1>4. e.root = root /\ e.target = target /\ e.pinned = Io(b).pinned /\ e.op = Inst(b).op /\ e.file = file
    BY <1>1 DEF Effect
  <1>. QED BY <1>1, <1>2, <1>3, <1>4 DEF InRoots

\* An effect on what is there already.
LEMMA FoundKeepsFiles ==
  ASSUME Inv, FInv, RootsStandFirm, NEW b \in Ids,
         NEW phase \in FilePhases \ {"scope", "stat", "root", "reopen"}, In(b, phase),
         NEW target, NEW file, Performs(b, target, file), UNCHANGED world,
         contained(Io(b).root, target),
         Io(b).pinned /\ Inst(b).op \in {"READ_FILE", "WRITE_FILE"} => <<Io(b).root, file>> \in entries
  PROVE  FInv'
  <1>1. Advances(b) /\ BodiesAreRecords
    BY FileEffectAdvances DEF Inv, AInv
  <1>2. PICK e : e = Effect(b, target, file)
    OBVIOUS
  <1>3. InRoots(e)'
    BY <1>2, EffectIsInRoots DEF world
  <1>4. performed' = performed \cup {e} /\ InRoots(e)
    BY <1>2, <1>3 DEF Performs, InRoots, world
  <1>5. bodies'[b].state = "ready" /\ bodies'[b].code = Tail(bodies[b].code)
    BY <1>1, ProceedTurn DEF Performs
  <1>6. PlaceIsKnown(b)'
    BY <1>5 DEF PlaceIsKnown
  <1>. QED BY <1>1, <1>4, <1>5, <1>6, QuietTurn

\* An effect that makes what it acts on.
LEMMA MadeKeepsFiles ==
  ASSUME Inv, FInv, RootsStandFirm, FilesKeepNames, NEW b \in Ids,
         NEW phase \in FilePhases \ {"scope", "stat", "root", "reopen", "verify"}, In(b, phase),
         NEW target, NEW file, Performs(b, target, file), NEW made, Put(target, made),
         \/ made = Directory /\ At(tree, target) = Absent
         \/ made = File(NewFile(b)) /\ file = NewFile(b),
         contained(Io(b).root, target),
         Io(b).pinned /\ Inst(b).op \in {"READ_FILE", "WRITE_FILE"} => Io(b).root = target /\ made # Directory
  PROVE  FInv'
  <1>1. Advances(b) /\ BodiesAreRecords /\ bodies[b].state = "io" /\ ~ In(b, "verify")
    BY FileEffectAdvances DEF Inv, AInv, In
  <1>2. PICK e : e = Effect(b, target, file)
    OBVIOUS
  <1>3. Io(b).pinned /\ Inst(b).op \in {"READ_FILE", "WRITE_FILE"} => <<Io(b).root, file>> \in entries'
    BY DEF Put, File
  <1>4. InRoots(e)'
    BY <1>2, <1>3, EffectIsInRoots DEF Put
  <1>5. performed' = performed \cup {e}
    BY <1>2 DEF Performs
  <1>6. bodies'[b].state = "ready" /\ bodies'[b].code = Tail(bodies[b].code)
    BY <1>1, ProceedTurn DEF Performs
  <1>7. PlaceIsKnown(b)'
    BY <1>6 DEF PlaceIsKnown
  <1>. QED BY <1>1, <1>4, <1>5, <1>6, <1>7, MakingKeepsFiles

LEMMA PathContainsItself ==
  ASSUME NEW p \in Seq(Name)
  PROVE  contained(p, p)
  BY PrefixOrder

\* What a directory handle is opened for stays below it.
LEMMA OpenTargetKeepsFiles ==
  ASSUME Inv, FInv, RootsStandFirm, FilesKeepNames, NEW b \in Ids, OpenTarget(b)
  PROVE  FInv'
  <1>1. In(b, "open") /\ "open" \in FilePhases \ {"scope", "stat", "root", "reopen", "verify"}
    BY DEF OpenTarget, FilePhases
  <1>2. Io(b).pinned = FALSE /\ Io(b).handle = Io(b).root
    BY <1>1, PlaceHolds DEF Placed
  <1>3. contained(Io(b).root, Real(b))
    BY <1>2 DEF OpenTarget, StaysIn
  <1>4. CASE \E file : Performs(b, Real(b), file) /\ UNCHANGED world
    BY <1>1, <1>2, <1>3, <1>4, FoundKeepsFiles
  <1>5. CASE Put(Real(b), File(NewFile(b))) /\ Performs(b, Real(b), NewFile(b))
    BY <1>1, <1>2, <1>3, <1>5, MadeKeepsFiles
  <1>6. CASE Breaks(b)
    BY <1>1, <1>6, InIo, GivingUpKeepsFiles
  <1>. QED BY <1>4, <1>5, <1>6 DEF OpenTarget

\* What has been opened is known by the name it was reached by.
LEMMA OpenPinnedKeepsFiles ==
  ASSUME Inv, FInv, FilesKeepNames, NEW b \in Ids, OpenPinned(b)
  PROVE  FInv'
  <1>1. /\ In(b, "pinned") /\ "pinned" \in FilePhases \ {"scope", "stat", "root", "reopen", "verify"}
        /\ "verify" \in FilePhases
    BY DEF OpenPinned, FilePhases
  <1>2. Placed(Io(b), Inst(b), entries) /\ Io(b).phase = "pinned"
    BY <1>1, PlaceHolds
  <1>3. bodies[b].state = "io" /\ ~ In(b, "verify") /\ BodiesAreRecords
    BY <1>1 DEF In, Inv, AInv
  <1>4. ASSUME NEW id, NEW es, entries \subseteq es, <<Real(b), id>> \in es,
               NEW more, more = [phase |-> "verify", opened |-> id, real |-> Real(b)]
        PROVE  /\ "phase" \in DOMAIN more /\ more.phase = "verify"
               /\ Placed(Learnt(Io(b), more), Inst(b), es)
    <2>1. PICK real : real = Real(b)
      OBVIOUS
    <2>2. /\ DOMAIN more = {"phase", "opened", "real"} /\ more.phase = "verify" /\ more.opened = id
          /\ more.real = real
      BY <1>4, <2>1
    <2>3. PICK old, io : old = Io(b) /\ io = Learnt(old, more)
      OBVIOUS
    <2>4. /\ \A x \in DOMAIN more : x \in DOMAIN io /\ io[x] = more[x]
          /\ \A x \in DOMAIN old \ DOMAIN more : x \in DOMAIN io /\ io[x] = old[x]
      BY <2>3 DEF Learnt
    <2>5. /\ {"phase", "root", "pinned", "handle", "seen", "opened", "real"} \subseteq DOMAIN io
          /\ io.root = old.root /\ io.pinned = old.pinned /\ io.handle = old.handle
          /\ io.seen = old.seen /\ io.phase = "verify" /\ io.opened = id /\ io.real = real
      BY <1>2, <2>2, <2>3, <2>4 DEF Placed
    <2>6. Placed(io, Inst(b), es)
      BY <1>2, <1>4, <2>1, <2>3, <2>5 DEF Placed
    <2>. QED BY <2>2, <2>3, <2>6
  <1>5. CASE LET e == At(tree, Real(b))
             IN  e.kind = "file" /\ Step(b, [phase |-> "verify", opened |-> e.id, real |-> Real(b)])
    <2>1. PICK e : e = At(tree, Real(b))
      OBVIOUS
    <2>2. PICK more : more = [phase |-> "verify", opened |-> e.id, real |-> Real(b)]
      OBVIOUS
    <2>3. e.kind = "file" /\ Step(b, more)
      BY <1>5, <2>1, <2>2
    <2>4. <<Real(b), e.id>> \in entries
      BY <2>1, <2>3 DEF FInv, EntriesAreNamed, At, Absent, Directory
    <2>5. "phase" \in DOMAIN more /\ more.phase = "verify" /\ Placed(Learnt(Io(b), more), Inst(b), entries)
      BY <1>4, <2>2, <2>4
    <2>. QED BY <1>1, <2>3, <2>5, LearningKeepsFiles
  <1>6. CASE /\ Put(Real(b), File(NewFile(b)))
             /\ bodies' = [bodies EXCEPT ![b].io =
                  Learnt(@, [phase |-> "verify", opened |-> NewFile(b), real |-> Real(b)])]
             /\ performed' = performed
    <2>1. PICK more : more = [phase |-> "verify", opened |-> NewFile(b), real |-> Real(b)]
      OBVIOUS
    <2>2. bodies' = [bodies EXCEPT ![b].io = Learnt(@, more)]
      BY <1>6, <2>1
    <2>3. /\ bodies'[b].io = Learnt(bodies[b].io, more) /\ bodies'[b].code = bodies[b].code
          /\ bodies'[b].state = "io"
      BY <1>3, <2>2, StepTurn
    <2>4. entries \subseteq entries' /\ <<Real(b), NewFile(b)>> \in entries'
      BY <1>6 DEF Put, File
    <2>5. "phase" \in DOMAIN more /\ more.phase = "verify" /\ Placed(Learnt(Io(b), more), Inst(b), entries')
      BY <1>4, <2>1, <2>4
    <2>6. PlaceIsKnown(b)'
      BY <2>3, <2>5 DEF PlaceIsKnown, Io, Inst
    <2>7. In(b, "verify")'
      BY <2>1, <2>3 DEF In, Io, Learnt
    <2>. QED BY <1>3, <1>6, <2>6, <2>7, OpenPinnedAdvances, MakingKeepsFiles
  <1>7. CASE Breaks(b)
    BY <1>3, <1>7, GivingUpKeepsFiles
  <1>. QED BY <1>5, <1>6, <1>7 DEF OpenPinned

\* What is opened is what was seen, and so it was reached by the one name it has.
LEMMA VerifyPinnedKeepsFiles ==
  ASSUME Inv, FInv, RootsStandFirm, NEW b \in Ids, VerifyPinned(b)
  PROVE  FInv'
  <1>1. In(b, "verify") /\ "verify" \in FilePhases \ {"scope", "stat", "root", "reopen"}
    BY DEF VerifyPinned, FilePhases
  <1>2. Placed(Io(b), Inst(b), entries) /\ Io(b).phase = "verify"
    BY <1>1, PlaceHolds
  <1>3. CASE Io(b).opened = Io(b).seen /\ Performs(b, Io(b).real, Io(b).opened) /\ UNCHANGED world
    <2>1. PICK root, real, id : root = Io(b).root /\ real = Io(b).real /\ id = Io(b).opened
      OBVIOUS
    <2>2. <<root, id>> \in entries /\ <<real, id>> \in entries /\ root \in Roots
      BY <1>2, <1>3, <2>1 DEF Placed
    <2>3. /\ <<root, id>>[1] = root /\ <<root, id>>[2] = id
          /\ <<real, id>>[1] = real /\ <<real, id>>[2] = id
      OBVIOUS
    <2>4. \A x, y \in entries : x[2] = y[2] => x[1] = y[1]
      BY DEF FInv, EntriesAreNamed
    <2>5. root = real
      BY <2>2, <2>3, <2>4
    <2>6. contained(root, real)
      BY <2>2, <2>5, RootsArePaths, PathContainsItself
    <2>. QED BY <1>1, <1>3, <2>1, <2>2, <2>6, FoundKeepsFiles
  <1>4. CASE Escapes(b)
    BY <1>1, <1>4, InIo, GivingUpKeepsFiles
  <1>. QED BY <1>3, <1>4 DEF VerifyPinned

LEMMA CreatePinnedKeepsFiles ==
  ASSUME Inv, FInv, RootsStandFirm, FilesKeepNames, NEW b \in Ids, CreatePinned(b)
  PROVE  FInv'
  <1>1. In(b, "create") /\ "create" \in FilePhases \ {"scope", "stat", "root", "reopen", "verify"}
    BY DEF CreatePinned, FilePhases
  <1>2. Io(b).pinned /\ Io(b).root \in Roots
    BY <1>1, PlaceHolds DEF Placed
  <1>3. Target(b) = Io(b).root /\ contained(Io(b).root, Target(b))
    BY <1>1, <1>2, PinnedTarget, RootsArePaths, PathContainsItself
  <1>4. CASE Put(Target(b), File(NewFile(b))) /\ Performs(b, Target(b), NewFile(b))
    <2>1. File(NewFile(b)) # Directory
      BY DEF File, Directory
    <2>. QED BY <1>1, <1>3, <1>4, <2>1, MadeKeepsFiles
  <1>5. CASE Escapes(b)
    BY <1>1, <1>5, InIo, GivingUpKeepsFiles
  <1>. QED BY <1>4, <1>5 DEF CreatePinned

\* A root that is one file is no place for a directory.
LEMMA MakeDirectoryKeepsFiles ==
  ASSUME Inv, FInv, RootsStandFirm, FilesKeepNames, NEW b \in Ids, MakeDirectory(b)
  PROVE  FInv'
  <1>1. In(b, "mkdir") /\ "mkdir" \in FilePhases \ {"scope", "stat", "root", "reopen", "verify"}
    BY DEF MakeDirectory, FilePhases
  <1>2. PICK root \in Roots :
          Io(b).root = root /\ Io(b).handle = IF Io(b).pinned THEN Front(root) ELSE root
    BY <1>1, PlaceHolds DEF Placed
  <1>3. Inst(b).op = "MKDIR"
    BY <1>1, PlaceHolds DEF Placed
  <1>4. ASSUME At(tree, Real(b)) \in {Directory, Absent}
        PROVE  contained(root, Real(b))
    <2>1. CASE Io(b).pinned
      <3>1. Target(b) = root
        BY <1>1, <1>2, <2>1, PinnedTarget
      <3>2. Resolve(tree, root) = root \/ Reached(tree, root).kind = "file"
        BY FirmPaths DEF FInv
      <3>3. Real(b) = root
        BY <1>4, <3>1, <3>2 DEF Real, Reached, Directory, Absent
      <3>. QED BY <3>3, RootsArePaths, PathContainsItself
    <2>2. CASE ~ Io(b).pinned
      BY <1>2, <2>2 DEF MakeDirectory, StaysIn
    <2>. QED BY <2>1, <2>2
  <1>5. CASE At(tree, Real(b)) = Directory /\ Performs(b, Real(b), None) /\ UNCHANGED world
    BY <1>1, <1>2, <1>3, <1>4, <1>5, FoundKeepsFiles
  <1>6. CASE /\ At(tree, Real(b)) = Absent /\ Put(Real(b), Directory)
             /\ Performs(b, Real(b), None)
    BY <1>1, <1>2, <1>3, <1>4, <1>6, MadeKeepsFiles
  <1>7. CASE Breaks(b)
    BY <1>1, <1>7, InIo, GivingUpKeepsFiles
  <1>. QED BY <1>5, <1>6, <1>7 DEF MakeDirectory

LEMMA PartOfPath ==
  ASSUME NEW p \in Seq(Name), NEW m \in Nat \ {0}, NEW n \in Int, n <= Len(p)
  PROVE  SubSeq(p, m, n) \in Seq(Name)
  <1>1. Len(p) \in Nat /\ \A i \in 1 .. Len(p) : p[i] \in Name
    OBVIOUS
  <1>2. \A i \in m .. n : p[i] \in Name
    BY <1>1
  <1>. QED BY <1>2, SubSeqProperties

LEMMA TargetIsPath ==
  ASSUME Inv, FInv, NEW b \in Ids, In(b, "replace")
  PROVE  Target(b) \in Seq(Name) /\ Front(Target(b)) \in Seq(Name)
  <1>1. "replace" \in FilePhases \ {"scope", "stat", "root", "reopen", "verify"}
    BY DEF FilePhases
  <1>2. PICK root \in Roots :
          /\ Io(b).root = root /\ Io(b).handle = IF Io(b).pinned THEN Front(root) ELSE root
          /\ Io(b).pinned \in BOOLEAN
    BY <1>1, PlaceHolds DEF Placed
  <1>3. bodies[b].code \in Code /\ bodies[b].code # <<>> /\ Inst(b).op = "STORE_PUT"
    BY <1>1, InIo, InsideInstruction, PlaceHolds DEF Placed
  <1>4. PICK path \in Seq(Name) : Inst(b).path = path
    BY <1>3, CodeAssumption DEF Inst
  <1>5. root \in Seq(Name) /\ Len(root) \in Nat /\ Len(path) \in Int /\ Len(path) <= Len(path)
    BY RootsArePaths
  <1>6. Target(b) \in Seq(Name)
    <2>1. CASE Io(b).pinned
      BY <1>1, <1>2, <1>5, <2>1, PinnedTarget
    <2>2. CASE ~ Io(b).pinned
      <3>1. Len(root) + 1 \in Nat \ {0}
        BY <1>5
      <3>2. SubSeq(path, Len(root) + 1, Len(path)) \in Seq(Name)
        BY <1>5, <3>1, PartOfPath
      <3>3. Target(b) = root \o SubSeq(path, Len(root) + 1, Len(path))
        BY <1>2, <1>4, <2>2 DEF Target
      <3>. QED BY <1>5, <3>2, <3>3, ConcatProperties
    <2>. QED BY <2>1, <2>2
  <1>7. Front(Target(b)) \in Seq(Name)
    <2>1. PICK t \in Seq(Name) : t = Target(b)
      BY <1>6
    <2>2. Len(t) - 1 \in Int /\ Len(t) - 1 <= Len(t) /\ 1 \in Nat \ {0}
      OBVIOUS
    <2>3. SubSeq(t, 1, Len(t) - 1) \in Seq(Name)
      BY <2>2, PartOfPath
    <2>. QED BY <2>1, <2>3 DEF Front
  <1>. QED BY <1>6, <1>7

\* A store replaces its file in a directory below its root, or at it.
LEMMA ReplaceTargetKeepsFiles ==
  ASSUME Inv, FInv, RootsStandFirm, FilesKeepNames, NEW b \in Ids, ReplaceTarget(b)
  PROVE  FInv'
  <1>1. In(b, "replace") /\ "replace" \in FilePhases \ {"scope", "stat", "root", "reopen", "verify"}
    BY DEF ReplaceTarget, FilePhases
  <1>2. PICK root \in Roots :
          /\ Io(b).root = root /\ Io(b).handle = IF Io(b).pinned THEN Front(root) ELSE root
          /\ Io(b).pinned => root # <<>>
    BY <1>1, PlaceHolds DEF Placed
  <1>3. Inst(b).op = "STORE_PUT"
    BY <1>1, PlaceHolds DEF Placed
  <1>4. PICK dir, p : dir = Resolve(tree, Front(Target(b))) /\ p = Append(dir, Last(Target(b)))
    OBVIOUS
  <1>5. CASE contained(Io(b).handle, dir) /\ Put(p, File(NewFile(b))) /\ Performs(b, p, NewFile(b))
    <2>1. contained(root, p)
      <3>1. CASE Io(b).pinned
        <4>1. Target(b) = root /\ root \in Seq(Name)
          BY <1>1, <1>2, <3>1, PinnedTarget, RootsArePaths
        <4>2. dir = Front(root)
          BY <1>2, <1>4, <3>1, <4>1, FirmPaths DEF FInv
        <4>3. p = root
          BY <1>2, <1>4, <3>1, <4>1, <4>2, FrontOfPath
        <4>. QED BY <4>1, <4>3, PathContainsItself
      <3>2. CASE ~ Io(b).pinned
        <4>1. Front(Target(b)) \in Seq(Name) /\ \A q \in DOMAIN tree : IsEntry(tree[q])
          BY <1>1, TargetIsPath DEF FInv, TreeIsFirm
        <4>2. dir \in Seq(Name)
          BY <1>4, <4>1, FollowedIsPath DEF Resolve
        <4>3. contained(root, dir) /\ root \in Seq(Name)
          BY <1>2, <1>5, <3>2, RootsArePaths
        <4>. QED BY <1>4, <4>2, <4>3, BelowTheSame
      <3>. QED BY <3>1, <3>2
    <2>. QED BY <1>1, <1>2, <1>3, <1>5, <2>1, MadeKeepsFiles
  <1>6. CASE Breaks(b) \/ Escapes(b)
    BY <1>1, <1>6, InIo, GivingUpKeepsFiles
  <1>. QED BY <1>4, <1>5, <1>6 DEF ReplaceTarget

LEMMA FilesKeepFiles ==
  ASSUME Inv, FInv, RootsStandFirm, FilesKeepNames, NEW b \in Ids, Files(b)
  PROVE  FInv'
  <1>1. CASE \E phase : Leaves(b, phase)
    BY <1>1, InIo, GivingUpKeepsFiles DEF Leaves
  <1>. QED BY <1>1, AuthorizeFileKeepsFiles, MatchRootKeepsFiles, StatRootKeepsFiles,
             OpenRootKeepsFiles, LstatTargetKeepsFiles, OpenTargetKeepsFiles, OpenPinnedKeepsFiles,
             VerifyPinnedKeepsFiles, CreatePinnedKeepsFiles, MakeDirectoryKeepsFiles,
             ReplaceTargetKeepsFiles
           DEF Files

-----------------------------------------------------------------------------
(* Bodies that start, end and wait.                                        *)

\* A body that stands still, gives up, goes past its instruction, or had made
\* up no name for it.
Passes(c) ==
  \/ bodies'[c] = bodies[c]
  \/ bodies[c].code # <<>> /\ bodies[c].code \in Code /\ bodies'[c].code = Tail(bodies[c].code)
  \/ /\ bodies'[c].code = bodies[c].code
     /\ \/ bodies'[c].state \in {"failing", "ended"}
        \/ bodies[c].state \in {"ready", "started", "waiting"}

LEMMA PassingKeepsSpent ==
  ASSUME \A c \in Ids : c \in Ids' /\ Passes(c)
  PROVE  SpentStays
  <1>1. ASSUME NEW c \in Ids, NEW n \in Nat, Spent(c, n)
        PROVE  Spent(c, n)'
    <2>1. CASE bodies'[c] = bodies[c]
      BY <1>1, <2>1 DEF Spent, In, Io
    <2>2. CASE bodies[c].code # <<>> /\ bodies[c].code \in Code /\ bodies'[c].code = Tail(bodies[c].code)
      <3>1. Len(bodies[c].code) \in Nat /\ Len(Tail(bodies[c].code)) = Len(bodies[c].code) - 1
        BY <2>2, CodeShrinks
      <3>. QED BY <1>1, <2>2, <3>1 DEF Spent
    <2>3. CASE bodies'[c].code = bodies[c].code /\ bodies'[c].state \in {"failing", "ended"}
      BY <1>1, <2>3 DEF Spent
    <2>4. CASE bodies'[c].code = bodies[c].code /\ bodies[c].state \in {"ready", "started", "waiting"}
      BY <1>1, <2>4 DEF Spent, In
    <2>. QED BY <2>1, <2>2, <2>3, <2>4 DEF Passes
  <1>. QED BY <1>1 DEF SpentStays

\* Steps between instructions have no part in files.
LEMMA PassingKeepsFiles ==
  ASSUME FInv, UNCHANGED world, performed' = performed, GrantsAreKnown',
         \A c \in Ids : c \in Ids' /\ Passes(c),
         \A c \in Ids' : bodies'[c].state = "io" => c \in Ids /\ bodies'[c] = bodies[c]
  PROVE  FInv'
  <1>1. tree' = tree /\ program' = program /\ entries' = entries
    BY DEF world
  <1>2. TreeIsFirm'
    BY <1>1, SameTreeIsFirm DEF FInv
  <1>3. EntriesAreNamed'
    BY <1>1, PassingKeepsSpent, SameEntriesStayNamed DEF FInv
  <1>4. PlacesAreKnown'
    <2>1. ASSUME NEW c \in Ids'
          PROVE  PlaceIsKnown(c)'
      <3>1. CASE bodies'[c].state = "io"
        <4>1. bodies'[c] = bodies[c] /\ PlaceIsKnown(c)
          BY <3>1 DEF FInv, PlacesAreKnown
        <4>. QED BY <1>1, <4>1 DEF PlaceIsKnown, Io, Inst
      <3>2. CASE bodies'[c].state # "io"
        BY <3>2 DEF PlaceIsKnown
      <3>. QED BY <3>1, <3>2
    <2>. QED BY <2>1 DEF PlacesAreKnown
  <1>5. FilesStayInRoots'
    BY <1>1, OperationsStayInRoots DEF FInv
  <1>. QED BY <1>2, <1>3, <1>4, <1>5 DEF FInv

\* A child's roots are its parent's or named by the instruction that starts it.
LEMMA StartingKeepsFiles ==
  ASSUME IInv, FInv, NEW b \in Ids, NEW child, NEW bs, Starting(b, child, bs), UNCHANGED world
  PROVE  FInv'
  <1>0. PICK new : new = Len(bodies) + 1
    OBVIOUS
  <1>1. BodiesAreRecords /\ bodies[b].code \in Code /\ bodies[b].code # <<>>
    BY DEF IInv, Inv, AInv, CodeIsKnown, Starting
  <1>2. /\ Ids' = Ids \cup {new} /\ new \notin Ids
        /\ bodies'[new] = child /\ child.state = "ready"
        /\ \A c \in Ids : bodies'[c] = bs[c]
    BY <1>0, <1>1, BodyAdded DEF Starting
  <1>3. /\ \A c \in Ids \ {b} : bodies'[c] = bodies[c]
        /\ bodies'[b] = bs[b] /\ bodies'[b].caps = bodies[b].caps
        /\ bodies'[b].state \in {"waiting", "ready"}
    BY <1>2 DEF Starting
  <1>4. \A c \in Ids : c \in Ids' /\ Passes(c)
    BY <1>1, <1>2, <1>3 DEF Passes, Starting
  <1>5. \A c \in Ids' : bodies'[c].state = "io" => c \in Ids /\ bodies'[c] = bodies[c]
    BY <1>2, <1>3
  <1>6. \A g \in child.caps : g.kind = "root" => g.path \in Roots
    <2>1. \A g \in child.caps : g \in Inst(b).grants \/ g \in Caps(b)
      BY DEF Starting, Attenuate
    <2>2. \A g \in Inst(b).grants : g.kind = "root" => g.path \in Roots
      BY <1>1, GrantedRootsAreKnown DEF Starting, Inst
    <2>. QED BY <2>1, <2>2 DEF FInv, GrantsAreKnown
  <1>7. GrantsAreKnown'
    <2>1. \A c \in Ids : bodies'[c].caps = bodies[c].caps
      BY <1>3
    <2>. QED BY <1>2, <1>6, <2>1 DEF FInv, GrantsAreKnown, Caps
  <1>8. performed' = performed
    BY DEF Starting
  <1>. QED BY <1>4, <1>5, <1>7, <1>8, PassingKeepsFiles

LEMMA SpawnsKeepFiles ==
  ASSUME IInv, FInv, NEW b \in Ids, Spawn(b) \/ SpawnAgent(b)
  PROVE  FInv'
  <1>1. bodies[b].state = "started" /\ UNCHANGED world /\ evidence' = evidence /\ Inv /\ BodiesAreRecords
    BY DEF Spawn, SpawnAgent, Starts, books, IInv, Inv, AInv
  <1>2. CASE Deny(b, "process")
    <2>1. Advances(b)
      BY <1>1, <1>2, DenyAdvances
    <2>. QED BY <1>1, <1>2, <2>1, FailingTurn, FailingKeepsFiles DEF Deny
  <1>3. CASE bodies' = [bodies EXCEPT ![b] = Failing(@, "LIMIT_EXCEEDED")] /\ performed' = performed
    <2>1. Advances(b) /\ bodies'[b].state = "failing"
      BY <1>1, <1>3, FailingAdvances, FailingTurn
    <2>. QED BY <1>1, <1>3, <2>1, FailingKeepsFiles
  <1>4. CASE \E child, bs : Starting(b, child, bs)
    BY <1>1, <1>4, StartingKeepsFiles
  <1>. QED BY <1>2, <1>3, <1>4, SpawnStarts, SpawnAgentStarts

LEMMA AgentEndsKeepsFiles ==
  ASSUME IInv, FInv, NEW b \in Ids, AgentEnds(b)
  PROVE  FInv'
  <1>1. UNCHANGED world /\ performed' = performed /\ BodiesAreRecords
    BY DEF AgentEnds, IInv, Inv, AInv
  <1>2. PICK p : p = bodies[b].parent
    OBVIOUS
  <1>3. /\ Ids' = Ids /\ p \in Ids /\ bodies[p].state = "waiting"
        /\ bodies[p].code # <<>> /\ bodies[p].code \in Code
        /\ bodies'[b].state = "ended" /\ bodies'[b].code = bodies[b].code
        /\ \/ bodies'[p].state = "failing" /\ bodies'[p].code = bodies[p].code
           \/ bodies'[p].state = "ready" /\ bodies'[p].code = Tail(bodies[p].code)
        /\ \A c \in Ids \ {b, p} : bodies'[c] = bodies[c]
        /\ \A c \in Ids : bodies'[c].caps = bodies[c].caps
    BY <1>2, AgentEndsTurns
  <1>4. \A c \in Ids : c \in Ids' /\ Passes(c)
    BY <1>3 DEF Passes
  <1>5. \A c \in Ids' : bodies'[c].state = "io" => c \in Ids /\ bodies'[c] = bodies[c]
    BY <1>3
  <1>6. GrantsAreKnown'
    BY <1>3 DEF FInv, GrantsAreKnown, Caps
  <1>. QED BY <1>1, <1>4, <1>5, <1>6, PassingKeepsFiles

LEMMA EndingKeepsFiles ==
  ASSUME Inv, FInv, NEW b \in Ids, bodies' = [bodies EXCEPT ![b].state = "ended"],
         UNCHANGED world, performed' = performed
  PROVE  FInv'
  <1>1. BodiesAreRecords
    BY DEF Inv, AInv
  <1>2. Turn(b) /\ bodies'[b].state = "ended" /\ bodies'[b].code = bodies[b].code
    BY <1>1, StateTurn
  <1>3. \A c \in Ids : c \in Ids' /\ Passes(c)
    BY <1>2 DEF Passes, Turn
  <1>4. \A c \in Ids' : bodies'[c].state = "io" => c \in Ids /\ bodies'[c] = bodies[c]
    BY <1>2 DEF Turn
  <1>5. GrantsAreKnown'
    BY <1>2 DEF FInv, GrantsAreKnown, Caps, Turn
  <1>. QED BY <1>3, <1>4, <1>5, PassingKeepsFiles

-----------------------------------------------------------------------------
(* The run.                                                                *)

\* Another process changes the tree, and with it no more than the tree.
LEMMA OutsideKeepsFiles ==
  ASSUME FInv, RootsStandFirm, FilesKeepNames, Outside
  PROVE  FInv'
  <1>1. bodies' = bodies /\ performed' = performed
    BY DEF Outside
  <1>2. PICK c \in program.changes : Put(c.path, c.entry)
    BY DEF Outside
  <1>3. program' = program /\ entries \subseteq entries'
    BY <1>2, PutAt
  <1>4. TreeIsFirm'
    BY <1>2, OutsideKeepsFirm DEF FInv
  <1>5. EntriesAreNamed'
    <2>1. SpentStays
      BY <1>1 DEF SpentStays, Spent, In, Io, Ids
    <2>2. c.entry.kind = "file" => <<c.path, c.entry.id>> \in Named(program)
      BY DEF Named
    <2>. QED BY <1>2, <2>1, <2>2, NamedStayNamed DEF FInv
  <1>6. GrantsAreKnown'
    BY <1>1 DEF FInv, GrantsAreKnown, Caps, Ids
  <1>7. PlacesAreKnown'
    <2>1. ASSUME NEW b \in Ids
          PROVE  PlaceIsKnown(b)'
      <3>1. PlaceIsKnown(b)
        BY DEF FInv, PlacesAreKnown
      <3>. QED BY <1>1, <1>3, <3>1 DEF PlaceIsKnown, Placed, Io, Inst
    <2>. QED BY <1>1, <2>1 DEF PlacesAreKnown, Ids
  <1>8. FilesStayInRoots'
    BY <1>1, <1>3, OperationsStayInRoots DEF FInv
  <1>. QED BY <1>4, <1>5, <1>6, <1>7, <1>8 DEF FInv

LEMMA StillKeepsFiles ==
  ASSUME FInv, bodies' = bodies, UNCHANGED world, performed' = performed
  PROVE  FInv'
  <1>1. Ids' = Ids /\ \A c \in Ids : c \in Ids' /\ Passes(c)
    BY DEF Ids, Passes
  <1>2. GrantsAreKnown'
    BY DEF FInv, GrantsAreKnown, Caps, Ids
  <1>. QED BY <1>1, <1>2, PassingKeepsFiles

LEMMA StepKeepsFiles ==
  ASSUME IInv, FInv, RootsStandFirm, FilesKeepNames, [Next]_vars
  PROVE  FInv'
  <1>1. Inv /\ 1 \in Ids
    BY DEF IInv, Inv, AInv, BodiesAreRecords, Ids
  <1>2. ASSUME NEW b \in Ids, Bodies(b)
        PROVE  FInv'
    <2>1. CASE Begin(b) \/ Limited(b) \/ ReadEnvironment(b) \/ UseDict(b) \/ Catch(b)
      BY <1>1, <2>1, PlainActsKeepFiles
    <2>2. CASE Files(b)
      BY <1>1, <2>2, FilesKeepFiles
    <2>3. CASE Fetches(b)
      BY <1>1, <2>3, FetchesKeepFiles
    <2>4. CASE AuthorizeProgram(b) \/ RunProgram(b)
      BY <1>1, <2>4, ProgramsKeepFiles
    <2>5. CASE Spawn(b) \/ SpawnAgent(b)
      BY <2>5, SpawnsKeepFiles
    <2>6. CASE AgentEnds(b) \/ DetachedEnds(b)
      <3>1. CASE AgentEnds(b)
        BY <3>1, AgentEndsKeepsFiles
      <3>2. CASE DetachedEnds(b)
        <4>1. /\ bodies' = [bodies EXCEPT ![b].state = "ended"]
              /\ UNCHANGED world /\ performed' = performed
          BY <3>2 DEF DetachedEnds
        <4>. QED BY <1>1, <4>1, EndingKeepsFiles
      <3>. QED BY <2>6, <3>1, <3>2
    <2>. QED BY <1>2, <2>1, <2>2, <2>3, <2>4, <2>5, <2>6 DEF Bodies
  <1>3. CASE CopyEvidence \/ Cancel \/ UNCHANGED vars
    BY <1>3, StillKeepsFiles DEF CopyEvidence, Cancel, vars, world
  <1>4. CASE Seal
    <2>1. /\ bodies' = [bodies EXCEPT ![1].state = "ended"]
          /\ UNCHANGED world /\ performed' = performed
      BY <1>4 DEF Seal
    <2>. QED BY <1>1, <2>1, EndingKeepsFiles
  <1>5. CASE Outside
    BY <1>5, OutsideKeepsFiles
  <1>. QED BY <1>2, <1>3, <1>4, <1>5 DEF Next, Main

LEMMA FilesBegin ==
  ASSUME Init, RootsStandFirm, FilesKeepNames
  PROVE  FInv
  <1> DEFINE main == Body("main", 0, program.caps, program.code)
  <1>1. main.state = "ready" /\ main.caps = program.caps
    BY DEF Body
  <1> HIDE DEF main
  <1>0. bodies = <<main>>
    BY DEF Init, main
  <1>2. /\ program \in Programs /\ tree = program.tree /\ performed = {}
        /\ entries = {<<p, tree[p].id>> : p \in {q \in DOMAIN tree : tree[q].kind = "file"}}
        /\ Ids = {1} /\ bodies[1] = main
    <2>1. Ids = {1} /\ bodies[1] = main
      BY <1>0 DEF Ids
    <2>. QED BY <2>1 DEF Init
  <1>3. TreeIsFirm
    <2>1. \A p \in DOMAIN tree : IsEntry(tree[p])
      BY <1>2, TreeAssumption
    <2>2. \A root \in Roots : \A i \in 1 .. Len(root) : At(tree, SubSeq(root, 1, i)).kind # "link"
      BY <1>2 DEF RootsStandFirm, LinksOn
    <2>3. \A p : SteadyFile(program, p) => LinksOn(tree, p) = {} /\ At(tree, p).kind = "file"
      BY <1>2 DEF SteadyFile
    <2>. QED BY <1>2, <2>1, <2>2, <2>3 DEF TreeIsFirm
  <1>4. EntriesAreNamed
    <2>1. \A p \in DOMAIN tree : tree[p].kind = "file" => <<p, tree[p].id>> \in entries
      BY <1>2
    <2>2. entries \subseteq Named(program)
      BY <1>2 DEF Named
    <2>3. \A x, y \in entries : x[2] = y[2] => x[1] = y[1]
      BY <1>2, <2>2 DEF FilesKeepNames
    <2>. QED BY <2>1, <2>2, <2>3 DEF EntriesAreNamed
  <1>5. GrantsAreKnown /\ PlacesAreKnown
    BY <1>1, <1>2, GrantedRootsAreKnown DEF GrantsAreKnown, PlacesAreKnown, PlaceIsKnown, Caps
  <1>6. FilesStayInRoots
    BY <1>2 DEF FilesStayInRoots
  <1>. QED BY <1>3, <1>4, <1>5, <1>6 DEF FInv

\* However another process replaces what paths name between the system calls of
\* an operation, it ends under the root that granted it, and one that was granted
\* a single file reads and writes a file of that name: as long as the roots are
\* where their paths say, and files keep their names.
THEOREM FilesInRoots ==
  ASSUME RootsStandFirm, FilesKeepNames
  PROVE  Spec => []FilesStayInRoots
  <1>1. Init => FInv
    BY FilesBegin
  <1>2. IInv /\ FInv /\ [Next]_vars => FInv'
    BY StepKeepsFiles
  <1>3. FInv => FilesStayInRoots
    BY DEF FInv
  <1>. QED BY <1>1, <1>2, <1>3, InvariantHolds, PTL DEF Spec
=============================================================================
