------------------------------- MODULE Grants -------------------------------
(***************************************************************************)
(* What a set of grants allows, and how a body's grants are derived from   *)
(* its parent's (internal/capability).                                     *)
(*                                                                         *)
(* A grant is a record tagged with its kind: a coarse capability, a        *)
(* filesystem root for a mode, a program with an argument pattern, or a    *)
(* host that may be fetched.  A path is the sequence of its names.  The    *)
(* directory tree is a parameter, since other processes change it.         *)
(***************************************************************************)
EXTENDS Naturals, Sequences, SequencesExt

Coarse(c) == [kind |-> "coarse", cap |-> c]
Root(mode, path) == [kind |-> "root", mode |-> mode, path |-> path]
Exec(program, pattern) == [kind |-> "exec", program |-> program, pattern |-> pattern]
Fetch(host, port) == [kind |-> "fetch", host |-> host, port |-> port]

HasCoarse(caps, c) == Coarse(c) \in caps

Has(caps, c) ==
  \/ HasCoarse(caps, c)
  \/ c = "filesystem" /\ \E g \in caps : g.kind = "root"
  \/ c = "process" /\ \E g \in caps : g.kind = "exec"

-----------------------------------------------------------------------------
(* The directory tree: what each path names.                               *)

Absent == [kind |-> "absent"]
Directory == [kind |-> "directory"]
File(id) == [kind |-> "file", id |-> id]
Link(path) == [kind |-> "link", to |-> path]

At(tree, p) ==
  IF p = <<>> THEN Directory ELSE IF p \in DOMAIN tree THEN tree[p] ELSE Absent

LinksOn(tree, p) == {i \in 1 .. Len(p) : At(tree, SubSeq(p, 1, i)).kind = "link"}

\* A path with the first link on it replaced by where that leads.
Follow(tree, p) ==
  IF LinksOn(tree, p) = {} THEN p
  ELSE LET i == CHOOSE j \in LinksOn(tree, p) : \A k \in LinksOn(tree, p) : j <= k
       IN  At(tree, SubSeq(p, 1, i)).to \o SubSeq(p, i + 1, Len(p))

\* No path of the trees considered goes through more than two links.
Resolve(tree, p) == Follow(tree, Follow(tree, p))

Reached(tree, p) == At(tree, Resolve(tree, p))

\* resolveAncestor fails closed on a link that leads nowhere.
Dangles(tree, p) ==
  \E i \in LinksOn(tree, p) : Reached(tree, SubSeq(p, 1, i)) = Absent

-----------------------------------------------------------------------------
(* Filesystem grants.                                                      *)

contained(root, target) == IsPrefix(root, target)

Names(g, mode, path) == g.kind = "root" /\ g.mode = mode /\ contained(g.path, path)

Matches(tree, g, mode, path) ==
  /\ Names(g, mode, path)
  /\ ~Dangles(tree, g.path) /\ ~Dangles(tree, path)
  /\ contained(Resolve(tree, g.path), Resolve(tree, path))

Allows(tree, caps, mode, path) ==
  HasCoarse(caps, "filesystem") \/ \E g \in caps : Matches(tree, g, mode, path)

-----------------------------------------------------------------------------
(* Exec grants.  "*" stands for one argument that is not empty and no      *)
(* flag, a last "**" for any number of arguments; a backslash in front of  *)
(* either, or of anything else, stands for what follows it.                *)

CONSTANTS
  Flags,    \* the arguments that start with "-"
  Escaped   \* of each slot that starts with a backslash, the rest

slotMatches(slot, arg) ==
  IF slot = "*" THEN arg \notin Flags \cup {""}
  ELSE arg = IF slot \in DOMAIN Escaped THEN Escaped[slot] ELSE slot

argvMatches(pattern, args) ==
  LET open == pattern # <<>> /\ Last(pattern) = "**"
      slots == IF open THEN Front(pattern) ELSE pattern
  IN  /\ IF open THEN Len(args) >= Len(slots) ELSE Len(args) = Len(slots)
      /\ \A i \in DOMAIN slots : slotMatches(slots[i], args[i])

GrantsExec(g, program, args) ==
  g.kind = "exec" /\ g.program = program /\ argvMatches(g.pattern, args)

\* The program must be named by its own path, without links.
AuthorizesExec(tree, caps, program, args) ==
  /\ Resolve(tree, program) = program /\ At(tree, program) # Absent
  /\ \E g \in caps : GrantsExec(g, program, args)

-----------------------------------------------------------------------------
(* Fetch grants.  A URL is a record of its scheme, its host, its effective *)
(* port and whether it carries user information; a grant without a port    *)
(* (0) means the scheme's own.                                             *)

DefaultPort(scheme) == IF scheme = "https" THEN 443 ELSE 80

GrantsFetch(g, url) ==
  /\ g.kind = "fetch" /\ g.host = url.host
  /\ \/ g.port = url.port
     \/ g.port = 0 /\ url.port = DefaultPort(url.scheme)

AuthorizesFetch(caps, url) == \E g \in caps : GrantsFetch(g, url)

-----------------------------------------------------------------------------
(* Attenuation: a child asks for grants its parent holds, or for whatever  *)
(* filesystem grants its parent has.                                       *)

InheritFilesystem == [kind |-> "inherit"]

\* Mutant: the held root must lie below the requested one.
CoversAbove(caps, g) ==
  \/ g.kind # "root" /\ g \in caps
  \/ g.kind = "root" /\ \E held \in caps :
       held.kind = "root" /\ held.mode = g.mode /\ contained(g.path, held.path)

Covers(caps, g) ==
  \/ g.kind # "root" /\ g \in caps
  \/ g.kind = "root" /\ HasCoarse(caps, "filesystem")
  \/ g.kind = "root" /\ \E held \in caps : Names(held, g.mode, g.path)

MayAttenuate(caps, requested) ==
  \A g \in requested : g = InheritFilesystem \/ Covers(caps, g)

Attenuate(caps, requested) ==
  (requested \ {InheritFilesystem})
    \cup {g \in caps : /\ InheritFilesystem \in requested
                       /\ g.kind = "root" \/ g = Coarse("filesystem")}
=============================================================================
