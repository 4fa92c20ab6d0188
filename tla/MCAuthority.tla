----------------------------- MODULE MCAuthority ----------------------------
(* Small runs of Authority, one for each thing that can interfere.         *)
EXTENDS Authority, TLC

d == <<"d">>
f == <<"d", "f">>
g == <<"d", "g">>
x == <<"e", "x">>

Disk ==
  [p \in {d, f, g, <<"e">>, x, <<"bin">>} |->
     CASE p = f -> File(<<"f1">>) [] p = g -> File(<<"g1">>) [] p = x -> File(<<"x1">>)
       [] p = <<"bin">> -> File(<<"bin">>) [] OTHER -> Directory]

\* What the other process does to the name f.
Swaps == {[path |-> f, entry |-> e] :
            e \in {Absent, Directory, File(<<"f2">>), Link(g), Link(x)}}

\* Below the root, a directory on the way to s gives place to a link.
s == <<"d", "s", "x">>
Detours == {[path |-> <<"d", "s">>, entry |-> e] : e \in {Directory, Link(<<"e">>), Link(d)}}

Op(op, path) == [op |-> op, path |-> path, caught |-> TRUE]
Get(url) == [op |-> "FETCH", url |-> url, caught |-> FALSE]
Env == [op |-> "ENV", caught |-> FALSE]
Call(args) == [op |-> "EXEC", path |-> <<"bin">>, args |-> args, caught |-> TRUE]
Map(op, dict) == [op |-> op, dict |-> dict, caught |-> FALSE]
Detach(grants, body) ==
  [op |-> "SPAWN", grants |-> grants, body |-> body, caught |-> FALSE]
Agent(grants, body) ==
  [op |-> "SPAWN_AGENT", grants |-> grants, body |-> body, caught |-> FALSE]

Run(caps, code) ==
  [caps |-> caps, tree |-> Disk, changes |-> {}, deadline |-> FALSE, code |-> code]
Disturbed(caps, code) == [Run(caps, code) EXCEPT !.changes = Swaps]
Detoured(caps, code) ==
  [Run(caps, code) EXCEPT !.changes = Detours, !.tree = (<<"d", "s">> :> Directory) @@ @]
Timed(caps, code) == [Run(caps, code) EXCEPT !.deadline = TRUE]

Url(scheme, host) ==
  [scheme |-> scheme, host |-> host, port |-> DefaultPort(scheme), user |-> FALSE]
MCUrls ==
  {Url("https", "api"), Url("http", "api"), Url("https", "cdn"), Url("http", "localhost"),
   [Url("https", "api") EXCEPT !.user = TRUE]}
MCHostKind == [h \in {"api", "cdn", "localhost", "10.0.0.1"} |->
                 CASE h = "localhost" -> "localhost" [] h = "10.0.0.1" -> "literal"
                   [] OTHER -> "name"]

\* The exec grant of the runs: a first argument that is a star, then any.
MCEscaped == "\\*" :> "*"

Process == Coarse("process")
Everything == {Process, Coarse("environment"), Coarse("database"), Coarse("filesystem"),
               Exec(<<"bin">>, <<"\\*", "**">>), Fetch("api", 0)}

FileRuns ==
  {Disturbed({Root("read", root), Root("write", root), Coarse("database")}, <<Op(op, f)>>) :
     root \in {d, f}, op \in {"READ_FILE", "WRITE_FILE", "MKDIR", "STORE_PUT"}}
  \cup {Detoured({Root("read", d), Root("write", d), Coarse("database")},
                  <<Op(op, s), Op("READ_FILE", s)>>) :
            op \in {"WRITE_FILE", "MKDIR", "STORE_PUT"}}
  \cup {Disturbed({Process, Root("read", f), Root("write", d)},
                   <<Detach({Root("write", f)}, <<Op("WRITE_FILE", f)>>),
                     Op("READ_FILE", f)>>)}
  \cup {Disturbed({Root("read", d), Root("write", f)}, <<Op("WRITE_FILE", f), Op("WRITE_FILE", g)>>),
        Run({Coarse("filesystem")}, <<Op("WRITE_FILE", x), Op("MKDIR", Append(d, "h"))>>),
        Run({Root("write", d)}, <<Op("WRITE_FILE", Append(d, "h")), Op("MKDIR", Append(d, "i")),
                                  Op("READ_FILE", Append(d, "h"))>>)}

FetchRuns ==
  {Run({Fetch("api", 0), Fetch("api", 80), Fetch("cdn", 443), Fetch("localhost", 0)}, <<Get(u)>>) :
     u \in {Url("https", "api"), Url("http", "api"), Url("http", "localhost")}}
  \cup {Run({Fetch("10.0.0.1", 0)}, <<Get(Url("http", "10.0.0.1"))>>),
        Run({Coarse("network")}, <<Get(Url("http", "api"))>>)}

ChildRuns ==
  {Run(Everything, <<Agent({Root("read", d), Process},
                           <<Detach({Root("read", f)}, <<Op("READ_FILE", f), Op("READ_FILE", g)>>),
                             Op("READ_FILE", g), Env>>),
                     Call(<<"*", "-x">>)>>),
   Run(Everything, <<Detach({InheritFilesystem, Coarse("environment")},
                            <<Env, Op("READ_FILE", x), Env>>), Env, Call(<<"b">>)>>),
   Run({Process, Root("read", d)}, <<Agent({Root("read", <<"e">>)}, <<>>)>>),
   Run({Process, Root("read", f)}, <<Detach({Root("read", d)}, <<Op("READ_FILE", g)>>)>>),
   Run({Process, Coarse("environment")},
       <<Agent({Process}, <<Agent({Process}, <<Agent({}, <<>>)>>)>>), Env>>),
   Timed({Process, Coarse("environment")},
         <<Detach({Coarse("environment")}, <<Env, Env>>), Agent({}, <<Env>>), Env>>)}

DictRuns ==
  {Run({Process}, <<Map("MAKE_DICT", "m"), Map("MAP_SET", "m"), Map("MAP_GET", "m"),
                    Agent({}, <<Map("MAP_SET", "m")>>), Map("MAP_SET", "n")>>),
   Run({Process}, <<Map("MAKE_DICT", "m"), Detach({}, <<Map("MAP_SET", "m")>>),
                    Map("MAP_SET", "n"), Map("MAP_SET", "m")>>),
   Run({}, <<Map("MAP_SET", "m"), Map("MAP_SET", "n"), Map("MAP_SET", "o")>>),
   Run({}, <<Map("MAP_SET", "m"), Map("MAP_SET", "n"), Map("MAP_SET", "n"), Map("MAP_SET", "n"),
             Map("MAP_SET", "n")>>)}

MCPrograms == FileRuns \cup FetchRuns \cup ChildRuns \cup DictRuns

Started(codes) ==
  UNION {{c[k].body : k \in {j \in DOMAIN c : c[j].op \in {"SPAWN", "SPAWN_AGENT"}}} : c \in codes}

\* No body of these runs is more than three levels below the main one.
MCCode ==
  LET main == {r.code : r \in MCPrograms}
      below == Started(main)
      deeper == Started(below)
  IN  UNION {Suffixes(c) : c \in main \cup below \cup deeper \cup Started(deeper)}

MCName == {"d", "e", "f", "g", "h", "i", "s", "x", "bin"}

\* The runs are such as FilesStayInRoots is proved for.
ASSUME RootsStandFirm /\ FilesKeepNames
=============================================================================
