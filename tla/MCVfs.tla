------------------------------- MODULE MCVfs --------------------------------
(* Two processes, the names a (a link to b at boot) and b.                        *)
EXTENDS Vfs, TLC

Symmetry == Permutations(Threads)

Rel(elems) == [abs |-> FALSE, elems |-> elems]
Abs(elems) == [abs |-> TRUE, elems |-> elems]
Do(op, at, path, flag) == [op |-> op, at |-> at, path |-> path, to |-> None, flag |-> flag]

MCCalls ==
  {Do("open", "cwd", p, "creat") : p \in {Rel(<<"c">>), Rel(<<"a", "c">>)}}
  \cup {Do("open", "cwd", p, "none") : p \in {Rel(<<"b">>)}}
  \cup {Do("open", "cwd", Rel(<<"a">>), "nofollow")}
  \cup {Do("mkdir", "cwd", p, "none") : p \in {Rel(<<"c">>), Abs(<<"dev", "c">>)}}
  \cup {Do("mkdir", "fd", p, "none") : p \in {Rel(<<"c">>)}}
  \cup {Do("unlink", "cwd", p, "rmdir") : p \in {Rel(<<"c">>), Abs(<<"b">>), Rel(<<"dev">>), Rel(<<"b", ".">>), Abs(<<>>)}}
  \cup {Do("unlink", "cwd", p, "none") : p \in {Rel(<<"c">>), Rel(<<"c", "c">>)}}
  \cup {Do("chdir", "cwd", p, "none") : p \in {Rel(<<"a">>), Rel(<<"..">>), Rel(<<"c">>), Abs(<<"dev", "c">>)}}
  \cup {Do("stat", "cwd", Rel(<<"c">>), "none"), Do("readdir", "fd", Rel(<<>>), "none"),
        Do("readlink", "cwd", Abs(<<"a">>), "none")}
  \cup {[op |-> "link", at |-> "cwd", path |-> Rel(<<"c">>), to |-> p, flag |-> "none"] : p \in {Rel(<<"b">>), Abs(<<"b", "c">>)}}
=============================================================================
