------------------------------ MODULE MCFiles ------------------------------
(***************************************************************************)
(* Small instances of Files for TLC.                                       *)
(***************************************************************************)
EXTENDS Files

CONSTANTS p1, p2

c(op, path) == [op |-> op, path |-> path, new |-> <<>>, arg |-> "w"]
link(old, new) == [op |-> "link", path |-> old, new |-> new, arg |-> ""]

\* One process works from above the directory d, the other one may be in it.
MCCalls ==
    (p1 :> {c("mkdir", <<"d">>), c("creat", <<"/", "d", "f">>), c("unlink", <<"d">>),
            c("unlink", <<"d", "f">>), link(<<"d", "f">>, <<"f">>),
            c("close", <<>>), c("exit", <<>>)})
 @@ (p2 :> {c("chdir", <<"d">>), c("unlink", <<"f">>), c("open", <<"f">>),
            link(<<"f">>, <<"d", "f">>), c("fork", <<>>), c("dup", <<>>),
            c("mknod", <<"f">>), c("close", <<>>)})

MCMaxCalls == (p1 :> 3) @@ (p2 :> 2)

\* One process makes a directory in a directory and removes both, the other one goes in
\* and uses "..".
DotCalls ==
    (p1 :> {c("mkdir", <<"d">>), c("mkdir", <<"d", "d">>), c("unlink", <<"d", "d">>),
            c("unlink", <<"d">>)})
 @@ (p2 :> {c("chdir", <<"d", "d">>), c("chdir", <<"..">>), c("unlink", <<"..", "d">>),
            c("creat", <<"..">>), link(<<"/", "f">>, <<"..">>), c("unlink", <<"..">>)})

DotMaxCalls == (p1 :> 4) @@ (p2 :> 2)

\* Create and unlink of one name.
MCPair == (p1 :> {c("creat", <<"f">>)}) @@ (p2 :> {c("unlink", <<"f">>)})

MCOne == [p \in Procs |-> 1]
=============================================================================
