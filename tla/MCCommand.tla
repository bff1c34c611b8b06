----------------------------- MODULE MCCommand ------------------------------
(***************************************************************************)
(* A namespace with a content and an empty namespace: the smallest listing *)
(* where a call of Parallelize has several inputs and another one nests in *)
(* it, which needs the same token. The specification files have one label  *)
(* each.                                                                   *)
(***************************************************************************)
EXTENDS Command

\* lsnsRecurs of the root and of its child; their two functions; the
\* entries whose metadata is read.
MCNodes == {"walk", "metas", "subs", "file", "dir", "walkDir", "metasDir", "subsDir"}
MCLaunchers == {"walk", "walkDir"}
MCCollectors == {"metas", "subs", "metasDir", "subsDir"}
MCChildren ==
    [n \in MCNodes |->
        CASE n = "walk"     -> {"metas", "subs"}
          [] n = "metas"    -> {"file", "dir"}
          [] n = "subs"     -> {"walkDir"}
          [] n = "walkDir"  -> {"metasDir", "subsDir"}
          [] OTHER          -> {}]

\* CabriPlumberDefaultConfig, with a smaller limit for GetMetas.
MCRegulator ==
    [n \in MCNodes |->
        CASE n \in {"metas", "metasDir"} -> "GetMetas"
          [] n \in {"subs", "subsDir"}   -> "LsnsMetas"
          [] OTHER                       -> ""]
MCLimits == [r \in {"GetMetas", "LsnsMetas", ""} |-> IF r = "GetMetas" THEN 1 ELSE 0]

Entry(periodic, cont, exit, actions) ==
    [periodic |-> periodic, continueOnError |-> cont, exitOnError |-> exit, actions |-> actions]

\* One supported action; two with git; an unsupported type before another.
MCSpecs == {[l \in {"a"} |-> e] :
              e \in {Entry(TRUE, FALSE, TRUE, <<"cmd">>),
                     Entry(TRUE, TRUE, FALSE, <<"git", "cmd">>),
                     Entry(TRUE, TRUE, FALSE, <<"cabriSync", "cmd">>)}}
=============================================================================
