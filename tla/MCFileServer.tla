---------------------------- MODULE MCFileServer ----------------------------
(***************************************************************************)
(* Instances of FileServer: two calls, two roots on different devices, one *)
(* of which allows everything.                                             *)
(***************************************************************************)
EXTENDS FileServer, TLC

CONSTANTS c1, c2, known, plain, zero

MCPaths == {<<"docs">>, <<"docs", "a">>, <<"docs", "b">>,
            <<"docs", "a", "a">>, <<"docs", "a", "b">>,
            <<"tmp">>, <<"tmp", "a">>}
MCNames == <<"a", "b">>
MCDevice == [docs |-> 1, tmp |-> 2]
MCLines == {c1, c2, known, plain, zero}
MCWanted == {c1, known}
AllTools == {"list_folder", "read_file", "write_file", "remove_file", "patch_file",
             "create_folder", "remove_folder", "stat_file", "hash_file",
             "permissions_file", "copy", "move", "grep", "glob"}
MCAllowed == [docs |-> AllTools, tmp |-> {"list_folder", "remove_folder", "copy", "move", "glob"}]

TreeOf(folders, files, texts) ==
    [tree |-> [p \in MCPaths |-> IF p \in folders THEN Dir
                                 ELSE IF p \in DOMAIN files THEN files[p] ELSE Absent],
     data |-> [i \in Files |-> IF i \in DOMAIN texts THEN texts[i] ELSE <<>>],
     nextFile |-> Len(texts) + 1]

MCTrees ==
    {TreeOf({<<"docs">>, <<"tmp">>, <<"docs", "a">>},
            <<"docs", "a", "a">> :> 1 @@ <<"docs", "b">> :> 2,
            <<<<known, plain>>, <<plain, zero>>>>),
     TreeOf({<<"docs">>, <<"tmp">>}, <<"tmp", "a">> :> 1, <<<<known>>>>)}

MCWindows == {[by |-> "all", offset |-> -1, limit |-> -1],
              [by |-> "lines", offset |-> 2, limit |-> 1],
              [by |-> "lines", offset |-> 0, limit |-> 1],
              [by |-> "bytes", offset |-> 1, limit |-> -1]}
\* The rest of a file from behind its end
MCFarWindows == {[by |-> "bytes", offset |-> 3, limit |-> -1]}
MCSearches == {[max |-> 1, depth |-> -1], [max |-> 9, depth |-> 0]}
MCGlobs == {[max |-> 2, depth |-> -1, type |-> "all", deep |-> TRUE, prefix |-> <<>>, last |-> <<{"a"}>>],
            [max |-> 9, depth |-> 0, type |-> "file", deep |-> TRUE, prefix |-> <<"a">>, last |-> <<{"b"}>>],
            [max |-> 9, depth |-> -1, type |-> "all", deep |-> FALSE, prefix |-> <<>>, last |-> <<{"a", "b"}>>]}

ASSUME SearchesAreProper == ProperSearches

Swap == Permutations({c1, c2})
=============================================================================
