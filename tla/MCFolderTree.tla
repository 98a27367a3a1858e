---------------------------- MODULE MCFolderTree ----------------------------
(***************************************************************************)
(* Instances of FolderTree for TLC.                                        *)
(***************************************************************************)
EXTENDS FolderTree

S == Separator

\* t is the torrent: a file by itself, in folders, with names in common, empty
\* names, a separator at either end, and without the torrent's folder
SomePaths ==
  {<<"t">>, <<S, "t">>, <<"t", S, "a">>, <<"t", S, "b">>, <<"t", S, "a", S, "b">>,
   <<"t", S, "b", S, "a">>, <<"t", S, "a", S, "b", S, "a">>, <<"t", S, "a", S>>,
   <<S, "t", S, "a">>, <<"t", S, S, "a">>, <<"t", S, "a", "b", S, "a">>}
=============================================================================
