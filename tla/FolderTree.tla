----------------------------- MODULE FolderTree -----------------------------
(***************************************************************************)
(* Torrent::content: the tree of folders made from the server's list of    *)
(* files, one FolderPrivate::addPath per file.                             *)
(*                                                                         *)
(* A path is a sequence of characters, among them the separator; a name is *)
(* a path without one, possibly empty.  A folder is identified by the      *)
(* names that lead to it from the root folder <<>>, which stands for the   *)
(* torrent itself.  A step is an iteration of one of the loops; an         *)
(* exception that leaves the function, and a write through the null        *)
(* pointer insert returns, end it.                                         *)
(***************************************************************************)
EXTENDS Integers, Sequences

CONSTANTS
  Characters,   \* of the names
  Separator,    \* '/'
  Paths,        \* the names of files a server may list
  MaxFiles      \* bound: the length of its list

ASSUME FolderTreeAssumption ==
  /\ Separator \notin Characters
  /\ Paths \subseteq Seq(Characters \cup {Separator})
  /\ MaxFiles \in Nat

VARIABLES
  files,     \* the paths listed
  stats,     \* the length of the list fileStats that comes with it
  it,        \* content's loop: the files added
  names,     \* addPath: the names of the path being added, last one first
  level,     \* addPath's loop
  node,      \* addPath: the folder it is in
  folders,   \* the folders of the tree
  entries,   \* its files: the folder, the name and the id
  status     \* "next" file, "adding" one, "done", "threw" or "crashed"

vars == <<files, stats, it, names, level, node, folders, entries, status>>

-----------------------------------------------------------------------------
\* The last position before end that holds wanted, or 0, as a null pointer is
\* before any other.
rfind_char(string, end, wanted) ==
  LET found == {i \in 1 .. end - 1 : string[i] = wanted}
  IN  IF found = {} THEN 0 ELSE CHOOSE i \in found : \A j \in found : j <= i

\* mutant: the loop goes on to a separator at the beginning
rsplitToTheStart(path) ==
  LET From[end \in 1 .. Len(path) + 1] ==
        LET separator == rfind_char(path, end, Separator)
        IN  IF separator > 0
            THEN <<SubSeq(path, separator + 1, end - 1)>> \o From[separator]
            ELSE <<>>
  IN  From[Len(path) + 1]

\* mutant: the separator stays
rsplitWithSeparator(path) ==
  LET From[end \in 1 .. Len(path) + 1] ==
        LET separator == rfind_char(path, end, Separator)
        IN  IF separator > 1
            THEN <<SubSeq(path, separator, end - 1)>> \o From[separator]
            ELSE <<>>
  IN  From[Len(path) + 1]

\* The names after each separator, from the last one on; one at the beginning of
\* the path does not count, nor does what is before the first that does.
rsplit(path) ==
  LET From[end \in 1 .. Len(path) + 1] ==
        LET separator == rfind_char(path, end, Separator)
        IN  IF separator > 1
            THEN <<SubSeq(path, separator + 1, end - 1)>> \o From[separator]
            ELSE <<>>
  IN  From[Len(path) + 1]

\* mutant: the folders are not told apart
HasFileAnywhere(folder, name) == \E e \in entries : e.name = name

\* FolderPrivate::insert(File) fails
HasFile(folder, name) == \E e \in entries : e.folder = folder /\ e.name = name

-----------------------------------------------------------------------------
Init ==
  /\ \E n \in 0 .. MaxFiles : files \in [1 .. n -> Paths] /\ stats \in {n, n - 1} \cap Nat
  /\ it = 0
  /\ names = <<>> /\ level = 0 /\ node = <<>>
  /\ folders = {<<>>}
  /\ entries = {}
  /\ status = "next"

\* content's loop goes on with a file: fileStats.at(it) throws, or addPath begins.
BeginPath ==
  /\ status = "next"
  /\ it < Len(files)
  /\ IF it < stats
     THEN /\ status' = "adding"
          /\ names' = rsplit(files[it + 1])
          /\ level' = IF names' = <<>> THEN 0 ELSE Len(names') - 1
          /\ node' = <<>>
     ELSE status' = "threw" /\ UNCHANGED <<names, level, node>>
  /\ UNCHANGED <<files, stats, it, folders, entries>>

EndContent ==
  /\ status = "next"
  /\ it = Len(files)
  /\ status' = "done"
  /\ UNCHANGED <<files, stats, it, names, level, node, folders, entries>>

\* mutant: the loop starts again with the same name
DescendForever ==
  /\ status = "adding"
  /\ level >= 1
  /\ node' = <<names[level + 1]>>
  /\ folders' = folders \cup {node'}
  /\ UNCHANGED <<files, stats, it, names, level, entries, status>>

\* mutant: a folder not found is inserted in the root
DescendFromRoot ==
  /\ status = "adding"
  /\ level >= 1
  /\ LET found == Append(node, names[level + 1])
     IN  IF found \in folders
         THEN node' = found /\ UNCHANGED folders
         ELSE node' = <<names[level + 1]>> /\ folders' = folders \cup {node'}
  /\ level' = level - 1
  /\ UNCHANGED <<files, stats, it, names, entries, status>>

\* find, or insert, the next folder.
Descend ==
  /\ status = "adding"
  /\ level >= 1
  /\ node' = Append(node, names[level + 1])
  /\ folders' = folders \cup {node'}
  /\ level' = level - 1
  /\ UNCHANGED <<files, stats, it, names, entries, status>>

\* names.at(0) throws, insert returns null, or the file is there and gets its id.
InsertFile ==
  /\ status = "adding"
  /\ level = 0
  /\ IF names = <<>>
     THEN status' = "threw" /\ UNCHANGED <<entries, it>>
     ELSE IF HasFile(node, names[1])
     THEN status' = "crashed" /\ UNCHANGED <<entries, it>>
     ELSE /\ entries' = entries \cup {[folder |-> node, name |-> names[1], id |-> it]}
          /\ it' = it + 1
          /\ status' = "next"
  /\ UNCHANGED <<files, stats, names, level, node, folders>>

Next == BeginPath \/ EndContent \/ Descend \/ InsertFile

\* The thread that calls content goes on until it is done.
Spec == Init /\ [][Next]_vars /\ WF_vars(Next)

-----------------------------------------------------------------------------
Names == Seq(Characters)

TypeOK ==
  /\ files \in Seq(Paths) /\ Len(files) <= MaxFiles
  /\ stats \in 0 .. Len(files)
  /\ it \in 0 .. Len(files)
  /\ names \in Seq(Names)
  /\ level \in Nat /\ (level = 0 \/ level < Len(names))
  /\ node \in Seq(Names)
  /\ folders \subseteq Seq(Names)
  /\ \A e \in entries :
       e.folder \in Seq(Names) /\ e.name \in Names /\ e.id \in 0 .. Len(files) - 1
  /\ status \in {"next", "adding", "done", "threw", "crashed"}

\* The separators of a path that end a name of a folder, and the path below the
\* first folder, which is the torrent's own.
Inner(path)     == {i \in 2 .. Len(path) : path[i] = Separator}
BelowRoot(path) ==
  LET first == CHOOSE i \in Inner(path) : \A j \in Inner(path) : i <= j
  IN  SubSeq(path, first + 1, Len(path))

\* The path of a file in the tree, as the server writes it.
PathOf(e) ==
  LET Joined[i \in 0 .. Len(e.folder)] ==
        IF i = 0 THEN <<>> ELSE Joined[i - 1] \o e.folder[i] \o <<Separator>>
  IN  Joined[Len(e.folder)] \o e.name

\* Every file added so far is in the tree at its path below the torrent, under its
\* index in the server's list, and no other is: what setWantedFiles and
\* setSkippedFiles send as the id of a File of the tree is the file meant.
FilesAreWhereListed ==
  /\ {e.id : e \in entries} = 0 .. it - 1
  /\ \A e, f \in entries : e.id = f.id => e = f
  /\ \A e \in entries :
       /\ Inner(files[e.id + 1]) # {}
       /\ PathOf(e) = BelowRoot(files[e.id + 1])

\* The tree has the folders on the way to its files, and to the file being added,
\* and no other: no folder without a file, none that cannot be reached.
FoldersAreOnTheWay ==
  LET open == {e.folder : e \in entries} \cup (IF status = "next" THEN {} ELSE {node})
  IN  folders = {<<>>} \cup UNION {{SubSeq(f, 1, n) : n \in 0 .. Len(f)} : f \in open}

\* content throws for a file that is in no folder, or has no fileStats, and
\* crashes for a second file of the same path; it ends well for any other list.
EndsWellUnless ==
  LET file == files[it + 1]
  IN  /\ status = "threw" => Inner(file) = {} \/ stats <= it
      /\ status = "crashed" =>
           \E i \in 1 .. it : Inner(files[i]) # {} /\ BelowRoot(files[i]) = BelowRoot(file)
      /\ status = "done" =>
           /\ \A i \in 1 .. Len(files) : Inner(files[i]) # {}
           /\ \A i, j \in 1 .. Len(files) :
                BelowRoot(files[i]) = BelowRoot(files[j]) => i = j

\* content returns, or ends otherwise, whatever the server lists (the loops of
\* addPath and rsplit count down on unsigned integers).
ContentEnds == <>(status \in {"done", "threw", "crashed"})
=============================================================================
