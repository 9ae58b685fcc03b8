------------------------------ MODULE FtpSession ------------------------------
(***************************************************************************)
(* What an FTP command does to the session that sends it and to the files: *)
(* the functions behind the cases of processRecieve (Protocol/FTP/Base.cpp) *)
(* for login and directories, as operators on a session, a tree of files   *)
(* and an argument.  Module Ftp is the machine that applies them.          *)
(*                                                                         *)
(* A name is a sequence of letters, because the code glues a name onto a   *)
(* directory that has lost its final slash; a path is a sequence of names; *)
(* a tree maps the paths that exist below the session's home directory to  *)
(* what is there.                                                          *)
(***************************************************************************)
EXTENDS Integers, SequencesExt, Functions

Path == Seq(Seq(STRING))

Root == [path |-> <<>>, slash |-> TRUE]          \* "/"

\* SessionDataStruct as its constructor leaves it; `address' is whether PORT has
\* set ip and port.
NewSession ==
  [user |-> "none", loginPrompted |-> FALSE, loggedIn |-> FALSE, actualDir |-> Root,
   address |-> FALSE, isPassive |-> FALSE, passiveSock |-> 0]

-----------------------------------------------------------------------------
(* The files. *)

Kinds == {"dir", "empty", "full"}

\* DirectoryInfo::IsDir
IsDir(tree, path) == path = <<>> \/ (path \in DOMAIN tree /\ tree[path] = "dir")

Exists(tree, path) == path = <<>> \/ path \in DOMAIN tree

\* A path can be made: its parent is a directory.
HasParent(tree, path) == path # <<>> /\ IsDir(tree, Front(path))

\* A tree: every file is in a directory.
Grown(tree) == /\ DOMAIN tree \subseteq Path
               /\ \A p \in DOMAIN tree : tree[p] \in Kinds /\ HasParent(tree, p)

Put(tree, path, kind) == [p \in DOMAIN tree \union {path} |-> IF p = path THEN kind ELSE tree[p]]

\* remove(): a file, or a directory with nothing in it.
Removable(tree, path) ==
  path \in DOMAIN tree /\ \A p \in DOMAIN tree : p # path => ~IsPrefix(path, p)

Deleted(tree, path) == Restrict(tree, DOMAIN tree \ {path})

-----------------------------------------------------------------------------
(* Login: each operator gives the session and the reply, 0 for none. *)

\* USER; an empty name is refused.
User(s, name) ==
  CASE s.loginPrompted -> [session |-> s, reply |-> 0]
    [] ~s.loginPrompted /\ name = "" -> [session |-> s, reply |-> 500]
    [] OTHER -> [session |-> [s EXCEPT !.user = name, !.loginPrompted = TRUE], reply |-> 331]

\* PASS; `known' is whether the database has the name with this password.
Pass(s, known) ==
  IF ~s.loginPrompted THEN [session |-> s, reply |-> 0]
  ELSE IF s.user = "anonymous" \/ known
       THEN [session |-> [s EXCEPT !.loginPrompted = FALSE, !.loggedIn = TRUE], reply |-> 230]
       ELSE [session |-> [s EXCEPT !.loginPrompted = FALSE], reply |-> 530]

-----------------------------------------------------------------------------
(* Directories.  An argument is [to, path]: "abs" when it begins with a    *)
(* slash, "self" for ".", "up" for "..", else "name".                      *)

\* actualDir + name: without a final slash the name is glued onto the last one.
Concat(dir, path) ==
  IF dir.slash THEN dir.path \o path
  ELSE Front(dir.path) \o <<Last(dir.path) \o Head(path)>> \o Tail(path)

\* The file a DELE, RMD, STOR or RETR names.
Address(dir, arg) == IF arg.to = "abs" THEN arg.path ELSE Concat(dir, arg.path)

\* MKD makes no difference for a leading slash, which here separates.
NewDirectory(dir, arg) == IF arg.to = "abs" THEN dir.path \o arg.path ELSE Concat(dir, arg.path)

\* Mutant of Cdup: the root is not treated apart.
CdupPlain(s) ==
  [s EXCEPT !.actualDir = [path |-> SubSeq(@.path, 1, Len(@.path) - 1), slash |-> FALSE]]

\* CDUP: the result ends in a slash only at the root, and is not tested.
Cdup(s) ==
  [s EXCEPT !.actualDir =
     IF Len(@.path) <= 1 THEN Root ELSE [path |-> Front(@.path), slash |-> FALSE]]

\* CWD to a directory that is assigned before it is tested.
GoTo(s, tree, path) ==
  [session |-> [s EXCEPT !.actualDir = [path |-> path, slash |-> TRUE]],
   reply |-> IF IsDir(tree, path) THEN 200 ELSE 550]

\* CWD ".", "..", an absolute path, or a name, which is tested first.
Cwd(s, tree, arg) ==
  CASE arg.to = "self" -> [session |-> s,
                           reply |-> IF IsDir(tree, s.actualDir.path) THEN 200 ELSE 550]
    [] arg.to = "up" -> IF s.actualDir = Root THEN [session |-> s, reply |-> 200]
                     ELSE GoTo(s, tree, Front(s.actualDir.path))
    [] arg.to = "abs" -> GoTo(s, tree, arg.path)
    [] arg.to = "name" ->
         LET path == Concat(s.actualDir, arg.path)
         IN  IF IsDir(tree, path)
             THEN [GoTo(s, tree, path) EXCEPT !.reply = 250]
             ELSE [session |-> s, reply |-> 550]
=============================================================================
