--------------------------------- MODULE MCFtp ---------------------------------
(***************************************************************************)
(* Model checking of Ftp: the commands of each behaviour.                  *)
(***************************************************************************)
EXTENDS Ftp

Arg(to, path) == [to |-> to, path |-> path]
Name(name) == Arg("name", <<<<name>>>>)

Freely(n, them) == [i \in 1 .. n |-> them]

Login == <<{[is |-> "user", name |-> "anonymous"]}, {[is |-> "pass", known |-> FALSE]}>>

\* A login, and n commands.
Then(n, them) == Login \o Freely(n, them)

Does(plan, leave) ==
  [plan |-> plan, leave |-> leave, held |-> {0},
   files |-> <<<<"a">>>> :> "dir" @@ <<<<"f">>>> :> "full"]

Pasv == [is |-> "pasv"]
Port == [is |-> "port"]
List == [is |-> "list"]
Retr(name) == [is |-> "retr", arg |-> Name(name)]
Stor(name) == [is |-> "stor", arg |-> Name(name)]

\* Logins of all kinds, and commands that want one.
Logins ==
  Does(<<Freely(5, {[is |-> "user", name |-> name] : name \in {"anonymous", "joe", ""}}
                   \union {[is |-> "pass", known |-> known] : known \in BOOLEAN}
                   \union {[is |-> "type"], [is |-> "noop"], [is |-> "mkd", arg |-> Name("b")]})>>,
       {})

Directories ==
  LET moves == {[is |-> "cwd", arg |-> arg] :
                  arg \in {Name("a"), Name("b"), Arg("up", <<>>), Arg("self", <<>>),
                           Arg("abs", <<<<"a">>, <<"b">>>>)}}
               \union {[is |-> "mkd", arg |-> Name("b")], [is |-> "cdup"]}
  IN  Does(<<Then(3, moves), Then(3, moves)>>, {})

Removals ==
  Does(<<Then(3, {[is |-> "remove", arg |-> Arg("abs", <<<<"a">>>>)],
                  [is |-> "remove", arg |-> Name("f")],
                  [is |-> "cwd", arg |-> Name("a")],
                  Retr("f"), Retr("a"), Stor("a"), Stor("f"), Port})>>, {})

\* One client's passive transfers, while another one comes.
Passive == Does(<<Then(3, {Pasv, Retr("f")}), <<>>>>, {})

\* No descriptor is left for a data connection.
Full == [Does(<<Then(2, {Pasv, List}), <<>>>>, {}) EXCEPT !.held = {0, 3, 4}]

\* Active transfers of one who leaves.
Leaves == Does(<<Then(2, {Port, List}), Then(2, {Port, List})>>, {1})

\* Passive ones of one who leaves, or quits, and one who gets the session's memory.
PassiveLeaves == Does(<<Login \o <<{Pasv}, {List}>>, Then(1, {Pasv, Port})>>, {1})
Quits == Does(<<Login \o <<{Pasv}, {List}, {[is |-> "quit"]}>>, Then(1, {Pasv, Port})>>, {})

\* Somebody is accepted while a passive and an active transfer close their connections.
Crossing == Does(<<Then(2, {Pasv, List}), Then(2, {Port, List}), <<>>>>, {})

Stores == Does(<<Then(2, {Pasv, Port, Stor("f")}), Then(2, {Pasv, Port, Stor("f")})>>, {})

\* A STOR's file is removed, and a directory made in its place.
Renames ==
  Does(<<Then(3, {Port, Stor("b"), [is |-> "mkd", arg |-> Name("b")],
                  [is |-> "remove", arg |-> Name("b")]})>>, {})

Together == {Logins, Directories, Removals, Passive, Full, Leaves, PassiveLeaves, Quits,
             Crossing, Stores, Renames}
=============================================================================
