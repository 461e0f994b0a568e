----------------------------- MODULE MCEditStep ------------------------------
(* Two Python files and one that is not, a forbidden path, and a file of the  *)
(* project that plans name by its absolute path; files with CRLF line ends,   *)
(* undecodable ones, missing ones and a directory; plans of up to two changes *)
(* of the same or of different files, and some of three.                      *)
EXTENDS EditStep

MCFiles == {"a.py", "b.py", "notes", ".env", "/c.py"}
MCPython == {"a.py", "b.py", "/c.py"}
MCRefused == {".env"}
MCOutside == {"/c.py"}

C(f, p) == [file |-> f, patch |-> p]
TextFile(crlf) == [kind |-> "text", crlf |-> crlf, text |-> Original]
Other(k) == [kind |-> k, crlf |-> FALSE, text |-> NoText]
ADisk(a, b, n, c) ==
  [f \in MCFiles |-> CASE f = "a.py" -> a [] f = "b.py" -> b [] f = "notes" -> n
                       [] f = ".env" -> TextFile(FALSE) [] f = "/c.py" -> c]

MCDisks == {ADisk(TextFile(FALSE), TextFile(TRUE), Other("binary"), TextFile(TRUE)),
            ADisk(TextFile(FALSE), Other("absent"), TextFile(FALSE), Other("binary")),
            ADisk(TextFile(TRUE), Other("directory"), TextFile(FALSE), Other("absent"))}

Firsts == {C("a.py", p) : p \in {"sub", "clear", "node"}} \cup {C("notes", "broken")}
Seconds == {C("a.py", p) : p \in {"sub", "clear", "broken", "raise"}}
           \cup {C("b.py", "node"), C("notes", "sub"), C("notes", "raise"), C("/c.py", "sub")}

MCPlans ==
  {<<>>}
  \cup {<<c>> : c \in {C("a.py", "miss"), C("a.py", "oversize"), C("b.py", "sub"),
                      C("b.py", "invalid"), C("notes", "sub"), C(".env", "sub"),
                      C("/c.py", "sub")}}
  \cup {<<c, d>> : c \in Firsts, d \in Seconds}
  \cup {<<C("a.py", "sub"), C("b.py", "sub"), C("notes", "sub")>>,
        <<C("a.py", "clear"), C("a.py", "node"), C("b.py", "sub")>>}

\* One undecodable file, one with CRLF line ends, and nothing that fails.
OneDisk == {ADisk(TextFile(FALSE), TextFile(FALSE), Other("binary"), TextFile(TRUE))}
==============================================================================
