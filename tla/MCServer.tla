------------------------------ MODULE MCServer ------------------------------
(* The server with two clients.                                            *)
EXTENDS Server

CONSTANTS ann, bob, t1, t2, good, bad, silent, default

form(kind, pipe, empty) == [kind |-> kind, pipe |-> pipe, empty |-> empty]

MCForms ==
    {form("view", NoPipe, FALSE), form("static", NoPipe, FALSE), form("malformed", NoPipe, FALSE),
     form("text", good, FALSE), form("text", bad, FALSE), form("text", NoPipe, TRUE),
     form("file", good, FALSE), form("file", bad, TRUE), form("json", good, FALSE), form("json", NoPipe, TRUE),
     form("text", silent, FALSE), form("file", silent, FALSE), form("json", silent, FALSE)}

TextForms == {form("text", good, FALSE)}

ViewedForms ==
    {form("view", NoPipe, FALSE), form("text", good, FALSE), form("text", bad, FALSE),
     form("text", silent, FALSE)}

\* A pipeline such as --version writes nothing, whatever the text is.
Silent == {silent} \X Text \X BOOLEAN

\* Nor does the one of the command line.
SilentDefault == {silent, default} \X Text \X BOOLEAN
=============================================================================
