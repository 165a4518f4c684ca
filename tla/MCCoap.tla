------------------------------- MODULE MCCoap -------------------------------
\* What the user and other clients do: blocks, subscriptions, deleting and
\* setting the clock, asynchronous answers, one command after another.
EXTENDS Coap

Enter(letter, arg, path) == [letter |-> letter, arg |-> arg, path |-> <<path>>]
Other(code, path) == [code |-> code, path |-> <<path>>]
Script(user, others, losses, failures) ==
    [user |-> user, others |-> others, losses |-> losses, failures |-> failures]
Then(k, letter, arg) == <<k, [letter |-> letter, arg |-> arg, path |-> <<>>]>>

Core == Enter("v", 0, "core")
Async == Enter("v", 0, "async")
Time == Enter("s", 1, "time")
MCScripts ==
    {Script(<<Core>>, <<>>, 1, 1),
     Script(<<Enter("N", 0, "core")>>, <<>>, 1, 0),
     Script(Then(Enter("b", 1, "core"), "T", 1), <<>>, 1, 0),
     Script(<<Async, Enter("T", 1, "core")>>, <<>>, 1, 0),
     Script(<<Async>>, <<Other("GET", "async"), Other("GET", "async")>>, 1, 1),
     Script(<<Time, Enter("T", 1, "core")>>, <<Other("PUT", "time")>>, 0, 0),
     Script(Then(Time, "N", 0), <<Other("PUT", "time"), Other("DELETE", "time")>>, 0, 1),
     Script(Then(Enter("s", 0, "time"), "s", 1), <<>>, 0, 0),
     Script(Then(Enter("m", "DELETE", "time"), "m", "PUT"), <<>>, 1, 0),
     Script(<<Enter("T", 1, "time"), Enter("T", 2, "core"), Enter("m", "POST", "core")>>, <<>>, 0, 0)}

=============================================================================
