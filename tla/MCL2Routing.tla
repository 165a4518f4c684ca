---------------------------- MODULE MCL2Routing ----------------------------
(***************************************************************************)
(* A chain of three nodes: node 10 between consumer 8 and store 1.         *)
(***************************************************************************)
EXTENDS L2Routing

MCNode == {1, 8, 10}
MCLinks == {<<8, 10>>, <<10, 1>>}
MCRoutes == <<[id |-> 8, dst |-> Default, nextHop |-> 10]>>

\* History: has every timer message found the word it points to, and has no
\* frame been handled twice?
VARIABLES intact, single

Written(m) == CASE m = "FIRST" -> 0 [] m = "SEND" -> tmp2 [] m = "RESEND" -> tmp1
Intact == HandleTimer => HandleMessage(Written(Head(queue)))
Single == \A h \in Hops : net[h] = <<>> \/ ~Repeat(h)

MCInit == Init /\ intact = TRUE /\ single = TRUE
Track == intact' = (intact /\ Intact) /\ single' = (single /\ Single)
MCNext == Next /\ Track
MCVars == <<vars, intact, single>>
MCSpec == MCInit /\ [][MCNext]_MCVars

\* The loop runs, timers fire although the bounds may hold them back, and what
\* is not lost arrives.
MCFairSpec ==
    /\ MCSpec
    /\ SF_MCVars(HandleTimer /\ Track)
    /\ \A t \in Messages : SF_MCVars(Fire(t) /\ Track)
    /\ \A h \in Hops : WF_MCVars(Receive(h) /\ Track)

\* The content packets that are on their way to n.
Contents(h) == {i \in DOMAIN net[h] : net[h][i].type = "CONTENT"}
ContentsTo(n) == Cardinality(UNION {{h} \X Contents(h) : h \in {g \in Hops : g[2] = n}})

\* One Interest, one answer: although a node counts its pending requests in a
\* single number and remembers one requester, content that reaches a node on
\* the way finds it pending, whatever was lost before and whatever the timers
\* made the consumer ask for, unless a frame was handled twice.
AnswersArePending ==
    single => \A n \in Node \ {Consumer} : ContentsTo(n) <= pitCtr[n]

\* The consumer gets all chunks if the words the timers point to survive.
FetchEnds == []intact => <>(Missing = {})

=============================================================================
