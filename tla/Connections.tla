----------------------------- MODULE Connections ------------------------------
(***************************************************************************)
(* What the OAuth bridge promises about the connections of MCP clients to   *)
(* accounts, without its codes, tokens, handlers and locks: a connection    *)
(* comes from an authorize session, is made for the client that opened it   *)
(* and for an account whose owner approved that very session, at most once  *)
(* per session and never again once it has ended, and only a connection     *)
(* that is on is served.                                                   *)
(***************************************************************************)
CONSTANTS Clients, Sessions, Accounts

VARIABLES
    asked,     \* <<session, client>>: authorize sessions that were opened
    approved,  \* <<session, account>>: what the owners of accounts signed
    spent,     \* sessions that can give no connection any more
    links,     \* the connections that are on
    serving    \* those of them a request can use now

vars == <<asked, approved, spent, links, serving>>

Link == [session : Sessions, client : Clients, account : Accounts]

Init == asked = {} /\ approved = {} /\ spent = {} /\ links = {} /\ serving = {}

Ask(s, c) ==
    /\ \A d \in Clients : <<s, d>> \notin asked
    /\ asked' = asked \cup {<<s, c>>}
    /\ UNCHANGED <<approved, spent, links, serving>>

Approve(s, a) ==
    /\ approved' = approved \cup {<<s, a>>}
    /\ UNCHANGED <<asked, spent, links, serving>>

\* The one connection a session can give.
Connect(l) ==
    /\ <<l.session, l.client>> \in asked /\ <<l.session, l.account>> \in approved
    /\ l.session \notin spent
    /\ spent' = spent \cup {l.session}
    /\ links' = links \cup {l}
    /\ UNCHANGED <<asked, approved, serving>>

Serve(l) ==
    /\ l \in links
    /\ serving' \in {serving \cup {l}, serving \ {l}}
    /\ UNCHANGED <<asked, approved, spent, links>>

\* Sessions expire, are cancelled or come to nothing; connections are revoked or
\* lost with their client.  Neither comes back.
End(S, L) ==
    /\ \A s \in S : \E c \in Clients : <<s, c>> \in asked
    /\ spent' = spent \cup S
    /\ links' = links \ L
    /\ serving' = serving \ L
    /\ UNCHANGED <<asked, approved>>

Next ==
    \/ \E s \in Sessions, c \in Clients : Ask(s, c)
    \/ \E s \in Sessions, a \in Accounts : Approve(s, a)
    \/ \E l \in Link : Connect(l) \/ Serve(l)
    \/ \E S \in SUBSET Sessions, L \in SUBSET Link : End(S, L)

Spec == Init /\ [][Next]_vars
===============================================================================
