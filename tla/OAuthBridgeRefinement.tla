------------------------ MODULE OAuthBridgeRefinement -------------------------
(***************************************************************************)
(* The OAuth bridge implements Connections, for any clients, sessions,      *)
(* accounts and requests.  Besides the invariant of OAuthBridgeProofs the   *)
(* argument needs to know that a revocation in progress only concerns pairs *)
(* of its own grant (FoundTrue): a connection is never cut off by the       *)
(* revocation of another.                                                  *)
(***************************************************************************)
EXTENDS OAuthBridgeProofs

\* The pairs in the snapshot of a revocation are of its grant, or were deleted
\* with it; the first pair of a grant is its own.
FoundTrue == \A q \in Requests :
    /\ job[q].at = "revoking" =>
          \A k \in job[q].found : job[k].at = "done" /\ token[k].grant \in {job[q].on, None}
    /\ job[q].at = "access" => token[q].grant \in {q, None}

\* A session that was not opened is nobody's.
Unopened == \A s \in Sessions : session[s].status = "none" => session[s].client = None

Inv == IndInv /\ FoundTrue /\ Unopened

\* Every step keeps the invariant of OAuthBridgeProofs.
LEMMA NextInv == IndInv /\ [Next]_vars => IndInv'
  BY TypeStep, ShapeStep, StableSteps, HeldStep, ConsentStep, LocksStep DEF IndInv

\* A step that starts no revocation, moves no handler that has answered, and
\* gives no finished request's pair another grant.
LEMMA FoundKept ==
    ASSUME Inv,
           \A p \in Requests : job'[p].at = "revoking" => job'[p] = job[p],
           \A p \in Requests : job'[p].at = "access" =>
               \/ job'[p] = job[p] /\ token'[p].grant \in {token[p].grant, None}
               \/ token'[p].grant = p,
           \A p \in Requests : job[p].at = "done" =>
               job'[p].at = "done" /\ token'[p].grant \in {token[p].grant, None}
    PROVE  FoundTrue'
  <1>1. \A q \in Requests : job[q].found \subseteq Requests
    BY JobFields DEF Inv, IndInv
  <1> QED
    BY <1>1 DEF Inv, FoundTrue

-------------------------------------------------------------------------------
(* The abstract state.                                                     *)

Alive(k) == token[k].access = "live" /\ token[k].grant \notin revoked

\* What a request can use: the live access tokens of grants that are on.
LEMMA ServingIs ==
    ASSUME IndInv
    PROVE  /\ Serving = {LinkOf(token[k].grant) : k \in {l \in Requests : Alive(l)}}
           /\ \A k \in Requests : Alive(k) => token[k].grant \in Requests /\ On(token[k].grant)
  <1>1. ASSUME NEW k \in Requests, token[k].access = "live"
        PROVE  token[k].grant \in Requests /\ grant[token[k].grant] # None
    BY <1>1, PairFields DEF IndInv, NoPair, MkPair
  <1>2. ASSUME NEW g \in Requests, grant[g] # None
        PROVE  delegate[grant[g].delegate] # None
    <2>1. grant[g] \in Consent /\ delegate[grant[g].delegate] = grant[g].account
      BY <1>2 DEF IndInv, TypeOK, ConsentTrue, ConsentOf, Good
    <2> QED
      BY <2>1, ConsentFields, NoneAssumption
  <1>3. \A k \in Requests : resolve_oauth_bearer(k) <=> Alive(k)
    BY <1>1, <1>2 DEF resolve_oauth_bearer, Alive
  <1> QED
    BY <1>1, <1>3 DEF Serving, Alive, On

\* The same of the next state.
LEMMA ServingNext ==
    ASSUME IndInv'
    PROVE  /\ Serving' = {LinkOf(token[k].grant)' : k \in {l \in Requests : Alive(l)'}}
           /\ \A k \in Requests : Alive(k)' => token'[k].grant \in Requests /\ On(token[k].grant)'
  <1>1. ASSUME NEW k \in Requests, token'[k].access = "live"
        PROVE  token'[k].grant \in Requests /\ grant'[token'[k].grant] # None
    <2>1. /\ token'[k] \in Pair
          /\ token'[k] # NoPair => token'[k].grant # None /\ grant'[token'[k].grant] # None
      BY DEF IndInv, TypeOK
    <2> QED
      BY <1>1, <2>1 DEF Pair, NoPair, MkPair
  <1>2. ASSUME NEW g \in Requests, grant'[g] # None
        PROVE  delegate'[grant'[g].delegate] # None
    <2>1. grant'[g] \in Consent /\ delegate'[grant'[g].delegate] = grant'[g].account
      BY <1>2 DEF IndInv, TypeOK, ConsentTrue, ConsentOf, Good
    <2> QED
      BY <2>1, ConsentFields, NoneAssumption
  <1>3. \A k \in Requests : resolve_oauth_bearer(k)' <=> Alive(k)'
    BY <1>1, <1>2 DEF resolve_oauth_bearer, Alive
  <1> QED
    BY <1>1, <1>3 DEF Serving, Alive, On

\* Two grants that are on are two connections.
LEMMA LinksDiffer ==
    ASSUME IndInv, NEW g \in Requests, NEW h \in Requests,
           grant[g] # None, grant[h] # None, LinkOf(g) = LinkOf(h)
    PROVE  g = h
  <1>1. grant[g].session \in Sessions /\ grant[g].session = grant[h].session
    BY ConsentFields DEF IndInv, TypeOK, LinkOf
  <1> QED
    BY <1>1 DEF IndInv, HeldOnce, Holds

\* A connection is one of Connections.
LEMMA LinkType ==
    ASSUME IndInv, NEW g \in Requests, grant[g] # None
    PROVE  LinkOf(g) \in Bridge!Link
  <1>1. grant[g] \in Consent
    BY DEF IndInv, TypeOK
  <1> QED
    BY <1>1, ConsentFields DEF LinkOf, Bridge!Link

\* The sessions that were opened stay open or end; nobody gets a consent that
\* has ended.
SessionsKept == \A s \in Sessions :
    /\ session'[s].client = session[s].client
    /\ session'[s].status = "none" <=> session[s].status = "none"
    /\ session[s].status = "over" => session'[s].status = "over"
CarriedKept == \A s \in Sessions :
    session[s].status = "over" /\ UnderWay(s)' => UnderWay(s)
\* No new connection, and those that are on are served as before.
LinksKept ==
    /\ \A g \in Requests : On(g)' => On(g) /\ grant'[g] = grant[g]
    /\ \A k \in Requests : Alive(k)' => Alive(k) /\ token'[k].grant = token[k].grant
    /\ \A k, g \in Requests : Alive(k) /\ token[k].grant = g /\ On(g)' =>
           Alive(k)' /\ token'[k].grant = g

\* Such a step ends sessions and connections, or changes nothing.
LEMMA EndStep ==
    ASSUME IndInv, IndInv', SessionsKept, CarriedKept, LinksKept, UNCHANGED signed
    PROVE  Bridge!Next
  <1> DEFINE S == Spent' \ Spent
             L == Links \ Links'
  <1>1. Asked' = Asked
    BY DEF SessionsKept, Asked
  <1>2. Approved' = Approved
    BY DEF Approved
  <1>3. Spent' = Spent \cup S /\ S \in SUBSET Sessions
    BY DEF SessionsKept, CarriedKept, Spent
  <1>4. \A s \in S : \E c \in Clients : <<s, c>> \in Asked
    <2> SUFFICES ASSUME NEW s \in S PROVE \E c \in Clients : <<s, c>> \in Asked
      OBVIOUS
    <2>1. s \in Sessions /\ session[s].status # "none"
      BY DEF Spent, SessionsKept
    <2>2. session[s].client \in Clients
      BY <2>1 DEF IndInv, TypeOK, SessionsTrue
    <2> QED
      BY <2>1, <2>2 DEF Asked
  <1>5. Links' \subseteq Links /\ L \in SUBSET Bridge!Link
    <2>1. Links' \subseteq Links
      BY DEF LinksKept, Links, LinkOf
    <2>2. Links \subseteq Bridge!Link
      BY LinkType DEF Links, On
    <2> QED
      BY <2>1, <2>2
  <1>6. Serving' = Serving \ L
    <2>1. ASSUME NEW l \in Serving' PROVE l \in Serving /\ l \in Links'
      <3>1. PICK k \in Requests : Alive(k)' /\ l = LinkOf(token[k].grant)'
        BY <2>1, ServingNext
      <3>2. token'[k].grant \in Requests /\ On(token[k].grant)'
        BY <3>1, ServingNext
      <3>3. Alive(k) /\ token'[k].grant = token[k].grant /\ grant'[token[k].grant] = grant[token[k].grant]
        BY <3>1, <3>2 DEF LinksKept, On
      <3>4. l = LinkOf(token[k].grant)
        BY <3>1, <3>3 DEF LinkOf
      <3>5. l \in Serving
        BY <3>3, <3>4, ServingIs
      <3>6. l \in Links'
        BY <3>1, <3>2 DEF Links, LinkOf, On
      <3> QED
        BY <3>5, <3>6
    <2>2. ASSUME NEW l \in Serving, l \in Links' PROVE l \in Serving'
      <3>1. PICK k \in Requests : Alive(k) /\ l = LinkOf(token[k].grant)
        BY <2>2, ServingIs
      <3>2. token[k].grant \in Requests /\ grant[token[k].grant] # None
        BY <3>1, ServingIs DEF On
      <3>3. PICK h \in Requests : On(h)' /\ l = LinkOf(h)'
        BY <2>2 DEF Links
      <3>4. grant[h] # None /\ grant'[h] = grant[h] /\ l = LinkOf(h)
        BY <3>3 DEF LinksKept, On, LinkOf
      <3>5. h = token[k].grant
        BY <3>1, <3>2, <3>4, LinksDiffer
      <3>7. token'[k].grant = h /\ Alive(k)'
        BY <3>1, <3>3, <3>5 DEF LinksKept
      <3> QED
        BY <3>3, <3>7, ServingNext DEF LinkOf
    <2>3. \A l \in Serving : l \in Links
      BY ServingIs DEF Links
    <2> QED
      BY <2>1, <2>2, <2>3
  <1>7. Links' = Links \ L
    BY <1>5
  <1>8. Bridge!End(S, L)
    BY <1>1, <1>2, <1>3, <1>4, <1>6, <1>7 DEF Bridge!End
  <1> QED
    BY <1>3, <1>5, <1>8 DEF Bridge!Next

\* The tables of the connections stay as they are.
LEMMA QuietStep ==
    ASSUME IndInv, IndInv', SessionsKept, CarriedKept, UNCHANGED <<grant, revoked, token, signed>>
    PROVE  Bridge!Next
  BY EndStep DEF LinksKept, On, Alive

\* No handler and no code gets a consent.
LEMMA CarriedLess ==
    ASSUME \A p \in Requests : /\ job'[p].of = job[p].of \/ job'[p].of = None
                               /\ code'[p] = code[p] \/ code'[p] = None
    PROVE  CarriedKept
  BY DEF CarriedKept, UnderWay

\* A step that only writes pairs of one grant that exists.
LEMMA ServeStep ==
    ASSUME IndInv, IndInv', NEW g \in Requests, grant[g] # None,
           UNCHANGED <<session, signed, code, grant, revoked>>,
           \A p \in Requests : job'[p].of = job[p].of,
           \A k \in Requests : \/ token'[k] = token[k]
                               \/ token[k].grant \in {g, None} /\ token'[k].grant = g
    PROVE  Bridge!Next \/ UNCHANGED Bridge!vars
  <1> DEFINE l == LinkOf(g)
  <1>1. UNCHANGED <<Asked, Approved, Links>>
    BY DEF Asked, Approved, Links, LinkOf, On
  <1>2. UNCHANGED Spent
    BY DEF Spent, UnderWay
  <1>3. \A k \in Requests : Alive(k) => token[k].grant \in Requests /\ On(token[k].grant)
    BY ServingIs
  <1>4. \A k \in Requests : token[k].grant = None => ~Alive(k)
    BY <1>3, NoneAssumption
  <1>5. ASSUME NEW k \in Requests, token'[k] # token[k]
        PROVE  /\ Alive(k) => token[k].grant = g /\ g \notin revoked
               /\ Alive(k)' => token'[k].grant = g /\ g \notin revoked
    BY <1>4, <1>5 DEF Alive
  <1>6. \A k \in Requests : token'[k] = token[k] => (Alive(k)' <=> Alive(k))
    BY DEF Alive
  <1>7. /\ Serving = {LinkOf(token[k].grant) : k \in {j \in Requests : Alive(j)}}
        /\ Serving' = {LinkOf(token'[k].grant) : k \in {j \in Requests : Alive(j)'}}
    BY ServingIs, ServingNext DEF LinkOf
  <1>8. ASSUME NEW m, m # l PROVE m \in Serving' <=> m \in Serving
    <2>1. ASSUME m \in Serving PROVE m \in Serving'
      <3>1. PICK k \in Requests : Alive(k) /\ m = LinkOf(token[k].grant)
        BY <1>7, <2>1
      <3>2. token'[k] = token[k]
        BY <1>5, <1>8, <3>1
      <3> QED
        BY <1>6, <1>7, <3>1, <3>2
    <2>2. ASSUME m \in Serving' PROVE m \in Serving
      <3>1. PICK k \in Requests : Alive(k)' /\ m = LinkOf(token'[k].grant)
        BY <1>7, <2>2
      <3>2. token'[k] = token[k]
        BY <1>5, <1>8, <3>1
      <3> QED
        BY <1>6, <1>7, <3>1, <3>2
    <2> QED
      BY <2>1, <2>2
  <1>9. CASE g \in revoked
    <2>1. \A k \in Requests : /\ Alive(k)' <=> Alive(k)
                              /\ Alive(k) => token'[k] = token[k]
      BY <1>5, <1>6, <1>9
    <2>2. UNCHANGED Serving
      BY <1>7, <2>1
    <2> QED
      BY <1>1, <1>2, <2>2 DEF Bridge!vars
  <1>10. CASE g \notin revoked
    <2>1. l \in Links /\ l \in Bridge!Link
      BY <1>10, LinkType DEF Links, On
    <2> HIDE DEF l
    <2>2. Serving' = Serving \cup {l} \/ Serving' = Serving \ {l}
      <3>1. CASE l \in Serving'
        BY <1>8, <3>1
      <3>2. CASE l \notin Serving'
        BY <1>8, <3>2
      <3> QED
        BY <3>1, <3>2
    <2>3. Bridge!Serve(l)
      BY <1>1, <1>2, <2>1, <2>2 DEF Bridge!Serve
    <2> QED
      BY <2>1, <2>3 DEF Bridge!Next
  <1> QED
    BY <1>9, <1>10

\* insert_oauth_grant makes the connection its consent is for, and its session
\* gives no other.
LEMMA ConnectStep ==
    ASSUME IndInv, IndInv', NEW q \in Requests, insert_oauth_grant(q)
    PROVE  Bridge!Next
  <1> DEFINE c == job[q].of
             l == [session |-> c.session, client |-> c.client, account |-> c.account]
  <1>1. /\ job[q].at = "exchange" /\ c \in Consent /\ session[c.session].status = "over"
        /\ Good(c)
    BY HeldSessions DEF insert_oauth_grant, IndInv, TypeOK, ConsentTrue, ConsentOf
  <1>2. /\ c.session \in Sessions /\ c.client \in Clients /\ c.account \in Accounts /\ c # None
    BY <1>1, ConsentFields
  <1>3. l \in Bridge!Link /\ l.session = c.session /\ l.client = c.client /\ l.account = c.account
    BY <1>2 DEF Bridge!Link
  <1>4. /\ UNCHANGED <<session, code, revoked, token, signed>>
        /\ grant'[q] = c /\ \A h \in Requests : h # q => grant'[h] = grant[h]
    BY DEF insert_oauth_grant, flow, outside, IndInv, TypeOK
  <1>5. WorksOn(q, "granted", None, {})
    BY WorkMoves DEF insert_oauth_grant, IndInv, Steps
  <1>6. job'[q].of = None /\ \A p \in Requests : p # q => job'[p] = job[p]
    BY <1>5 DEF WorksOn, Moved
  <1>7. grant[q] = None /\ code[q] = None /\ q \notin revoked
    BY <1>1 DEF IndInv, Shape, ShapeOf
  <1>8. <<c.session, c.client>> \in Asked /\ <<c.session, c.account>> \in Approved
    BY <1>1, <1>2 DEF Asked, Approved, Good
  <1>9. c.session \notin Spent
    BY <1>2 DEF Spent, UnderWay
  <1>10. UNCHANGED <<Asked, Approved>>
    BY <1>4 DEF Asked, Approved
  <1>11. Spent' = Spent \cup {c.session}
    <2>0. PICK s \in Sessions : s = c.session
      BY <1>2
    <2>1. ASSUME NEW t \in Sessions, t # s PROVE UnderWay(t)' <=> UnderWay(t)
      BY <1>4, <1>6, <2>0, <2>1 DEF UnderWay
    <2>2. Holds(q, s)'
      BY <1>2, <1>4, <2>0 DEF Holds
    <2>3. \A p \in Requests : Holds(p, s)' => p = q
      BY <2>2 DEF IndInv, HeldOnce
    <2>4. ~UnderWay(s)'
      BY <1>4, <1>6, <1>7, <2>3 DEF UnderWay, Holds
    <2> QED
      BY <1>1, <1>4, <2>0, <2>1, <2>4 DEF Spent
  <1>12. \A h \in Requests : h # q => LinkOf(h)' = LinkOf(h) /\ (On(h)' <=> On(h))
    BY <1>4 DEF LinkOf, On
  <1>13. LinkOf(q)' = l /\ On(q)' /\ ~On(q)
    BY <1>2, <1>4, <1>7 DEF LinkOf, On
  <1> HIDE DEF l
  <1>14. Links' = Links \cup {l}
    <2>1. /\ Links = {LinkOf(g) : g \in {h \in Requests : On(h)}}
          /\ Links' = {LinkOf(g)' : g \in {h \in Requests : On(h)'}}
      BY DEF Links
    <2>2. ASSUME NEW m \in Links' PROVE m \in Links \cup {l}
      BY <1>12, <1>13, <2>1, <2>2
    <2>3. ASSUME NEW m \in Links \cup {l} PROVE m \in Links'
      BY <1>12, <1>13, <2>1, <2>3
    <2> QED
      BY <2>2, <2>3
  <1>15. UNCHANGED Serving
    <2>1. \A k \in Requests : /\ Alive(k)' <=> Alive(k)
                              /\ Alive(k) => token[k].grant \in Requests /\ token[k].grant # q
      BY <1>4, <1>7, ServingIs DEF Alive, On
    <2>2. \A k \in Requests : Alive(k) => LinkOf(token[k].grant)' = LinkOf(token[k].grant)
      BY <1>4, <2>1 DEF LinkOf
    <2>3. /\ Serving = {LinkOf(token[k].grant) : k \in {j \in Requests : Alive(j)}}
          /\ Serving' = {LinkOf(token[k].grant)' : k \in {j \in Requests : Alive(j)'}}
      BY ServingIs, ServingNext
    <2>4. ASSUME NEW m \in Serving PROVE m \in Serving'
      BY <2>1, <2>2, <2>3, <2>4
    <2>5. ASSUME NEW m \in Serving' PROVE m \in Serving
      BY <2>1, <2>2, <2>3, <2>5
    <2> QED
      BY <2>4, <2>5
  <1>16. Bridge!Connect(l)
    BY <1>3, <1>8, <1>9, <1>10, <1>11, <1>14, <1>15 DEF Bridge!Connect
  <1> QED
    BY <1>3, <1>16 DEF Bridge!Next

\* revoke_oauth_grant cuts off its own grant and no other.
LEMMA CutStep ==
    ASSUME Inv, IndInv', NEW q \in Requests, revoke_oauth_grant(q)
    PROVE  Bridge!Next
  <1> DEFINE g == job[q].on
  <1>0. IndInv
    BY DEF Inv
  <1>1. /\ g \in Requests /\ token' \in [Requests -> Pair] /\ Finished(q)
        /\ revoked' \subseteq revoked \cup {g} /\ revoked \subseteq revoked'
        /\ \A k \in Requests : Hit(k)
    BY <1>0, GrantRevokeDoes
  <1>2. grant[g] # None => g \in revoked'
    BY DEF revoke_oauth_grant
  <1>3. /\ UNCHANGED <<session, code, grant, signed>> /\ job[q].at = "revoking"
    BY DEF revoke_oauth_grant, flow, outside
  <1>4. ASSUME NEW k \in Requests
        PROVE  /\ token'[k].access = "live" => token[k].access = "live"
               /\ k \notin job[q].found => token'[k] = token[k]
    BY <1>4 DEF revoke_oauth_grant, MkPair
  <1>5. \A k \in Requests : token'[k].grant = token[k].grant
    BY <1>1 DEF Hit
  <1>6. \A k \in job[q].found : token[k].grant \in {g, None}
    BY <1>3 DEF Inv, FoundTrue
  <1>7. LinksKept
    <2>1. \A h \in Requests : On(h)' => On(h) /\ grant'[h] = grant[h]
      BY <1>1, <1>3 DEF On
    <2>2. \A k \in Requests : Alive(k)' => Alive(k) /\ token'[k].grant = token[k].grant
      BY <1>1, <1>4, <1>5 DEF Alive
    <2>3. ASSUME NEW k \in Requests, NEW h \in Requests, Alive(k), token[k].grant = h, On(h)'
          PROVE  Alive(k)' /\ token'[k].grant = h
      <3>1. h # g /\ h # None
        BY <1>2, <1>3, <2>3, NoneAssumption DEF On
      <3>2. token'[k] = token[k]
        BY <1>4, <1>6, <2>3, <3>1
      <3> QED
        BY <2>3, <3>2 DEF Alive, On
    <2> QED
      BY <2>1, <2>2, <2>3 DEF LinksKept
  <1>8. CarriedKept /\ SessionsKept
    BY <1>1, <1>3, CarriedLess DEF Finished, WorksOn, Moved, SessionsKept
  <1> QED
    BY <1>0, <1>3, <1>7, <1>8, EndStep

\* The prune takes connections with their pairs, and sessions.
LEMMA PruneStep ==
    ASSUME Inv, IndInv', prune_unconsumed_oauth_clients
    PROVE  Bridge!Next
  <1>0. IndInv
    BY DEF Inv
  <1>1. Pruned /\ UNCHANGED <<code, job, signed>>
    BY <1>0, PruneDoes DEF prune_unconsumed_oauth_clients, outside
  <1>2. \A k, g \in Requests : /\ token[k].grant = g /\ grant[g] # None /\ grant'[g] # None
                               => token'[k] = token[k]
    BY DEF prune_unconsumed_oauth_clients, CascadeTokens
  <1>3. /\ NoPair.access = "none" /\ NoPair.grant = None
    BY DEF NoPair, MkPair
  <1>4. LinksKept
    <2>1. \A h \in Requests : On(h)' => On(h) /\ grant'[h] = grant[h]
      BY <1>1 DEF On, Pruned
    <2>2. ASSUME NEW k \in Requests, Alive(k)'
          PROVE  Alive(k) /\ token'[k].grant = token[k].grant
      <3>1. token'[k] = token[k] /\ token'[k].grant \in Requests /\ On(token[k].grant)'
        BY <1>1, <1>3, <2>2, ServingNext DEF Pruned, Alive
      <3> QED
        BY <2>1, <2>2, <3>1 DEF Alive, On
    <2>3. ASSUME NEW k \in Requests, NEW h \in Requests, Alive(k), token[k].grant = h, On(h)'
          PROVE  Alive(k)' /\ token'[k].grant = h
      <3>1. token'[k] = token[k]
        BY <1>0, <1>2, <2>3, ServingIs DEF On
      <3> QED
        BY <2>3, <3>1 DEF Alive, On
    <2> QED
      BY <2>1, <2>2, <2>3 DEF LinksKept
  <1>5. SessionsKept
    BY <1>1 DEF Pruned, SessionsKept, Inv, Unopened
  <1>6. CarriedKept
    BY <1>1, CarriedLess
  <1> QED
    BY <1>0, <1>1, <1>4, <1>5, <1>6, EndStep

-------------------------------------------------------------------------------
(* The steps.                                                              *)

\* A session that was not opened stays as it is, or is opened.
LEMMA UnopenedStep ==
    Inv /\ [Next]_vars => Unopened'
  <1> SUFFICES ASSUME Inv, [Next]_vars PROVE Unopened'
    OBVIOUS
  <1>a. session \in [Sessions -> [status : {"none", "pending", "over"}, client : Clients \cup {None}]]
    BY DEF Inv, IndInv, TypeOK
  <1>b. Unopened
    BY DEF Inv
  <1>1. ASSUME NEW c \in Clients, register_client(c) PROVE Unopened'
    BY <1>1, <1>a, <1>b DEF register_client, Unopened, flow
  <1>2. ASSUME NEW s \in Sessions, NEW c \in Clients, authorize(s, c) PROVE Unopened'
    BY <1>2, <1>a, <1>b DEF authorize, Unopened, flow
  <1>3. ASSUME NEW q \in Requests, NEW s \in Sessions, NEW a \in Accounts, NEW o \in Accounts, session_complete(q, s, a, o) PROVE Unopened'
    BY <1>3, <1>a, <1>b DEF session_complete, consume_oauth_session, Unopened, flow
  <1>4. ASSUME NEW s \in Sessions, session_cancel(s) PROVE Unopened'
    BY <1>4, <1>a, <1>b DEF session_cancel, consume_oauth_session, Unopened, flow
  <1>5. ASSUME NEW s \in Sessions, SessionExpires(s) PROVE Unopened'
    BY <1>5, <1>a, <1>b DEF SessionExpires, Unopened, flow
  <1>6. ASSUME NEW q \in Requests, find_reusable_oauth_delegate(q) PROVE Unopened'
    BY <1>6, <1>a, <1>b DEF find_reusable_oauth_delegate, Unopened, flow
  <1>7. ASSUME NEW q \in Requests, activate_oauth_delegate(q) PROVE Unopened'
    BY <1>7, <1>a, <1>b DEF activate_oauth_delegate, Unopened, flow
  <1>8. ASSUME NEW q \in Requests, insert_oauth_code(q) PROVE Unopened'
    BY <1>8, <1>a, <1>b DEF insert_oauth_code, Unopened, flow
  <1>9. ASSUME NEW q \in Requests, CodeExpires(q) PROVE Unopened'
    BY <1>9, <1>a, <1>b DEF CodeExpires, Unopened, flow
  <1>10. ASSUME NEW q \in Requests, NEW x \in Requests, NEW c \in Clients, token_code(q, c, x) PROVE Unopened'
    BY <1>10, <1>a, <1>b DEF token_code, Unopened, flow
  <1>11. ASSUME NEW q \in Requests, insert_oauth_grant(q) PROVE Unopened'
    BY <1>11, <1>a, <1>b DEF insert_oauth_grant, Unopened, flow
  <1>12. ASSUME NEW q \in Requests, insert_oauth_token(q) PROVE Unopened'
    BY <1>12, <1>a, <1>b DEF insert_oauth_token, Unopened, flow
  <1>13. ASSUME NEW q \in Requests, NEW k \in Requests, NEW c \in Clients, token_refresh(q, c, k) PROVE Unopened'
    BY <1>13, <1>a, <1>b DEF token_refresh, Unopened, flow
  <1>14. ASSUME NEW q \in Requests, RotateUpdate(q) PROVE Unopened'
    BY <1>14, <1>a, <1>b DEF RotateUpdate, Unopened, flow
  <1>15. ASSUME NEW q \in Requests, rotate_oauth_refresh_token(q) PROVE Unopened'
    BY <1>15, <1>a, <1>b DEF rotate_oauth_refresh_token, Unopened, flow
  <1>16. ASSUME NEW q \in Requests, NEW k \in Requests, revoke(q, k) PROVE Unopened'
    BY <1>16, <1>a, <1>b DEF revoke, Unopened, flow
  <1>17. ASSUME NEW q \in Requests, RevokeUpdate(q) PROVE Unopened'
    BY <1>17, <1>a, <1>b DEF RevokeUpdate, Unopened, flow
  <1>18. ASSUME NEW q \in Requests, revoke_oauth_grant(q) PROVE Unopened'
    BY <1>18, <1>a, <1>b DEF revoke_oauth_grant, Unopened, flow
  <1>19. ASSUME NEW old \in SUBSET Clients, PruneStart(old) PROVE Unopened'
    BY <1>19, <1>a, <1>b DEF PruneStart, Unopened, flow
  <1>20. ASSUME prune_unconsumed_oauth_clients PROVE Unopened'
    <2>1. Pruned
      BY <1>20, PruneDoes DEF Inv
    <2> QED
      BY <1>b, <2>1 DEF Pruned, Unopened
  <1>21. ASSUME NEW q \in Requests, Abandon(q) PROVE Unopened'
    BY <1>21, <1>a, <1>b DEF Abandon, Unopened, flow
  <1>22. ASSUME NEW s \in Sessions, NEW a \in Accounts, NEW o \in Accounts, SignProof(s, a, o) PROVE Unopened'
    BY <1>22, <1>a, <1>b DEF SignProof, Unopened, flow
  <1>23. ASSUME NEW d \in Sessions, NEW a \in Accounts, add_delegate_key(d, a) PROVE Unopened'
    BY <1>23, <1>a, <1>b DEF add_delegate_key, Unopened, flow
  <1>24. ASSUME NEW d \in Sessions, NEW a \in Accounts, remove_delegate_key(d, a) PROVE Unopened'
    BY <1>24, <1>a, <1>b DEF remove_delegate_key, Unopened, flow
  <1>25. CASE UNCHANGED vars
    BY <1>25, <1>a, <1>b DEF vars, flow, Unopened, flow
  <1> QED
    BY <1>1, <1>2, <1>3, <1>4, <1>5, <1>6, <1>7, <1>8, <1>9, <1>10, <1>11, <1>12, <1>13, <1>14, <1>15, <1>16, <1>17, <1>18, <1>19, <1>20, <1>21, <1>22, <1>23, <1>24, <1>25
    DEF Next, Consents, Exchanges, Rotations, Revocations, Environment

\* A revocation takes its snapshot of pairs whose requests have answered, and
\* nothing gives those pairs another grant.
LEMMA FoundStep ==
    Inv /\ [Next]_vars => FoundTrue'
  <1> SUFFICES ASSUME Inv, [Next]_vars PROVE FoundTrue'
    OBVIOUS
  <1>a. IndInv /\ FoundTrue
    BY DEF Inv
  <1>b. Idle.at = "idle" /\ NoPair.grant = None
    BY DEF Idle, Work, NoPair, MkPair
  <1>1. ASSUME NEW c \in Clients, register_client(c) PROVE FoundTrue'
    BY <1>1, FoundKept DEF register_client, tokens
  <1>2. ASSUME NEW s \in Sessions, NEW c \in Clients, authorize(s, c) PROVE FoundTrue'
    BY <1>2, FoundKept DEF authorize, tokens
  <1>3. ASSUME NEW q \in Requests, NEW s \in Sessions, NEW a \in Accounts, NEW o \in Accounts, session_complete(q, s, a, o) PROVE FoundTrue'
    <2>1. PICK b \in Consent :
             /\ b.session = s /\ b.client = session[s].client /\ b.account = a
             /\ Moved(q, "consumed", b, o, None, {})
      BY <1>3, CompleteDoes, <1>a
    <2>2. /\ job[q].at # "done"
          /\ \A p \in Requests : p # q => token'[p].grant = token[p].grant
      BY <1>3, <1>a, <1>b, <2>1 DEF session_complete, tokens
    <2> QED
      BY <2>1, <2>2, FoundKept DEF Finished, WorksOn, Moved
  <1>4. ASSUME NEW s \in Sessions, session_cancel(s) PROVE FoundTrue'
    BY <1>4, FoundKept DEF session_cancel, tokens
  <1>5. ASSUME NEW s \in Sessions, SessionExpires(s) PROVE FoundTrue'
    BY <1>5, FoundKept DEF SessionExpires, tokens
  <1>6. ASSUME NEW q \in Requests, find_reusable_oauth_delegate(q) PROVE FoundTrue'
    <2>1. PICK c \in Consent :
             /\ job[q].of \in Consent /\ c.session = job[q].of.session
             /\ c.client = job[q].of.client /\ c.account = job[q].of.account
             /\ c.delegate = c.session \/ delegate[c.delegate] = c.account
             /\ Moved(q, "picked", c, job[q].signer, None, {})
      BY <1>6, PickDoes, <1>a
    <2>2. /\ job[q].at # "done"
          /\ \A p \in Requests : p # q => token'[p].grant = token[p].grant
      BY <1>6, <1>a, <1>b, <2>1 DEF find_reusable_oauth_delegate, tokens
    <2> QED
      BY <2>1, <2>2, FoundKept DEF Finished, WorksOn, Moved
  <1>7. ASSUME NEW q \in Requests, activate_oauth_delegate(q) PROVE FoundTrue'
    <2>1. /\ job[q].of \in Consent /\ job[q].signer = job[q].of.account
          /\ Moved(q, "verified", job[q].of, job[q].signer, None, {})
          /\ delegate' \in [Sessions -> Accounts \cup {None}]
      BY <1>7, ActivateDoes, <1>a
    <2>2. /\ job[q].at # "done"
          /\ \A p \in Requests : p # q => token'[p].grant = token[p].grant
      BY <1>7, <1>a, <1>b, <2>1 DEF activate_oauth_delegate, tokens
    <2> QED
      BY <2>1, <2>2, FoundKept DEF Finished, WorksOn, Moved
  <1>8. ASSUME NEW q \in Requests, insert_oauth_code(q) PROVE FoundTrue'
    <2>1. Finished(q)
      BY <1>8, FinishMoves, <1>a DEF insert_oauth_code, IndInv
    <2>2. /\ job[q].at # "done"
          /\ \A p \in Requests : p # q => token'[p].grant = token[p].grant
      BY <1>8, <1>a, <1>b, <2>1 DEF insert_oauth_code, tokens
    <2> QED
      BY <2>1, <2>2, FoundKept DEF Finished, WorksOn, Moved
  <1>9. ASSUME NEW q \in Requests, CodeExpires(q) PROVE FoundTrue'
    BY <1>9, FoundKept DEF CodeExpires, tokens
  <1>10. ASSUME NEW q \in Requests, NEW x \in Requests, NEW c \in Clients, token_code(q, c, x) PROVE FoundTrue'
    <2>1. code[x] \in Consent /\ (Moved(q, "exchange", code[x], None, None, {}) \/ Finished(q))
      BY <1>10, CodeDoes, <1>a
    <2>2. /\ job[q].at # "done"
          /\ \A p \in Requests : p # q => token'[p].grant = token[p].grant
      BY <1>10, <1>a, <1>b, <2>1 DEF token_code, tokens
    <2> QED
      BY <2>1, <2>2, FoundKept DEF Finished, WorksOn, Moved
  <1>11. ASSUME NEW q \in Requests, insert_oauth_grant(q) PROVE FoundTrue'
    <2>1. WorksOn(q, "granted", None, {})
      BY <1>11, WorkMoves, <1>a DEF insert_oauth_grant, IndInv, Steps
    <2>2. /\ job[q].at # "done"
          /\ \A p \in Requests : p # q => token'[p].grant = token[p].grant
      BY <1>11, <1>a, <1>b, <2>1 DEF insert_oauth_grant, tokens
    <2> QED
      BY <2>1, <2>2, FoundKept DEF Finished, WorksOn, Moved
  <1>12. ASSUME NEW q \in Requests, insert_oauth_token(q) PROVE FoundTrue'
    <2>1. /\ token' \in [Requests -> Pair] /\ PairsKept({q}) /\ grant[q] # None
          /\ token'[q].grant = q
          /\ \/ /\ job[q].at = "granted" /\ WorksOn(q, "access", None, {})
                /\ token'[q].refresh = "none"
             \/ /\ job[q].at = "access" /\ Finished(q)
                /\ token'[q].refresh = "live"
      BY <1>12, InsertDoes, <1>a
    <2>2. /\ job[q].at # "done"
          /\ \A p \in Requests : p # q => token'[p].grant = token[p].grant
      BY <1>12, <1>a, <1>b, <2>1 DEF insert_oauth_token, tokens, PairsKept
    <2> QED
      BY <2>1, <2>2, FoundKept DEF Finished, WorksOn, Moved
  <1>13. ASSUME NEW q \in Requests, NEW k \in Requests, NEW c \in Clients, token_refresh(q, c, k) PROVE FoundTrue'
    <2>1. /\ token[k].grant \in Requests
          /\ \/ WorksOn(q, "revoke", token[k].grant, {})
             \/ WorksOn(q, "rotate", k, {})
      BY <1>13, RefreshDoes, <1>a
    <2>2. /\ job[q].at # "done"
          /\ \A p \in Requests : p # q => token'[p].grant = token[p].grant
      BY <1>13, <1>a, <1>b, <2>1 DEF token_refresh, tokens
    <2> QED
      BY <2>1, <2>2, FoundKept DEF Finished, WorksOn, Moved
  <1>14. ASSUME NEW q \in Requests, RotateUpdate(q) PROVE FoundTrue'
    <2>1. /\ job[q].on \in Requests
          /\ \/ /\ WorksOn(q, "locked", job[q].on, {})
                /\ token[job[q].on].refresh = "live" /\ token[job[q].on].grant \notin revoked
             \/ Finished(q)
      BY <1>14, UpdateDoes, <1>a
    <2>2. /\ job[q].at # "done"
          /\ \A p \in Requests : p # q => token'[p].grant = token[p].grant
      BY <1>14, <1>a, <1>b, <2>1 DEF RotateUpdate, tokens
    <2> QED
      BY <2>1, <2>2, FoundKept DEF Finished, WorksOn, Moved
  <1>15. ASSUME NEW q \in Requests, rotate_oauth_refresh_token(q) PROVE FoundTrue'
    <2>1. PICK k \in Requests :
             /\ k = job[q].on /\ k # q /\ Finished(q) /\ token[k].grant \in Requests
             /\ token' \in [Requests -> Pair] /\ token[k].refresh = "live"
             /\ PairIs(k, token[k].grant, token[k].access, "revoked")
             /\ PairIs(q, token[k].grant, "live", "live") /\ PairsKept({k, q})
      BY <1>15, RotateDoes, <1>a
    <2>2. /\ job[q].at # "done"
          /\ \A p \in Requests : p # q => token'[p].grant = token[p].grant
      BY <1>15, <1>a, <1>b, <2>1 DEF rotate_oauth_refresh_token, tokens, PairsKept, PairIs
    <2> QED
      BY <2>1, <2>2, FoundKept DEF Finished, WorksOn, Moved
  <1>16. ASSUME NEW q \in Requests, NEW k \in Requests, revoke(q, k) PROVE FoundTrue'
    <2>1. /\ token[k].grant \in Requests
          /\ \/ /\ token[k].refresh # "none" /\ UNCHANGED token
                /\ WorksOn(q, "revoke", token[k].grant, {})
             \/ /\ token' \in [Requests -> Pair] /\ Finished(q) /\ PairsKept({k})
                /\ PairIs(k, token[k].grant, "revoked", token[k].refresh)
      BY <1>16, RevokeDoes, <1>a
    <2>2. /\ job[q].at # "done"
          /\ \A p \in Requests : p # q => token'[p].grant = token[p].grant
      BY <1>16, <1>a, <1>b, <2>1 DEF revoke, tokens, PairsKept, PairIs
    <2> QED
      BY <2>1, <2>2, FoundKept DEF Finished, WorksOn, Moved
  <1>17. ASSUME NEW q \in Requests, RevokeUpdate(q) PROVE FoundTrue'
    <2>1. job[q].on \in Requests /\ WorksOn(q, "revoking", job[q].on, PairsOf(job[q].on))
      BY <1>17, SnapshotDoes, <1>a
    <2>2. UNCHANGED token /\ job[q].at = "revoke" /\ job[job[q].on].at = "done"
      BY <1>17, <1>a DEF RevokeUpdate, tokens, IndInv, Shape, ShapeOf
    <2>3. job'[q].on = job[q].on /\ job'[q].found = PairsOf(job[q].on)
      BY <2>1 DEF WorksOn, Moved
    <2>4. \A p \in Requests : p # q => job'[p] = job[p]
      BY <2>1 DEF WorksOn, Moved
    <2>5. \A k \in PairsOf(job[q].on) : job[k].at = "done" /\ token[k].grant = job[q].on
      <3> SUFFICES ASSUME NEW k \in PairsOf(job[q].on) PROVE job[k].at = "done"
        BY DEF PairsOf
      <3>1. k \in Requests /\ token[k].grant = job[q].on /\ token[k] # NoPair
        BY <1>b, <2>1, NoneAssumption DEF PairsOf
      <3>2. job[k].at \in {"done", "granted", "access"}
        BY <1>a, <3>1 DEF IndInv, Shape, ShapeOf
      <3>3. job[k].at # "access"
        BY <1>a, <2>1, <2>2, <3>1, NoneAssumption DEF FoundTrue
      <3> QED
        BY <1>a, <3>1, <3>2, <3>3 DEF IndInv, Shape, ShapeOf
    <2>6. \A p \in Requests : job[p].found \subseteq Requests
      BY <1>a, JobFields DEF IndInv
    <2>7. \A p \in Requests : job[p].at = "done" => job'[p].at = "done"
      BY <2>2, <2>4
    <2>8. PairsOf(job[q].on) \subseteq Requests
      BY DEF PairsOf
    <2> QED
      BY <1>a, <2>1, <2>2, <2>3, <2>4, <2>5, <2>6, <2>7, <2>8 DEF FoundTrue, WorksOn, Moved
  <1>18. ASSUME NEW q \in Requests, revoke_oauth_grant(q) PROVE FoundTrue'
    <2>1. /\ job[q].on \in Requests /\ token' \in [Requests -> Pair] /\ Finished(q)
          /\ revoked' \subseteq revoked \cup {job[q].on}
          /\ revoked \subseteq revoked'
          /\ job[q].on \in revoked' => grant[job[q].on] # None
          /\ \A k \in Requests : Hit(k)
      BY <1>18, GrantRevokeDoes, <1>a
    <2>2. /\ job[q].at # "done"
          /\ \A p \in Requests : p # q => token'[p].grant = token[p].grant
      BY <1>18, <1>a, <1>b, <2>1 DEF revoke_oauth_grant, tokens, Hit
    <2> QED
      BY <2>1, <2>2, FoundKept DEF Finished, WorksOn, Moved
  <1>19. ASSUME NEW old \in SUBSET Clients, PruneStart(old) PROVE FoundTrue'
    BY <1>19, FoundKept DEF PruneStart, tokens
  <1>20. ASSUME prune_unconsumed_oauth_clients PROVE FoundTrue'
    <2>1. Pruned
      BY <1>20, PruneDoes, <1>a
    <2> QED
      BY <1>20, <1>b, <2>1, FoundKept DEF prune_unconsumed_oauth_clients, Pruned
  <1>21. ASSUME NEW q \in Requests, Abandon(q) PROVE FoundTrue'
    <2>1. Finished(q)
      BY <1>21, FinishMoves, <1>a DEF Abandon, IndInv
    <2>2. /\ job[q].at # "done"
          /\ \A p \in Requests : p # q => token'[p].grant = token[p].grant
      BY <1>21, <1>a, <1>b, <2>1 DEF Abandon, tokens
    <2> QED
      BY <2>1, <2>2, FoundKept DEF Finished, WorksOn, Moved
  <1>22. ASSUME NEW s \in Sessions, NEW a \in Accounts, NEW o \in Accounts, SignProof(s, a, o) PROVE FoundTrue'
    BY <1>22, FoundKept DEF SignProof, tokens
  <1>23. ASSUME NEW d \in Sessions, NEW a \in Accounts, add_delegate_key(d, a) PROVE FoundTrue'
    BY <1>23, FoundKept DEF add_delegate_key, tokens
  <1>24. ASSUME NEW d \in Sessions, NEW a \in Accounts, remove_delegate_key(d, a) PROVE FoundTrue'
    BY <1>24, FoundKept DEF remove_delegate_key, tokens
  <1>25. CASE UNCHANGED vars
    BY <1>25, FoundKept DEF vars, tokens
  <1> QED
    BY <1>1, <1>2, <1>3, <1>4, <1>5, <1>6, <1>7, <1>8, <1>9, <1>10, <1>11, <1>12, <1>13, <1>14, <1>15, <1>16, <1>17, <1>18, <1>19, <1>20, <1>21, <1>22, <1>23, <1>24, <1>25
    DEF Next, Consents, Exchanges, Rotations, Revocations, Environment

Refined == Bridge!Next \/ UNCHANGED Bridge!vars

\* Every step of the bridge is a step of Connections or leaves it unchanged.
LEMMA RefineStep ==
    Inv /\ Inv' /\ [Next]_vars => Refined
  <1> SUFFICES ASSUME Inv, Inv', [Next]_vars PROVE Refined
    OBVIOUS
  <1>a. IndInv /\ IndInv' /\ Unopened
    BY DEF Inv
  <1>b. Idle.at = "idle" /\ Idle.of = None /\ NoPair.grant = None
    BY DEF Idle, Work, NoPair, MkPair
  <1>c. session \in [Sessions -> [status : {"none", "pending", "over"}, client : Clients \cup {None}]]
    BY DEF Inv, IndInv, TypeOK
  <1>d. UNCHANGED session => SessionsKept
    BY DEF SessionsKept
  <1>1. ASSUME NEW c \in Clients, register_client(c) PROVE Refined
    <2>1. SessionsKept /\ UNCHANGED <<job, code, tokens, signed>>
      BY <1>1, <1>d DEF register_client, flow, tokens, outside
    <2>2. CarriedKept
      BY <2>1, CarriedLess
    <2> QED
      BY <1>a, <2>1, <2>2, QuietStep DEF Refined, tokens
  <1>2. ASSUME NEW s \in Sessions, NEW c \in Clients, authorize(s, c) PROVE Refined
    <2>1. /\ UNCHANGED <<code, job, grant, revoked, token, delegate, signed>>
          /\ session[s].status = "none" /\ session'[s].status = "pending" /\ session'[s].client = c
          /\ \A t \in Sessions : t # s => session'[t] = session[t]
      BY <1>2, <1>c DEF authorize, tokens, outside
    <2>2. UNCHANGED <<Approved, Spent, Links, Serving>>
      <3>1. \A t \in Sessions : UnderWay(t)' <=> UnderWay(t)
        BY <2>1 DEF UnderWay
      <3>2. UNCHANGED Spent
        BY <2>1, <3>1 DEF Spent
      <3>3. UNCHANGED <<Approved, Links, Serving>>
        BY <2>1 DEF Approved, Links, LinkOf, On, Serving, resolve_oauth_bearer
      <3> QED
        BY <3>2, <3>3
    <2>3. Asked' = Asked \cup {<<s, c>>} /\ \A d \in Clients : <<s, d>> \notin Asked
      BY <2>1 DEF Asked
    <2>4. Bridge!Ask(s, c)
      BY <2>2, <2>3 DEF Bridge!Ask
    <2> QED
      BY <2>4 DEF Refined, Bridge!Next
  <1>3. ASSUME NEW q \in Requests, NEW s \in Sessions, NEW a \in Accounts, NEW o \in Accounts, session_complete(q, s, a, o) PROVE Refined
    <2>1. PICK b \in Consent :
             /\ b.session = s /\ b.client = session[s].client /\ b.account = a
             /\ Moved(q, "consumed", b, o, None, {})
      BY <1>3, CompleteDoes, <1>a
    <2>2. /\ UNCHANGED <<code, tokens, signed>> /\ job[q].of = None
          /\ session[s].status = "pending" /\ SessionsKept
      BY <1>3, <1>b, <1>c DEF session_complete, consume_oauth_session, SessionsKept, outside
    <2>3. CarriedKept
      BY <2>1, <2>2 DEF CarriedKept, UnderWay, Moved
    <2> QED
      BY <1>a, <2>2, <2>3, QuietStep DEF Refined, tokens
  <1>4. ASSUME NEW s \in Sessions, session_cancel(s) PROVE Refined
    <2>1. SessionsKept /\ UNCHANGED <<job, code, tokens, signed>>
      BY <1>4, <1>c DEF session_cancel, consume_oauth_session, SessionsKept, outside
    <2>2. CarriedKept
      BY <2>1, CarriedLess
    <2> QED
      BY <1>a, <2>1, <2>2, QuietStep DEF Refined, tokens
  <1>5. ASSUME NEW s \in Sessions, SessionExpires(s) PROVE Refined
    <2>1. SessionsKept /\ UNCHANGED <<job, code, tokens, signed>>
      BY <1>5, <1>c DEF SessionExpires, SessionsKept, outside
    <2>2. CarriedKept
      BY <2>1, CarriedLess
    <2> QED
      BY <1>a, <2>1, <2>2, QuietStep DEF Refined, tokens
  <1>6. ASSUME NEW q \in Requests, find_reusable_oauth_delegate(q) PROVE Refined
    <2>1. PICK c \in Consent :
             /\ job[q].of \in Consent /\ c.session = job[q].of.session
             /\ c.client = job[q].of.client /\ c.account = job[q].of.account
             /\ c.delegate = c.session \/ delegate[c.delegate] = c.account
             /\ Moved(q, "picked", c, job[q].signer, None, {})
      BY <1>6, PickDoes, <1>a
    <2>2. SessionsKept /\ UNCHANGED <<code, tokens, signed>> /\ job[q].of # None
      BY <1>6, <1>d, <2>1, ConsentFields DEF find_reusable_oauth_delegate, flow, outside
    <2>3. CarriedKept
      BY <2>1, <2>2 DEF CarriedKept, UnderWay, Moved
    <2> QED
      BY <1>a, <2>2, <2>3, QuietStep DEF Refined, tokens
  <1>7. ASSUME NEW q \in Requests, activate_oauth_delegate(q) PROVE Refined
    <2>1. /\ job[q].of \in Consent /\ job[q].signer = job[q].of.account
          /\ Moved(q, "verified", job[q].of, job[q].signer, None, {})
          /\ delegate' \in [Sessions -> Accounts \cup {None}]
      BY <1>7, ActivateDoes, <1>a
    <2>2. SessionsKept /\ UNCHANGED <<code, tokens, signed>>
      BY <1>7, <1>d DEF activate_oauth_delegate, flow, outside
    <2>3. CarriedKept
      BY <2>1, <2>2, CarriedLess DEF Finished, WorksOn, Moved
    <2> QED
      BY <1>a, <2>2, <2>3, QuietStep DEF Refined, tokens
  <1>8. ASSUME NEW q \in Requests, insert_oauth_code(q) PROVE Refined
    <2>1. Finished(q)
      BY <1>8, FinishMoves, <1>a DEF insert_oauth_code, IndInv
    <2>2. /\ SessionsKept /\ UNCHANGED <<tokens, signed>> /\ job[q].of # None
          /\ \A p \in Requests : code'[p] = IF p = q THEN job[q].of ELSE code[p]
      BY <1>8, <1>a, <1>d DEF insert_oauth_code, IndInv, TypeOK, outside
    <2>3. CarriedKept
      BY <2>1, <2>2 DEF CarriedKept, UnderWay, Finished, WorksOn, Moved
    <2> QED
      BY <1>a, <2>2, <2>3, QuietStep DEF Refined, tokens
  <1>9. ASSUME NEW q \in Requests, CodeExpires(q) PROVE Refined
    <2>1. SessionsKept /\ UNCHANGED <<job, tokens, signed>>
          /\ \A p \in Requests : code'[p] = code[p] \/ code'[p] = None
      BY <1>9, <1>a, <1>d DEF CodeExpires, IndInv, TypeOK, outside
    <2>2. CarriedKept
      BY <2>1, CarriedLess
    <2> QED
      BY <1>a, <2>1, <2>2, QuietStep DEF Refined, tokens
  <1>10. ASSUME NEW q \in Requests, NEW x \in Requests, NEW c \in Clients, token_code(q, c, x) PROVE Refined
    <2>1. code[x] \in Consent /\ (Moved(q, "exchange", code[x], None, None, {}) \/ Finished(q))
      BY <1>10, CodeDoes, <1>a
    <2>2. /\ SessionsKept /\ UNCHANGED <<tokens, signed>> /\ code[x] # None
          /\ \A p \in Requests : code'[p] = code[p] \/ code'[p] = None
      BY <1>10, <1>a, <1>d DEF token_code, consume_oauth_code, IndInv, TypeOK, outside
    <2>3. CarriedKept
      BY <2>1, <2>2 DEF CarriedKept, UnderWay, Finished, WorksOn, Moved
    <2> QED
      BY <1>a, <2>2, <2>3, QuietStep DEF Refined, tokens
  <1>11. ASSUME NEW q \in Requests, insert_oauth_grant(q) PROVE Refined
    BY <1>11, <1>a, ConnectStep DEF Refined
  <1>12. ASSUME NEW q \in Requests, insert_oauth_token(q) PROVE Refined
    <2>1. /\ token' \in [Requests -> Pair] /\ PairsKept({q}) /\ grant[q] # None
          /\ token'[q].grant = q
          /\ \/ /\ job[q].at = "granted" /\ WorksOn(q, "access", None, {})
                /\ token'[q].refresh = "none"
             \/ /\ job[q].at = "access" /\ Finished(q)
                /\ token'[q].refresh = "live"
      BY <1>12, InsertDoes, <1>a
    <2>2. UNCHANGED <<session, signed, code, grant, revoked>>
      BY <1>12 DEF insert_oauth_token, flow, outside
    <2>3. \A p \in Requests : job'[p].of = job[p].of
      BY <1>a, <2>1 DEF Finished, WorksOn, Moved, IndInv, Shape, ShapeOf
    <2>4. token[q].grant \in {q, None}
      BY <1>a, <1>b, <2>1 DEF IndInv, Shape, ShapeOf, Inv, FoundTrue
    <2> QED
      BY <1>a, <2>1, <2>2, <2>3, <2>4, ServeStep DEF Refined, PairsKept
  <1>13. ASSUME NEW q \in Requests, NEW k \in Requests, NEW c \in Clients, token_refresh(q, c, k) PROVE Refined
    <2>1. /\ token[k].grant \in Requests
          /\ \/ WorksOn(q, "revoke", token[k].grant, {})
             \/ WorksOn(q, "rotate", k, {})
      BY <1>13, RefreshDoes, <1>a
    <2>2. SessionsKept /\ UNCHANGED <<code, tokens, signed>>
      BY <1>13, <1>d DEF token_refresh, flow, outside
    <2>3. CarriedKept
      BY <2>1, <2>2, CarriedLess DEF Finished, WorksOn, Moved
    <2> QED
      BY <1>a, <2>2, <2>3, QuietStep DEF Refined, tokens
  <1>14. ASSUME NEW q \in Requests, RotateUpdate(q) PROVE Refined
    <2>1. /\ job[q].on \in Requests
          /\ \/ /\ WorksOn(q, "locked", job[q].on, {})
                /\ token[job[q].on].refresh = "live" /\ token[job[q].on].grant \notin revoked
             \/ Finished(q)
      BY <1>14, UpdateDoes, <1>a
    <2>2. SessionsKept /\ UNCHANGED <<code, tokens, signed>>
      BY <1>14, <1>d DEF RotateUpdate, flow, outside
    <2>3. CarriedKept
      BY <2>1, <2>2, CarriedLess DEF Finished, WorksOn, Moved
    <2> QED
      BY <1>a, <2>2, <2>3, QuietStep DEF Refined, tokens
  <1>15. ASSUME NEW q \in Requests, rotate_oauth_refresh_token(q) PROVE Refined
    <2>1. PICK k \in Requests :
             /\ k = job[q].on /\ k # q /\ Finished(q) /\ token[k].grant \in Requests
             /\ token' \in [Requests -> Pair] /\ token[k].refresh = "live"
             /\ PairIs(k, token[k].grant, token[k].access, "revoked")
             /\ PairIs(q, token[k].grant, "live", "live") /\ PairsKept({k, q})
      BY <1>15, RotateDoes, <1>a
    <2>2. UNCHANGED <<session, signed, code, grant, revoked>> /\ job[q].at = "locked"
      BY <1>15 DEF rotate_oauth_refresh_token, flow, outside
    <2>3. \A p \in Requests : job'[p].of = job[p].of
      BY <1>a, <2>1, <2>2 DEF Finished, WorksOn, Moved, IndInv, Shape, ShapeOf
    <2>4. token[q].grant = None /\ grant[token[k].grant] # None
      BY <1>a, <1>b, <2>1, <2>2, PairFields, NoneAssumption DEF IndInv, Shape, ShapeOf
    <2>5. \A p \in Requests : \/ token'[p] = token[p]
                              \/ /\ token[p].grant \in {token[k].grant, None}
                                 /\ token'[p].grant = token[k].grant
      BY <2>1, <2>4 DEF PairsKept, PairIs
    <2> QED
      BY <1>a, <2>1, <2>2, <2>3, <2>4, <2>5, ServeStep DEF Refined
  <1>16. ASSUME NEW q \in Requests, NEW k \in Requests, revoke(q, k) PROVE Refined
    <2>1. /\ token[k].grant \in Requests
          /\ \/ /\ token[k].refresh # "none" /\ UNCHANGED token
                /\ WorksOn(q, "revoke", token[k].grant, {})
             \/ /\ token' \in [Requests -> Pair] /\ Finished(q) /\ PairsKept({k})
                /\ PairIs(k, token[k].grant, "revoked", token[k].refresh)
      BY <1>16, RevokeDoes, <1>a
    <2>2. UNCHANGED <<session, signed, code, grant, revoked>> /\ job[q].of = None
      BY <1>16, <1>b DEF revoke, flow, outside
    <2>3. \A p \in Requests : job'[p].of = job[p].of
      BY <1>a, <2>1, <2>2 DEF Finished, WorksOn, Moved
    <2>4. grant[token[k].grant] # None
      BY <1>a, <2>1, PairFields, NoneAssumption DEF IndInv
    <2>5. \A p \in Requests : \/ token'[p] = token[p]
                              \/ /\ token[p].grant \in {token[k].grant, None}
                                 /\ token'[p].grant = token[k].grant
      BY <2>1 DEF PairsKept, PairIs
    <2> QED
      BY <1>a, <2>1, <2>2, <2>3, <2>4, <2>5, ServeStep DEF Refined
  <1>17. ASSUME NEW q \in Requests, RevokeUpdate(q) PROVE Refined
    <2>1. job[q].on \in Requests /\ WorksOn(q, "revoking", job[q].on, PairsOf(job[q].on))
      BY <1>17, SnapshotDoes, <1>a
    <2>2. SessionsKept /\ UNCHANGED <<code, tokens, signed>>
      BY <1>17, <1>d DEF RevokeUpdate, flow, outside
    <2>3. CarriedKept
      BY <2>1, <2>2, CarriedLess DEF Finished, WorksOn, Moved
    <2> QED
      BY <1>a, <2>2, <2>3, QuietStep DEF Refined, tokens
  <1>18. ASSUME NEW q \in Requests, revoke_oauth_grant(q) PROVE Refined
    BY <1>18, <1>a, CutStep DEF Refined
  <1>19. ASSUME NEW old \in SUBSET Clients, PruneStart(old) PROVE Refined
    <2>1. SessionsKept /\ UNCHANGED <<job, code, tokens, signed>>
      BY <1>19, <1>d DEF PruneStart, flow, tokens, outside
    <2>2. CarriedKept
      BY <2>1, CarriedLess
    <2> QED
      BY <1>a, <2>1, <2>2, QuietStep DEF Refined, tokens
  <1>20. ASSUME prune_unconsumed_oauth_clients PROVE Refined
    BY <1>20, <1>a, PruneStep DEF Refined
  <1>21. ASSUME NEW q \in Requests, Abandon(q) PROVE Refined
    <2>1. Finished(q)
      BY <1>21, FinishMoves, <1>a DEF Abandon, IndInv
    <2>2. SessionsKept /\ UNCHANGED <<code, tokens, signed>>
      BY <1>21, <1>d DEF Abandon, flow, outside
    <2>3. CarriedKept
      BY <2>1, <2>2, CarriedLess DEF Finished, WorksOn, Moved
    <2> QED
      BY <1>a, <2>2, <2>3, QuietStep DEF Refined, tokens
  <1>22. ASSUME NEW s \in Sessions, NEW a \in Accounts, NEW o \in Accounts, SignProof(s, a, o) PROVE Refined
    <2>1. UNCHANGED <<session, code, job, grant, revoked, token, delegate>>
          /\ signed' = signed \cup {<<s, a, o>>}
      BY <1>22 DEF SignProof, flow, tokens
    <2>2. UNCHANGED <<Asked, Spent, Links, Serving>>
      BY <2>1 DEF Asked, Spent, UnderWay, Links, LinkOf, On, Serving, resolve_oauth_bearer
    <2>3. CASE o = a
      <3>1. Approved' = Approved \cup {<<s, a>>}
        BY <2>1, <2>3 DEF Approved
      <3>2. Bridge!Approve(s, a)
        BY <2>2, <3>1 DEF Bridge!Approve
      <3> QED
        BY <3>2 DEF Refined, Bridge!Next
    <2>4. CASE o # a
      <3>1. UNCHANGED Approved
        BY <2>1, <2>4 DEF Approved
      <3> QED
        BY <2>2, <3>1 DEF Refined, Bridge!vars
    <2> QED
      BY <2>3, <2>4
  <1>23. ASSUME NEW d \in Sessions, NEW a \in Accounts, add_delegate_key(d, a) PROVE Refined
    <2>1. SessionsKept /\ UNCHANGED <<job, code, tokens, signed>>
      BY <1>23, <1>d DEF add_delegate_key, flow, tokens, outside
    <2>2. CarriedKept
      BY <2>1, CarriedLess
    <2> QED
      BY <1>a, <2>1, <2>2, QuietStep DEF Refined, tokens
  <1>24. ASSUME NEW d \in Sessions, NEW a \in Accounts, remove_delegate_key(d, a) PROVE Refined
    <2>1. SessionsKept /\ UNCHANGED <<job, code, tokens, signed>>
      BY <1>24, <1>d DEF remove_delegate_key, flow, tokens, outside
    <2>2. CarriedKept
      BY <2>1, CarriedLess
    <2> QED
      BY <1>a, <2>1, <2>2, QuietStep DEF Refined, tokens
  <1>25. CASE UNCHANGED vars
    <2>1. SessionsKept /\ UNCHANGED <<job, code, tokens, signed>>
      BY <1>25, <1>d DEF vars, flow, tokens, outside
    <2>2. CarriedKept
      BY <2>1, CarriedLess
    <2> QED
      BY <1>a, <2>1, <2>2, QuietStep DEF Refined, tokens
  <1> QED
    BY <1>1, <1>2, <1>3, <1>4, <1>5, <1>6, <1>7, <1>8, <1>9, <1>10, <1>11, <1>12, <1>13, <1>14, <1>15, <1>16, <1>17, <1>18, <1>19, <1>20, <1>21, <1>22, <1>23, <1>24, <1>25
    DEF Next, Consents, Exchanges, Rotations, Revocations, Environment

-------------------------------------------------------------------------------
\* The refinement's invariant holds in every reachable state.
LEMMA Invariance == Spec => []Inv
  <1>1. Init => Inv
    <2>1. Idle.at = "idle"
      BY DEF Idle, Work
    <2> QED
      BY <2>1, InitInv DEF Init, Inv, FoundTrue, Unopened
  <1>2. Inv /\ [Next]_vars => Inv'
    BY NextInv, FoundStep, UnopenedStep DEF Inv
  <1> QED
    BY <1>1, <1>2, PTL DEF Spec

\* The bridge implements Connections: every connection is the one its session's
\* client asked for and its account's owner approved, a session gives at most
\* one, a revocation or a prune ends connections and no other step does, and
\* what is served is on.
THEOREM ConnectionsRefined == Spec => ImplementsConnections
  <1>1. Init => Bridge!Init
    <2> SUFFICES ASSUME Init PROVE Bridge!Init
      OBVIOUS
    <2>1. Asked = {} /\ Approved = {} /\ Spent = {} /\ Links = {}
      BY DEF Init, Asked, Approved, Spent, Links, On
    <2>2. NoPair.access = "none"
      BY DEF NoPair, MkPair
    <2>3. Serving = {}
      BY <2>2 DEF Init, Serving, resolve_oauth_bearer
    <2> QED
      BY <2>1, <2>3 DEF Bridge!Init
  <1>2. Inv /\ Inv' /\ [Next]_vars => [Bridge!Next]_(Bridge!vars)
    BY RefineStep DEF Refined
  <1> QED
    BY <1>1, <1>2, Invariance, PTL DEF Spec, ImplementsConnections, Bridge!Spec
===============================================================================
