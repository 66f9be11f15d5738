-------------------------- MODULE OAuthBridgeProofs ---------------------------
(***************************************************************************)
(* The properties of OAuthBridge for any clients, sessions, accounts and    *)
(* requests.  Besides the types the invariant follows three things: what a  *)
(* request id has minted at each step of its handler (Shape), who holds the *)
(* consent of a session on its way from the handler through the code to the *)
(* grant (ConsentTrue, HeldOnce), and which refresh tokens a rotation has   *)
(* locked (LocksTrue).                                                     *)
(***************************************************************************)
EXTENDS OAuthBridge, TLAPS

\* What the ids of the requests name: nothing before their handler mints it.
ShapeOf(q) ==
    /\ job[q].at \notin {"done", "granted", "access"} => grant[q] = None /\ token[q] = NoPair
    /\ code[q] # None => job[q].at = "done" /\ grant[q] = None
    /\ job[q].of # None => job[q].at \in {"consumed", "picked", "verified", "exchange"}
    /\ job[q].at = "granted" => token[q] = NoPair
    /\ job[q].at \in {"granted", "access"} =>
          token[q].refresh = "none" /\ \A k \in Requests : token[k].grant = q => k = q
    /\ job[q].at \in {"rotate", "locked", "revoke", "revoking"} => job[job[q].on].at = "done"
    /\ q \in revoked => grant[q] # None /\ job[q].at = "done"
Shape == \A q \in Requests : ShapeOf(q)

\* The sessions whose consent a request holds, as its handler's row, as the
\* code or as the grant.
Holds(q, s) ==
    \/ job[q].of # None /\ job[q].of.session = s
    \/ code[q] # None /\ code[q].session = s
    \/ grant[q] # None /\ grant[q].session = s

\* A consent is in one place, and only once its session is over.
SessionsTrue == \A s \in Sessions :
    /\ session[s].status # "none" => session[s].client # None
    /\ session[s].status # "over" => delegate[s] = None
HeldOver == \A q \in Requests, s \in Sessions : Holds(q, s) => session[s].status = "over"
HeldOnce == \A q, p \in Requests, s \in Sessions : Holds(q, s) /\ Holds(p, s) => q = p

\* What is true of a consent once the delegate key was verified.
Good(c) ==
    /\ session[c.session].client = c.client
    /\ <<c.session, c.account, c.account>> \in signed
    /\ delegate[c.delegate] = c.account
    /\ onchain[c.delegate][c.account] # "never"
\* And before: the session's own key is not active yet.
Claimed(c, o) ==
    /\ session[c.session].client = c.client
    /\ <<c.session, c.account, o>> \in signed
    /\ delegate[c.session] = None
ConsentOf(q) ==
    /\ grant[q] # None => Good(grant[q])
    /\ code[q] # None => Good(code[q])
    /\ job[q].at \in {"verified", "exchange"} => Good(job[q].of)
    /\ job[q].at \in {"consumed", "picked"} => Claimed(job[q].of, job[q].signer)
    /\ job[q].at = "picked" => \/ job[q].of.delegate = job[q].of.session
                               \/ delegate[job[q].of.delegate] = job[q].of.account
ConsentTrue == \A q \in Requests : ConsentOf(q)

\* The token a rotation has locked can still be rotated, or its grant was
\* deleted; one rotation holds it.
LocksTrue ==
    /\ \A q \in Requests : job[q].at = "locked" => \/ token[job[q].on].refresh = "live"
                                                   \/ token[job[q].on] = NoPair
    /\ \A p, q \in Requests : /\ job[p].at = "locked" /\ job[q].at = "locked"
                              /\ job[p].on = job[q].on
                              => p = q

IndInv == /\ TypeOK /\ Shape /\ SessionsTrue /\ HeldOver /\ HeldOnce
          /\ ConsentTrue /\ LocksTrue /\ OneRefreshPerGrant

-------------------------------------------------------------------------------
(* What the steps do to the handlers and to the tokens, field by field.    *)

Steps == {"idle", "done", "consumed", "picked", "verified", "exchange", "granted",
          "access", "rotate", "locked", "revoke", "revoking"}

\* The handler of q is at a step now, the others are where they were.
Moved(q, step, c, o, x, f) ==
    /\ job' \in [Requests -> Job]
    /\ job'[q].at = step /\ job'[q].of = c /\ job'[q].signer = o
    /\ job'[q].on = x /\ job'[q].found = f
    /\ \A p \in Requests : p # q => job'[p] = job[p]
WorksOn(q, step, x, f) == Moved(q, step, None, None, x, f)
Finished(q) == WorksOn(q, "done", None, {})

\* The fields of a typed record.
LEMMA JobFields ==
    ASSUME TypeOK, NEW q \in Requests
    PROVE  /\ job[q].at \in Steps /\ job[q].of \in Consent \cup {None}
           /\ job[q].signer \in Accounts \cup {None}
           /\ job[q].on \in Requests \cup {None} /\ job[q].found \in SUBSET Requests
  BY DEF TypeOK, Job, Steps

\* The fields of a typed pair; a pair that has a refresh token has its grant row.
LEMMA PairFields ==
    ASSUME TypeOK, NEW k \in Requests
    PROVE  /\ token[k].grant \in Requests \cup {None}
           /\ token[k].access \in TokenState /\ token[k].refresh \in TokenState
           /\ token[k].grant = None => token[k] = NoPair
           /\ token[k].grant # None => token[k].grant \in Requests /\ grant[token[k].grant] # None
           /\ token[k].refresh # "none" => token[k].grant # None
  <1>1. token[k] \in Pair
    BY DEF TypeOK
  <1>2. /\ NoPair.grant = None /\ NoPair.access = "none" /\ NoPair.refresh = "none"
    BY DEF NoPair, MkPair
  <1>3. token[k] # NoPair => token[k].grant # None /\ grant[token[k].grant] # None
    BY DEF TypeOK
  <1>4. token[k].grant = None => token[k] = NoPair
    BY <1>3
  <1>5. /\ token[k].grant \in Requests \cup {None}
        /\ token[k].access \in TokenState /\ token[k].refresh \in TokenState
    BY <1>1 DEF Pair
  <1>6. token[k].grant # None => token[k] # NoPair
    BY <1>2
  <1>7. token[k].refresh # "none" => token[k] # NoPair
    BY <1>2
  <1> QED
    BY <1>3, <1>4, <1>5, <1>6, <1>7

\* A consent row in a handler or in a table is one.
LEMMA ConsentFields ==
    ASSUME NEW c \in Consent
    PROVE  /\ c.session \in Sessions /\ c.client \in Clients
           /\ c.account \in Accounts /\ c.delegate \in Sessions /\ c # None
  BY ConsentAssumption DEF Consent

\* The record a handler gets is one of Job.
LEMMA CarryMoves ==
    ASSUME TypeOK, NEW q \in Requests, NEW step \in Steps, NEW c \in Consent,
           NEW o \in Accounts \cup {None}, job' = [job EXCEPT ![q] = Carry(step, c, o)]
    PROVE  Moved(q, step, c, o, None, {})
  <1> DEFINE j == Carry(step, c, o)
  <1>1. j \in Job
    BY DEF Carry, Job, Steps
  <1>2. j.at = step /\ j.of = c /\ j.signer = o /\ j.on = None /\ j.found = {}
    BY DEF Carry
  <1>3. job \in [Requests -> Job] /\ job' = [job EXCEPT ![q] = j]
    BY DEF TypeOK
  <1> HIDE DEF j
  <1>4. job' \in [Requests -> Job] /\ job'[q] = j /\ \A p \in Requests : p # q => job'[p] = job[p]
    BY <1>1, <1>3
  <1> QED
    BY <1>2, <1>4 DEF Moved

\* A handler that is given a token or a grant to work on.
LEMMA WorkMoves ==
    ASSUME TypeOK, NEW q \in Requests, NEW step \in Steps, NEW x \in Requests \cup {None},
           NEW f \in SUBSET Requests, job' = [job EXCEPT ![q] = Work(step, x, f)]
    PROVE  WorksOn(q, step, x, f)
  <1> DEFINE j == Work(step, x, f)
  <1>1. j \in Job
    BY DEF Work, Job, Steps
  <1>2. j.at = step /\ j.of = None /\ j.signer = None /\ j.on = x /\ j.found = f
    BY DEF Work
  <1>3. job \in [Requests -> Job] /\ job' = [job EXCEPT ![q] = j]
    BY DEF TypeOK
  <1> HIDE DEF j
  <1>4. job' \in [Requests -> Job] /\ job'[q] = j /\ \A p \in Requests : p # q => job'[p] = job[p]
    BY <1>1, <1>3
  <1> QED
    BY <1>2, <1>4 DEF Moved, WorksOn

\* A handler that has answered keeps nothing.
LEMMA FinishMoves ==
    ASSUME TypeOK, NEW q \in Requests, Finish(q)
    PROVE  Finished(q)
  BY WorkMoves DEF Finish, Done, Finished, Steps

\* What the pair of a request is after a step that writes it.
PairIs(q, g, a, r) ==
    token'[q].grant = g /\ token'[q].access = a /\ token'[q].refresh = r
PairsKept(Q) == \A k \in Requests : k \notin Q => token'[k] = token[k]

\* A write of one pair leaves the other pairs alone.
LEMMA PairSet ==
    ASSUME TypeOK, NEW q \in Requests, NEW g \in Requests, NEW a \in TokenState,
           NEW r \in TokenState, token' = [token EXCEPT ![q] = MkPair(g, a, r)]
    PROVE  /\ token' \in [Requests -> Pair] /\ PairIs(q, g, a, r) /\ PairsKept({q})
  <1>1. MkPair(g, a, r) \in Pair
    BY DEF MkPair, Pair
  <1>2. token' \in [Requests -> Pair] /\ token'[q] = MkPair(g, a, r)
        /\ \A k \in Requests : k # q => token'[k] = token[k]
    BY <1>1 DEF TypeOK
  <1> QED
    BY <1>2 DEF PairIs, PairsKept, MkPair

\* session_complete takes over the consent of the session it consumed.
LEMMA CompleteDoes ==
    ASSUME IndInv, NEW q \in Requests, NEW s \in Sessions, NEW a \in Accounts,
           NEW o \in Accounts, session_complete(q, s, a, o)
    PROVE  \E c \in Consent :
              /\ c.session = s /\ c.client = session[s].client /\ c.account = a
              /\ Moved(q, "consumed", c, o, None, {})
  <1> DEFINE c == [session |-> s, client |-> session[s].client, account |-> a, delegate |-> s]
  <1>1. session[s].client \in Clients
    BY DEF session_complete, consume_oauth_session, IndInv, TypeOK, SessionsTrue
  <1>2. c \in Consent /\ c.session = s /\ c.client = session[s].client /\ c.account = a
    BY <1>1 DEF Consent
  <1>3. job' = [job EXCEPT ![q] = Carry("consumed", c, o)]
    BY DEF session_complete
  <1> HIDE DEF c
  <1>4. Moved(q, "consumed", c, o, None, {})
    BY <1>2, <1>3, CarryMoves DEF IndInv, Steps
  <1> QED
    BY <1>2, <1>4

\* find_reusable_oauth_delegate changes the delegate of the consent at most, to
\* one that is active for the account of the consent.
LEMMA PickDoes ==
    ASSUME IndInv, NEW q \in Requests, find_reusable_oauth_delegate(q)
    PROVE  \E c \in Consent :
              /\ job[q].of \in Consent /\ c.session = job[q].of.session
              /\ c.client = job[q].of.client /\ c.account = job[q].of.account
              /\ c.delegate = c.session \/ delegate[c.delegate] = c.account
              /\ Moved(q, "picked", c, job[q].signer, None, {})
  <1> DEFINE b == job[q].of
  <1>1. b \in Consent /\ job[q].signer \in Accounts \cup {None}
    BY JobFields DEF find_reusable_oauth_delegate, IndInv, TypeOK
  <1>2. PICK d : /\ d \in IF Reusable(b.account) = {} THEN {b.session} ELSE Reusable(b.account)
                 /\ job' = [job EXCEPT ![q] = Carry("picked", [b EXCEPT !.delegate = d],
                                                    job[q].signer)]
    BY DEF find_reusable_oauth_delegate
  <1>3. d \in Sessions /\ (d = b.session \/ delegate[d] = b.account)
    BY <1>1, <1>2, ConsentFields DEF Reusable
  <1> DEFINE c == [b EXCEPT !.delegate = d]
  <1>4. /\ c \in Consent /\ c.session = b.session /\ c.client = b.client
        /\ c.account = b.account /\ c.delegate = d
    BY <1>1, <1>3 DEF Consent
  <1>5. job' = [job EXCEPT ![q] = Carry("picked", c, job[q].signer)]
    BY <1>2
  <1> HIDE DEF c
  <1>6. Moved(q, "picked", c, job[q].signer, None, {})
    BY <1>1, <1>4, <1>5, CarryMoves DEF IndInv, Steps
  <1> QED
    BY <1>1, <1>3, <1>4, <1>6

\* activate_oauth_delegate keeps the consent, whose signer is the account's owner.
LEMMA ActivateDoes ==
    ASSUME IndInv, NEW q \in Requests, activate_oauth_delegate(q)
    PROVE  /\ job[q].of \in Consent /\ job[q].signer = job[q].of.account
           /\ Moved(q, "verified", job[q].of, job[q].signer, None, {})
           /\ delegate' \in [Sessions -> Accounts \cup {None}]
  <1>1. job[q].of \in Consent /\ job[q].signer \in Accounts \cup {None}
    BY JobFields DEF activate_oauth_delegate, IndInv, TypeOK
  <1>2. Moved(q, "verified", job[q].of, job[q].signer, None, {})
    BY <1>1, CarryMoves DEF activate_oauth_delegate, IndInv, Steps
  <1>3. delegate' \in [Sessions -> Accounts \cup {None}]
    BY <1>1, ConsentFields DEF activate_oauth_delegate, IndInv, TypeOK
  <1> QED
    BY <1>1, <1>2, <1>3 DEF activate_oauth_delegate

\* token_code takes the consent of the code it consumed, or gives up.
LEMMA CodeDoes ==
    ASSUME IndInv, NEW q \in Requests, NEW x \in Requests, NEW c \in Clients, token_code(q, c, x)
    PROVE  /\ code[x] \in Consent
           /\ Moved(q, "exchange", code[x], None, None, {}) \/ Finished(q)
  <1>1. code[x] \in Consent
    BY DEF token_code, consume_oauth_code, IndInv, TypeOK
  <1> QED
    BY <1>1, CarryMoves, FinishMoves DEF token_code, IndInv, Steps

\* token_refresh goes on with the token presented or with its grant, a row that
\* exists.
LEMMA RefreshDoes ==
    ASSUME IndInv, NEW q \in Requests, NEW k \in Requests, NEW c \in Clients,
           token_refresh(q, c, k)
    PROVE  /\ token[k].grant \in Requests
           /\ \/ WorksOn(q, "revoke", token[k].grant, {})
              \/ WorksOn(q, "rotate", k, {})
  <1>1. token[k].grant \in Requests
    BY PairFields DEF token_refresh, IndInv
  <1>2. \/ job' = [job EXCEPT ![q] = Work("revoke", token[k].grant, {})]
        \/ job' = [job EXCEPT ![q] = Work("rotate", k, {})]
    BY DEF token_refresh
  <1>3. TypeOK /\ "revoke" \in Steps /\ "rotate" \in Steps /\ {} \in SUBSET Requests
    BY DEF IndInv, Steps
  <1> QED
    BY <1>1, <1>2, <1>3, WorkMoves

\* The UPDATE of a rotation locks a live refresh token of a grant not revoked,
\* or the handler ends.
LEMMA UpdateDoes ==
    ASSUME IndInv, NEW q \in Requests, RotateUpdate(q)
    PROVE  LET k == job[q].on
           IN  /\ k \in Requests
               /\ \/ /\ WorksOn(q, "locked", k, {})
                     /\ token[k].refresh = "live" /\ token[k].grant \notin revoked
                  \/ Finished(q)
  <1>1. job[q].on \in Requests
    BY JobFields DEF RotateUpdate, IndInv, TypeOK
  <1>2. \/ /\ job' = [job EXCEPT ![q] = Work("locked", job[q].on, {})]
           /\ token[job[q].on].refresh = "live" /\ token[job[q].on].grant \notin revoked
        \/ Finish(q)
    BY DEF RotateUpdate, Finish
  <1>3. TypeOK /\ "locked" \in Steps /\ {} \in SUBSET Requests
    BY DEF IndInv, Steps
  <1> QED
    BY <1>1, <1>2, <1>3, WorkMoves, FinishMoves

\* The commit of a rotation uses the locked token up and gives the grant the
\* pair of the request.
LEMMA RotateDoes ==
    ASSUME IndInv, NEW q \in Requests, rotate_oauth_refresh_token(q)
    PROVE  LET k == job[q].on
           IN  /\ k \in Requests /\ k # q /\ Finished(q) /\ token[k].grant \in Requests
               /\ token' \in [Requests -> Pair] /\ token[k].refresh = "live"
               /\ PairIs(k, token[k].grant, token[k].access, "revoked")
               /\ PairIs(q, token[k].grant, "live", "live") /\ PairsKept({k, q})
  <1> DEFINE k == job[q].on
  <1>1. k \in Requests /\ job[q].at = "locked" /\ job[k].at = "done"
    BY JobFields DEF rotate_oauth_refresh_token, IndInv, TypeOK, Shape, ShapeOf
  <1>2. token[k].grant \in Requests /\ token[k].access \in TokenState /\ token[k].refresh = "live"
    BY <1>1, PairFields DEF rotate_oauth_refresh_token, IndInv, LocksTrue, NoPair, MkPair
  <1> DEFINE old == MkPair(token[k].grant, token[k].access, "revoked")
             new == MkPair(token[k].grant, "live", "live")
  <1>3. old \in Pair /\ new \in Pair
    BY <1>2 DEF MkPair, Pair, TokenState
  <1>4. token' = [token EXCEPT ![k] = old, ![q] = new]
    BY DEF rotate_oauth_refresh_token
  <1>5. /\ old.grant = token[k].grant /\ old.access = token[k].access /\ old.refresh = "revoked"
        /\ new.grant = token[k].grant /\ new.access = "live" /\ new.refresh = "live"
    BY DEF MkPair
  <1>6. token \in [Requests -> Pair] /\ k # q
    BY <1>1 DEF IndInv, TypeOK
  <1> HIDE DEF old, new, k
  <1>7. /\ token' \in [Requests -> Pair] /\ token'[k] = old /\ token'[q] = new
        /\ \A p \in Requests : p \notin {k, q} => token'[p] = token[p]
    BY <1>1, <1>3, <1>4, <1>6
  <1>8. Finished(q)
    BY FinishMoves DEF rotate_oauth_refresh_token, IndInv
  <1> QED
    BY <1>1, <1>2, <1>5, <1>6, <1>7, <1>8 DEF PairIs, PairsKept, k

\* insert_oauth_token writes the request's own pair, the refresh token last.
LEMMA InsertDoes ==
    ASSUME IndInv, NEW q \in Requests, insert_oauth_token(q)
    PROVE  /\ token' \in [Requests -> Pair] /\ PairsKept({q}) /\ grant[q] # None
           /\ token'[q].grant = q
           /\ \/ /\ job[q].at = "granted" /\ WorksOn(q, "access", None, {})
                 /\ token'[q].refresh = "none"
              \/ /\ job[q].at = "access" /\ Finished(q)
                 /\ token'[q].refresh = "live"
  <1>1. TypeOK /\ "access" \in Steps /\ {} \in SUBSET Requests
        /\ token[q].access \in TokenState /\ {"live", "none"} \subseteq TokenState
    BY PairFields DEF IndInv, Steps, TokenState
  <1>2. CASE /\ job[q].at = "granted" /\ token' = [token EXCEPT ![q] = MkPair(q, "live", "none")]
             /\ job' = [job EXCEPT ![q] = Work("access", None, {})]
    BY <1>1, <1>2, WorkMoves, PairSet DEF PairIs, insert_oauth_token
  <1>3. CASE /\ job[q].at = "access"
             /\ token' = [token EXCEPT ![q] = MkPair(q, token[q].access, "live")] /\ Finish(q)
    BY <1>1, <1>3, FinishMoves, PairSet DEF PairIs, insert_oauth_token
  <1> QED
    BY <1>2, <1>3 DEF insert_oauth_token, IndInv, TypeOK

\* revoke writes one access token, or goes on with the grant of a refresh token.
LEMMA RevokeDoes ==
    ASSUME IndInv, NEW q \in Requests, NEW k \in Requests, revoke(q, k)
    PROVE  /\ token[k].grant \in Requests
           /\ \/ /\ token[k].refresh # "none" /\ UNCHANGED token
                 /\ WorksOn(q, "revoke", token[k].grant, {})
              \/ /\ token' \in [Requests -> Pair] /\ Finished(q) /\ PairsKept({k})
                 /\ PairIs(k, token[k].grant, "revoked", token[k].refresh)
  <1>0. token[k].grant \in Requests
    BY PairFields DEF revoke, IndInv, NoPair, MkPair
  <1>1. TypeOK /\ "revoke" \in Steps /\ {} \in SUBSET Requests
        /\ token[k].refresh \in TokenState /\ "revoked" \in TokenState
    BY PairFields DEF IndInv, Steps, TokenState
  <1>2. CASE token[k].refresh # "none" /\ UNCHANGED token
             /\ job' = [job EXCEPT ![q] = Work("revoke", token[k].grant, {})]
    BY <1>0, <1>1, <1>2, WorkMoves
  <1>3. CASE token' = [token EXCEPT ![k] = MkPair(token[k].grant, "revoked", token[k].refresh)]
             /\ Finish(q)
    BY <1>0, <1>1, <1>3, FinishMoves, PairSet
  <1> QED
    BY <1>2, <1>3 DEF revoke, IndInv, TypeOK

\* RevokeUpdate remembers the pairs the grant has at that moment.
LEMMA SnapshotDoes ==
    ASSUME IndInv, NEW q \in Requests, RevokeUpdate(q)
    PROVE  job[q].on \in Requests /\ WorksOn(q, "revoking", job[q].on, PairsOf(job[q].on))
  <1>1. job[q].on \in Requests /\ PairsOf(job[q].on) \in SUBSET Requests
    BY JobFields DEF RevokeUpdate, IndInv, TypeOK, PairsOf
  <1> QED
    BY <1>1, WorkMoves DEF RevokeUpdate, IndInv, Steps

\* What a revocation leaves of the tokens.
Hit(k) ==
    /\ token'[k].grant = token[k].grant
    /\ token'[k].refresh = "none" <=> token[k].refresh = "none"
    /\ token'[k].refresh = "live" => token[k].refresh = "live"
    /\ token[k] = NoPair => token'[k] = NoPair
    /\ Locked(k) => token'[k] = token[k]

\* revoke_oauth_grant marks the grant if its row is still there, and only
\* kills tokens; those under a rotation stay.
LEMMA GrantRevokeDoes ==
    ASSUME IndInv, NEW q \in Requests, revoke_oauth_grant(q)
    PROVE  /\ job[q].on \in Requests /\ token' \in [Requests -> Pair] /\ Finished(q)
           /\ revoked' \subseteq revoked \cup {job[q].on}
           /\ revoked \subseteq revoked'
           /\ job[q].on \in revoked' => grant[job[q].on] # None
           /\ \A k \in Requests : Hit(k)
  <1>1. job[q].on \in Requests
    BY JobFields DEF revoke_oauth_grant, IndInv, TypeOK
  <1> DEFINE dead(state) == IF state = "live" THEN "revoked" ELSE state
             pair(k) == MkPair(token[k].grant, dead(token[k].access), dead(token[k].refresh))
  <1>2. ASSUME NEW k \in Requests
        PROVE  /\ pair(k) \in Pair /\ pair(k).grant = token[k].grant
               /\ pair(k).refresh = "none" <=> token[k].refresh = "none"
               /\ pair(k).refresh # "live"
               /\ token[k] = NoPair => pair(k) = NoPair
    BY PairFields DEF MkPair, NoPair, Pair, TokenState, IndInv
  <1>3. token' = [k \in Requests |-> IF k \in job[q].found THEN pair(k) ELSE token[k]]
    BY DEF revoke_oauth_grant
  <1>4. token \in [Requests -> Pair]
    BY DEF IndInv, TypeOK
  <1> HIDE DEF pair
  <1>5. \A k \in Requests : token'[k] = IF k \in job[q].found THEN pair(k) ELSE token[k]
    BY <1>3
  <1>6. token' \in [Requests -> Pair]
    BY <1>2, <1>3, <1>4
  <1>7. \A k \in Requests : Locked(k) => k \notin job[q].found
    BY DEF revoke_oauth_grant
  <1>8. /\ revoked' \subseteq revoked \cup {job[q].on} /\ revoked \subseteq revoked'
        /\ job[q].on \in revoked' => grant[job[q].on] # None
    BY <1>1 DEF revoke_oauth_grant, IndInv, Shape, ShapeOf
  <1>9. Finished(q)
    BY FinishMoves DEF revoke_oauth_grant, IndInv
  <1> QED
    BY <1>1, <1>2, <1>5, <1>6, <1>7, <1>8, <1>9 DEF Hit

\* What the prune statement leaves of the tables.
Pruned ==
    /\ grant' \in [Requests -> Consent \cup {None}] /\ revoked' \subseteq revoked
    /\ token' \in [Requests -> Pair]
    /\ session' \in [Sessions -> [status : {"none", "pending", "over"},
                                  client : Clients \cup {None}]]
    /\ client' \in [Clients -> {"none", "active", "gone"}]
    /\ \A g \in Requests : /\ grant'[g] \in {None, grant[g]}
                           /\ g \in revoked' => grant'[g] # None
                           /\ g \in revoked => g \in revoked' \/ grant'[g] = None
    /\ \A k \in Requests : \/ token'[k] = NoPair
                           \/ /\ token'[k] = token[k]
                              /\ token[k].grant # None => grant'[token[k].grant] # None
    /\ \A s \in Sessions : /\ session'[s].client = session[s].client
                           /\ \/ session'[s] = session[s]
                              \/ session'[s].status = "over" /\ session[s].client # None
                           /\ session[s].status = "over" => session'[s].status = "over"

\* prune_unconsumed_oauth_clients deletes grants with their tokens, and ends
\* sessions.
LEMMA PruneDoes ==
    ASSUME IndInv, prune_unconsumed_oauth_clients
    PROVE  Pruned
  <1>1. PICK lost \in SUBSET Requests :
           /\ grant' = [g \in Requests |-> IF g \in lost THEN None ELSE grant[g]]
           /\ revoked' = revoked \ lost
           /\ CascadeTokens(lost)
    BY DEF prune_unconsumed_oauth_clients
  <1>2. NoPair \in Pair
    BY DEF NoPair, MkPair, Pair, TokenState
  <1>3. token \in [Requests -> Pair] /\ grant \in [Requests -> Consent \cup {None}]
    BY DEF IndInv, TypeOK
  <1>4. token' \in [Requests -> Pair]
        /\ \A k \in Requests : token'[k] = IF token[k].grant \in lost THEN NoPair ELSE token[k]
    BY <1>1, <1>2, <1>3 DEF CascadeTokens
  <1>5. \A g \in Requests : g \in revoked => grant[g] # None
    BY DEF IndInv, Shape, ShapeOf
  <1>6. \A k \in Requests : token[k].grant # None =>
            token[k].grant \in Requests /\ grant[token[k].grant] # None
    BY PairFields DEF IndInv
  <1>7. /\ client' \in [Clients -> {"none", "active", "gone"}]
        /\ session' \in [Sessions -> [status : {"none", "pending", "over"},
                                      client : Clients \cup {None}]]
    BY DEF prune_unconsumed_oauth_clients, IndInv, TypeOK
  <1>8. \A s \in Sessions : /\ session'[s].client = session[s].client
                            /\ \/ session'[s] = session[s]
                               \/ session'[s].status = "over" /\ session[s].client # None
                            /\ session[s].status = "over" => session'[s].status = "over"
    BY NoneAssumption DEF prune_unconsumed_oauth_clients, IndInv, TypeOK
  <1> QED
    BY <1>1, <1>3, <1>4, <1>5, <1>6, <1>7, <1>8 DEF Pruned

\* Two conjuncts of TypeOK.
LinkedOK == \A k \in Requests : token[k] # NoPair =>
                token[k].grant # None /\ grant[token[k].grant] # None
NeedsOK == \A q \in Requests :
    /\ job[q].at \in {"consumed", "picked", "verified", "exchange"} => job[q].of # None
    /\ job[q].at \in {"rotate", "locked", "revoke", "revoking"} => job[q].on # None

\* The types are kept by every step.
LEMMA TypeStep ==
    IndInv /\ [Next]_vars => TypeOK'
  <1> SUFFICES ASSUME IndInv, [Next]_vars PROVE TypeOK'
    OBVIOUS
  <1>1. ASSUME NEW c \in Clients, register_client(c) PROVE TypeOK'
    BY <1>1 DEF register_client, IndInv, TypeOK, Consent, Pair, Job, TokenState, NoPair, MkPair, flow, tokens, outside
  <1>2. ASSUME NEW s \in Sessions, NEW c \in Clients, authorize(s, c) PROVE TypeOK'
    BY <1>2 DEF authorize, IndInv, TypeOK, Consent, Pair, Job, TokenState, NoPair, MkPair, flow, tokens, outside
  <1>3. ASSUME NEW q \in Requests, NEW s \in Sessions, NEW a \in Accounts, NEW o \in Accounts, session_complete(q, s, a, o) PROVE TypeOK'
    <2>1. PICK b \in Consent :
             /\ b.session = s /\ b.client = session[s].client /\ b.account = a
             /\ Moved(q, "consumed", b, o, None, {})
      BY <1>3, CompleteDoes
    <2>2. session' \in [Sessions -> [status : {"none", "pending", "over"}, client : Clients \cup {None}]]
      BY <1>3 DEF session_complete, consume_oauth_session, IndInv, TypeOK, flow, tokens, outside
    <2> QED
      BY <1>3, <2>1, <2>2, ConsentFields, NoneAssumption DEF session_complete, consume_oauth_session, oauth_owner_proof, Finished, WorksOn, Moved, IndInv, TypeOK, flow, tokens, outside
  <1>4. ASSUME NEW s \in Sessions, session_cancel(s) PROVE TypeOK'
    <2>1. session' \in [Sessions -> [status : {"none", "pending", "over"}, client : Clients \cup {None}]]
      BY <1>4 DEF session_cancel, consume_oauth_session, IndInv, TypeOK, flow, tokens, outside
    <2> QED
      BY <1>4, <2>1 DEF session_cancel, IndInv, TypeOK, flow, tokens, outside
  <1>5. ASSUME NEW s \in Sessions, SessionExpires(s) PROVE TypeOK'
    <2>1. session' \in [Sessions -> [status : {"none", "pending", "over"}, client : Clients \cup {None}]]
      BY <1>5 DEF SessionExpires, IndInv, TypeOK, flow, tokens, outside
    <2> QED
      BY <1>5, <2>1 DEF SessionExpires, IndInv, TypeOK, flow, tokens, outside
  <1>6. ASSUME NEW q \in Requests, find_reusable_oauth_delegate(q) PROVE TypeOK'
    <2>1. PICK c \in Consent :
             /\ job[q].of \in Consent /\ c.session = job[q].of.session
             /\ c.client = job[q].of.client /\ c.account = job[q].of.account
             /\ c.delegate = c.session \/ delegate[c.delegate] = c.account
             /\ Moved(q, "picked", c, job[q].signer, None, {})
      BY <1>6, PickDoes
    <2>2. UNCHANGED <<flow, tokens, pruning, outside>>
      BY <1>6 DEF find_reusable_oauth_delegate
    <2> QED
      BY <2>1, <2>2, ConsentFields DEF Moved, IndInv, TypeOK, flow, tokens, outside
  <1>7. ASSUME NEW q \in Requests, activate_oauth_delegate(q) PROVE TypeOK'
    <2>1. /\ job[q].of \in Consent /\ job[q].signer = job[q].of.account
          /\ Moved(q, "verified", job[q].of, job[q].signer, None, {})
          /\ delegate' \in [Sessions -> Accounts \cup {None}]
      BY <1>7, ActivateDoes
    <2> QED
      BY <1>7, <2>1, ConsentFields, NoneAssumption DEF activate_oauth_delegate, Finished, WorksOn, Moved, IndInv, TypeOK, flow, tokens, outside
  <1>8. ASSUME NEW q \in Requests, insert_oauth_code(q) PROVE TypeOK'
    <2>1. Finished(q)
      BY <1>8, FinishMoves DEF insert_oauth_code, IndInv
    <2>2. job[q].of \in Consent
      BY <1>8, JobFields DEF insert_oauth_code, IndInv, TypeOK, flow, tokens, outside
    <2>3. code' \in [Requests -> Consent \cup {None}]
      BY <1>8, <2>2 DEF insert_oauth_code, IndInv, TypeOK, flow, tokens, outside
    <2> QED
      BY <1>8, <2>1, <2>3, NoneAssumption DEF insert_oauth_code, Finished, WorksOn, Moved, IndInv, TypeOK, flow, tokens, outside
  <1>9. ASSUME NEW q \in Requests, CodeExpires(q) PROVE TypeOK'
    BY <1>9 DEF CodeExpires, IndInv, TypeOK, Consent, Pair, Job, TokenState, NoPair, MkPair, flow, tokens, outside
  <1>10. ASSUME NEW q \in Requests, NEW x \in Requests, NEW c \in Clients, token_code(q, c, x) PROVE TypeOK'
    <2>1. code[x] \in Consent /\ (Moved(q, "exchange", code[x], None, None, {}) \/ Finished(q))
      BY <1>10, CodeDoes
    <2> QED
      BY <1>10, <2>1, ConsentFields, NoneAssumption DEF token_code, consume_oauth_code, Finished, WorksOn, Moved, IndInv, TypeOK, flow, tokens, outside
  <1>11. ASSUME NEW q \in Requests, insert_oauth_grant(q) PROVE TypeOK'
    <2>1. WorksOn(q, "granted", None, {})
      BY <1>11, WorkMoves DEF insert_oauth_grant, IndInv, Steps
    <2>2. job[q].of \in Consent
      BY <1>11, JobFields DEF insert_oauth_grant, IndInv, TypeOK, flow, tokens, outside
    <2>3. grant' \in [Requests -> Consent \cup {None}] /\ \A g \in Requests : grant[g] # None => grant'[g] # None
      BY <1>11, <2>2, ConsentFields DEF insert_oauth_grant, IndInv, TypeOK, flow, tokens, outside
    <2>4. \A k \in Requests : token[k] # NoPair => token[k].grant \in Requests
      BY PairFields DEF IndInv
    <2> QED
      BY <1>11, <2>1, <2>3, <2>4, NoneAssumption DEF insert_oauth_grant, Finished, WorksOn, Moved, IndInv, TypeOK, flow, tokens, outside
  <1>12. ASSUME NEW q \in Requests, insert_oauth_token(q) PROVE TypeOK'
    <2>1. /\ token' \in [Requests -> Pair] /\ PairsKept({q}) /\ grant[q] # None
          /\ token'[q].grant = q
          /\ \/ /\ job[q].at = "granted" /\ WorksOn(q, "access", None, {})
                /\ token'[q].refresh = "none"
             \/ /\ job[q].at = "access" /\ Finished(q)
                /\ token'[q].refresh = "live"
      BY <1>12, InsertDoes
    <2>2. LinkedOK'
      BY <1>12, <2>1, NoneAssumption DEF insert_oauth_token, PairsKept, LinkedOK, IndInv, TypeOK, flow, tokens, outside
    <2>3. NeedsOK'
      BY <1>12, <2>1 DEF Finished, WorksOn, Moved, NeedsOK, IndInv, TypeOK, flow, tokens, outside
    <2> QED
      BY <1>12, <2>1, <2>2, <2>3 DEF insert_oauth_token, LinkedOK, NeedsOK, Finished, WorksOn, Moved, IndInv, TypeOK, flow, tokens, outside
  <1>13. ASSUME NEW q \in Requests, NEW k \in Requests, NEW c \in Clients, token_refresh(q, c, k) PROVE TypeOK'
    <2>1. /\ token[k].grant \in Requests
          /\ \/ WorksOn(q, "revoke", token[k].grant, {})
             \/ WorksOn(q, "rotate", k, {})
      BY <1>13, RefreshDoes
    <2> QED
      BY <1>13, <2>1, NoneAssumption DEF token_refresh, Finished, WorksOn, Moved, IndInv, TypeOK, flow, tokens, outside
  <1>14. ASSUME NEW q \in Requests, RotateUpdate(q) PROVE TypeOK'
    <2>1. /\ job[q].on \in Requests
          /\ \/ /\ WorksOn(q, "locked", job[q].on, {})
                /\ token[job[q].on].refresh = "live" /\ token[job[q].on].grant \notin revoked
             \/ Finished(q)
      BY <1>14, UpdateDoes
    <2> QED
      BY <1>14, <2>1, NoneAssumption DEF RotateUpdate, Finished, WorksOn, Moved, IndInv, TypeOK, flow, tokens, outside
  <1>15. ASSUME NEW q \in Requests, rotate_oauth_refresh_token(q) PROVE TypeOK'
    <2>1. PICK k \in Requests :
             /\ k = job[q].on /\ k # q /\ Finished(q) /\ token[k].grant \in Requests
             /\ token' \in [Requests -> Pair] /\ token[k].refresh = "live"
             /\ PairIs(k, token[k].grant, token[k].access, "revoked")
             /\ PairIs(q, token[k].grant, "live", "live") /\ PairsKept({k, q})
      BY <1>15, RotateDoes
    <2>2. grant[token[k].grant] # None
      BY <2>1, PairFields, NoneAssumption DEF IndInv
    <2>3. LinkedOK'
      BY <1>15, <2>1, <2>2, NoneAssumption
      DEF rotate_oauth_refresh_token, PairsKept, PairIs, LinkedOK, IndInv, TypeOK, flow, tokens, outside
    <2>4. NeedsOK'
      BY <2>1 DEF Finished, WorksOn, Moved, NeedsOK, IndInv, TypeOK, flow, tokens, outside
    <2> QED
      BY <1>15, <2>1, <2>3, <2>4 DEF rotate_oauth_refresh_token, LinkedOK, NeedsOK, Finished, WorksOn, Moved, IndInv, TypeOK, flow, tokens, outside
  <1>16. ASSUME NEW q \in Requests, NEW k \in Requests, revoke(q, k) PROVE TypeOK'
    <2>1. /\ token[k].grant \in Requests
          /\ \/ /\ token[k].refresh # "none" /\ UNCHANGED token
                /\ WorksOn(q, "revoke", token[k].grant, {})
             \/ /\ token' \in [Requests -> Pair] /\ Finished(q) /\ PairsKept({k})
                /\ PairIs(k, token[k].grant, "revoked", token[k].refresh)
      BY <1>16, RevokeDoes
    <2>2. grant[token[k].grant] # None
      BY <2>1, PairFields, NoneAssumption DEF IndInv
    <2> QED
      BY <1>16, <2>1, <2>2, NoneAssumption DEF revoke, PairsKept, PairIs, Finished, WorksOn, Moved, IndInv, TypeOK, flow, tokens, outside
  <1>17. ASSUME NEW q \in Requests, RevokeUpdate(q) PROVE TypeOK'
    <2>1. job[q].on \in Requests /\ WorksOn(q, "revoking", job[q].on, PairsOf(job[q].on))
      BY <1>17, SnapshotDoes
    <2> QED
      BY <1>17, <2>1, NoneAssumption DEF RevokeUpdate, Finished, WorksOn, Moved, IndInv, TypeOK, flow, tokens, outside
  <1>18. ASSUME NEW q \in Requests, revoke_oauth_grant(q) PROVE TypeOK'
    <2>1. /\ job[q].on \in Requests /\ token' \in [Requests -> Pair] /\ Finished(q)
          /\ revoked' \subseteq revoked \cup {job[q].on}
          /\ revoked \subseteq revoked'
          /\ job[q].on \in revoked' => grant[job[q].on] # None
          /\ \A k \in Requests : Hit(k)
      BY <1>18, GrantRevokeDoes
    <2>2. \A k \in Requests : token'[k] # NoPair => token[k] # NoPair /\ token'[k].grant = token[k].grant
      BY <2>1 DEF Hit
    <2>3. revoked' \subseteq Requests
      BY <2>1 DEF IndInv, TypeOK, flow, tokens, outside
    <2> QED
      BY <1>18, <2>1, <2>2, <2>3, NoneAssumption DEF revoke_oauth_grant, Finished, WorksOn, Moved, IndInv, TypeOK, flow, tokens, outside
  <1>19. ASSUME NEW old \in SUBSET Clients, PruneStart(old) PROVE TypeOK'
    BY <1>19 DEF PruneStart, Unconsumed, IndInv, TypeOK, Consent, Pair, Job, TokenState, NoPair, MkPair, flow, tokens, outside
  <1>20. ASSUME prune_unconsumed_oauth_clients PROVE TypeOK'
    <2>1. Pruned
      BY <1>20, PruneDoes
    <2>2. \A k \in Requests : token[k] # NoPair => token[k].grant # None
      BY PairFields DEF IndInv
    <2> QED
      BY <1>20, <2>1, <2>2, NoneAssumption DEF prune_unconsumed_oauth_clients, Pruned, Finished, WorksOn, Moved, IndInv, TypeOK, flow, tokens, outside
  <1>21. ASSUME NEW q \in Requests, Abandon(q) PROVE TypeOK'
    <2>1. Finished(q)
      BY <1>21, FinishMoves DEF Abandon, IndInv
    <2> QED
      BY <1>21, <2>1, NoneAssumption DEF Abandon, Finished, WorksOn, Moved, IndInv, TypeOK, flow, tokens, outside
  <1>22. ASSUME NEW s \in Sessions, NEW a \in Accounts, NEW o \in Accounts, SignProof(s, a, o) PROVE TypeOK'
    BY <1>22 DEF SignProof, IndInv, TypeOK, Consent, Pair, Job, TokenState, NoPair, MkPair, flow, tokens, outside
  <1>23. ASSUME NEW d \in Sessions, NEW a \in Accounts, add_delegate_key(d, a) PROVE TypeOK'
    BY <1>23 DEF add_delegate_key, IndInv, TypeOK, Consent, Pair, Job, TokenState, NoPair, MkPair, flow, tokens, outside
  <1>24. ASSUME NEW d \in Sessions, NEW a \in Accounts, remove_delegate_key(d, a) PROVE TypeOK'
    BY <1>24 DEF remove_delegate_key, IndInv, TypeOK, Consent, Pair, Job, TokenState, NoPair, MkPair, flow, tokens, outside
  <1>25. CASE UNCHANGED vars
    BY <1>25 DEF vars, flow, tokens, outside, IndInv, TypeOK, Consent, Pair, Job, TokenState, NoPair, MkPair, flow, tokens, outside
  <1> QED
    BY <1>1, <1>2, <1>3, <1>4, <1>5, <1>6, <1>7, <1>8, <1>9, <1>10, <1>11, <1>12, <1>13, <1>14, <1>15, <1>16, <1>17, <1>18, <1>19, <1>20, <1>21, <1>22, <1>23, <1>24, <1>25
    DEF Next, Consents, Exchanges, Rotations, Revocations, Environment

\* What the request ids name is kept by every step.
LEMMA ShapeStep ==
    IndInv /\ [Next]_vars => Shape'
  <1> SUFFICES ASSUME IndInv, [Next]_vars PROVE Shape'
    OBVIOUS
  <1>1. ASSUME NEW c \in Clients, register_client(c) PROVE Shape'
    BY <1>1 DEF register_client, IndInv, TypeOK, Shape, ShapeOf, flow, tokens, outside
  <1>2. ASSUME NEW s \in Sessions, NEW c \in Clients, authorize(s, c) PROVE Shape'
    BY <1>2 DEF authorize, IndInv, TypeOK, Shape, ShapeOf, flow, tokens, outside
  <1>3. ASSUME NEW q \in Requests, NEW s \in Sessions, NEW a \in Accounts, NEW o \in Accounts, session_complete(q, s, a, o) PROVE Shape'
    <2>1. PICK b \in Consent :
             /\ b.session = s /\ b.client = session[s].client /\ b.account = a
             /\ Moved(q, "consumed", b, o, None, {})
      BY <1>3, CompleteDoes
    <2>2. job[q].at = "idle"
      BY <1>3 DEF session_complete, Idle, Work
    <2> QED
      BY <1>3, <2>1, <2>2, NoneAssumption DEF session_complete, consume_oauth_session, oauth_owner_proof, Finished, WorksOn, Moved, IndInv, TypeOK, Shape, ShapeOf, flow, tokens, outside
  <1>4. ASSUME NEW s \in Sessions, session_cancel(s) PROVE Shape'
    BY <1>4 DEF session_cancel, consume_oauth_session, IndInv, TypeOK, Shape, ShapeOf, flow, tokens, outside
  <1>5. ASSUME NEW s \in Sessions, SessionExpires(s) PROVE Shape'
    BY <1>5 DEF SessionExpires, IndInv, TypeOK, Shape, ShapeOf, flow, tokens, outside
  <1>6. ASSUME NEW q \in Requests, find_reusable_oauth_delegate(q) PROVE Shape'
    <2>1. PICK c \in Consent :
             /\ job[q].of \in Consent /\ c.session = job[q].of.session
             /\ c.client = job[q].of.client /\ c.account = job[q].of.account
             /\ c.delegate = c.session \/ delegate[c.delegate] = c.account
             /\ Moved(q, "picked", c, job[q].signer, None, {})
      BY <1>6, PickDoes
    <2>2. UNCHANGED <<flow, tokens, pruning, outside>> /\ job[q].at = "consumed"
      BY <1>6 DEF find_reusable_oauth_delegate
    <2>3. /\ job[q].at # "done"
          /\ \A p \in Requests : job[p].at = "done" => job'[p].at = "done"
      BY <2>1, <2>2 DEF Finished, WorksOn, Moved, Idle, Work
    <2>4. ShapeOf(q)'
      BY <2>1, <2>2, <2>3, NoneAssumption DEF Finished, WorksOn, Moved, IndInv, TypeOK, Shape, ShapeOf, flow, tokens, outside
    <2>5. ASSUME NEW p \in Requests, p # q PROVE ShapeOf(p)'
      <3>1. job'[p] = job[p]
        BY <2>1, <2>5 DEF Finished, WorksOn, Moved
      <3>2. job[p].on \in Requests \cup {None}
        BY JobFields DEF IndInv
      <3> QED
        BY <2>1, <2>2, <2>3, <2>5, <3>1, <3>2, NoneAssumption DEF IndInv, TypeOK, Shape, ShapeOf, flow, tokens, outside
    <2> QED
      BY <2>4, <2>5 DEF Shape
  <1>7. ASSUME NEW q \in Requests, activate_oauth_delegate(q) PROVE Shape'
    <2>1. /\ job[q].of \in Consent /\ job[q].signer = job[q].of.account
          /\ Moved(q, "verified", job[q].of, job[q].signer, None, {})
          /\ delegate' \in [Sessions -> Accounts \cup {None}]
      BY <1>7, ActivateDoes
    <2> QED
      BY <1>7, <2>1, NoneAssumption DEF activate_oauth_delegate, Finished, WorksOn, Moved, IndInv, TypeOK, Shape, ShapeOf, flow, tokens, outside
  <1>8. ASSUME NEW q \in Requests, insert_oauth_code(q) PROVE Shape'
    <2>1. Finished(q)
      BY <1>8, FinishMoves DEF insert_oauth_code, IndInv
    <2>2. \A y \in Requests : y # q => code'[y] = code[y]
      BY <1>8 DEF insert_oauth_code, IndInv, TypeOK, Shape, ShapeOf, flow, tokens, outside
    <2>3. grant[q] = None /\ token[q] = NoPair
      BY <1>8 DEF insert_oauth_code, IndInv, TypeOK, Shape, ShapeOf, flow, tokens, outside
    <2>4. /\ job[q].at # "done"
          /\ \A p \in Requests : job[p].at = "done" => job'[p].at = "done"
      BY <1>8, <2>1, <2>2, <2>3 DEF insert_oauth_code, Finished, WorksOn, Moved, Idle, Work
    <2>5. ShapeOf(q)'
      BY <1>8, <2>1, <2>2, <2>3, <2>4, NoneAssumption DEF insert_oauth_code, Finished, WorksOn, Moved, IndInv, TypeOK, Shape, ShapeOf, flow, tokens, outside
    <2>6. ASSUME NEW p \in Requests, p # q PROVE ShapeOf(p)'
      <3>1. job'[p] = job[p]
        BY <2>1, <2>6 DEF Finished, WorksOn, Moved
      <3>2. job[p].on \in Requests \cup {None}
        BY JobFields DEF IndInv
      <3> QED
        BY <1>8, <2>1, <2>2, <2>3, <2>4, <2>6, <3>1, <3>2, NoneAssumption DEF insert_oauth_code, IndInv, TypeOK, Shape, ShapeOf, flow, tokens, outside
    <2> QED
      BY <2>5, <2>6 DEF Shape
  <1>9. ASSUME NEW q \in Requests, CodeExpires(q) PROVE Shape'
    BY <1>9 DEF CodeExpires, IndInv, TypeOK, Shape, ShapeOf, flow, tokens, outside
  <1>10. ASSUME NEW q \in Requests, NEW x \in Requests, NEW c \in Clients, token_code(q, c, x) PROVE Shape'
    <2>1. code[x] \in Consent /\ (Moved(q, "exchange", code[x], None, None, {}) \/ Finished(q))
      BY <1>10, CodeDoes
    <2>2. job[q].at = "idle"
      BY <1>10 DEF token_code, Idle, Work
    <2>3. \A y \in Requests : code'[y] # None => code'[y] = code[y]
      BY <1>10 DEF token_code, consume_oauth_code, IndInv, TypeOK, Shape, ShapeOf, flow, tokens, outside
    <2>4. /\ job[q].at # "done"
          /\ \A p \in Requests : job[p].at = "done" => job'[p].at = "done"
      BY <1>10, <2>1, <2>2, <2>3 DEF token_code, Finished, WorksOn, Moved, Idle, Work
    <2>5. ShapeOf(q)'
      BY <1>10, <2>1, <2>2, <2>3, <2>4, NoneAssumption DEF token_code, Finished, WorksOn, Moved, IndInv, TypeOK, Shape, ShapeOf, flow, tokens, outside
    <2>6. ASSUME NEW p \in Requests, p # q PROVE ShapeOf(p)'
      <3>1. job'[p] = job[p]
        BY <2>1, <2>6 DEF Finished, WorksOn, Moved
      <3>2. job[p].on \in Requests \cup {None}
        BY JobFields DEF IndInv
      <3> QED
        BY <1>10, <2>1, <2>2, <2>3, <2>4, <2>6, <3>1, <3>2, NoneAssumption DEF token_code, IndInv, TypeOK, Shape, ShapeOf, flow, tokens, outside
    <2> QED
      BY <2>5, <2>6 DEF Shape
  <1>11. ASSUME NEW q \in Requests, insert_oauth_grant(q) PROVE Shape'
    <2>1. WorksOn(q, "granted", None, {})
      BY <1>11, WorkMoves DEF insert_oauth_grant, IndInv, Steps
    <2>2. code[q] = None /\ token[q] = NoPair
      BY <1>11 DEF insert_oauth_grant, IndInv, Shape, ShapeOf
    <2>3. NoPair.refresh = "none" /\ \A k \in Requests : token[k].grant # q
      BY <1>11, PairFields, NoneAssumption DEF insert_oauth_grant, IndInv, Shape, ShapeOf, NoPair, MkPair
    <2>4. \A g \in Requests : g # q => grant'[g] = grant[g]
      BY <1>11 DEF insert_oauth_grant, IndInv, TypeOK, Shape, ShapeOf, flow, tokens, outside
    <2> QED
      BY <1>11, <2>1, <2>2, <2>3, <2>4, NoneAssumption DEF insert_oauth_grant, Finished, WorksOn, Moved, IndInv, TypeOK, Shape, ShapeOf, flow, tokens, outside
  <1>12. ASSUME NEW q \in Requests, insert_oauth_token(q) PROVE Shape'
    <2>1. /\ token' \in [Requests -> Pair] /\ PairsKept({q}) /\ grant[q] # None
          /\ token'[q].grant = q
          /\ \/ /\ job[q].at = "granted" /\ WorksOn(q, "access", None, {})
                /\ token'[q].refresh = "none"
             \/ /\ job[q].at = "access" /\ Finished(q)
                /\ token'[q].refresh = "live"
      BY <1>12, InsertDoes
    <2>2. \A k \in Requests : k # q => token[k].grant # q
      BY <2>1 DEF IndInv, Shape, ShapeOf
    <2>3. /\ job[q].at # "done"
          /\ \A p \in Requests : job[p].at = "done" => job'[p].at = "done"
      BY <1>12, <2>1, <2>2 DEF insert_oauth_token, Finished, WorksOn, Moved, Idle, Work
    <2>4. ShapeOf(q)'
      BY <1>12, <2>1, <2>2, <2>3, NoneAssumption DEF insert_oauth_token, PairsKept, Finished, WorksOn, Moved, IndInv, TypeOK, Shape, ShapeOf, flow, tokens, outside
    <2>5. ASSUME NEW p \in Requests, p # q PROVE ShapeOf(p)'
      <3>1. job'[p] = job[p]
        BY <2>1, <2>5 DEF Finished, WorksOn, Moved
      <3>2. job[p].on \in Requests \cup {None}
        BY JobFields DEF IndInv
      <3> QED
        BY <1>12, <2>1, <2>2, <2>3, <2>5, <3>1, <3>2, NoneAssumption DEF insert_oauth_token, PairsKept, IndInv, TypeOK, Shape, ShapeOf, flow, tokens, outside
    <2> QED
      BY <2>4, <2>5 DEF Shape
  <1>13. ASSUME NEW q \in Requests, NEW k \in Requests, NEW c \in Clients, token_refresh(q, c, k) PROVE Shape'
    <2>1. /\ token[k].grant \in Requests
          /\ \/ WorksOn(q, "revoke", token[k].grant, {})
             \/ WorksOn(q, "rotate", k, {})
      BY <1>13, RefreshDoes
    <2>2. job[q].at = "idle" /\ grant[token[k].grant] # None /\ token[k].refresh # "none"
      BY <1>13, PairFields DEF token_refresh, IndInv, Idle, Work
    <2>3. job[k].at = "done" /\ job[token[k].grant].at = "done"
      BY <2>1, <2>2, NoneAssumption DEF IndInv, Shape, ShapeOf, NoPair, MkPair
    <2> QED
      BY <1>13, <2>1, <2>2, <2>3, NoneAssumption DEF token_refresh, Finished, WorksOn, Moved, IndInv, TypeOK, Shape, ShapeOf, flow, tokens, outside
  <1>14. ASSUME NEW q \in Requests, RotateUpdate(q) PROVE Shape'
    <2>1. /\ job[q].on \in Requests
          /\ \/ /\ WorksOn(q, "locked", job[q].on, {})
                /\ token[job[q].on].refresh = "live" /\ token[job[q].on].grant \notin revoked
             \/ Finished(q)
      BY <1>14, UpdateDoes
    <2> QED
      BY <1>14, <2>1, NoneAssumption DEF RotateUpdate, Finished, WorksOn, Moved, IndInv, TypeOK, Shape, ShapeOf, flow, tokens, outside
  <1>15. ASSUME NEW q \in Requests, rotate_oauth_refresh_token(q) PROVE Shape'
    <2>1. PICK k \in Requests :
             /\ k = job[q].on /\ k # q /\ Finished(q) /\ token[k].grant \in Requests
             /\ token' \in [Requests -> Pair] /\ token[k].refresh = "live"
             /\ PairIs(k, token[k].grant, token[k].access, "revoked")
             /\ PairIs(q, token[k].grant, "live", "live") /\ PairsKept({k, q})
      BY <1>15, RotateDoes
    <2>2. job[q].at = "locked" /\ job[k].at = "done" /\ grant[token[k].grant] # None
      BY <1>15, <2>1, PairFields, NoneAssumption DEF rotate_oauth_refresh_token, IndInv, Shape, ShapeOf
    <2>3. token[k].grant # q /\ job[token[k].grant].at = "done" /\ token[q].grant = None
      BY <2>1, <2>2 DEF IndInv, Shape, ShapeOf, NoPair, MkPair
    <2>4. \A p, g \in Requests : token'[p].grant = g => token[p].grant = g \/ g = token[k].grant
      BY <2>1 DEF PairsKept, PairIs
    <2>5. \A p \in Requests : job[p].at \in {"granted", "access"} => token'[p] = token[p]
      BY <2>1, <2>2 DEF PairsKept
    <2>6. \A p \in Requests : job[p].at # "done" /\ p # q => token'[p] = token[p]
      BY <2>1, <2>2 DEF PairsKept
    <2>7. /\ job[q].at # "done"
          /\ \A p \in Requests : job[p].at = "done" => job'[p].at = "done"
      BY <1>15, <2>1, <2>2, <2>3, <2>4, <2>5, <2>6 DEF rotate_oauth_refresh_token, Finished, WorksOn, Moved, Idle, Work
    <2>8. ShapeOf(q)'
      BY <1>15, <2>1, <2>2, <2>3, <2>4, <2>5, <2>6, <2>7, NoneAssumption DEF rotate_oauth_refresh_token, Finished, WorksOn, Moved, IndInv, TypeOK, Shape, ShapeOf, flow, tokens, outside
    <2>9. ASSUME NEW p \in Requests, p # q PROVE ShapeOf(p)'
      <3>1. job'[p] = job[p]
        BY <2>1, <2>9 DEF Finished, WorksOn, Moved
      <3>2. job[p].on \in Requests \cup {None}
        BY JobFields DEF IndInv
      <3>3. UNCHANGED <<code, grant, revoked>>
        BY <1>15 DEF rotate_oauth_refresh_token, flow
      <3>4. ShapeOf(p)
        BY DEF IndInv, Shape
      <3>5. job[p].at \in {"rotate", "locked", "revoke", "revoking"} => job[p].on \in Requests
        BY <3>2 DEF IndInv, TypeOK
      <3> QED
        BY <2>1, <2>2, <2>3, <2>4, <2>5, <2>6, <2>7, <2>9, <3>1, <3>3, <3>4, <3>5 DEF ShapeOf
    <2> QED
      BY <2>8, <2>9 DEF Shape
  <1>16. ASSUME NEW q \in Requests, NEW k \in Requests, revoke(q, k) PROVE Shape'
    <2>1. /\ token[k].grant \in Requests
          /\ \/ /\ token[k].refresh # "none" /\ UNCHANGED token
                /\ WorksOn(q, "revoke", token[k].grant, {})
             \/ /\ token' \in [Requests -> Pair] /\ Finished(q) /\ PairsKept({k})
                /\ PairIs(k, token[k].grant, "revoked", token[k].refresh)
      BY <1>16, RevokeDoes
    <2>2. job[q].at = "idle" /\ grant[token[k].grant] # None
      BY <1>16, <2>1, PairFields, NoneAssumption DEF revoke, IndInv, Idle, Work
    <2>3. token[k].refresh # "none" => job[token[k].grant].at = "done"
      BY <2>1, <2>2 DEF IndInv, Shape, ShapeOf
    <2>4. \A p \in Requests : token'[p].grant = token[p].grant /\ token'[p].refresh = token[p].refresh
      BY <2>1 DEF PairsKept, PairIs
    <2>5. \A p \in Requests : token[p] = NoPair => token'[p] = NoPair
      BY <2>1, NoneAssumption DEF PairsKept, NoPair, MkPair
    <2>6. /\ job[q].at # "done"
          /\ \A p \in Requests : job[p].at = "done" => job'[p].at = "done"
      BY <1>16, <2>1, <2>2, <2>3, <2>4, <2>5 DEF revoke, Finished, WorksOn, Moved, Idle, Work
    <2>7. ShapeOf(q)'
      BY <1>16, <2>1, <2>2, <2>3, <2>4, <2>5, <2>6, NoneAssumption DEF revoke, Finished, WorksOn, Moved, IndInv, TypeOK, Shape, ShapeOf, flow, tokens, outside
    <2>8. ASSUME NEW p \in Requests, p # q PROVE ShapeOf(p)'
      <3>1. job'[p] = job[p]
        BY <2>1, <2>8 DEF Finished, WorksOn, Moved
      <3>2. job[p].on \in Requests \cup {None}
        BY JobFields DEF IndInv
      <3>3. UNCHANGED <<code, grant, revoked>>
        BY <1>16 DEF revoke, flow
      <3>4. ShapeOf(p)
        BY DEF IndInv, Shape
      <3>5. job[p].at \in {"rotate", "locked", "revoke", "revoking"} => job[p].on \in Requests
        BY <3>2 DEF IndInv, TypeOK
      <3> QED
        BY <2>1, <2>2, <2>3, <2>4, <2>5, <2>6, <2>8, <3>1, <3>3, <3>4, <3>5 DEF ShapeOf
    <2> QED
      BY <2>7, <2>8 DEF Shape
  <1>17. ASSUME NEW q \in Requests, RevokeUpdate(q) PROVE Shape'
    <2>1. job[q].on \in Requests /\ WorksOn(q, "revoking", job[q].on, PairsOf(job[q].on))
      BY <1>17, SnapshotDoes
    <2> QED
      BY <1>17, <2>1, NoneAssumption DEF RevokeUpdate, Finished, WorksOn, Moved, IndInv, TypeOK, Shape, ShapeOf, flow, tokens, outside
  <1>18. ASSUME NEW q \in Requests, revoke_oauth_grant(q) PROVE Shape'
    <2>1. /\ job[q].on \in Requests /\ token' \in [Requests -> Pair] /\ Finished(q)
          /\ revoked' \subseteq revoked \cup {job[q].on}
          /\ revoked \subseteq revoked'
          /\ job[q].on \in revoked' => grant[job[q].on] # None
          /\ \A k \in Requests : Hit(k)
      BY <1>18, GrantRevokeDoes
    <2>2. job[q].at = "revoking" /\ job[job[q].on].at = "done" /\ job[q].on # q
      BY <1>18, <2>1 DEF revoke_oauth_grant, IndInv, TypeOK, Shape, ShapeOf
    <2>3. \A k \in Requests :
             /\ token'[k].grant = token[k].grant
             /\ token[k].refresh = "none" => token'[k].refresh = "none"
             /\ token[k] = NoPair => token'[k] = NoPair
      BY <2>1 DEF Hit
    <2>4. /\ job[q].at # "done"
          /\ \A p \in Requests : job[p].at = "done" => job'[p].at = "done"
      BY <1>18, <2>1, <2>2, <2>3 DEF revoke_oauth_grant, Finished, WorksOn, Moved, Idle, Work
    <2>5. ShapeOf(q)'
      BY <1>18, <2>1, <2>2, <2>3, <2>4, NoneAssumption DEF revoke_oauth_grant, Finished, WorksOn, Moved, IndInv, TypeOK, Shape, ShapeOf, flow, tokens, outside
    <2>6. ASSUME NEW p \in Requests, p # q PROVE ShapeOf(p)'
      <3>1. job'[p] = job[p]
        BY <2>1, <2>6 DEF Finished, WorksOn, Moved
      <3>2. job[p].on \in Requests \cup {None}
        BY JobFields DEF IndInv
      <3> QED
        BY <1>18, <2>1, <2>2, <2>3, <2>4, <2>6, <3>1, <3>2, NoneAssumption DEF revoke_oauth_grant, IndInv, TypeOK, Shape, ShapeOf, flow, tokens, outside
    <2> QED
      BY <2>5, <2>6 DEF Shape
  <1>19. ASSUME NEW old \in SUBSET Clients, PruneStart(old) PROVE Shape'
    BY <1>19 DEF PruneStart, Unconsumed, IndInv, TypeOK, Shape, ShapeOf, flow, tokens, outside
  <1>20. ASSUME prune_unconsumed_oauth_clients PROVE Shape'
    <2>1. Pruned
      BY <1>20, PruneDoes
    <2>2. NoPair.refresh = "none" /\ NoPair.grant = None
      BY DEF NoPair, MkPair
    <2> QED
      BY <1>20, <2>1, <2>2, NoneAssumption DEF prune_unconsumed_oauth_clients, Pruned, Finished, WorksOn, Moved, IndInv, TypeOK, Shape, ShapeOf, flow, tokens, outside
  <1>21. ASSUME NEW q \in Requests, Abandon(q) PROVE Shape'
    <2>1. Finished(q)
      BY <1>21, FinishMoves DEF Abandon, IndInv
    <2>2. /\ job[q].at # "done"
          /\ \A p \in Requests : job[p].at = "done" => job'[p].at = "done"
      BY <1>21, <2>1 DEF Abandon, Finished, WorksOn, Moved, Idle, Work
    <2>3. ShapeOf(q)'
      BY <1>21, <2>1, <2>2, NoneAssumption DEF Abandon, Finished, WorksOn, Moved, IndInv, TypeOK, Shape, ShapeOf, flow, tokens, outside
    <2>4. ASSUME NEW p \in Requests, p # q PROVE ShapeOf(p)'
      <3>1. job'[p] = job[p]
        BY <2>1, <2>4 DEF Finished, WorksOn, Moved
      <3>2. job[p].on \in Requests \cup {None}
        BY JobFields DEF IndInv
      <3> QED
        BY <1>21, <2>1, <2>2, <2>4, <3>1, <3>2, NoneAssumption DEF Abandon, IndInv, TypeOK, Shape, ShapeOf, flow, tokens, outside
    <2> QED
      BY <2>3, <2>4 DEF Shape
  <1>22. ASSUME NEW s \in Sessions, NEW a \in Accounts, NEW o \in Accounts, SignProof(s, a, o) PROVE Shape'
    BY <1>22 DEF SignProof, IndInv, TypeOK, Shape, ShapeOf, flow, tokens, outside
  <1>23. ASSUME NEW d \in Sessions, NEW a \in Accounts, add_delegate_key(d, a) PROVE Shape'
    BY <1>23 DEF add_delegate_key, IndInv, TypeOK, Shape, ShapeOf, flow, tokens, outside
  <1>24. ASSUME NEW d \in Sessions, NEW a \in Accounts, remove_delegate_key(d, a) PROVE Shape'
    BY <1>24 DEF remove_delegate_key, IndInv, TypeOK, Shape, ShapeOf, flow, tokens, outside
  <1>25. CASE UNCHANGED vars
    BY <1>25 DEF vars, flow, tokens, outside, IndInv, TypeOK, Shape, ShapeOf, flow, tokens, outside
  <1> QED
    BY <1>1, <1>2, <1>3, <1>4, <1>5, <1>6, <1>7, <1>8, <1>9, <1>10, <1>11, <1>12, <1>13, <1>14, <1>15, <1>16, <1>17, <1>18, <1>19, <1>20, <1>21, <1>22, <1>23, <1>24, <1>25
    DEF Next, Consents, Exchanges, Rotations, Revocations, Environment

-------------------------------------------------------------------------------
(* Where a consent is.                                                     *)

\* A step leaves the consents where they are or drops them, takes one from a
\* pending session, or moves one from a code to the handler that spent it.
HoldsLess == \A p \in Requests, t \in Sessions : Holds(p, t)' => Holds(p, t)
HoldsNew == \E q \in Requests, s \in Sessions :
    /\ session[s].status = "pending" /\ session'[s].status = "over"
    /\ \A p \in Requests, t \in Sessions : Holds(p, t)' => Holds(p, t) \/ (p = q /\ t = s)
HoldsMoved == \E q, x \in Requests : \A p \in Requests, t \in Sessions :
    Holds(p, t)' => (Holds(p, t) /\ p # x) \/ (p = q /\ Holds(x, t))
HoldsStep == HoldsLess \/ HoldsNew \/ HoldsMoved

\* Every step is one of these.
LEMMA HoldsSteps ==
    IndInv /\ [Next]_vars => HoldsStep
  <1> SUFFICES ASSUME IndInv, [Next]_vars PROVE HoldsStep
    OBVIOUS
  <1>1. ASSUME NEW c \in Clients, register_client(c) PROVE HoldsStep
    BY <1>1 DEF register_client, HoldsStep, HoldsLess, Holds, IndInv, TypeOK, Shape, ShapeOf, flow, tokens, outside
  <1>2. ASSUME NEW s \in Sessions, NEW c \in Clients, authorize(s, c) PROVE HoldsStep
    BY <1>2 DEF authorize, HoldsStep, HoldsLess, Holds, IndInv, TypeOK, Shape, ShapeOf, flow, tokens, outside
  <1>3. ASSUME NEW q \in Requests, NEW s \in Sessions, NEW a \in Accounts, NEW o \in Accounts, session_complete(q, s, a, o) PROVE HoldsStep
    <2>1. PICK b \in Consent :
             /\ b.session = s /\ b.client = session[s].client /\ b.account = a
             /\ Moved(q, "consumed", b, o, None, {})
      BY <1>3, CompleteDoes
    <2>2. job[q].of = None /\ session[s].status = "pending" /\ session'[s].status = "over"
      BY <1>3 DEF session_complete, consume_oauth_session, Idle, Work, IndInv, TypeOK, Shape, ShapeOf, flow, tokens, outside
    <2>3. \A p \in Requests, t \in Sessions : Holds(p, t)' => Holds(p, t) \/ (p = q /\ t = s)
      BY <1>3, <2>1, <2>2 DEF session_complete, Holds, Moved, flow, tokens
    <2> QED
      BY <2>2, <2>3 DEF HoldsStep, HoldsNew
  <1>4. ASSUME NEW s \in Sessions, session_cancel(s) PROVE HoldsStep
    BY <1>4 DEF session_cancel, consume_oauth_session, HoldsStep, HoldsLess, Holds, IndInv, TypeOK, Shape, ShapeOf, flow, tokens, outside
  <1>5. ASSUME NEW s \in Sessions, SessionExpires(s) PROVE HoldsStep
    BY <1>5 DEF SessionExpires, HoldsStep, HoldsLess, Holds, IndInv, TypeOK, Shape, ShapeOf, flow, tokens, outside
  <1>6. ASSUME NEW q \in Requests, find_reusable_oauth_delegate(q) PROVE HoldsStep
    <2>1. PICK c \in Consent :
             /\ job[q].of \in Consent /\ c.session = job[q].of.session
             /\ c.client = job[q].of.client /\ c.account = job[q].of.account
             /\ c.delegate = c.session \/ delegate[c.delegate] = c.account
             /\ Moved(q, "picked", c, job[q].signer, None, {})
      BY <1>6, PickDoes
    <2>2. UNCHANGED <<code, grant>> /\ job[q].of # None
      BY <1>6, <2>1, ConsentFields DEF find_reusable_oauth_delegate, flow, tokens
    <2> HoldsLess
      BY <2>1, <2>2 DEF HoldsLess, Holds, Moved
    <2> QED
      BY DEF HoldsStep
  <1>7. ASSUME NEW q \in Requests, activate_oauth_delegate(q) PROVE HoldsStep
    <2>1. /\ job[q].of \in Consent /\ job[q].signer = job[q].of.account
          /\ Moved(q, "verified", job[q].of, job[q].signer, None, {})
          /\ delegate' \in [Sessions -> Accounts \cup {None}]
      BY <1>7, ActivateDoes
    <2> HoldsLess
      BY <1>7, <2>1 DEF activate_oauth_delegate, HoldsLess, Holds, Finished, WorksOn, Moved, IndInv, TypeOK, Shape, ShapeOf, flow, tokens, outside
    <2> QED
      BY DEF HoldsStep
  <1>8. ASSUME NEW q \in Requests, insert_oauth_code(q) PROVE HoldsStep
    <2>1. Finished(q)
      BY <1>8, FinishMoves DEF insert_oauth_code, IndInv
    <2> HoldsLess
      BY <1>8, <2>1 DEF insert_oauth_code, HoldsLess, Holds, Finished, WorksOn, Moved, IndInv, TypeOK, Shape, ShapeOf, flow, tokens, outside
    <2> QED
      BY DEF HoldsStep
  <1>9. ASSUME NEW q \in Requests, CodeExpires(q) PROVE HoldsStep
    BY <1>9 DEF CodeExpires, HoldsStep, HoldsLess, Holds, IndInv, TypeOK, Shape, ShapeOf, flow, tokens, outside
  <1>10. ASSUME NEW q \in Requests, NEW x \in Requests, NEW c \in Clients, token_code(q, c, x) PROVE HoldsStep
    <2>1. code[x] \in Consent /\ (Moved(q, "exchange", code[x], None, None, {}) \/ Finished(q))
      BY <1>10, CodeDoes
    <2>2. /\ job[q].at = "idle" /\ q # x /\ code[x] # None /\ code'[x] = None /\ UNCHANGED grant
          /\ \A y \in Requests : code'[y] # None => code'[y] = code[y]
      BY <1>10 DEF token_code, consume_oauth_code, Idle, Work, IndInv, TypeOK, Shape, ShapeOf, flow, tokens, outside
    <2>3. job[x].of = None /\ grant[x] = None /\ job[q].of = None
      BY <2>2 DEF IndInv, TypeOK, Shape, ShapeOf, flow, tokens, outside
    <2>4. \A p \in Requests, t \in Sessions :
             Holds(p, t)' => (Holds(p, t) /\ p # x) \/ (p = q /\ Holds(x, t))
      BY <2>1, <2>2, <2>3 DEF Holds, Finished, WorksOn, Moved
    <2> QED
      BY <2>4 DEF HoldsStep, HoldsMoved
  <1>11. ASSUME NEW q \in Requests, insert_oauth_grant(q) PROVE HoldsStep
    <2>1. WorksOn(q, "granted", None, {})
      BY <1>11, WorkMoves DEF insert_oauth_grant, IndInv, Steps
    <2> HoldsLess
      BY <1>11, <2>1 DEF insert_oauth_grant, HoldsLess, Holds, Finished, WorksOn, Moved, IndInv, TypeOK, Shape, ShapeOf, flow, tokens, outside
    <2> QED
      BY DEF HoldsStep
  <1>12. ASSUME NEW q \in Requests, insert_oauth_token(q) PROVE HoldsStep
    <2>1. /\ token' \in [Requests -> Pair] /\ PairsKept({q}) /\ grant[q] # None
          /\ token'[q].grant = q
          /\ \/ /\ job[q].at = "granted" /\ WorksOn(q, "access", None, {})
                /\ token'[q].refresh = "none"
             \/ /\ job[q].at = "access" /\ Finished(q)
                /\ token'[q].refresh = "live"
      BY <1>12, InsertDoes
    <2> HoldsLess
      BY <1>12, <2>1 DEF insert_oauth_token, HoldsLess, Holds, Finished, WorksOn, Moved, IndInv, TypeOK, Shape, ShapeOf, flow, tokens, outside
    <2> QED
      BY DEF HoldsStep
  <1>13. ASSUME NEW q \in Requests, NEW k \in Requests, NEW c \in Clients, token_refresh(q, c, k) PROVE HoldsStep
    <2>1. /\ token[k].grant \in Requests
          /\ \/ WorksOn(q, "revoke", token[k].grant, {})
             \/ WorksOn(q, "rotate", k, {})
      BY <1>13, RefreshDoes
    <2> HoldsLess
      BY <1>13, <2>1 DEF token_refresh, HoldsLess, Holds, Finished, WorksOn, Moved, IndInv, TypeOK, Shape, ShapeOf, flow, tokens, outside
    <2> QED
      BY DEF HoldsStep
  <1>14. ASSUME NEW q \in Requests, RotateUpdate(q) PROVE HoldsStep
    <2>1. /\ job[q].on \in Requests
          /\ \/ /\ WorksOn(q, "locked", job[q].on, {})
                /\ token[job[q].on].refresh = "live" /\ token[job[q].on].grant \notin revoked
             \/ Finished(q)
      BY <1>14, UpdateDoes
    <2> HoldsLess
      BY <1>14, <2>1 DEF RotateUpdate, HoldsLess, Holds, Finished, WorksOn, Moved, IndInv, TypeOK, Shape, ShapeOf, flow, tokens, outside
    <2> QED
      BY DEF HoldsStep
  <1>15. ASSUME NEW q \in Requests, rotate_oauth_refresh_token(q) PROVE HoldsStep
    <2>1. PICK k \in Requests :
             /\ k = job[q].on /\ k # q /\ Finished(q) /\ token[k].grant \in Requests
             /\ token' \in [Requests -> Pair] /\ token[k].refresh = "live"
             /\ PairIs(k, token[k].grant, token[k].access, "revoked")
             /\ PairIs(q, token[k].grant, "live", "live") /\ PairsKept({k, q})
      BY <1>15, RotateDoes
    <2> HoldsLess
      BY <1>15, <2>1 DEF rotate_oauth_refresh_token, HoldsLess, Holds, Finished, WorksOn, Moved, IndInv, TypeOK, Shape, ShapeOf, flow, tokens, outside
    <2> QED
      BY DEF HoldsStep
  <1>16. ASSUME NEW q \in Requests, NEW k \in Requests, revoke(q, k) PROVE HoldsStep
    <2>1. /\ token[k].grant \in Requests
          /\ \/ /\ token[k].refresh # "none" /\ UNCHANGED token
                /\ WorksOn(q, "revoke", token[k].grant, {})
             \/ /\ token' \in [Requests -> Pair] /\ Finished(q) /\ PairsKept({k})
                /\ PairIs(k, token[k].grant, "revoked", token[k].refresh)
      BY <1>16, RevokeDoes
    <2> HoldsLess
      BY <1>16, <2>1 DEF revoke, HoldsLess, Holds, Finished, WorksOn, Moved, IndInv, TypeOK, Shape, ShapeOf, flow, tokens, outside
    <2> QED
      BY DEF HoldsStep
  <1>17. ASSUME NEW q \in Requests, RevokeUpdate(q) PROVE HoldsStep
    <2>1. job[q].on \in Requests /\ WorksOn(q, "revoking", job[q].on, PairsOf(job[q].on))
      BY <1>17, SnapshotDoes
    <2> HoldsLess
      BY <1>17, <2>1 DEF RevokeUpdate, HoldsLess, Holds, Finished, WorksOn, Moved, IndInv, TypeOK, Shape, ShapeOf, flow, tokens, outside
    <2> QED
      BY DEF HoldsStep
  <1>18. ASSUME NEW q \in Requests, revoke_oauth_grant(q) PROVE HoldsStep
    <2>1. /\ job[q].on \in Requests /\ token' \in [Requests -> Pair] /\ Finished(q)
          /\ revoked' \subseteq revoked \cup {job[q].on}
          /\ revoked \subseteq revoked'
          /\ job[q].on \in revoked' => grant[job[q].on] # None
          /\ \A k \in Requests : Hit(k)
      BY <1>18, GrantRevokeDoes
    <2> HoldsLess
      BY <1>18, <2>1 DEF revoke_oauth_grant, HoldsLess, Holds, Finished, WorksOn, Moved, IndInv, TypeOK, Shape, ShapeOf, flow, tokens, outside
    <2> QED
      BY DEF HoldsStep
  <1>19. ASSUME NEW old \in SUBSET Clients, PruneStart(old) PROVE HoldsStep
    BY <1>19 DEF PruneStart, Unconsumed, HoldsStep, HoldsLess, Holds, IndInv, TypeOK, Shape, ShapeOf, flow, tokens, outside
  <1>20. ASSUME prune_unconsumed_oauth_clients PROVE HoldsStep
    <2>1. Pruned
      BY <1>20, PruneDoes
    <2> HoldsLess
      BY <1>20, <2>1 DEF prune_unconsumed_oauth_clients, Pruned, HoldsLess, Holds
    <2> QED
      BY DEF HoldsStep
  <1>21. ASSUME NEW q \in Requests, Abandon(q) PROVE HoldsStep
    <2>1. Finished(q)
      BY <1>21, FinishMoves DEF Abandon, IndInv
    <2> HoldsLess
      BY <1>21, <2>1 DEF Abandon, HoldsLess, Holds, Finished, WorksOn, Moved, IndInv, TypeOK, Shape, ShapeOf, flow, tokens, outside
    <2> QED
      BY DEF HoldsStep
  <1>22. ASSUME NEW s \in Sessions, NEW a \in Accounts, NEW o \in Accounts, SignProof(s, a, o) PROVE HoldsStep
    BY <1>22 DEF SignProof, HoldsStep, HoldsLess, Holds, IndInv, TypeOK, Shape, ShapeOf, flow, tokens, outside
  <1>23. ASSUME NEW d \in Sessions, NEW a \in Accounts, add_delegate_key(d, a) PROVE HoldsStep
    BY <1>23 DEF add_delegate_key, HoldsStep, HoldsLess, Holds, IndInv, TypeOK, Shape, ShapeOf, flow, tokens, outside
  <1>24. ASSUME NEW d \in Sessions, NEW a \in Accounts, remove_delegate_key(d, a) PROVE HoldsStep
    BY <1>24 DEF remove_delegate_key, HoldsStep, HoldsLess, Holds, IndInv, TypeOK, Shape, ShapeOf, flow, tokens, outside
  <1>25. CASE UNCHANGED vars
    BY <1>25 DEF vars, flow, tokens, outside, HoldsStep, HoldsLess, Holds, IndInv, TypeOK, Shape, ShapeOf, flow, tokens, outside
  <1> QED
    BY <1>1, <1>2, <1>3, <1>4, <1>5, <1>6, <1>7, <1>8, <1>9, <1>10, <1>11, <1>12, <1>13, <1>14, <1>15, <1>16, <1>17, <1>18, <1>19, <1>20, <1>21, <1>22, <1>23, <1>24, <1>25
    DEF Next, Consents, Exchanges, Rotations, Revocations, Environment

\* What stays true of a session, a delegate key, a signature and the chain.
Stable ==
    /\ \A s \in Sessions :
          /\ session[s].status = "over" => session'[s].status = "over"
          /\ session[s].status # "none" => session'[s].client = session[s].client
    /\ \A d \in Sessions : delegate[d] # None => delegate'[d] = delegate[d]
    /\ signed \subseteq signed'
    /\ \A d \in Sessions, a \in Accounts : onchain[d][a] # "never" => onchain'[d][a] # "never"

\* Every step is stable in this sense.
LEMMA StableSteps ==
    IndInv /\ [Next]_vars => Stable /\ SessionsTrue'
  <1> SUFFICES ASSUME IndInv, [Next]_vars PROVE Stable /\ SessionsTrue'
    OBVIOUS
  <1>1. ASSUME NEW c \in Clients, register_client(c) PROVE Stable /\ SessionsTrue'
    BY <1>1 DEF register_client, Stable, SessionsTrue, IndInv, TypeOK, flow, tokens, outside
  <1>2. ASSUME NEW s \in Sessions, NEW c \in Clients, authorize(s, c) PROVE Stable /\ SessionsTrue'
    BY <1>2, NoneAssumption DEF authorize, Stable, SessionsTrue, IndInv, TypeOK, flow, tokens, outside
  <1>3. ASSUME NEW q \in Requests, NEW s \in Sessions, NEW a \in Accounts, NEW o \in Accounts, session_complete(q, s, a, o) PROVE Stable /\ SessionsTrue'
    BY <1>3 DEF session_complete, consume_oauth_session, oauth_owner_proof, Stable, SessionsTrue, IndInv, TypeOK, flow, tokens, outside
  <1>4. ASSUME NEW s \in Sessions, session_cancel(s) PROVE Stable /\ SessionsTrue'
    BY <1>4 DEF session_cancel, consume_oauth_session, Stable, SessionsTrue, IndInv, TypeOK, flow, tokens, outside
  <1>5. ASSUME NEW s \in Sessions, SessionExpires(s) PROVE Stable /\ SessionsTrue'
    BY <1>5 DEF SessionExpires, Stable, SessionsTrue, IndInv, TypeOK, flow, tokens, outside
  <1>6. ASSUME NEW q \in Requests, find_reusable_oauth_delegate(q) PROVE Stable /\ SessionsTrue'
    BY <1>6 DEF find_reusable_oauth_delegate, Stable, SessionsTrue, IndInv, TypeOK, flow, tokens, outside
  <1>7. ASSUME NEW q \in Requests, activate_oauth_delegate(q) PROVE Stable /\ SessionsTrue'
    <2>1. /\ job[q].of \in Consent /\ job[q].signer = job[q].of.account
          /\ Moved(q, "verified", job[q].of, job[q].signer, None, {})
          /\ delegate' \in [Sessions -> Accounts \cup {None}]
      BY <1>7, ActivateDoes
    <2>2. /\ UNCHANGED <<session, outside>> /\ job[q].at = "picked"
          /\ delegate' = IF job[q].of.delegate = job[q].of.session
                         THEN [delegate EXCEPT ![job[q].of.delegate] = job[q].of.account]
                         ELSE delegate
      BY <1>7 DEF activate_oauth_delegate
    <2>3. delegate[job[q].of.session] = None /\ session[job[q].of.session].status = "over"
      BY <2>1, <2>2, ConsentFields DEF IndInv, ConsentTrue, ConsentOf, Claimed, HeldOver, Holds
    <2>4. \A d \in Sessions : delegate[d] # None => delegate'[d] = delegate[d]
      BY <2>1, <2>2, <2>3, ConsentFields DEF IndInv, TypeOK
    <2>5. \A d \in Sessions : delegate'[d] # delegate[d] => session[d].status = "over"
      BY <2>1, <2>2, <2>3, ConsentFields DEF IndInv, TypeOK
    <2> QED
      BY <2>2, <2>4, <2>5 DEF Stable, SessionsTrue, IndInv, outside
  <1>8. ASSUME NEW q \in Requests, insert_oauth_code(q) PROVE Stable /\ SessionsTrue'
    BY <1>8 DEF insert_oauth_code, Finish, Stable, SessionsTrue, IndInv, TypeOK, flow, tokens, outside
  <1>9. ASSUME NEW q \in Requests, CodeExpires(q) PROVE Stable /\ SessionsTrue'
    BY <1>9 DEF CodeExpires, Stable, SessionsTrue, IndInv, TypeOK, flow, tokens, outside
  <1>10. ASSUME NEW q \in Requests, NEW x \in Requests, NEW c \in Clients, token_code(q, c, x) PROVE Stable /\ SessionsTrue'
    BY <1>10 DEF token_code, consume_oauth_code, Finish, Stable, SessionsTrue, IndInv, TypeOK, flow, tokens, outside
  <1>11. ASSUME NEW q \in Requests, insert_oauth_grant(q) PROVE Stable /\ SessionsTrue'
    BY <1>11 DEF insert_oauth_grant, Stable, SessionsTrue, IndInv, TypeOK, flow, tokens, outside
  <1>12. ASSUME NEW q \in Requests, insert_oauth_token(q) PROVE Stable /\ SessionsTrue'
    BY <1>12 DEF insert_oauth_token, Finish, Stable, SessionsTrue, IndInv, TypeOK, flow, tokens, outside
  <1>13. ASSUME NEW q \in Requests, NEW k \in Requests, NEW c \in Clients, token_refresh(q, c, k) PROVE Stable /\ SessionsTrue'
    BY <1>13 DEF token_refresh, Stable, SessionsTrue, IndInv, TypeOK, flow, tokens, outside
  <1>14. ASSUME NEW q \in Requests, RotateUpdate(q) PROVE Stable /\ SessionsTrue'
    BY <1>14 DEF RotateUpdate, Locked, Stable, SessionsTrue, IndInv, TypeOK, flow, tokens, outside
  <1>15. ASSUME NEW q \in Requests, rotate_oauth_refresh_token(q) PROVE Stable /\ SessionsTrue'
    BY <1>15 DEF rotate_oauth_refresh_token, Finish, Stable, SessionsTrue, IndInv, TypeOK, flow, tokens, outside
  <1>16. ASSUME NEW q \in Requests, NEW k \in Requests, revoke(q, k) PROVE Stable /\ SessionsTrue'
    BY <1>16 DEF revoke, Finish, Stable, SessionsTrue, IndInv, TypeOK, flow, tokens, outside
  <1>17. ASSUME NEW q \in Requests, RevokeUpdate(q) PROVE Stable /\ SessionsTrue'
    BY <1>17 DEF RevokeUpdate, PairsOf, Stable, SessionsTrue, IndInv, TypeOK, flow, tokens, outside
  <1>18. ASSUME NEW q \in Requests, revoke_oauth_grant(q) PROVE Stable /\ SessionsTrue'
    BY <1>18 DEF revoke_oauth_grant, Finish, Locked, Stable, SessionsTrue, IndInv, TypeOK, flow, tokens, outside
  <1>19. ASSUME NEW old \in SUBSET Clients, PruneStart(old) PROVE Stable /\ SessionsTrue'
    BY <1>19 DEF PruneStart, Unconsumed, Stable, SessionsTrue, IndInv, TypeOK, flow, tokens, outside
  <1>20. ASSUME prune_unconsumed_oauth_clients PROVE Stable /\ SessionsTrue'
    <2>1. Pruned
      BY <1>20, PruneDoes
    <2> QED
      BY <1>20, <2>1 DEF prune_unconsumed_oauth_clients, Pruned, Stable, SessionsTrue, IndInv, TypeOK, flow, tokens, outside
  <1>21. ASSUME NEW q \in Requests, Abandon(q) PROVE Stable /\ SessionsTrue'
    BY <1>21 DEF Abandon, Finish, Stable, SessionsTrue, IndInv, TypeOK, flow, tokens, outside
  <1>22. ASSUME NEW s \in Sessions, NEW a \in Accounts, NEW o \in Accounts, SignProof(s, a, o) PROVE Stable /\ SessionsTrue'
    BY <1>22 DEF SignProof, Stable, SessionsTrue, IndInv, TypeOK, flow, tokens, outside
  <1>23. ASSUME NEW d \in Sessions, NEW a \in Accounts, add_delegate_key(d, a) PROVE Stable /\ SessionsTrue'
    BY <1>23 DEF add_delegate_key, Stable, SessionsTrue, IndInv, TypeOK, flow, tokens, outside
  <1>24. ASSUME NEW d \in Sessions, NEW a \in Accounts, remove_delegate_key(d, a) PROVE Stable /\ SessionsTrue'
    BY <1>24 DEF remove_delegate_key, Stable, SessionsTrue, IndInv, TypeOK, flow, tokens, outside
  <1>25. CASE UNCHANGED vars
    BY <1>25 DEF vars, flow, tokens, outside, Stable, SessionsTrue, IndInv, TypeOK, flow, tokens, outside
  <1> QED
    BY <1>1, <1>2, <1>3, <1>4, <1>5, <1>6, <1>7, <1>8, <1>9, <1>10, <1>11, <1>12, <1>13, <1>14, <1>15, <1>16, <1>17, <1>18, <1>19, <1>20, <1>21, <1>22, <1>23, <1>24, <1>25
    DEF Next, Consents, Exchanges, Rotations, Revocations, Environment

\* A consent stays in one place.
LEMMA HeldStep ==
    IndInv /\ [Next]_vars => HeldOver' /\ HeldOnce'
  <1> SUFFICES ASSUME IndInv, [Next]_vars PROVE HeldOver' /\ HeldOnce'
    OBVIOUS
  <1>1. HoldsStep /\ Stable
    BY HoldsSteps, StableSteps
  <1>2. HeldOver /\ HeldOnce
    BY DEF IndInv
  <1>3. CASE HoldsLess
    BY <1>1, <1>2, <1>3 DEF HoldsLess, HeldOver, HeldOnce, Stable
  <1>4. CASE HoldsNew
    <2>1. PICK q \in Requests, s \in Sessions :
             /\ session[s].status = "pending" /\ session'[s].status = "over"
             /\ \A p \in Requests, t \in Sessions : Holds(p, t)' => Holds(p, t) \/ (p = q /\ t = s)
      BY <1>4 DEF HoldsNew
    <2>2. \A p \in Requests : ~Holds(p, s)
      BY <1>2, <2>1 DEF HeldOver
    <2> QED
      BY <1>1, <1>2, <2>1, <2>2 DEF HeldOver, HeldOnce, Stable
  <1>5. CASE HoldsMoved
    <2>1. PICK q \in Requests, x \in Requests : \A p \in Requests, t \in Sessions :
             Holds(p, t)' => (Holds(p, t) /\ p # x) \/ (p = q /\ Holds(x, t))
      BY <1>5 DEF HoldsMoved
    <2> QED
      BY <1>1, <1>2, <2>1 DEF HeldOver, HeldOnce, Stable
  <1> QED
    BY <1>1, <1>3, <1>4, <1>5 DEF HoldsStep

-------------------------------------------------------------------------------
(* What is true of a consent.                                              *)

\* Good of the next state, for a consent of this one.
GoodNext(c) ==
    /\ session'[c.session].client = c.client
    /\ <<c.session, c.account, c.account>> \in signed'
    /\ delegate'[c.delegate] = c.account
    /\ onchain'[c.delegate][c.account] # "never"

\* A verified consent stays true.
LEMMA GoodKept ==
    ASSUME Stable, NEW c \in Consent, session[c.session].status = "over", Good(c)
    PROVE  GoodNext(c)
  BY ConsentFields, NoneAssumption DEF Good, GoodNext, Stable

\* The sessions of the consents a request holds are over.
LEMMA HeldSessions ==
    ASSUME IndInv, NEW p \in Requests
    PROVE  /\ grant[p] # None => grant[p] \in Consent /\ session[grant[p].session].status = "over"
           /\ code[p] # None => code[p] \in Consent /\ session[code[p].session].status = "over"
           /\ job[p].of # None => job[p].of \in Consent /\ session[job[p].of.session].status = "over"
  <1>1. /\ grant[p] \in Consent \cup {None} /\ code[p] \in Consent \cup {None}
        /\ job[p].of \in Consent \cup {None}
    BY JobFields DEF IndInv, TypeOK
  <1> QED
    BY <1>1, ConsentFields DEF IndInv, HeldOver, Holds

\* What a request that a step leaves alone holds stays true, when the delegate
\* key of a session it claims is not activated.
LEMMA OthersKept ==
    ASSUME IndInv, Stable, NEW p \in Requests,
           job'[p] = job[p],
           grant'[p] = grant[p] \/ grant'[p] = None, code'[p] = code[p] \/ code'[p] = None,
           job[p].at \in {"consumed", "picked"} =>
              delegate'[job[p].of.session] = delegate[job[p].of.session]
    PROVE  ConsentOf(p)'
  <1> DEFINE c == job[p].of
  <1>1. ConsentOf(p) /\ (job[p].at \in {"consumed", "picked", "verified", "exchange"} => c # None)
    BY DEF IndInv, ConsentTrue, TypeOK
  <1>2. /\ grant[p] # None => GoodNext(grant[p])
        /\ code[p] # None => GoodNext(code[p])
    BY <1>1, HeldSessions, GoodKept DEF ConsentOf
  <1>3. job[p].at \in {"verified", "exchange"} => GoodNext(c)
    BY <1>1, HeldSessions, GoodKept DEF ConsentOf
  <1>4. job[p].at \in {"consumed", "picked"} => c \in Consent /\ session[c.session].status = "over"
    BY <1>1, HeldSessions
  <1>5. job[p].at \in {"consumed", "picked"} => Claimed(c, job[p].signer)'
    BY <1>1, <1>4, ConsentFields DEF ConsentOf, Claimed, Stable
  <1>6. job[p].at = "picked" => c.delegate = c.session \/ delegate'[c.delegate] = c.account
    BY <1>1, <1>4, ConsentFields, NoneAssumption DEF ConsentOf, Stable
  <1> QED
    BY <1>2, <1>3, <1>5, <1>6 DEF ConsentOf, Good, GoodNext, Claimed

\* What is true of the consents is kept by every step.
LEMMA ConsentStep ==
    IndInv /\ [Next]_vars => ConsentTrue'
  <1> SUFFICES ASSUME IndInv, [Next]_vars PROVE ConsentTrue'
    OBVIOUS
  <1>a. Stable
    BY StableSteps
  <1>1. ASSUME NEW c \in Clients, register_client(c) PROVE ConsentTrue'
    <2>1. ASSUME NEW p \in Requests PROVE ConsentOf(p)'
      <3>1. /\ job'[p] = job[p] /\ (grant'[p] = grant[p] \/ grant'[p] = None)
            /\ (code'[p] = code[p] \/ code'[p] = None) /\ UNCHANGED delegate
        BY <1>1 DEF register_client, flow, tokens, IndInv, TypeOK
      <3> QED
        BY <1>a, <3>1, OthersKept
    <2> QED
      BY <2>1 DEF ConsentTrue
  <1>2. ASSUME NEW s \in Sessions, NEW c \in Clients, authorize(s, c) PROVE ConsentTrue'
    <2>1. ASSUME NEW p \in Requests PROVE ConsentOf(p)'
      <3>1. /\ job'[p] = job[p] /\ (grant'[p] = grant[p] \/ grant'[p] = None)
            /\ (code'[p] = code[p] \/ code'[p] = None) /\ UNCHANGED delegate
        BY <1>2 DEF authorize, flow, tokens, IndInv, TypeOK
      <3> QED
        BY <1>a, <3>1, OthersKept
    <2> QED
      BY <2>1 DEF ConsentTrue
  <1>3. ASSUME NEW q \in Requests, NEW s \in Sessions, NEW a \in Accounts, NEW o \in Accounts, session_complete(q, s, a, o) PROVE ConsentTrue'
    <2>1. PICK b \in Consent :
             /\ b.session = s /\ b.client = session[s].client /\ b.account = a
             /\ Moved(q, "consumed", b, o, None, {})
      BY <1>3, CompleteDoes
    <2>2. /\ UNCHANGED <<code, grant, delegate, signed>> /\ <<s, a, o>> \in signed
          /\ session[s].status = "pending" /\ job[q].at = "idle"
      BY <1>3 DEF session_complete, consume_oauth_session, oauth_owner_proof, Idle, Work, flow, tokens, outside
    <2>3. delegate[s] = None /\ session'[s].client = session[s].client /\ grant[q] = None /\ code[q] = None
      BY <1>a, <2>2 DEF IndInv, SessionsTrue, Stable, Shape, ShapeOf
    <2>4. ConsentOf(q)'
      BY <2>1, <2>2, <2>3 DEF ConsentOf, Claimed, Moved
    <2>5. ASSUME NEW p \in Requests, p # q PROVE ConsentOf(p)'
      <3>1. job'[p] = job[p] /\ grant'[p] = grant[p] /\ (code'[p] = code[p] \/ code'[p] = None)
            /\ UNCHANGED delegate
        BY <1>3, <2>1, <2>5, <2>2 DEF Finished, WorksOn, Moved, flow, tokens, IndInv, TypeOK
      <3> QED
        BY <1>a, <3>1, OthersKept
    <2> QED
      BY <2>5, <2>4 DEF ConsentTrue
  <1>4. ASSUME NEW s \in Sessions, session_cancel(s) PROVE ConsentTrue'
    <2>1. ASSUME NEW p \in Requests PROVE ConsentOf(p)'
      <3>1. /\ job'[p] = job[p] /\ (grant'[p] = grant[p] \/ grant'[p] = None)
            /\ (code'[p] = code[p] \/ code'[p] = None) /\ UNCHANGED delegate
        BY <1>4 DEF session_cancel, flow, tokens, IndInv, TypeOK
      <3> QED
        BY <1>a, <3>1, OthersKept
    <2> QED
      BY <2>1 DEF ConsentTrue
  <1>5. ASSUME NEW s \in Sessions, SessionExpires(s) PROVE ConsentTrue'
    <2>1. ASSUME NEW p \in Requests PROVE ConsentOf(p)'
      <3>1. /\ job'[p] = job[p] /\ (grant'[p] = grant[p] \/ grant'[p] = None)
            /\ (code'[p] = code[p] \/ code'[p] = None) /\ UNCHANGED delegate
        BY <1>5 DEF SessionExpires, flow, tokens, IndInv, TypeOK
      <3> QED
        BY <1>a, <3>1, OthersKept
    <2> QED
      BY <2>1 DEF ConsentTrue
  <1>6. ASSUME NEW q \in Requests, find_reusable_oauth_delegate(q) PROVE ConsentTrue'
    <2>1. PICK c \in Consent :
             /\ job[q].of \in Consent /\ c.session = job[q].of.session
             /\ c.client = job[q].of.client /\ c.account = job[q].of.account
             /\ c.delegate = c.session \/ delegate[c.delegate] = c.account
             /\ Moved(q, "picked", c, job[q].signer, None, {})
      BY <1>6, PickDoes
    <2>2. UNCHANGED <<flow, tokens, outside>> /\ job[q].at = "consumed"
      BY <1>6 DEF find_reusable_oauth_delegate
    <2>3. Claimed(job[q].of, job[q].signer) /\ grant[q] = None /\ code[q] = None
      BY <2>2 DEF IndInv, ConsentTrue, ConsentOf, Shape, ShapeOf
    <2>4. ConsentOf(q)'
      BY <2>1, <2>2, <2>3 DEF ConsentOf, Claimed, Moved, flow, tokens, outside
    <2>5. ASSUME NEW p \in Requests, p # q PROVE ConsentOf(p)'
      <3>1. job'[p] = job[p] /\ grant'[p] = grant[p] /\ (code'[p] = code[p] \/ code'[p] = None)
            /\ UNCHANGED delegate
        BY <1>6, <2>1, <2>5, <2>2 DEF Finished, WorksOn, Moved, flow, tokens, IndInv, TypeOK
      <3> QED
        BY <1>a, <3>1, OthersKept
    <2> QED
      BY <2>5, <2>4 DEF ConsentTrue
  <1>7. ASSUME NEW q \in Requests, activate_oauth_delegate(q) PROVE ConsentTrue'
    <2>1. /\ job[q].of \in Consent /\ job[q].signer = job[q].of.account
          /\ Moved(q, "verified", job[q].of, job[q].signer, None, {})
          /\ delegate' \in [Sessions -> Accounts \cup {None}]
      BY <1>7, ActivateDoes
    <2> DEFINE c == job[q].of
    <2>2. /\ UNCHANGED <<session, code, tokens, outside>> /\ job[q].at = "picked"
          /\ onchain[c.delegate][c.account] = "added"
          /\ delegate' = IF c.delegate = c.session
                         THEN [delegate EXCEPT ![c.delegate] = c.account] ELSE delegate
      BY <1>7 DEF activate_oauth_delegate
    <2>3. Claimed(c, c.account) /\ grant[q] = None /\ code[q] = None
          /\ (c.delegate = c.session \/ delegate[c.delegate] = c.account)
      BY <2>1, <2>2 DEF IndInv, ConsentTrue, ConsentOf, Shape, ShapeOf
    <2>4. delegate'[c.delegate] = c.account /\ \A t \in Sessions : t # c.session => delegate'[t] = delegate[t]
      BY <2>1, <2>2, <2>3, ConsentFields DEF IndInv, TypeOK
    <2>5. ConsentOf(q)'
      BY <2>1, <2>2, <2>3, <2>4 DEF ConsentOf, Good, Claimed, Moved, tokens, outside
    <2>6. ASSUME NEW p \in Requests, p # q PROVE ConsentOf(p)'
      <3>1. job'[p] = job[p] /\ grant'[p] = grant[p] /\ code'[p] = code[p]
        BY <2>1, <2>2, <2>6 DEF Moved, tokens
      <3>2. ASSUME job[p].at \in {"consumed", "picked"}
            PROVE  delegate'[job[p].of.session] = delegate[job[p].of.session]
        <4>1. job[p].of # None /\ job[p].of \in Consent /\ job[p].of.session \in Sessions
          BY <3>2, HeldSessions, ConsentFields DEF IndInv, TypeOK
        <4>2. job[p].of.session # c.session
          BY <2>1, <2>6, <4>1, ConsentFields DEF IndInv, HeldOnce, Holds
        <4> QED
          BY <2>4, <4>1, <4>2
      <3> QED
        BY <1>a, <3>1, <3>2, OthersKept
    <2> QED
      BY <2>5, <2>6 DEF ConsentTrue
  <1>8. ASSUME NEW q \in Requests, insert_oauth_code(q) PROVE ConsentTrue'
    <2>1. Finished(q)
      BY <1>8, FinishMoves DEF insert_oauth_code, IndInv
    <2>2. /\ UNCHANGED <<delegate, grant>> /\ job[q].at = "verified" /\ code' = [code EXCEPT ![q] = job[q].of]
      BY <1>8 DEF insert_oauth_code, tokens
    <2>3. job[q].of # None /\ Good(job[q].of) /\ grant[q] = None /\ code'[q] = job[q].of
      BY <2>2 DEF IndInv, ConsentTrue, ConsentOf, Shape, ShapeOf, TypeOK
    <2>4. ConsentOf(q)'
      <3>1. GoodNext(job[q].of)
        BY <1>a, <2>3, HeldSessions, GoodKept
      <3> QED
        BY <2>1, <2>2, <2>3, <3>1 DEF ConsentOf, Good, GoodNext, Finished, WorksOn, Moved
    <2>5. ASSUME NEW p \in Requests, p # q PROVE ConsentOf(p)'
      <3>1. job'[p] = job[p] /\ grant'[p] = grant[p] /\ (code'[p] = code[p] \/ code'[p] = None)
            /\ UNCHANGED delegate
        BY <1>8, <2>1, <2>5, <2>2 DEF Finished, WorksOn, Moved, flow, tokens, IndInv, TypeOK
      <3> QED
        BY <1>a, <3>1, OthersKept
    <2> QED
      BY <2>5, <2>4 DEF ConsentTrue
  <1>9. ASSUME NEW q \in Requests, CodeExpires(q) PROVE ConsentTrue'
    <2>1. ASSUME NEW p \in Requests PROVE ConsentOf(p)'
      <3>1. /\ job'[p] = job[p] /\ (grant'[p] = grant[p] \/ grant'[p] = None)
            /\ (code'[p] = code[p] \/ code'[p] = None) /\ UNCHANGED delegate
        BY <1>9 DEF CodeExpires, flow, tokens, IndInv, TypeOK
      <3> QED
        BY <1>a, <3>1, OthersKept
    <2> QED
      BY <2>1 DEF ConsentTrue
  <1>10. ASSUME NEW q \in Requests, NEW x \in Requests, NEW c \in Clients, token_code(q, c, x) PROVE ConsentTrue'
    <2>1. code[x] \in Consent /\ (Moved(q, "exchange", code[x], None, None, {}) \/ Finished(q))
      BY <1>10, CodeDoes
    <2>2. /\ UNCHANGED <<delegate, grant>> /\ job[q].at = "idle" /\ code[x] # None
          /\ code' = [code EXCEPT ![x] = None]
      BY <1>10 DEF token_code, consume_oauth_code, tokens, Idle, Work
    <2>3. Good(code[x]) /\ grant[q] = None /\ code[q] = None
      BY <2>2 DEF IndInv, ConsentTrue, ConsentOf, Shape, ShapeOf
    <2>4. ConsentOf(q)'
      <3>1. GoodNext(code[x])
        BY <1>a, <2>2, <2>3, HeldSessions, GoodKept
      <3>2. code'[q] = None
        BY <2>2, <2>3 DEF IndInv, TypeOK
      <3> QED
        BY <2>1, <2>2, <2>3, <3>1, <3>2 DEF ConsentOf, Good, GoodNext, Finished, WorksOn, Moved
    <2>5. ASSUME NEW p \in Requests, p # q PROVE ConsentOf(p)'
      <3>1. job'[p] = job[p] /\ grant'[p] = grant[p] /\ (code'[p] = code[p] \/ code'[p] = None)
            /\ UNCHANGED delegate
        BY <1>10, <2>1, <2>5, <2>2 DEF Finished, WorksOn, Moved, flow, tokens, IndInv, TypeOK
      <3> QED
        BY <1>a, <3>1, OthersKept
    <2> QED
      BY <2>5, <2>4 DEF ConsentTrue
  <1>11. ASSUME NEW q \in Requests, insert_oauth_grant(q) PROVE ConsentTrue'
    <2>1. WorksOn(q, "granted", None, {})
      BY <1>11, WorkMoves DEF insert_oauth_grant, IndInv, Steps
    <2>2. /\ UNCHANGED <<delegate, code>> /\ job[q].at = "exchange" /\ grant' = [grant EXCEPT ![q] = job[q].of]
      BY <1>11 DEF insert_oauth_grant, flow
    <2>3. job[q].of # None /\ Good(job[q].of) /\ code[q] = None /\ grant'[q] = job[q].of
      BY <2>2 DEF IndInv, ConsentTrue, ConsentOf, Shape, ShapeOf, TypeOK
    <2>4. ConsentOf(q)'
      <3>1. GoodNext(job[q].of)
        BY <1>a, <2>3, HeldSessions, GoodKept
      <3> QED
        BY <2>1, <2>2, <2>3, <3>1 DEF ConsentOf, Good, GoodNext, Finished, WorksOn, Moved
    <2>5. ASSUME NEW p \in Requests, p # q PROVE ConsentOf(p)'
      <3>1. job'[p] = job[p] /\ grant'[p] = grant[p] /\ (code'[p] = code[p] \/ code'[p] = None)
            /\ UNCHANGED delegate
        BY <1>11, <2>1, <2>5, <2>2 DEF Finished, WorksOn, Moved, flow, tokens, IndInv, TypeOK
      <3> QED
        BY <1>a, <3>1, OthersKept
    <2> QED
      BY <2>5, <2>4 DEF ConsentTrue
  <1>12. ASSUME NEW q \in Requests, insert_oauth_token(q) PROVE ConsentTrue'
    <2>1. /\ token' \in [Requests -> Pair] /\ PairsKept({q}) /\ grant[q] # None
          /\ token'[q].grant = q
          /\ \/ /\ job[q].at = "granted" /\ WorksOn(q, "access", None, {})
                /\ token'[q].refresh = "none"
             \/ /\ job[q].at = "access" /\ Finished(q)
                /\ token'[q].refresh = "live"
      BY <1>12, InsertDoes
    <2>2. /\ UNCHANGED <<code, grant, delegate>>
          /\ job'[q].at \notin {"verified", "exchange", "consumed", "picked"}
      BY <1>12, <2>1 DEF insert_oauth_token, Finished, WorksOn, Moved, flow, tokens
    <2>3. ConsentOf(q)'
      <3>1. /\ grant[q] # None => GoodNext(grant[q])
            /\ code[q] # None => GoodNext(code[q])
        BY <1>a, HeldSessions, GoodKept DEF IndInv, ConsentTrue, ConsentOf
      <3> QED
        BY <2>2, <3>1 DEF ConsentOf, Good, GoodNext
    <2>4. ASSUME NEW p \in Requests, p # q PROVE ConsentOf(p)'
      <3>1. job'[p] = job[p]
        BY <2>1, <2>4 DEF Finished, WorksOn, Moved
      <3> QED
        BY <1>a, <2>2, <3>1, OthersKept
    <2> QED
      BY <2>3, <2>4 DEF ConsentTrue
  <1>13. ASSUME NEW q \in Requests, NEW k \in Requests, NEW c \in Clients, token_refresh(q, c, k) PROVE ConsentTrue'
    <2>1. /\ token[k].grant \in Requests
          /\ \/ WorksOn(q, "revoke", token[k].grant, {})
             \/ WorksOn(q, "rotate", k, {})
      BY <1>13, RefreshDoes
    <2>2. /\ UNCHANGED <<code, grant, delegate>>
          /\ job'[q].at \notin {"verified", "exchange", "consumed", "picked"}
      BY <1>13, <2>1 DEF token_refresh, Finished, WorksOn, Moved, flow, tokens
    <2>3. ConsentOf(q)'
      <3>1. /\ grant[q] # None => GoodNext(grant[q])
            /\ code[q] # None => GoodNext(code[q])
        BY <1>a, HeldSessions, GoodKept DEF IndInv, ConsentTrue, ConsentOf
      <3> QED
        BY <2>2, <3>1 DEF ConsentOf, Good, GoodNext
    <2>4. ASSUME NEW p \in Requests, p # q PROVE ConsentOf(p)'
      <3>1. job'[p] = job[p]
        BY <2>1, <2>4 DEF Finished, WorksOn, Moved
      <3> QED
        BY <1>a, <2>2, <3>1, OthersKept
    <2> QED
      BY <2>3, <2>4 DEF ConsentTrue
  <1>14. ASSUME NEW q \in Requests, RotateUpdate(q) PROVE ConsentTrue'
    <2>1. /\ job[q].on \in Requests
          /\ \/ /\ WorksOn(q, "locked", job[q].on, {})
                /\ token[job[q].on].refresh = "live" /\ token[job[q].on].grant \notin revoked
             \/ Finished(q)
      BY <1>14, UpdateDoes
    <2>2. /\ UNCHANGED <<code, grant, delegate>>
          /\ job'[q].at \notin {"verified", "exchange", "consumed", "picked"}
      BY <1>14, <2>1 DEF RotateUpdate, Finished, WorksOn, Moved, flow, tokens
    <2>3. ConsentOf(q)'
      <3>1. /\ grant[q] # None => GoodNext(grant[q])
            /\ code[q] # None => GoodNext(code[q])
        BY <1>a, HeldSessions, GoodKept DEF IndInv, ConsentTrue, ConsentOf
      <3> QED
        BY <2>2, <3>1 DEF ConsentOf, Good, GoodNext
    <2>4. ASSUME NEW p \in Requests, p # q PROVE ConsentOf(p)'
      <3>1. job'[p] = job[p]
        BY <2>1, <2>4 DEF Finished, WorksOn, Moved
      <3> QED
        BY <1>a, <2>2, <3>1, OthersKept
    <2> QED
      BY <2>3, <2>4 DEF ConsentTrue
  <1>15. ASSUME NEW q \in Requests, rotate_oauth_refresh_token(q) PROVE ConsentTrue'
    <2>1. PICK k \in Requests :
             /\ k = job[q].on /\ k # q /\ Finished(q) /\ token[k].grant \in Requests
             /\ token' \in [Requests -> Pair] /\ token[k].refresh = "live"
             /\ PairIs(k, token[k].grant, token[k].access, "revoked")
             /\ PairIs(q, token[k].grant, "live", "live") /\ PairsKept({k, q})
      BY <1>15, RotateDoes
    <2>2. /\ UNCHANGED <<code, grant, delegate>>
          /\ job'[q].at \notin {"verified", "exchange", "consumed", "picked"}
      BY <1>15, <2>1 DEF rotate_oauth_refresh_token, Finished, WorksOn, Moved, flow, tokens
    <2>3. ConsentOf(q)'
      <3>1. /\ grant[q] # None => GoodNext(grant[q])
            /\ code[q] # None => GoodNext(code[q])
        BY <1>a, HeldSessions, GoodKept DEF IndInv, ConsentTrue, ConsentOf
      <3> QED
        BY <2>2, <3>1 DEF ConsentOf, Good, GoodNext
    <2>4. ASSUME NEW p \in Requests, p # q PROVE ConsentOf(p)'
      <3>1. job'[p] = job[p]
        BY <2>1, <2>4 DEF Finished, WorksOn, Moved
      <3> QED
        BY <1>a, <2>2, <3>1, OthersKept
    <2> QED
      BY <2>3, <2>4 DEF ConsentTrue
  <1>16. ASSUME NEW q \in Requests, NEW k \in Requests, revoke(q, k) PROVE ConsentTrue'
    <2>1. /\ token[k].grant \in Requests
          /\ \/ /\ token[k].refresh # "none" /\ UNCHANGED token
                /\ WorksOn(q, "revoke", token[k].grant, {})
             \/ /\ token' \in [Requests -> Pair] /\ Finished(q) /\ PairsKept({k})
                /\ PairIs(k, token[k].grant, "revoked", token[k].refresh)
      BY <1>16, RevokeDoes
    <2>2. /\ UNCHANGED <<code, grant, delegate>>
          /\ job'[q].at \notin {"verified", "exchange", "consumed", "picked"}
      BY <1>16, <2>1 DEF revoke, Finished, WorksOn, Moved, flow, tokens
    <2>3. ConsentOf(q)'
      <3>1. /\ grant[q] # None => GoodNext(grant[q])
            /\ code[q] # None => GoodNext(code[q])
        BY <1>a, HeldSessions, GoodKept DEF IndInv, ConsentTrue, ConsentOf
      <3> QED
        BY <2>2, <3>1 DEF ConsentOf, Good, GoodNext
    <2>4. ASSUME NEW p \in Requests, p # q PROVE ConsentOf(p)'
      <3>1. job'[p] = job[p]
        BY <2>1, <2>4 DEF Finished, WorksOn, Moved
      <3> QED
        BY <1>a, <2>2, <3>1, OthersKept
    <2> QED
      BY <2>3, <2>4 DEF ConsentTrue
  <1>17. ASSUME NEW q \in Requests, RevokeUpdate(q) PROVE ConsentTrue'
    <2>1. job[q].on \in Requests /\ WorksOn(q, "revoking", job[q].on, PairsOf(job[q].on))
      BY <1>17, SnapshotDoes
    <2>2. /\ UNCHANGED <<code, grant, delegate>>
          /\ job'[q].at \notin {"verified", "exchange", "consumed", "picked"}
      BY <1>17, <2>1 DEF RevokeUpdate, Finished, WorksOn, Moved, flow, tokens
    <2>3. ConsentOf(q)'
      <3>1. /\ grant[q] # None => GoodNext(grant[q])
            /\ code[q] # None => GoodNext(code[q])
        BY <1>a, HeldSessions, GoodKept DEF IndInv, ConsentTrue, ConsentOf
      <3> QED
        BY <2>2, <3>1 DEF ConsentOf, Good, GoodNext
    <2>4. ASSUME NEW p \in Requests, p # q PROVE ConsentOf(p)'
      <3>1. job'[p] = job[p]
        BY <2>1, <2>4 DEF Finished, WorksOn, Moved
      <3> QED
        BY <1>a, <2>2, <3>1, OthersKept
    <2> QED
      BY <2>3, <2>4 DEF ConsentTrue
  <1>18. ASSUME NEW q \in Requests, revoke_oauth_grant(q) PROVE ConsentTrue'
    <2>1. /\ job[q].on \in Requests /\ token' \in [Requests -> Pair] /\ Finished(q)
          /\ revoked' \subseteq revoked \cup {job[q].on}
          /\ revoked \subseteq revoked'
          /\ job[q].on \in revoked' => grant[job[q].on] # None
          /\ \A k \in Requests : Hit(k)
      BY <1>18, GrantRevokeDoes
    <2>2. /\ UNCHANGED <<code, grant, delegate>>
          /\ job'[q].at \notin {"verified", "exchange", "consumed", "picked"}
      BY <1>18, <2>1 DEF revoke_oauth_grant, Finished, WorksOn, Moved, flow, tokens
    <2>3. ConsentOf(q)'
      <3>1. /\ grant[q] # None => GoodNext(grant[q])
            /\ code[q] # None => GoodNext(code[q])
        BY <1>a, HeldSessions, GoodKept DEF IndInv, ConsentTrue, ConsentOf
      <3> QED
        BY <2>2, <3>1 DEF ConsentOf, Good, GoodNext
    <2>4. ASSUME NEW p \in Requests, p # q PROVE ConsentOf(p)'
      <3>1. job'[p] = job[p]
        BY <2>1, <2>4 DEF Finished, WorksOn, Moved
      <3> QED
        BY <1>a, <2>2, <3>1, OthersKept
    <2> QED
      BY <2>3, <2>4 DEF ConsentTrue
  <1>19. ASSUME NEW old \in SUBSET Clients, PruneStart(old) PROVE ConsentTrue'
    <2>1. ASSUME NEW p \in Requests PROVE ConsentOf(p)'
      <3>1. /\ job'[p] = job[p] /\ (grant'[p] = grant[p] \/ grant'[p] = None)
            /\ (code'[p] = code[p] \/ code'[p] = None) /\ UNCHANGED delegate
        BY <1>19 DEF PruneStart, flow, tokens, IndInv, TypeOK
      <3> QED
        BY <1>a, <3>1, OthersKept
    <2> QED
      BY <2>1 DEF ConsentTrue
  <1>20. ASSUME prune_unconsumed_oauth_clients PROVE ConsentTrue'
    <2>1. Pruned
      BY <1>20, PruneDoes
    <2>2. ASSUME NEW p \in Requests PROVE ConsentOf(p)'
      <3>1. /\ job'[p] = job[p] /\ (grant'[p] = grant[p] \/ grant'[p] = None)
            /\ (code'[p] = code[p] \/ code'[p] = None) /\ UNCHANGED delegate
        BY <1>20, <2>1 DEF prune_unconsumed_oauth_clients, Pruned, flow, tokens, IndInv, TypeOK
      <3> QED
        BY <1>a, <3>1, OthersKept
    <2> QED
      BY <2>2 DEF ConsentTrue
  <1>21. ASSUME NEW q \in Requests, Abandon(q) PROVE ConsentTrue'
    <2>1. Finished(q)
      BY <1>21, FinishMoves DEF Abandon, IndInv
    <2>2. /\ UNCHANGED <<code, grant, delegate>>
          /\ job'[q].at \notin {"verified", "exchange", "consumed", "picked"}
      BY <1>21, <2>1 DEF Abandon, Finished, WorksOn, Moved, flow, tokens
    <2>3. ConsentOf(q)'
      <3>1. /\ grant[q] # None => GoodNext(grant[q])
            /\ code[q] # None => GoodNext(code[q])
        BY <1>a, HeldSessions, GoodKept DEF IndInv, ConsentTrue, ConsentOf
      <3> QED
        BY <2>2, <3>1 DEF ConsentOf, Good, GoodNext
    <2>4. ASSUME NEW p \in Requests, p # q PROVE ConsentOf(p)'
      <3>1. job'[p] = job[p]
        BY <2>1, <2>4 DEF Finished, WorksOn, Moved
      <3> QED
        BY <1>a, <2>2, <3>1, OthersKept
    <2> QED
      BY <2>3, <2>4 DEF ConsentTrue
  <1>22. ASSUME NEW s \in Sessions, NEW a \in Accounts, NEW o \in Accounts, SignProof(s, a, o) PROVE ConsentTrue'
    <2>1. ASSUME NEW p \in Requests PROVE ConsentOf(p)'
      <3>1. /\ job'[p] = job[p] /\ (grant'[p] = grant[p] \/ grant'[p] = None)
            /\ (code'[p] = code[p] \/ code'[p] = None) /\ UNCHANGED delegate
        BY <1>22 DEF SignProof, flow, tokens, IndInv, TypeOK
      <3> QED
        BY <1>a, <3>1, OthersKept
    <2> QED
      BY <2>1 DEF ConsentTrue
  <1>23. ASSUME NEW d \in Sessions, NEW a \in Accounts, add_delegate_key(d, a) PROVE ConsentTrue'
    <2>1. ASSUME NEW p \in Requests PROVE ConsentOf(p)'
      <3>1. /\ job'[p] = job[p] /\ (grant'[p] = grant[p] \/ grant'[p] = None)
            /\ (code'[p] = code[p] \/ code'[p] = None) /\ UNCHANGED delegate
        BY <1>23 DEF add_delegate_key, flow, tokens, IndInv, TypeOK
      <3> QED
        BY <1>a, <3>1, OthersKept
    <2> QED
      BY <2>1 DEF ConsentTrue
  <1>24. ASSUME NEW d \in Sessions, NEW a \in Accounts, remove_delegate_key(d, a) PROVE ConsentTrue'
    <2>1. ASSUME NEW p \in Requests PROVE ConsentOf(p)'
      <3>1. /\ job'[p] = job[p] /\ (grant'[p] = grant[p] \/ grant'[p] = None)
            /\ (code'[p] = code[p] \/ code'[p] = None) /\ UNCHANGED delegate
        BY <1>24 DEF remove_delegate_key, flow, tokens, IndInv, TypeOK
      <3> QED
        BY <1>a, <3>1, OthersKept
    <2> QED
      BY <2>1 DEF ConsentTrue
  <1>25. CASE UNCHANGED vars
    <2>1. ASSUME NEW p \in Requests PROVE ConsentOf(p)'
      BY <1>25, <1>a, OthersKept DEF vars, flow, tokens
    <2> QED
      BY <2>1 DEF ConsentTrue
  <1> QED
    BY <1>1, <1>2, <1>3, <1>4, <1>5, <1>6, <1>7, <1>8, <1>9, <1>10, <1>11, <1>12, <1>13, <1>14, <1>15, <1>16, <1>17, <1>18, <1>19, <1>20, <1>21, <1>22, <1>23, <1>24, <1>25
    DEF Next, Consents, Exchanges, Rotations, Revocations, Environment

-------------------------------------------------------------------------------
(* The refresh tokens.                                                     *)

\* A step that locks nothing and makes no refresh token live keeps both.
LEMMA LocksKept ==
    ASSUME IndInv,
           \A p \in Requests : job'[p].at = "locked" => job'[p] = job[p],
           \A k \in Requests : token'[k].refresh = "live" =>
                                 token[k].refresh = "live" /\ token'[k].grant = token[k].grant,
           \A k \in Requests : Locked(k) => token'[k] = token[k] \/ token'[k] = NoPair
    PROVE  LocksTrue' /\ OneRefreshPerGrant'
  <1>1. OneRefreshPerGrant'
    BY DEF IndInv, OneRefreshPerGrant
  <1>2. \A p \in Requests : job[p].at = "locked" => job[p].on \in Requests
    BY JobFields DEF IndInv, TypeOK
  <1>3. LocksTrue'
    BY <1>2 DEF IndInv, LocksTrue, Locked
  <1> QED
    BY <1>1, <1>3

\* The locks and the lines of refresh tokens are kept by every step.
LEMMA LocksStep ==
    IndInv /\ [Next]_vars => LocksTrue' /\ OneRefreshPerGrant'
  <1> SUFFICES ASSUME IndInv, [Next]_vars PROVE LocksTrue' /\ OneRefreshPerGrant'
    OBVIOUS
  <1>1. ASSUME NEW c \in Clients, register_client(c) PROVE LocksTrue' /\ OneRefreshPerGrant'
    BY <1>1, LocksKept DEF register_client, tokens
  <1>2. ASSUME NEW s \in Sessions, NEW c \in Clients, authorize(s, c) PROVE LocksTrue' /\ OneRefreshPerGrant'
    BY <1>2, LocksKept DEF authorize, tokens
  <1>3. ASSUME NEW q \in Requests, NEW s \in Sessions, NEW a \in Accounts, NEW o \in Accounts, session_complete(q, s, a, o) PROVE LocksTrue' /\ OneRefreshPerGrant'
    <2>1. PICK b \in Consent :
             /\ b.session = s /\ b.client = session[s].client /\ b.account = a
             /\ Moved(q, "consumed", b, o, None, {})
      BY <1>3, CompleteDoes
    <2>2. UNCHANGED token
      BY <1>3 DEF session_complete, tokens
    <2> QED
      BY <2>1, <2>2, LocksKept DEF Finished, WorksOn, Moved
  <1>4. ASSUME NEW s \in Sessions, session_cancel(s) PROVE LocksTrue' /\ OneRefreshPerGrant'
    BY <1>4, LocksKept DEF session_cancel, tokens
  <1>5. ASSUME NEW s \in Sessions, SessionExpires(s) PROVE LocksTrue' /\ OneRefreshPerGrant'
    BY <1>5, LocksKept DEF SessionExpires, tokens
  <1>6. ASSUME NEW q \in Requests, find_reusable_oauth_delegate(q) PROVE LocksTrue' /\ OneRefreshPerGrant'
    <2>1. PICK c \in Consent :
             /\ job[q].of \in Consent /\ c.session = job[q].of.session
             /\ c.client = job[q].of.client /\ c.account = job[q].of.account
             /\ c.delegate = c.session \/ delegate[c.delegate] = c.account
             /\ Moved(q, "picked", c, job[q].signer, None, {})
      BY <1>6, PickDoes
    <2>2. UNCHANGED token
      BY <1>6 DEF find_reusable_oauth_delegate, tokens
    <2> QED
      BY <2>1, <2>2, LocksKept DEF Finished, WorksOn, Moved
  <1>7. ASSUME NEW q \in Requests, activate_oauth_delegate(q) PROVE LocksTrue' /\ OneRefreshPerGrant'
    <2>1. /\ job[q].of \in Consent /\ job[q].signer = job[q].of.account
          /\ Moved(q, "verified", job[q].of, job[q].signer, None, {})
          /\ delegate' \in [Sessions -> Accounts \cup {None}]
      BY <1>7, ActivateDoes
    <2>2. UNCHANGED token
      BY <1>7 DEF activate_oauth_delegate, tokens
    <2> QED
      BY <2>1, <2>2, LocksKept DEF Finished, WorksOn, Moved
  <1>8. ASSUME NEW q \in Requests, insert_oauth_code(q) PROVE LocksTrue' /\ OneRefreshPerGrant'
    <2>1. Finished(q)
      BY <1>8, FinishMoves DEF insert_oauth_code, IndInv
    <2>2. UNCHANGED token
      BY <1>8 DEF insert_oauth_code, tokens
    <2> QED
      BY <2>1, <2>2, LocksKept DEF Finished, WorksOn, Moved
  <1>9. ASSUME NEW q \in Requests, CodeExpires(q) PROVE LocksTrue' /\ OneRefreshPerGrant'
    BY <1>9, LocksKept DEF CodeExpires, tokens
  <1>10. ASSUME NEW q \in Requests, NEW x \in Requests, NEW c \in Clients, token_code(q, c, x) PROVE LocksTrue' /\ OneRefreshPerGrant'
    <2>1. code[x] \in Consent /\ (Moved(q, "exchange", code[x], None, None, {}) \/ Finished(q))
      BY <1>10, CodeDoes
    <2>2. UNCHANGED token
      BY <1>10 DEF token_code, tokens
    <2> QED
      BY <2>1, <2>2, LocksKept DEF Finished, WorksOn, Moved
  <1>11. ASSUME NEW q \in Requests, insert_oauth_grant(q) PROVE LocksTrue' /\ OneRefreshPerGrant'
    <2>1. WorksOn(q, "granted", None, {})
      BY <1>11, WorkMoves DEF insert_oauth_grant, IndInv, Steps
    <2>2. UNCHANGED token
      BY <1>11 DEF insert_oauth_grant, tokens
    <2> QED
      BY <2>1, <2>2, LocksKept DEF Finished, WorksOn, Moved
  <1>12. ASSUME NEW q \in Requests, insert_oauth_token(q) PROVE LocksTrue' /\ OneRefreshPerGrant'
    <2>1. /\ token' \in [Requests -> Pair] /\ PairsKept({q}) /\ grant[q] # None
          /\ token'[q].grant = q
          /\ \/ /\ job[q].at = "granted" /\ WorksOn(q, "access", None, {})
                /\ token'[q].refresh = "none"
             \/ /\ job[q].at = "access" /\ Finished(q)
                /\ token'[q].refresh = "live"
      BY <1>12, InsertDoes
    <2>2. \A k \in Requests : k # q => token'[k] = token[k] /\ token[k].grant # q
      BY <2>1 DEF PairsKept, IndInv, Shape, ShapeOf
    <2>3. \A p \in Requests : job'[p].at = "locked" => job'[p] = job[p] /\ p # q
      BY <2>1 DEF Finished, WorksOn, Moved
    <2>4. \A p \in Requests : job[p].at = "locked" => job[p].on \in Requests /\ job[p].on # q
      BY <2>1, JobFields DEF IndInv, TypeOK, Shape, ShapeOf
    <2>5. LocksTrue'
      BY <2>2, <2>3, <2>4 DEF LocksTrue, IndInv
    <2>6. OneRefreshPerGrant'
      BY <2>1, <2>2 DEF OneRefreshPerGrant, IndInv
    <2> QED
      BY <2>5, <2>6
  <1>13. ASSUME NEW q \in Requests, NEW k \in Requests, NEW c \in Clients, token_refresh(q, c, k) PROVE LocksTrue' /\ OneRefreshPerGrant'
    <2>1. /\ token[k].grant \in Requests
          /\ \/ WorksOn(q, "revoke", token[k].grant, {})
             \/ WorksOn(q, "rotate", k, {})
      BY <1>13, RefreshDoes
    <2>2. UNCHANGED token
      BY <1>13 DEF token_refresh, tokens
    <2> QED
      BY <2>1, <2>2, LocksKept DEF Finished, WorksOn, Moved
  <1>14. ASSUME NEW q \in Requests, RotateUpdate(q) PROVE LocksTrue' /\ OneRefreshPerGrant'
    <2>1. /\ job[q].on \in Requests
          /\ \/ /\ WorksOn(q, "locked", job[q].on, {})
                /\ token[job[q].on].refresh = "live" /\ token[job[q].on].grant \notin revoked
             \/ Finished(q)
      BY <1>14, UpdateDoes
    <2>2. UNCHANGED token /\ ~Locked(job[q].on)
      BY <1>14 DEF RotateUpdate, tokens
    <2>3. CASE Finished(q)
      BY <2>2, <2>3, LocksKept DEF Finished, WorksOn, Moved
    <2>4. CASE WorksOn(q, "locked", job[q].on, {}) /\ token[job[q].on].refresh = "live"
      <3>1. \A p \in Requests : p # q => job'[p] = job[p]
        BY <2>4 DEF Finished, WorksOn, Moved
      <3>2. job'[q].at = "locked" /\ job'[q].on = job[q].on
        BY <2>4 DEF Finished, WorksOn, Moved
      <3>3. OneRefreshPerGrant'
        BY <2>2 DEF OneRefreshPerGrant, IndInv
      <3>4. LocksTrue'
        BY <2>2, <2>4, <3>1, <3>2 DEF LocksTrue, Locked, IndInv
      <3> QED
        BY <3>3, <3>4
    <2> QED
      BY <2>1, <2>3, <2>4
  <1>15. ASSUME NEW q \in Requests, rotate_oauth_refresh_token(q) PROVE LocksTrue' /\ OneRefreshPerGrant'
    <2>1. PICK k \in Requests :
             /\ k = job[q].on /\ k # q /\ Finished(q) /\ token[k].grant \in Requests
             /\ token' \in [Requests -> Pair] /\ token[k].refresh = "live"
             /\ PairIs(k, token[k].grant, token[k].access, "revoked")
             /\ PairIs(q, token[k].grant, "live", "live") /\ PairsKept({k, q})
      BY <1>15, RotateDoes
    <2>2. job[q].at = "locked"
      BY <1>15 DEF rotate_oauth_refresh_token
    <2>3. \A p \in Requests : job'[p].at = "locked" => job'[p] = job[p] /\ p # q
      BY <2>1 DEF Finished, WorksOn, Moved
    <2>4. \A p \in Requests : job[p].at = "locked" /\ p # q =>
             job[p].on \in Requests /\ job[p].on # k /\ job[p].on # q
      BY <2>1, <2>2, JobFields DEF IndInv, TypeOK, Shape, ShapeOf, LocksTrue
    <2>5. \A l \in Requests : l \notin {k, q} => token'[l] = token[l]
      BY <2>1 DEF PairsKept
    <2>6. LocksTrue'
      BY <2>3, <2>4, <2>5 DEF LocksTrue, IndInv
    <2>7. /\ token'[k].refresh = "revoked" /\ token'[q].grant = token[k].grant
          /\ \A l \in Requests : l # k /\ token[l].refresh = "live" => token[l].grant # token[k].grant
      BY <2>1 DEF PairIs, OneRefreshPerGrant, IndInv
    <2>8. OneRefreshPerGrant'
      BY <2>1, <2>5, <2>7 DEF OneRefreshPerGrant, IndInv
    <2> QED
      BY <2>6, <2>8
  <1>16. ASSUME NEW q \in Requests, NEW k \in Requests, revoke(q, k) PROVE LocksTrue' /\ OneRefreshPerGrant'
    <2>1. /\ token[k].grant \in Requests
          /\ \/ /\ token[k].refresh # "none" /\ UNCHANGED token
                /\ WorksOn(q, "revoke", token[k].grant, {})
             \/ /\ token' \in [Requests -> Pair] /\ Finished(q) /\ PairsKept({k})
                /\ PairIs(k, token[k].grant, "revoked", token[k].refresh)
      BY <1>16, RevokeDoes
    <2>2. \A p \in Requests : token'[p].grant = token[p].grant /\ token'[p].refresh = token[p].refresh
      BY <2>1 DEF PairsKept, PairIs
    <2>3. token[k] # NoPair
      BY <2>1, NoneAssumption DEF NoPair, MkPair
    <2>4. \A p \in Requests : p # q => job'[p] = job[p]
      BY <2>1 DEF Finished, WorksOn, Moved
    <2>5. job'[q].at # "locked" /\ token'[k] # NoPair
      BY <2>1, <2>2, NoneAssumption DEF Finished, WorksOn, Moved, NoPair, MkPair
    <2>6. \A p \in Requests : p # k => token'[p] = token[p]
      BY <2>1 DEF PairsKept
    <2>7. \A p \in Requests : job[p].at = "locked" => job[p].on \in Requests
      BY JobFields DEF IndInv, TypeOK
    <2>8. OneRefreshPerGrant'
      BY <2>2 DEF IndInv, OneRefreshPerGrant
    <2> QED
      BY <2>2, <2>3, <2>4, <2>5, <2>6, <2>7, <2>8 DEF LocksTrue, IndInv
  <1>17. ASSUME NEW q \in Requests, RevokeUpdate(q) PROVE LocksTrue' /\ OneRefreshPerGrant'
    <2>1. job[q].on \in Requests /\ WorksOn(q, "revoking", job[q].on, PairsOf(job[q].on))
      BY <1>17, SnapshotDoes
    <2>2. UNCHANGED token
      BY <1>17 DEF RevokeUpdate, tokens
    <2> QED
      BY <2>1, <2>2, LocksKept DEF Finished, WorksOn, Moved
  <1>18. ASSUME NEW q \in Requests, revoke_oauth_grant(q) PROVE LocksTrue' /\ OneRefreshPerGrant'
    <2>1. /\ job[q].on \in Requests /\ token' \in [Requests -> Pair] /\ Finished(q)
          /\ revoked' \subseteq revoked \cup {job[q].on}
          /\ revoked \subseteq revoked'
          /\ job[q].on \in revoked' => grant[job[q].on] # None
          /\ \A k \in Requests : Hit(k)
      BY <1>18, GrantRevokeDoes
    <2> QED
      BY <2>1, LocksKept DEF Hit, Finished, WorksOn, Moved
  <1>19. ASSUME NEW old \in SUBSET Clients, PruneStart(old) PROVE LocksTrue' /\ OneRefreshPerGrant'
    BY <1>19, LocksKept DEF PruneStart, tokens
  <1>20. ASSUME prune_unconsumed_oauth_clients PROVE LocksTrue' /\ OneRefreshPerGrant'
    <2>1. Pruned
      BY <1>20, PruneDoes
    <2>2. UNCHANGED job /\ NoPair.refresh = "none"
      BY <1>20 DEF prune_unconsumed_oauth_clients, NoPair, MkPair
    <2> QED
      BY <2>1, <2>2, LocksKept DEF Pruned
  <1>21. ASSUME NEW q \in Requests, Abandon(q) PROVE LocksTrue' /\ OneRefreshPerGrant'
    <2>1. Finished(q)
      BY <1>21, FinishMoves DEF Abandon, IndInv
    <2>2. UNCHANGED token
      BY <1>21 DEF Abandon, tokens
    <2> QED
      BY <2>1, <2>2, LocksKept DEF Finished, WorksOn, Moved
  <1>22. ASSUME NEW s \in Sessions, NEW a \in Accounts, NEW o \in Accounts, SignProof(s, a, o) PROVE LocksTrue' /\ OneRefreshPerGrant'
    BY <1>22, LocksKept DEF SignProof, tokens
  <1>23. ASSUME NEW d \in Sessions, NEW a \in Accounts, add_delegate_key(d, a) PROVE LocksTrue' /\ OneRefreshPerGrant'
    BY <1>23, LocksKept DEF add_delegate_key, tokens
  <1>24. ASSUME NEW d \in Sessions, NEW a \in Accounts, remove_delegate_key(d, a) PROVE LocksTrue' /\ OneRefreshPerGrant'
    BY <1>24, LocksKept DEF remove_delegate_key, tokens
  <1>25. CASE UNCHANGED vars
    BY <1>25, LocksKept DEF vars, tokens
  <1> QED
    BY <1>1, <1>2, <1>3, <1>4, <1>5, <1>6, <1>7, <1>8, <1>9, <1>10, <1>11, <1>12, <1>13, <1>14, <1>15, <1>16, <1>17, <1>18, <1>19, <1>20, <1>21, <1>22, <1>23, <1>24, <1>25
    DEF Next, Consents, Exchanges, Rotations, Revocations, Environment

-------------------------------------------------------------------------------
(* The theorems.                                                           *)

\* The invariant holds initially.
LEMMA InitInv == Init => IndInv
  <1> SUFFICES ASSUME Init PROVE IndInv
    OBVIOUS
  <1>1. /\ NoPair \in Pair /\ NoPair.grant = None /\ NoPair.refresh = "none"
        /\ Idle \in Job /\ Idle.at = "idle" /\ Idle.of = None
    BY DEF NoPair, MkPair, Pair, TokenState, Idle, Work, Job
  <1>2. TypeOK
    BY <1>1 DEF Init, TypeOK
  <1>3. Shape /\ SessionsTrue /\ HeldOver /\ HeldOnce /\ ConsentTrue
    BY <1>1 DEF Init, Shape, ShapeOf, SessionsTrue, HeldOver, HeldOnce, Holds, ConsentTrue, ConsentOf
  <1>4. LocksTrue /\ OneRefreshPerGrant
    BY <1>1 DEF Init, LocksTrue, OneRefreshPerGrant
  <1> QED
    BY <1>2, <1>3, <1>4 DEF IndInv

\* The invariant is inductive: it holds in every reachable state, for any
\* sets of clients, sessions, accounts and requests.
THEOREM Inductive == Spec => []IndInv
  <1>1. IndInv /\ [Next]_vars => IndInv'
    BY TypeStep, ShapeStep, StableSteps, HeldStep, ConsentStep, LocksStep DEF IndInv
  <1> QED
    BY InitInv, <1>1, PTL DEF Spec

\* The tables and the handlers keep their types, and no token row outlives
\* its grant row.
THEOREM TypeCorrect == Spec => []TypeOK
  BY Inductive, PTL DEF IndInv

\* Every grant is what the owner of its account signed for in the session of
\* its client, and its delegate key is active for that account.
THEOREM ConsentCorrect == Spec => []GrantConsented
  <1>1. IndInv => GrantConsented
    BY DEF IndInv, ConsentTrue, ConsentOf, Good, GrantConsented
  <1> QED
    BY Inductive, <1>1, PTL

\* One consent makes at most one grant.
THEOREM OnceCorrect == Spec => []ConsentOnce
  <1>1. IndInv => ConsentOnce
    <2> SUFFICES ASSUME IndInv, NEW g \in Requests, NEW h \in Requests,
                        grant[g] # None, grant[h] # None, g # h
                 PROVE  grant[g].session # grant[h].session
      BY DEF ConsentOnce
    <2>1. grant[g].session \in Sessions
      BY ConsentFields DEF IndInv, TypeOK
    <2> QED
      BY <2>1 DEF IndInv, HeldOnce, Holds
  <1> QED
    BY Inductive, <1>1, PTL

\* The refresh tokens of a grant form one line.
THEOREM RefreshCorrect == Spec => []OneRefreshPerGrant
  BY Inductive, PTL DEF IndInv

\* What a step may do to a revoked grant.
StaysDead(g) ==
    \/ grant'[g] = None
    \/ /\ g \in revoked'
       /\ RotationsOf(g)' \subseteq RotationsOf(g)
       /\ PairsOf(g)' \subseteq PairsOf(g) \cup RotationsOf(g)

\* A step that locks no token and gives no pair a grant.
LEMMA DeadKept ==
    ASSUME IndInv, NEW g \in revoked, g \in revoked' \/ grant'[g] = None,
           \A p \in Requests : job'[p].at = "locked" => job'[p] = job[p],
           \A k \in Requests : token'[k].grant = token[k].grant \/ token'[k].grant = None
    PROVE  StaysDead(g)
  <1>1. g \in Requests /\ g # None
    BY NoneAssumption DEF IndInv, TypeOK
  <1>2. \A p \in Requests : job[p].at = "locked" => job[p].on \in Requests
    BY JobFields DEF IndInv, TypeOK
  <1>3. RotationsOf(g)' \subseteq RotationsOf(g)
    BY <1>1, <1>2 DEF RotationsOf
  <1>4. PairsOf(g)' \subseteq PairsOf(g)
    BY <1>1 DEF PairsOf
  <1> QED
    BY <1>3, <1>4 DEF StaysDead

\* A revoked grant stays dead in every step.
LEMMA DeadStep ==
    IndInv /\ [Next]_vars => \A g \in revoked : StaysDead(g)
  <1> SUFFICES ASSUME IndInv, [Next]_vars, NEW g \in revoked PROVE StaysDead(g)
    OBVIOUS
  <1>a. g \in Requests
    BY DEF IndInv, TypeOK
  <1>1. ASSUME NEW c \in Clients, register_client(c) PROVE StaysDead(g)
    BY <1>1, <1>a, DeadKept DEF register_client, tokens
  <1>2. ASSUME NEW s \in Sessions, NEW c \in Clients, authorize(s, c) PROVE StaysDead(g)
    BY <1>2, <1>a, DeadKept DEF authorize, tokens
  <1>3. ASSUME NEW q \in Requests, NEW s \in Sessions, NEW a \in Accounts, NEW o \in Accounts, session_complete(q, s, a, o) PROVE StaysDead(g)
    <2>1. PICK b \in Consent :
             /\ b.session = s /\ b.client = session[s].client /\ b.account = a
             /\ Moved(q, "consumed", b, o, None, {})
      BY <1>3, CompleteDoes
    <2>2. UNCHANGED <<token, revoked>>
      BY <1>3 DEF session_complete, tokens
    <2> QED
      BY <1>a, <2>1, <2>2, DeadKept DEF Finished, WorksOn, Moved
  <1>4. ASSUME NEW s \in Sessions, session_cancel(s) PROVE StaysDead(g)
    BY <1>4, <1>a, DeadKept DEF session_cancel, tokens
  <1>5. ASSUME NEW s \in Sessions, SessionExpires(s) PROVE StaysDead(g)
    BY <1>5, <1>a, DeadKept DEF SessionExpires, tokens
  <1>6. ASSUME NEW q \in Requests, find_reusable_oauth_delegate(q) PROVE StaysDead(g)
    <2>1. PICK c \in Consent :
             /\ job[q].of \in Consent /\ c.session = job[q].of.session
             /\ c.client = job[q].of.client /\ c.account = job[q].of.account
             /\ c.delegate = c.session \/ delegate[c.delegate] = c.account
             /\ Moved(q, "picked", c, job[q].signer, None, {})
      BY <1>6, PickDoes
    <2>2. UNCHANGED <<token, revoked>>
      BY <1>6 DEF find_reusable_oauth_delegate, tokens
    <2> QED
      BY <1>a, <2>1, <2>2, DeadKept DEF Finished, WorksOn, Moved
  <1>7. ASSUME NEW q \in Requests, activate_oauth_delegate(q) PROVE StaysDead(g)
    <2>1. /\ job[q].of \in Consent /\ job[q].signer = job[q].of.account
          /\ Moved(q, "verified", job[q].of, job[q].signer, None, {})
          /\ delegate' \in [Sessions -> Accounts \cup {None}]
      BY <1>7, ActivateDoes
    <2>2. UNCHANGED <<token, revoked>>
      BY <1>7 DEF activate_oauth_delegate, tokens
    <2> QED
      BY <1>a, <2>1, <2>2, DeadKept DEF Finished, WorksOn, Moved
  <1>8. ASSUME NEW q \in Requests, insert_oauth_code(q) PROVE StaysDead(g)
    <2>1. Finished(q)
      BY <1>8, FinishMoves DEF insert_oauth_code, IndInv
    <2>2. UNCHANGED <<token, revoked>>
      BY <1>8 DEF insert_oauth_code, tokens
    <2> QED
      BY <1>a, <2>1, <2>2, DeadKept DEF Finished, WorksOn, Moved
  <1>9. ASSUME NEW q \in Requests, CodeExpires(q) PROVE StaysDead(g)
    BY <1>9, <1>a, DeadKept DEF CodeExpires, tokens
  <1>10. ASSUME NEW q \in Requests, NEW x \in Requests, NEW c \in Clients, token_code(q, c, x) PROVE StaysDead(g)
    <2>1. code[x] \in Consent /\ (Moved(q, "exchange", code[x], None, None, {}) \/ Finished(q))
      BY <1>10, CodeDoes
    <2>2. UNCHANGED <<token, revoked>>
      BY <1>10 DEF token_code, tokens
    <2> QED
      BY <1>a, <2>1, <2>2, DeadKept DEF Finished, WorksOn, Moved
  <1>11. ASSUME NEW q \in Requests, insert_oauth_grant(q) PROVE StaysDead(g)
    <2>1. WorksOn(q, "granted", None, {})
      BY <1>11, WorkMoves DEF insert_oauth_grant, IndInv, Steps
    <2>2. UNCHANGED <<token, revoked>>
      BY <1>11 DEF insert_oauth_grant, tokens
    <2> QED
      BY <1>a, <2>1, <2>2, DeadKept DEF Finished, WorksOn, Moved
  <1>12. ASSUME NEW q \in Requests, insert_oauth_token(q) PROVE StaysDead(g)
    <2>1. /\ token' \in [Requests -> Pair] /\ PairsKept({q}) /\ grant[q] # None
          /\ token'[q].grant = q
          /\ \/ /\ job[q].at = "granted" /\ WorksOn(q, "access", None, {})
                /\ token'[q].refresh = "none"
             \/ /\ job[q].at = "access" /\ Finished(q)
                /\ token'[q].refresh = "live"
      BY <1>12, InsertDoes
    <2>2. g # q /\ UNCHANGED revoked /\ \A p \in Requests : p # q => token'[p] = token[p]
      BY <1>12, <1>a, <2>1 DEF insert_oauth_token, PairsKept, IndInv, Shape, ShapeOf
    <2>3. \A p \in Requests : job'[p].at = "locked" => job'[p] = job[p]
      BY <2>1 DEF Finished, WorksOn, Moved
    <2>4. \A p \in Requests : job[p].at = "locked" => job[p].on \in Requests
      BY JobFields DEF IndInv, TypeOK
    <2> QED
      BY <1>a, <2>1, <2>2, <2>3, <2>4 DEF StaysDead, RotationsOf, PairsOf
  <1>13. ASSUME NEW q \in Requests, NEW k \in Requests, NEW c \in Clients, token_refresh(q, c, k) PROVE StaysDead(g)
    <2>1. /\ token[k].grant \in Requests
          /\ \/ WorksOn(q, "revoke", token[k].grant, {})
             \/ WorksOn(q, "rotate", k, {})
      BY <1>13, RefreshDoes
    <2>2. UNCHANGED <<token, revoked>>
      BY <1>13 DEF token_refresh, tokens
    <2> QED
      BY <1>a, <2>1, <2>2, DeadKept DEF Finished, WorksOn, Moved
  <1>14. ASSUME NEW q \in Requests, RotateUpdate(q) PROVE StaysDead(g)
    <2>1. /\ job[q].on \in Requests
          /\ \/ /\ WorksOn(q, "locked", job[q].on, {})
                /\ token[job[q].on].refresh = "live" /\ token[job[q].on].grant \notin revoked
             \/ Finished(q)
      BY <1>14, UpdateDoes
    <2>2. UNCHANGED <<token, revoked>>
      BY <1>14 DEF RotateUpdate, tokens
    <2>3. CASE Finished(q)
      BY <1>a, <2>2, <2>3, DeadKept DEF Finished, WorksOn, Moved
    <2>4. CASE WorksOn(q, "locked", job[q].on, {}) /\ token[job[q].on].grant \notin revoked
      <3>1. job'[q].on = job[q].on /\ \A p \in Requests : p # q => job'[p] = job[p]
        BY <2>4 DEF Finished, WorksOn, Moved
      <3>2. RotationsOf(g)' \subseteq RotationsOf(g) /\ PairsOf(g)' \subseteq PairsOf(g)
        BY <1>a, <2>2, <2>4, <3>1 DEF RotationsOf, PairsOf
      <3> QED
        BY <1>a, <2>2, <3>2 DEF StaysDead
    <2> QED
      BY <2>1, <2>3, <2>4
  <1>15. ASSUME NEW q \in Requests, rotate_oauth_refresh_token(q) PROVE StaysDead(g)
    <2>1. PICK k \in Requests :
             /\ k = job[q].on /\ k # q /\ Finished(q) /\ token[k].grant \in Requests
             /\ token' \in [Requests -> Pair] /\ token[k].refresh = "live"
             /\ PairIs(k, token[k].grant, token[k].access, "revoked")
             /\ PairIs(q, token[k].grant, "live", "live") /\ PairsKept({k, q})
      BY <1>15, RotateDoes
    <2>2. job[q].at = "locked" /\ UNCHANGED revoked
      BY <1>15 DEF rotate_oauth_refresh_token
    <2>3. \A p \in Requests : job'[p].at = "locked" => job'[p] = job[p] /\ p # q
      BY <2>1 DEF Finished, WorksOn, Moved
    <2>4. \A p \in Requests : job[p].at = "locked" => job[p].on \in Requests /\ job[p].on # q
      BY <2>1, <2>2, JobFields DEF IndInv, TypeOK, Shape, ShapeOf
    <2>5. \A l \in Requests : l # q => token'[l].grant = token[l].grant
      BY <2>1 DEF PairsKept, PairIs
    <2>6. RotationsOf(g)' \subseteq RotationsOf(g)
      BY <2>3, <2>4, <2>5 DEF RotationsOf
    <2>7. PairsOf(g)' \subseteq PairsOf(g) \cup RotationsOf(g)
      BY <2>1, <2>2, <2>5 DEF PairsOf, RotationsOf, PairIs
    <2> QED
      BY <1>a, <2>2, <2>6, <2>7 DEF StaysDead
  <1>16. ASSUME NEW q \in Requests, NEW k \in Requests, revoke(q, k) PROVE StaysDead(g)
    <2>1. /\ token[k].grant \in Requests
          /\ \/ /\ token[k].refresh # "none" /\ UNCHANGED token
                /\ WorksOn(q, "revoke", token[k].grant, {})
             \/ /\ token' \in [Requests -> Pair] /\ Finished(q) /\ PairsKept({k})
                /\ PairIs(k, token[k].grant, "revoked", token[k].refresh)
      BY <1>16, RevokeDoes
    <2>2. UNCHANGED revoked /\ \A p \in Requests : token'[p].grant = token[p].grant
      BY <1>16, <2>1 DEF revoke, PairsKept, PairIs
    <2>3. \A p \in Requests : job'[p].at = "locked" => job'[p] = job[p]
      BY <2>1 DEF Finished, WorksOn, Moved
    <2> QED
      BY <1>a, <2>2, <2>3, DeadKept
  <1>17. ASSUME NEW q \in Requests, RevokeUpdate(q) PROVE StaysDead(g)
    <2>1. job[q].on \in Requests /\ WorksOn(q, "revoking", job[q].on, PairsOf(job[q].on))
      BY <1>17, SnapshotDoes
    <2>2. UNCHANGED <<token, revoked>>
      BY <1>17 DEF RevokeUpdate, tokens
    <2> QED
      BY <1>a, <2>1, <2>2, DeadKept DEF Finished, WorksOn, Moved
  <1>18. ASSUME NEW q \in Requests, revoke_oauth_grant(q) PROVE StaysDead(g)
    <2>1. /\ job[q].on \in Requests /\ token' \in [Requests -> Pair] /\ Finished(q)
          /\ revoked' \subseteq revoked \cup {job[q].on}
          /\ revoked \subseteq revoked'
          /\ job[q].on \in revoked' => grant[job[q].on] # None
          /\ \A k \in Requests : Hit(k)
      BY <1>18, GrantRevokeDoes
    <2> QED
      BY <1>a, <2>1, DeadKept DEF Hit, Finished, WorksOn, Moved
  <1>19. ASSUME NEW old \in SUBSET Clients, PruneStart(old) PROVE StaysDead(g)
    BY <1>19, <1>a, DeadKept DEF PruneStart, tokens
  <1>20. ASSUME prune_unconsumed_oauth_clients PROVE StaysDead(g)
    <2>1. Pruned
      BY <1>20, PruneDoes
    <2>2. UNCHANGED job /\ NoPair.grant = None
      BY <1>20 DEF prune_unconsumed_oauth_clients, NoPair, MkPair
    <2> QED
      BY <1>a, <2>1, <2>2, DeadKept DEF Pruned
  <1>21. ASSUME NEW q \in Requests, Abandon(q) PROVE StaysDead(g)
    <2>1. Finished(q)
      BY <1>21, FinishMoves DEF Abandon, IndInv
    <2>2. UNCHANGED <<token, revoked>>
      BY <1>21 DEF Abandon, tokens
    <2> QED
      BY <1>a, <2>1, <2>2, DeadKept DEF Finished, WorksOn, Moved
  <1>22. ASSUME NEW s \in Sessions, NEW a \in Accounts, NEW o \in Accounts, SignProof(s, a, o) PROVE StaysDead(g)
    BY <1>22, <1>a, DeadKept DEF SignProof, tokens
  <1>23. ASSUME NEW d \in Sessions, NEW a \in Accounts, add_delegate_key(d, a) PROVE StaysDead(g)
    BY <1>23, <1>a, DeadKept DEF add_delegate_key, tokens
  <1>24. ASSUME NEW d \in Sessions, NEW a \in Accounts, remove_delegate_key(d, a) PROVE StaysDead(g)
    BY <1>24, <1>a, DeadKept DEF remove_delegate_key, tokens
  <1>25. CASE UNCHANGED vars
    BY <1>25, <1>a, DeadKept DEF vars, tokens
  <1> QED
    BY <1>1, <1>2, <1>3, <1>4, <1>5, <1>6, <1>7, <1>8, <1>9, <1>10, <1>11, <1>12, <1>13, <1>14, <1>15, <1>16, <1>17, <1>18, <1>19, <1>20, <1>21, <1>22, <1>23, <1>24, <1>25
    DEF Next, Consents, Exchanges, Rotations, Revocations, Environment

\* A revoked grant stays dead: nothing of it is accepted again, also not the
\* pair of a rotation that overlapped the revocation.
THEOREM RevokedDead == Spec => RevokedStaysDead
  <1>1. IndInv /\ [Next]_vars =>
          [\A g \in revoked :
             \/ grant'[g] = None
             \/ /\ g \in revoked'
                /\ RotationsOf(g)' \subseteq RotationsOf(g)
                /\ PairsOf(g)' \subseteq PairsOf(g) \cup RotationsOf(g)
                /\ \A k \in PairsOf(g)' : ~resolve_oauth_bearer(k)']_vars
    <2> SUFFICES ASSUME IndInv, [Next]_vars, NEW g \in revoked, grant'[g] # None
                 PROVE  /\ g \in revoked'
                        /\ RotationsOf(g)' \subseteq RotationsOf(g)
                        /\ PairsOf(g)' \subseteq PairsOf(g) \cup RotationsOf(g)
                        /\ \A k \in PairsOf(g)' : ~resolve_oauth_bearer(k)'
      OBVIOUS
    <2>1. StaysDead(g)
      BY DeadStep
    <2>2. g \in revoked'
      BY <2>1 DEF StaysDead
    <2>3. \A k \in PairsOf(g)' : ~resolve_oauth_bearer(k)'
      BY <2>2 DEF PairsOf, resolve_oauth_bearer
    <2> QED
      BY <2>1, <2>3 DEF StaysDead
  <1> QED
    BY Inductive, <1>1, PTL DEF Spec, RevokedStaysDead
===============================================================================
