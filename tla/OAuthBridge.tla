------------------------------ MODULE OAuthBridge -----------------------------
(***************************************************************************)
(* The OAuth bridge of the MCP connector: a client registers itself, the    *)
(* owner of an account consents in an authorize session, the consent        *)
(* becomes a single-use code, the code a grant with a pair of tokens, and   *)
(* the refresh token of a pair is rotated into the next pair until the      *)
(* grant is revoked (routes/oauth.rs, oauth.rs, the mcp_oauth tables of     *)
(* storage/db.rs).  Every request is a sequence of statements, each         *)
(* committed on its own but for the transactions of the rotation and of the *)
(* revocation; nothing else keeps two requests apart.                       *)
(*                                                                         *)
(* A request id is used once and also names the code, the grant and the     *)
(* token pair its handler mints.  The delegate key of a session is named    *)
(* by the session.  An account stands for its owner's address too: the      *)
(* contract keeps them one to one.  The lifetimes of tokens are left out    *)
(* (an expired token is only refused more); sessions and codes expire.      *)
(***************************************************************************)
EXTENDS Integers, FiniteSets

CONSTANTS
    Clients,      \* client ids (random tokens)
    Sessions,     \* authorize session ids; also their delegate keys
    Accounts,     \* account ids; also the owner of each
    Requests,     \* requests to session_complete, token and revoke
    MaxOwnerActs, \* bound: personal messages signed and delegate keys registered
    None

ASSUME NoneAssumption == None \notin Clients \cup Sessions \cup Accounts \cup Requests
ASSUME BoundAssumption == MaxOwnerActs \in Nat

VARIABLES
    client,    \* mcp_oauth_clients
    session,   \* mcp_oauth_authorize_sessions: client_id and status; "over" is
               \* consumed, expired or deleted, which every statement treats alike
    delegate,  \* mcp_oauth_delegates: account_id once active, None while pending
    code,      \* mcp_oauth_codes
    grant,     \* mcp_oauth_grants
    revoked,   \* the grants whose revoked_at is set
    token,     \* mcp_oauth_tokens: the pair a request minted
    job,       \* what the handler of each request is doing
    pruning,   \* the clients a running prune statement found
    signed,    \* wallets: personal messages <<session, account, signer>>
    onchain    \* Sui: is a delegate key registered in an account

flow == <<client, session, delegate, code>>
tokens == <<grant, revoked, token>>
outside == <<signed, onchain>>
vars == <<flow, tokens, job, pruning, outside>>

\* What the owner agreed to, as the code row and then the grant row carry it.
Consent == [session : Sessions, client : Clients, account : Accounts, delegate : Sessions]
ASSUME ConsentAssumption == None \notin Consent
TokenState == {"none", "live", "revoked"}
Pair == [grant : Requests \cup {None}, access : TokenState, refresh : TokenState]
\* of: the consent at hand; on: the token presented or the grant concerned;
\* found: the token pairs in the snapshot of a revocation.
Job == [at : {"idle", "done", "consumed", "picked", "verified", "exchange", "granted",
              "access", "rotate", "locked", "revoke", "revoking"},
        of : Consent \cup {None}, signer : Accounts \cup {None},
        on : Requests \cup {None}, found : SUBSET Requests]

MkPair(g, a, r) == [grant |-> g, access |-> a, refresh |-> r]
NoPair == MkPair(None, "none", "none")
Carry(step, c, o) == [at |-> step, of |-> c, signer |-> o, on |-> None, found |-> {}]
Work(step, x, pairs) == [at |-> step, of |-> None, signer |-> None, on |-> x, found |-> pairs]
Idle == Work("idle", None, {})
Done == Work("done", None, {})

Init ==
    /\ client = [c \in Clients |-> "none"]
    /\ session = [s \in Sessions |-> [status |-> "none", client |-> None]]
    /\ delegate = [s \in Sessions |-> None]
    /\ code = [q \in Requests |-> None]
    /\ grant = [q \in Requests |-> None]
    /\ revoked = {}
    /\ token = [q \in Requests |-> NoPair]
    /\ job = [q \in Requests |-> Idle]
    /\ pruning = {}
    /\ signed = {}
    /\ onchain = [d \in Sessions |-> [a \in Accounts |-> "never"]]

Finish(q) == job' = [job EXCEPT ![q] = Done]

-------------------------------------------------------------------------------
(* Registration and the authorize session.                                 *)

register_client(c) ==
    /\ client[c] = "none"
    /\ client' = [client EXCEPT ![c] = "active"]
    /\ UNCHANGED <<session, delegate, code, tokens, job, pruning, outside>>

\* Mints the pending delegate key and the session.
authorize(s, c) ==
    /\ client[c] = "active" /\ session[s].status = "none"
    /\ session' = [session EXCEPT ![s] = [status |-> "pending", client |-> c]]
    /\ UNCHANGED <<client, delegate, code, tokens, job, pruning, outside>>

consume_oauth_session(s) ==
    /\ session[s].status = "pending"
    /\ session' = [session EXCEPT ![s].status = "over"]

\* Mutant: the message that is signed does not name the session.
ProofAnySession(s, a, o) == \E t \in Sessions : <<t, a, o>> \in signed

oauth_owner_proof(s, a, o) == <<s, a, o>> \in signed

\* The proof of the owner comes first, so that a session id alone consumes
\* nothing.
session_complete(q, s, a, o) ==
    /\ job[q] = Idle
    /\ oauth_owner_proof(s, a, o)
    /\ consume_oauth_session(s)
    /\ job' = [job EXCEPT ![q] = Carry("consumed",
                  [session |-> s, client |-> session[s].client, account |-> a, delegate |-> s], o)]
    /\ UNCHANGED <<client, delegate, code, tokens, pruning, outside>>

session_cancel(s) ==
    /\ consume_oauth_session(s)
    /\ UNCHANGED <<client, delegate, code, tokens, job, pruning, outside>>

\* The active delegates of an account; ORDER BY picks the newest, and nothing
\* below depends on which.
Reusable(a) == {d \in Sessions : delegate[d] = a}

find_reusable_oauth_delegate(q) ==
    /\ job[q].at = "consumed"
    /\ LET c == job[q].of
           found == Reusable(c.account)
       IN  \E d \in IF found = {} THEN {c.session} ELSE found :
              job' = [job EXCEPT ![q] = Carry("picked", [c EXCEPT !.delegate = d], job[q].signer)]
    /\ UNCHANGED <<flow, tokens, pruning, outside>>

\* verify_delegate_key_onchain, the owner comparison, and the UPDATE unless
\* the delegate is a reused one.
activate_oauth_delegate(q) ==
    LET c == job[q].of
    IN  /\ job[q].at = "picked"
        /\ onchain[c.delegate][c.account] = "added"
        /\ job[q].signer = c.account
        /\ job' = [job EXCEPT ![q] = Carry("verified", c, job[q].signer)]
        /\ delegate' = IF c.delegate = c.session
                       THEN [delegate EXCEPT ![c.delegate] = c.account] ELSE delegate
        /\ UNCHANGED <<client, session, code, tokens, pruning, outside>>

insert_oauth_code(q) ==
    /\ job[q].at = "verified"
    /\ code' = [code EXCEPT ![q] = job[q].of]
    /\ Finish(q)
    /\ UNCHANGED <<client, session, delegate, tokens, pruning, outside>>

\* An expired row counts as absent everywhere; evict_expired_oauth_state
\* deletes it later.
SessionExpires(s) ==
    /\ session[s].status = "pending"
    /\ session' = [session EXCEPT ![s].status = "over"]
    /\ UNCHANGED <<client, delegate, code, tokens, job, pruning, outside>>

CodeExpires(q) ==
    /\ code[q] # None
    /\ code' = [code EXCEPT ![q] = None]
    /\ UNCHANGED <<client, session, delegate, tokens, job, pruning, outside>>

-------------------------------------------------------------------------------
(* POST /oauth/token with an authorization code.                           *)

\* Mutant: the code row is read and not deleted.
ConsumeReads(x, c) == code[x] # None /\ code[x].client = c /\ UNCHANGED code

\* DELETE ... RETURNING, for the authenticated client only.
consume_oauth_code(x, c) ==
    /\ code[x] # None /\ code[x].client = c
    /\ code' = [code EXCEPT ![x] = None]

\* The redirect uri, the verifier and the resource are compared after the
\* code is gone: a mismatch spends it.
token_code(q, c, x) ==
    /\ job[q] = Idle /\ client[c] = "active"
    /\ consume_oauth_code(x, c)
    /\ \/ job' = [job EXCEPT ![q] = Carry("exchange", code[x], None)]
       \/ Finish(q)
    /\ UNCHANGED <<client, session, delegate, tokens, pruning, outside>>

\* The client_id of the grant references the clients' table.
insert_oauth_grant(q) ==
    /\ job[q].at = "exchange"
    /\ client[job[q].of.client] = "active"
    /\ grant' = [grant EXCEPT ![q] = job[q].of]
    /\ job' = [job EXCEPT ![q] = Work("granted", None, {})]
    /\ UNCHANGED <<flow, revoked, token, pruning, outside>>

\* The two inserts of the pair; grant_id references the grants' table.
insert_oauth_token(q) ==
    /\ grant[q] # None
    /\ \/ /\ job[q].at = "granted"
          /\ token' = [token EXCEPT ![q] = MkPair(q, "live", "none")]
          /\ job' = [job EXCEPT ![q] = Work("access", None, {})]
       \/ /\ job[q].at = "access"
          /\ token' = [token EXCEPT ![q] = MkPair(q, @.access, "live")]
          /\ Finish(q)
    /\ UNCHANGED <<flow, grant, revoked, pruning, outside>>

-------------------------------------------------------------------------------
(* POST /oauth/token with a refresh token.                                 *)

\* fetch_oauth_token_with_delegate: a refresh token that was used, or whose
\* grant is revoked, revokes the grant.
token_refresh(q, c, k) ==
    LET g == token[k].grant
    IN  /\ job[q] = Idle /\ client[c] = "active"
        /\ token[k].refresh # "none"
        /\ grant[g].client = c
        /\ job' = [job EXCEPT ![q] =
                     IF token[k].refresh = "revoked" \/ g \in revoked
                     THEN Work("revoke", g, {}) ELSE Work("rotate", k, {})]
        /\ UNCHANGED <<flow, tokens, pruning, outside>>

Locked(k) == \E p \in Requests : job[p].at = "locked" /\ job[p].on = k

\* Mutant: the UPDATE does not ask for revoked_at IS NULL.
RotateAny(q) ==
    LET k == job[q].on
    IN  /\ job[q].at = "rotate" /\ ~Locked(k)
        /\ job' = [job EXCEPT ![q] =
                     IF token[k].refresh # "none" /\ token[k].grant \notin revoked
                     THEN Work("locked", k, {}) ELSE Done]
        /\ UNCHANGED <<flow, tokens, pruning, outside>>

\* The UPDATE of rotate_oauth_refresh_token: it waits for the row, and holds
\* it until the transaction ends.
RotateUpdate(q) ==
    LET k == job[q].on
    IN  /\ job[q].at = "rotate" /\ ~Locked(k)
        /\ job' = [job EXCEPT ![q] =
                     IF token[k].refresh = "live" /\ token[k].grant \notin revoked
                     THEN Work("locked", k, {}) ELSE Done]
        /\ UNCHANGED <<flow, tokens, pruning, outside>>

\* The two INSERTs and the commit, which shows the consumed token as revoked.
\* The grant row may have been deleted meanwhile; one revoked meanwhile is not
\* noticed.
rotate_oauth_refresh_token(q) ==
    LET k == job[q].on
    IN  /\ job[q].at = "locked"
        /\ token[k].grant # None
        /\ token' = [token EXCEPT ![k] = MkPair(@.grant, @.access, "revoked"),
                                  ![q] = MkPair(token[k].grant, "live", "live")]
        /\ Finish(q)
        /\ UNCHANGED <<flow, grant, revoked, pruning, outside>>

-------------------------------------------------------------------------------
(* Revocation and the resource server.                                     *)

\* POST /oauth/revoke: a refresh token stands for its grant.
revoke(q, k) ==
    /\ job[q] = Idle
    /\ \/ /\ token[k].refresh # "none"
          /\ job' = [job EXCEPT ![q] = Work("revoke", token[k].grant, {})]
          /\ UNCHANGED token
       \/ /\ token[k].access # "none"
          /\ token' = [token EXCEPT ![k] = MkPair(@.grant, "revoked", @.refresh)]
          /\ Finish(q)
    /\ UNCHANGED <<flow, grant, revoked, pruning, outside>>

PairsOf(g) == {k \in Requests : token[k].grant = g}

\* revoke_oauth_grant locks the grant and takes the snapshot of its token
\* UPDATE.
RevokeUpdate(q) ==
    LET g == job[q].on
    IN  /\ job[q].at = "revoke"
        /\ ~ \E p \in Requests : job[p].at = "revoking" /\ job[p].on = g
        /\ job' = [job EXCEPT ![q] = Work("revoking", g, PairsOf(g))]
        /\ UNCHANGED <<flow, tokens, pruning, outside>>

\* Waits for the rotations that hold a row of the snapshot; a pair that such
\* a rotation inserts is not in it.
revoke_oauth_grant(q) ==
    LET Hit(state) == IF state = "live" THEN "revoked" ELSE state
    IN  /\ job[q].at = "revoking"
        /\ \A k \in job[q].found : ~Locked(k)
        /\ revoked' = IF grant[job[q].on] = None THEN revoked ELSE revoked \cup {job[q].on}
        /\ token' = [k \in Requests |->
                        IF k \in job[q].found
                        THEN MkPair(token[k].grant, Hit(token[k].access), Hit(token[k].refresh))
                        ELSE token[k]]
        /\ Finish(q)
        /\ UNCHANGED <<flow, grant, pruning, outside>>

\* Mutant: the grant behind the token is not looked at.
BearerAnyGrant(k) == token[k].access = "live"

\* The bearer of an /api/mcp request is accepted, and becomes the delegate key.
resolve_oauth_bearer(k) ==
    /\ token[k].access = "live"
    /\ token[k].grant \notin revoked
    /\ delegate[grant[token[k].grant].delegate] # None

-------------------------------------------------------------------------------
(* The hourly task, faults, wallets and the chain.                         *)

Unconsumed == {c \in Clients : /\ client[c] = "active"
                               /\ ~ \E g \in Requests : grant[g] # None /\ grant[g].client = c}

\* Mutant: the tokens' grant_id does not cascade.
CascadeNothing(lost) == UNCHANGED token

\* grant_id REFERENCES mcp_oauth_grants ON DELETE CASCADE
CascadeTokens(lost) ==
    token' = [k \in Requests |-> IF token[k].grant \in lost THEN NoPair ELSE token[k]]

\* prune_unconsumed_oauth_clients: the snapshot of the statement, and what it
\* deletes, with the rows that cascade.
PruneStart(old) ==
    /\ pruning = {} /\ old # {} /\ old \subseteq Unconsumed
    /\ pruning' = old
    /\ UNCHANGED <<flow, tokens, job, outside>>

prune_unconsumed_oauth_clients ==
    /\ pruning # {}
    /\ LET lost == {g \in Requests : grant[g] # None /\ grant[g].client \in pruning}
       IN  /\ grant' = [g \in Requests |-> IF g \in lost THEN None ELSE grant[g]]
           /\ revoked' = revoked \ lost
           /\ CascadeTokens(lost)
    /\ client' = [c \in Clients |-> IF c \in pruning THEN "gone" ELSE client[c]]
    /\ session' = [s \in Sessions |-> IF session[s].client \in pruning
                                      THEN [session[s] EXCEPT !.status = "over"] ELSE session[s]]
    /\ pruning' = {}
    /\ UNCHANGED <<delegate, code, job, outside>>

\* A statement fails, the client hangs up, the process dies: a transaction
\* that is open rolls back, what was committed before stays.
Abandon(q) ==
    /\ job[q].at \notin {"idle", "done"}
    /\ Finish(q)
    /\ UNCHANGED <<flow, tokens, pruning, outside>>

\* What owners did with their wallets and their accounts.
OwnerActs == Cardinality(signed)
             + Cardinality({p \in Sessions \X Accounts : onchain[p[1]][p[2]] # "never"})

SignProof(s, a, o) ==
    /\ session[s].status # "none" /\ OwnerActs < MaxOwnerActs
    /\ signed' = signed \cup {<<s, a, o>>}
    /\ UNCHANGED <<flow, tokens, job, pruning, onchain>>

add_delegate_key(d, a) ==
    /\ session[d].status # "none" /\ onchain[d][a] # "added" /\ OwnerActs < MaxOwnerActs
    /\ onchain' = [onchain EXCEPT ![d][a] = "added"]
    /\ UNCHANGED <<flow, tokens, job, pruning, signed>>

remove_delegate_key(d, a) ==
    /\ onchain[d][a] = "added"
    /\ onchain' = [onchain EXCEPT ![d][a] = "removed"]
    /\ UNCHANGED <<flow, tokens, job, pruning, signed>>

-------------------------------------------------------------------------------
Consents ==
    \/ \E c \in Clients : register_client(c)
    \/ \E s \in Sessions, c \in Clients : authorize(s, c)
    \/ \E q \in Requests, s \in Sessions, a, o \in Accounts : session_complete(q, s, a, o)
    \/ \E q \in Requests : \/ find_reusable_oauth_delegate(q)
                           \/ activate_oauth_delegate(q)
                           \/ insert_oauth_code(q)
    \/ \E s \in Sessions : session_cancel(s) \/ SessionExpires(s)

Exchanges ==
    \/ \E q, x \in Requests, c \in Clients : token_code(q, c, x)
    \/ \E q \in Requests : insert_oauth_grant(q) \/ insert_oauth_token(q) \/ CodeExpires(q)

Rotations ==
    \/ \E q, k \in Requests, c \in Clients : token_refresh(q, c, k)
    \/ \E q \in Requests : RotateUpdate(q) \/ rotate_oauth_refresh_token(q)

Revocations ==
    \/ \E q, k \in Requests : revoke(q, k)
    \/ \E q \in Requests : RevokeUpdate(q) \/ revoke_oauth_grant(q)

Environment ==
    \/ \E old \in SUBSET Clients : PruneStart(old)
    \/ prune_unconsumed_oauth_clients
    \/ \E q \in Requests : Abandon(q)
    \/ \E s \in Sessions, a, o \in Accounts : SignProof(s, a, o)
    \/ \E d \in Sessions, a \in Accounts : add_delegate_key(d, a) \/ remove_delegate_key(d, a)

Next == Consents \/ Exchanges \/ Rotations \/ Revocations \/ Environment

Spec == Init /\ [][Next]_vars

-------------------------------------------------------------------------------
\* The rows and the handlers' locals have their types, a token row has its
\* grant row (011_mcp_oauth.sql:120), and a handler has at every step what the
\* step uses.
TypeOK ==
    /\ client \in [Clients -> {"none", "active", "gone"}]
    /\ session \in [Sessions -> [status : {"none", "pending", "over"},
                                 client : Clients \cup {None}]]
    /\ delegate \in [Sessions -> Accounts \cup {None}]
    /\ code \in [Requests -> Consent \cup {None}]
    /\ grant \in [Requests -> Consent \cup {None}]
    /\ revoked \subseteq Requests
    /\ token \in [Requests -> Pair]
    /\ \A k \in Requests : token[k] # NoPair =>
                                 token[k].grant # None /\ grant[token[k].grant] # None
    /\ job \in [Requests -> Job]
    /\ \A q \in Requests :
          /\ job[q].at \in {"consumed", "picked", "verified", "exchange"} => job[q].of # None
          /\ job[q].at \in {"rotate", "locked", "revoke", "revoking"} => job[q].on # None
    /\ pruning \subseteq Clients
    /\ signed \subseteq Sessions \X Accounts \X Accounts
    /\ onchain \in [Sessions -> [Accounts -> {"never", "added", "removed"}]]

\* A grant is what an owner agreed to (routes/oauth.rs:604-717): its client is
\* the one of the authorize session, the owner of its account signed for that
\* very session, and its delegate key, minted or reused, is active for that
\* account and was registered there.
GrantConsented ==
    \A g \in Requests : grant[g] # None =>
        LET c == grant[g]
        IN  /\ session[c.session].client = c.client
            /\ <<c.session, c.account, c.account>> \in signed
            /\ delegate[c.delegate] = c.account
            /\ onchain[c.delegate][c.account] # "never"

\* One consent makes at most one grant, however the completion, the exchange
\* and their retries interleave (db.rs:1221-1224, 1266-1270).
ConsentOnce ==
    \A g, h \in Requests : grant[g] # None /\ grant[h] # None /\ g # h
                             => grant[g].session # grant[h].session

\* The refresh tokens of a grant form one line: at most one of them can still
\* be rotated, and while a rotation of it is under way no other pair of the
\* grant can (routes/oauth.rs:1012-1013).
OneRefreshPerGrant ==
    \A k, l \in Requests : token[k].refresh = "live" /\ token[l].refresh = "live"
                             /\ token[k].grant = token[l].grant => k = l

\* A revoked grant stays dead (db.rs:1311-1313, oauth.rs:806-808): it stays
\* revoked, no rotation of its tokens begins, the only pairs it still gets are
\* those of rotations that overlapped the revocation, and no bearer token of
\* it is accepted, these included.
RotationsOf(g) == {q \in Requests : job[q].at = "locked" /\ token[job[q].on].grant = g}

RevokedStaysDead ==
    [][\A g \in revoked :
           \/ grant'[g] = None
           \/ /\ g \in revoked'
              /\ RotationsOf(g)' \subseteq RotationsOf(g)
              /\ PairsOf(g)' \subseteq PairsOf(g) \cup RotationsOf(g)
              /\ \A k \in PairsOf(g)' : ~resolve_oauth_bearer(k)']_vars

-------------------------------------------------------------------------------
(* The refinement of Connections.                                          *)

Asked == {<<s, session[s].client>> : s \in {t \in Sessions : session[t].status # "none"}}
Approved == {p \in Sessions \X Accounts : <<p[1], p[2], p[2]>> \in signed}

\* A consent is under way while a handler or a code carries it.
UnderWay(s) == \E q \in Requests : \/ job[q].of # None /\ job[q].of.session = s
                                   \/ code[q] # None /\ code[q].session = s
Spent == {s \in Sessions : session[s].status = "over" /\ ~UnderWay(s)}

LinkOf(g) == [session |-> grant[g].session, client |-> grant[g].client,
              account |-> grant[g].account]
On(g) == grant[g] # None /\ g \notin revoked
Links == {LinkOf(g) : g \in {h \in Requests : On(h)}}
Serving == {LinkOf(token[k].grant) : k \in {l \in Requests : resolve_oauth_bearer(l)}}

Bridge == INSTANCE Connections
          WITH asked <- Asked, approved <- Approved, spent <- Spent,
               links <- Links, serving <- Serving

\* The bridge implements Connections (routes/oauth.rs:604-1074, db.rs:1221-1497):
\* through every interleaving of completions, exchanges, rotations, revocations
\* and pruning, a session gives at most one connection ever, to the client that
\* opened it and the account whose owner signed for it, and only a connection
\* that is on is served.
ImplementsConnections == Bridge!Spec
===============================================================================
