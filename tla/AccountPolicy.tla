----------------------------- MODULE AccountPolicy ----------------------------
(***************************************************************************)
(* The account contract (contract/sources/account.move) with the two       *)
(* parties that act on its word: SEAL key servers, which hand out a        *)
(* decryption key when a dry run of seal_approve succeeds, and writers,    *)
(* which seal a text under a counter they read and store it through        *)
(* seal_encrypt_fence.  Both read the chain through a node that may lag.   *)
(*                                                                         *)
(* A Move call is one step.  The version gates are left out: init writes   *)
(* VERSION and migrate_registry cannot run in the package that did.  A     *)
(* delegate is its public key, which determines its address.               *)
(***************************************************************************)
EXTENDS Integers, Sequences, FiniteSets

CONSTANTS
    Owners,             \* account owners
    Keys,               \* delegate keys
    Roots,              \* allowlist roots the admin may pin
    AccountLeaves,      \* <<root, owner, active>> with a Merkle proof
    DelegateLeaves,     \* <<root, owner, key>> with a Merkle proof
    MAX_DELEGATE_KEYS,
    Totals,             \* <<accounts, delegates>> the admin may declare
    Nodes,              \* full nodes that key servers and writers read from
    MaxCounter,         \* bound: rotations of one account
    MaxBlobs,           \* bound: stored blobs of one account
    None                \* option::none

ASSUME FiniteAssumption == IsFiniteSet(Owners) /\ IsFiniteSet(Keys)
ASSUME LeafAssumption == /\ AccountLeaves \subseteq Roots \X Owners \X BOOLEAN
                         /\ DelegateLeaves \subseteq Roots \X Owners \X Keys
ASSUME NumberAssumption == /\ MAX_DELEGATE_KEYS \in Nat /\ MaxCounter \in Nat
                           /\ MaxBlobs \in Nat /\ Totals \subseteq Nat \X Nat
ASSUME NoneAssumption == None \notin Roots

VARIABLES
    registry,  \* AccountRegistry
    account,   \* the MemWalAccount of each owner
    caps,      \* roots some MigrationCap is bound to
    view,      \* the accounts as each node sees them
    held,      \* <<party, counter>>: SEAL keys that were handed out
    drafts,    \* counters of ciphertexts sealed and not stored yet
    stored     \* blobs handed to the owner

vars == <<registry, account, caps, view, held, drafts, stored>>

Parties == Owners \cup Keys

Registry == [accounts : SUBSET Owners, finalized : BOOLEAN,
             root : Roots \cup {None},
             expected_accounts : Nat, expected_delegates : Nat,
             imported_accounts : Nat, imported_delegates : Nat]

Account == [keys : Seq(Keys), active : BOOLEAN, quarantined : BOOLEAN,
            legacy : BOOLEAN, counter : Nat]

NoAccount == [keys |-> <<>>, active |-> FALSE, quarantined |-> FALSE,
              legacy |-> FALSE, counter |-> 0]

\* A stored blob, with the counter it was sealed under and, as history, every
\* party that was a reader of the account when it was stored or since.
Blob == [counter : Nat, readers : SUBSET Parties]

Init ==
    /\ registry = [accounts |-> {}, finalized |-> FALSE, root |-> None,
                   expected_accounts |-> 0, expected_delegates |-> 0,
                   imported_accounts |-> 0, imported_delegates |-> 0]
    /\ account = [o \in Owners |-> NoAccount]
    /\ caps = {}
    /\ view = [n \in Nodes |-> account]
    /\ held = [o \in Owners |-> {}]
    /\ drafts = [o \in Owners |-> {}]
    /\ stored = [o \in Owners |-> {}]

-------------------------------------------------------------------------------
\* is_delegate
Delegates(a) == {a.keys[i] : i \in 1 .. Len(a.keys)}

\* Whom the account lists as a reader, frozen or not.
Listed(o, a) == {o} \cup Delegates(a)

\* rotate_access_counter, within the bound.
CanRotate(o) == account[o].counter < MaxCounter
Rotated(a) == [a EXCEPT !.counter = @ + 1]

\* A key list without its entry i.
Without(q, i) == [j \in 1 .. Len(q) - 1 |-> IF j < i THEN q[j] ELSE q[j + 1]]

\* Key k becomes a reader of what is stored already.
Admit(o, k) ==
    stored' = [stored EXCEPT ![o] =
                 {[b EXCEPT !.readers = @ \cup {k}] : b \in stored[o]}]

(* Owner calls.                                                            *)

create_account(o) ==
    /\ registry.finalized
    /\ o \notin registry.accounts
    /\ account' = [account EXCEPT ![o] = [NoAccount EXCEPT !.active = TRUE]]
    /\ registry' = [registry EXCEPT !.accounts = @ \cup {o}]
    /\ UNCHANGED <<caps, view, held, drafts, stored>>

add_delegate_key(o, k) ==
    /\ registry.finalized
    /\ o \in registry.accounts /\ account[o].active
    /\ Len(account[o].keys) < MAX_DELEGATE_KEYS
    /\ k \notin Delegates(account[o])
    /\ account' = [account EXCEPT ![o].keys = Append(@, k)]
    /\ Admit(o, k)
    /\ UNCHANGED <<registry, caps, view, held, drafts>>

\* Mutant: the counter stays.
remove_delegate_key_unrotated(o, k) ==
    /\ registry.finalized /\ o \in registry.accounts
    /\ \E i \in 1 .. Len(account[o].keys) :
         /\ account[o].keys[i] = k
         /\ account' = [account EXCEPT ![o].keys = Without(@, i)]
    /\ UNCHANGED <<registry, caps, view, held, drafts, stored>>

\* Allowed on a frozen account too.
remove_delegate_key(o, k) ==
    /\ registry.finalized /\ o \in registry.accounts
    /\ CanRotate(o)
    /\ \E i \in 1 .. Len(account[o].keys) :
         /\ account[o].keys[i] = k
         /\ \A j \in 1 .. i - 1 : account[o].keys[j] # k
         /\ account' = [account EXCEPT ![o] =
                          Rotated([account[o] EXCEPT !.keys = Without(@, i)])]
    /\ UNCHANGED <<registry, caps, view, held, drafts, stored>>

\* Mutant: freezing does not rotate.
deactivate_account_unrotated(o) ==
    /\ registry.finalized /\ o \in registry.accounts
    /\ account[o].active
    /\ account' = [account EXCEPT ![o].active = FALSE]
    /\ UNCHANGED <<registry, caps, view, held, drafts, stored>>

deactivate_account(o) ==
    /\ registry.finalized /\ o \in registry.accounts
    /\ account[o].active
    /\ CanRotate(o)
    /\ account' = [account EXCEPT ![o] = Rotated([@ EXCEPT !.active = FALSE])]
    /\ UNCHANGED <<registry, caps, view, held, drafts, stored>>

\* A source-inactive import that is still at counter zero rotates once.
reactivate_account(o) ==
    LET a == [account[o] EXCEPT !.active = TRUE] IN
    /\ registry.finalized /\ o \in registry.accounts
    /\ ~account[o].quarantined
    /\ ~account[o].active
    /\ IF account[o].legacy /\ account[o].counter = 0
       THEN CanRotate(o) /\ account' = [account EXCEPT ![o] = Rotated(a)]
       ELSE account' = [account EXCEPT ![o] = a]
    /\ UNCHANGED <<registry, caps, view, held, drafts, stored>>

(* Calls of the AdminCap holder.                                           *)

\* Rotates even when the account was frozen already.  No migration gate.
admin_deactivate_account(o) ==
    /\ o \in registry.accounts
    /\ ~account[o].quarantined
    /\ CanRotate(o)
    /\ account' = [account EXCEPT ![o] =
                     Rotated([@ EXCEPT !.quarantined = TRUE, !.active = FALSE])]
    /\ UNCHANGED <<registry, caps, view, held, drafts, stored>>

admin_clear_quarantine(o) ==
    /\ o \in registry.accounts
    /\ account[o].quarantined
    /\ account' = [account EXCEPT ![o].quarantined = FALSE]
    /\ UNCHANGED <<registry, caps, view, held, drafts, stored>>

Pinned(r, t) ==
    registry' = [registry EXCEPT !.root = r, !.expected_accounts = t[1],
                                 !.expected_delegates = t[2]]

pin_allowlist_root(r, t) ==
    /\ registry.root = None
    /\ Pinned(r, t)
    /\ UNCHANGED <<account, caps, view, held, drafts, stored>>

repin_allowlist_root(r, t) ==
    /\ ~registry.finalized
    /\ registry.root # None
    /\ registry.imported_accounts = 0 /\ registry.imported_delegates = 0
    /\ Pinned(r, t)
    /\ UNCHANGED <<account, caps, view, held, drafts, stored>>

mint_migration_cap(r) ==
    /\ ~registry.finalized
    /\ registry.root = r
    /\ caps' = caps \cup {r}
    /\ UNCHANGED <<registry, account, view, held, drafts, stored>>

\* The last cap of a root goes; burning one of several changes nothing here.
burn_migration_cap(r) ==
    /\ r \in caps
    /\ caps' = caps \ {r}
    /\ UNCHANGED <<registry, account, view, held, drafts, stored>>

finalize_migration ==
    /\ ~registry.finalized
    /\ registry.root # None
    /\ registry.imported_accounts = registry.expected_accounts
    /\ registry.imported_delegates = registry.expected_delegates
    /\ registry' = [registry EXCEPT !.finalized = TRUE]
    /\ UNCHANGED <<account, caps, view, held, drafts, stored>>

(* Calls of a MigrationCap holder.                                         *)

\* Mutant: a cap of a root that has been replaced still works.
ImportableOldCap(r) == ~registry.finalized /\ registry.root # None /\ r \in caps

\* A cap for root r exists and r is still the pinned root.
Importable(r) == ~registry.finalized /\ registry.root = r /\ r \in caps

\* assert_migration_proof: the leaf hashes up to the root.  Hashes do not collide,
\* and a leaf names the legacy account, of which an owner has one.
ProvenAccount(r, o, active) == <<r, o, active>> \in AccountLeaves
ProvenDelegate(r, o, k) == <<r, o, k>> \in DelegateLeaves

\* The import of o's account passes every check of legacy_import_account.
AccountImportable(r, o, active) ==
    /\ Importable(r)
    /\ ProvenAccount(r, o, active)
    /\ o \notin registry.accounts
    /\ registry.imported_accounts < registry.expected_accounts

legacy_import_account(o) ==
    /\ \E r \in Roots, active \in BOOLEAN :
         /\ AccountImportable(r, o, active)
         /\ account' = [account EXCEPT ![o] =
                          [NoAccount EXCEPT !.active = active, !.legacy = TRUE]]
    /\ registry' = [registry EXCEPT !.accounts = @ \cup {o},
                                    !.imported_accounts = @ + 1]
    /\ UNCHANGED <<caps, view, held, drafts, stored>>

\* Mutant: a quarantined account takes no delegates.
DelegateImportableUnquarantined(r, o, k) ==
    /\ Importable(r)
    /\ ProvenDelegate(r, o, k)
    /\ o \in registry.accounts /\ account[o].legacy
    /\ ~account[o].quarantined
    /\ k \notin Delegates(account[o])
    /\ Len(account[o].keys) < MAX_DELEGATE_KEYS
    /\ registry.imported_delegates < registry.expected_delegates

\* The import of delegate k passes every check of legacy_import_delegate_key and
\* adds it.  A key that is there already is skipped, which changes nothing.
DelegateImportable(r, o, k) ==
    /\ Importable(r)
    /\ ProvenDelegate(r, o, k)
    /\ o \in registry.accounts /\ account[o].legacy
    /\ k \notin Delegates(account[o])
    /\ Len(account[o].keys) < MAX_DELEGATE_KEYS
    /\ registry.imported_delegates < registry.expected_delegates

legacy_import_delegate_key(o, k) ==
    /\ \E r \in Roots : DelegateImportable(r, o, k)
    /\ account' = [account EXCEPT ![o].keys = Append(@, k)]
    /\ registry' = [registry EXCEPT !.imported_delegates = @ + 1]
    /\ Admit(o, k)
    /\ UNCHANGED <<caps, view, held, drafts>>

(* Key servers and writers.                                                *)

\* A node catches up with the chain.
Sync(n) ==
    /\ view[n] # account
    /\ view' = [view EXCEPT ![n] = account]
    /\ UNCHANGED <<registry, account, caps, held, drafts, stored>>

\* Mutant: a key can be had for a counter the account has not reached yet.
seal_approve_ahead(o, a, p, c) == a.active /\ (p = o \/ p \in Delegates(a))

\* seal_approve for the identity owner || counter, on account state a.
seal_approve(o, a, p, c) ==
    /\ a.active
    /\ c <= a.counter
    /\ p = o \/ p \in Delegates(a)

\* A key server that reads node n hands party p the key of counter c.
IssueKey(n, o, p, c) ==
    /\ seal_approve(o, view[n][o], p, c)
    /\ held' = [held EXCEPT ![o] = @ \cup {<<p, c>>}]
    /\ UNCHANGED <<registry, account, caps, view, drafts, stored>>

\* fetchSealEncryptIdentity on node n: a normal write needs an active account,
\* the migration route takes an inactive one; neither a quarantined one.
SealEncrypt(n, o, purpose) ==
    LET a == view[n][o] IN
    /\ a # NoAccount
    /\ ~a.quarantined
    /\ purpose = "normal" => a.active
    /\ drafts' = [drafts EXCEPT ![o] = @ \cup {a.counter}]
    /\ UNCHANGED <<registry, account, caps, view, held, stored>>

\* Mutant: a ciphertext sealed under an earlier counter is let through.
seal_encrypt_fence_stale(o, c) == c <= account[o].counter

seal_encrypt_fence(o, c) == c = account[o].counter

\* The transaction that hands the Blob to its owner carries the fence.
PersistBlob(o, c) ==
    /\ c \in drafts[o]
    /\ seal_encrypt_fence(o, c)
    /\ Cardinality(stored[o]) < MaxBlobs
    /\ stored' = [stored EXCEPT ![o] = @ \cup
                    {[counter |-> c, readers |-> Listed(o, account[o])]}]
    /\ drafts' = [drafts EXCEPT ![o] = @ \ {c}]
    /\ UNCHANGED <<registry, account, caps, view, held>>

-------------------------------------------------------------------------------
OwnerCall(o) ==
    \/ create_account(o)
    \/ \E k \in Keys : add_delegate_key(o, k) \/ remove_delegate_key(o, k)
    \/ deactivate_account(o) \/ reactivate_account(o)

AdminCall ==
    \/ \E o \in Owners : admin_deactivate_account(o) \/ admin_clear_quarantine(o)
    \/ \E r \in Roots, t \in Totals :
         pin_allowlist_root(r, t) \/ repin_allowlist_root(r, t)
    \/ \E r \in Roots : mint_migration_cap(r) \/ burn_migration_cap(r)
    \/ finalize_migration

ImportCall(o) ==
    \/ legacy_import_account(o)
    \/ \E k \in Keys : legacy_import_delegate_key(o, k)

SealStep(n) ==
    \/ Sync(n)
    \/ \E o \in Owners :
         \/ \E p \in Parties, c \in 0 .. MaxCounter : IssueKey(n, o, p, c)
         \/ \E purpose \in {"normal", "migration"} : SealEncrypt(n, o, purpose)

Next ==
    \/ AdminCall
    \/ \E o \in Owners : OwnerCall(o) \/ ImportCall(o)
    \/ \E n \in Nodes : SealStep(n)
    \/ \E o \in Owners, c \in 0 .. MaxCounter : PersistBlob(o, c)

Spec == Init /\ [][Next]_vars

-------------------------------------------------------------------------------
\* A key list is within the limit and names nobody twice, so that removing a
\* key removes its authority.
KeyListOK(a) ==
    /\ Len(a.keys) <= MAX_DELEGATE_KEYS
    /\ \A i, j \in 1 .. Len(a.keys) : a.keys[i] = a.keys[j] => i = j

\* The records have their fields, on chain and in every node's view, and key
\* lists are duplicate free and within the limit.
TypeOK ==
    /\ registry \in Registry
    /\ account \in [Owners -> Account]
    /\ \A o \in Owners : KeyListOK(account[o])
    /\ caps \subseteq Roots
    /\ view \in [Nodes -> [Owners -> Account]]
    /\ held \in [Owners -> SUBSET (Parties \X Nat)]
    /\ drafts \in [Owners -> SUBSET Nat]
    /\ stored \in [Owners -> SUBSET Blob]

\* Removal bites: whoever can open a stored blob was a reader of the account
\* when the blob was stored, or became one later.  A delegate removed before the
\* write holds no key that opens it, however early it fetched keys, however far
\* the key servers and the writer lagged behind the removal.
RevocationBites ==
    \A o \in Owners : \A b \in stored[o], p \in Parties :
        <<p, b.counter>> \in held[o] => p \in b.readers

\* What is written under the counter of a frozen account is sealed for a key
\* that nobody holds.
FrozenIsUnreadable ==
    \A o \in Owners : ~account[o].active =>
        \A p \in Parties : <<p, account[o].counter>> \notin held[o]

\* Who can have a key of the current counter.
Readers(o, a) == IF a.active THEN Listed(o, a) ELSE {}

\* Whatever takes a reader's access away rotates the counter in the same call,
\* and no call takes the counter back.
WithdrawalStep ==
    \A o \in Owners :
        /\ account'[o].counter >= account[o].counter
        /\ ~(Readers(o, account[o]) \subseteq Readers(o, account'[o]))
             => account'[o].counter > account[o].counter

\* Every step of the contract and of the parties around it is such a step.
WithdrawalRotates == [][WithdrawalStep]_vars

\* Until the migration is finalized the authority on chain is a part of the
\* pinned snapshot, and the import counters count exactly what is there: neither
\* a replaced root nor a stale cap smuggles a reader in.
Delegations == {d \in Owners \X Keys : d[2] \in Delegates(account[d[1]])}
SnapshotExact ==
    ~registry.finalized =>
        /\ registry.imported_accounts = Cardinality(registry.accounts)
        /\ registry.imported_delegates = Cardinality(Delegations)
        /\ \A o \in registry.accounts : \E active \in BOOLEAN :
             /\ <<registry.root, o, active>> \in AccountLeaves
             /\ account[o].active => active
        /\ \A d \in Delegations : <<registry.root, d[1], d[2]>> \in DelegateLeaves

\* What the manifest of root r lists.
AccountsOf(r) == {o \in Owners : \E active \in BOOLEAN :
                                    <<r, o, active>> \in AccountLeaves}
DelegationsOf(r) == {d \in Owners \X Keys : <<r, d[1], d[2]>> \in DelegateLeaves}
KeysOf(r, o) == {k \in Keys : <<r, o, k>> \in DelegateLeaves}

\* The pinned totals are those of the manifest, and the manifest is one the
\* contract can hold: delegates belong to listed accounts, within the limit.
HonestManifest ==
    LET r == registry.root IN
    /\ registry.expected_accounts = Cardinality(AccountsOf(r))
    /\ registry.expected_delegates = Cardinality(DelegationsOf(r))
    /\ \A o \in Owners : /\ KeysOf(r, o) # {} => o \in AccountsOf(r)
                         /\ Cardinality(KeysOf(r, o)) <= MAX_DELEGATE_KEYS

Complete == /\ registry.imported_accounts = registry.expected_accounts
            /\ registry.imported_delegates = registry.expected_delegates

\* The declared totals stay within reach: whatever the admin did in between, an
\* early quarantine included, as long as the migration of an honest manifest is
\* not complete there is an import that the contract accepts from a holder of
\* the pinned root's cap.  Every import raises a counter, which nothing lowers,
\* so imports that go on end where finalize_migration can run.
ImportsNeverStuck ==
    ~registry.finalized /\ registry.root \in caps /\ HonestManifest =>
        \/ Complete
        \/ \E o \in Owners, active \in BOOLEAN :
             AccountImportable(registry.root, o, active)
        \/ \E o \in Owners, k \in Keys : DelegateImportable(registry.root, o, k)

-------------------------------------------------------------------------------
(* The inductive invariant behind them.                                    *)

\* An owner without an account has none of its state.
AbsentInv == \A o \in Owners \ registry.accounts : account[o] = NoAccount

\* Until the migration is finalized every account is an imported one.
LegacyInv ==
    ~registry.finalized => \A o \in registry.accounts : account[o].legacy

\* A node that is at the account's counter missed no withdrawal.
Behind(v, a) ==
    /\ v.counter <= a.counter
    /\ v.counter = a.counter => /\ v.active => a.active
                                /\ Delegates(v) \subseteq Delegates(a)
ViewInv == \A n \in Nodes, o \in Owners : Behind(view[n][o], account[o])

\* A key of the current counter is held by current readers only.
HeldInv ==
    \A o \in Owners : \A h \in held[o] :
        /\ h[2] <= account[o].counter
        /\ h[2] = account[o].counter => h[1] \in Readers(o, account[o])

\* Whoever is listed, now or in a view that can still hand out a blob's key, is
\* among the blob's readers.
StoredInv ==
    \A o \in Owners : \A b \in stored[o] :
        /\ b.counter <= account[o].counter
        /\ Listed(o, account[o]) \subseteq b.readers
        /\ \A n \in Nodes : b.counter <= view[n][o].counter =>
             Listed(o, view[n][o]) \subseteq b.readers

\* The counter separates readers from those whose access was withdrawn, on
\* chain, in every lagging view, for every key handed out and blob stored.
AuthorityInv ==
    TypeOK /\ AbsentInv /\ ViewInv /\ HeldInv /\ StoredInv /\ RevocationBites
===============================================================================
