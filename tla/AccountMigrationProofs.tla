------------------------ MODULE AccountMigrationProofs ------------------------
(***************************************************************************)
(* SnapshotExact, for any manifests, totals, owners and delegates: until   *)
(* the migration is finalized the chain holds a part of the pinned         *)
(* snapshot and the counters count it.  Besides AuthorityInv the argument  *)
(* needs only that a root is replaced while nothing was imported.  From    *)
(* it, ImportsNeverStuck: what is missing of an honest manifest can still  *)
(* be imported, since until then every account is a legacy one and no key  *)
(* list holds anything but leaves of its owner.                            *)
(***************************************************************************)
EXTENDS AccountPolicyProofs

\* The sets that the counters count are finite.
LEMMA Finite ==
    ASSUME AuthorityInv
    PROVE  IsFiniteSet(registry.accounts) /\ IsFiniteSet(Delegations)
<1>1. IsFiniteSet(registry.accounts)
  BY AccountFacts, FiniteAssumption, FS_Subset
<1>2. IsFiniteSet(Owners \X Keys)
  BY FiniteAssumption, FS_Product
<1>3. Delegations \subseteq Owners \X Keys
  BY DEF Delegations
<1> QED BY <1>1, <1>2, <1>3, FS_Subset

\* An owner without an account delegates nothing.
LEMMA AbsentDelegates ==
    ASSUME AuthorityInv, NEW o \in Owners \ registry.accounts
    PROVE  Delegates(account[o]) = {}
<1>1. account[o] = NoAccount
  BY DEF AuthorityInv, AbsentInv
<1>2. Len(NoAccount.keys) = 0
  BY NoAccountFacts
<1> QED BY <1>1, <1>2 DEF Delegates

\* Where nothing was imported there is nothing to disagree with a new root.
LEMMA NothingImported ==
    ASSUME AuthorityInv, SnapshotExact, ~registry.finalized,
           registry.imported_accounts = 0
    PROVE  registry.accounts = {} /\ Delegations = {}
<1>1. registry.accounts = {}
  BY Finite, FS_EmptySet DEF SnapshotExact
<1> QED BY <1>1, AbsentDelegates DEF Delegations

\* Nothing is imported before a root is pinned.
LEMMA NothingUnpinned ==
    ASSUME AuthorityInv, SnapshotExact, ~registry.finalized, registry.root = None
    PROVE  registry.imported_accounts = 0
<1>1. registry.accounts = {}
  <2> SUFFICES ASSUME NEW o \in registry.accounts PROVE FALSE
    OBVIOUS
  <2>1. PICK active \in BOOLEAN : <<None, o, active>> \in AccountLeaves
    BY DEF SnapshotExact
  <2> QED BY <2>1, LeafAssumption, NoneAssumption
<1> QED BY <1>1, Finite, FS_EmptySet DEF SnapshotExact

\* A call that leaves registry and key lists and activates nobody.
LEMMA SnapshotKept ==
    ASSUME SnapshotExact, UNCHANGED registry,
           \A o \in Owners : /\ Delegates(account'[o]) = Delegates(account[o])
                             /\ account'[o].active => account[o].active,
           registry.accounts \subseteq Owners
    PROVE  SnapshotExact'
<1>1. Delegations' = Delegations
  BY DEF Delegations
<1> QED BY <1>1 DEF SnapshotExact

\* legacy_import_account imports a leaf of the pinned root and counts it.
LEMMA SnapshotImport ==
    ASSUME AuthorityInv, SnapshotExact, NEW o \in Owners, legacy_import_account(o)
    PROVE  SnapshotExact'
<1>1. PICK r \in Roots, active \in BOOLEAN :
        /\ Importable(r)
        /\ <<r, o, active>> \in AccountLeaves
        /\ account' = [account EXCEPT ![o] =
                         [NoAccount EXCEPT !.active = active, !.legacy = TRUE]]
  BY DEF legacy_import_account, AccountImportable, ProvenAccount
<1> DEFINE a == [NoAccount EXCEPT !.active = active, !.legacy = TRUE]
<1>2. a.keys = <<>> /\ a.active = active
  BY DEF NoAccount
<1>3. account' = [account EXCEPT ![o] = a]
  BY <1>1
<1> HIDE DEF a
<1>4. /\ account'[o] = a
      /\ \A x \in Owners \ {o} : account'[x] = account[x]
  BY <1>3, AccountFacts
<1>5. o \notin registry.accounts /\ ~registry.finalized /\ registry.root = r
  BY <1>1 DEF legacy_import_account, AccountImportable, Importable
<1>6. /\ registry'.accounts = registry.accounts \cup {o}
      /\ registry'.imported_accounts = registry.imported_accounts + 1
      /\ registry'.imported_delegates = registry.imported_delegates
      /\ registry'.root = registry.root
  BY AccountFacts DEF legacy_import_account, AccountImportable, Registry
<1>7. Delegations' = Delegations
  <2>1. Delegates(account[o]) = {}
    BY <1>5, AbsentDelegates
  <2>2. Len(a.keys) = 0
    BY <1>2
  <2>3. Delegates(a) = {}
    BY <2>2 DEF Delegates
  <2>4. \A x \in Owners : Delegates(account'[x]) = Delegates(account[x])
    BY <1>4, <2>1, <2>3
  <2> QED BY <2>4 DEF Delegations
<1>8. Cardinality(registry'.accounts) = Cardinality(registry.accounts) + 1
  BY <1>5, <1>6, Finite, FS_AddElement
<1>9. \A x \in registry'.accounts : \E flag \in BOOLEAN :
        /\ <<registry'.root, x, flag>> \in AccountLeaves
        /\ account'[x].active => flag
  <2> SUFFICES ASSUME NEW x \in registry'.accounts
               PROVE  \E flag \in BOOLEAN :
                        /\ <<registry'.root, x, flag>> \in AccountLeaves
                        /\ account'[x].active => flag
    OBVIOUS
  <2>1. CASE x = o
    BY <1>1, <1>2, <1>4, <1>5, <1>6, <2>1
  <2>2. CASE x # o
    <3>1. x \in registry.accounts /\ x \in Owners \ {o}
      BY <1>6, <2>2, AccountFacts
    <3> QED BY <1>4, <1>5, <1>6, <3>1 DEF SnapshotExact
  <2> QED BY <2>1, <2>2
<1>10. /\ registry.imported_accounts = Cardinality(registry.accounts)
       /\ registry.imported_delegates = Cardinality(Delegations)
       /\ \A d \in Delegations : <<registry.root, d[1], d[2]>> \in DelegateLeaves
  BY <1>5 DEF SnapshotExact
<1> QED BY <1>6, <1>7, <1>8, <1>9, <1>10 DEF SnapshotExact

\* legacy_import_delegate_key imports a leaf of the pinned root and counts it.
LEMMA SnapshotImportKey ==
    ASSUME AuthorityInv, SnapshotExact, NEW o \in Owners, NEW k \in Keys,
           legacy_import_delegate_key(o, k)
    PROVE  SnapshotExact'
<1>1. /\ o \in registry.accounts /\ ~registry.finalized
      /\ <<registry.root, o, k>> \in DelegateLeaves
      /\ k \notin Delegates(account[o])
  BY DEF legacy_import_delegate_key, DelegateImportable, Importable, ProvenDelegate
<1>2. /\ registry'.accounts = registry.accounts
      /\ registry'.imported_accounts = registry.imported_accounts
      /\ registry'.imported_delegates = registry.imported_delegates + 1
      /\ registry'.root = registry.root
  BY AccountFacts DEF legacy_import_delegate_key, DelegateImportable, Registry
<1>3. /\ Delegates(account'[o]) = Delegates(account[o]) \cup {k}
      /\ account'[o].active = account[o].active
      /\ \A x \in Owners \ {o} : account'[x] = account[x]
  <2> DEFINE a == [account[o] EXCEPT !.keys = Append(@, k)]
  <2>1. account \in [Owners -> Account]
        /\ account' = [account EXCEPT ![o].keys = Append(@, k)]
    BY AccountFacts DEF legacy_import_delegate_key, DelegateImportable
  <2>2. account'[o] = a /\ \A x \in Owners \ {o} : account'[x] = account[x]
    BY <2>1
  <2>3. Delegates(a) = Delegates(account[o]) \cup {k}
    BY AccountFacts, AppendDelegates
  <2>4. a.active = account[o].active
    BY AccountFacts DEF Account
  <2> HIDE DEF a
  <2> QED BY <2>2, <2>3, <2>4
<1>4. Delegations' = Delegations \cup {<<o, k>>} /\ <<o, k>> \notin Delegations
  BY <1>1, <1>3 DEF Delegations
<1>5. Cardinality(Delegations') = Cardinality(Delegations) + 1
  BY <1>4, Finite, FS_AddElement
<1>6. \A d \in Delegations' : <<registry'.root, d[1], d[2]>> \in DelegateLeaves
  BY <1>1, <1>2, <1>4 DEF SnapshotExact
<1>7. \A x \in registry'.accounts : \E flag \in BOOLEAN :
        /\ <<registry'.root, x, flag>> \in AccountLeaves
        /\ account'[x].active => flag
  <2>1. \A x \in registry.accounts : account'[x].active = account[x].active
    BY <1>3, AccountFacts
  <2> QED BY <1>1, <1>2, <2>1 DEF SnapshotExact
<1>8. /\ registry.imported_accounts = Cardinality(registry.accounts)
      /\ registry.imported_delegates = Cardinality(Delegations)
  BY <1>1 DEF SnapshotExact
<1> QED BY <1>2, <1>5, <1>6, <1>7, <1>8 DEF SnapshotExact

\* Pinning or replacing the root happens while nothing was imported.
LEMMA SnapshotPin ==
    ASSUME AuthorityInv, SnapshotExact, NEW r \in Roots, NEW t \in Totals,
           pin_allowlist_root(r, t) \/ repin_allowlist_root(r, t)
    PROVE  SnapshotExact'
<1> SUFFICES ASSUME ~registry'.finalized PROVE SnapshotExact'
  BY DEF SnapshotExact
<1>1. UNCHANGED account
  BY DEF pin_allowlist_root, repin_allowlist_root
<1>2. /\ registry'.accounts = registry.accounts
      /\ registry'.finalized = registry.finalized
      /\ registry'.imported_accounts = registry.imported_accounts
      /\ registry'.imported_delegates = registry.imported_delegates
  BY AccountFacts DEF pin_allowlist_root, repin_allowlist_root, Pinned, Registry
<1>3. registry.imported_accounts = 0
  BY <1>2, NothingUnpinned DEF pin_allowlist_root, repin_allowlist_root
<1>4. registry.accounts = {} /\ Delegations = {}
  BY <1>2, <1>3, NothingImported
<1>5. Delegations' = Delegations
  BY <1>1 DEF Delegations
<1>6. /\ registry.imported_accounts = Cardinality(registry.accounts)
      /\ registry.imported_delegates = Cardinality(Delegations)
  BY <1>2 DEF SnapshotExact
<1> QED BY <1>2, <1>4, <1>5, <1>6 DEF SnapshotExact

\* Quarantine and its end neither activate nor delegate.
LEMMA SnapshotAdmin ==
    ASSUME AuthorityInv, SnapshotExact, NEW o \in Owners,
           admin_deactivate_account(o) \/ admin_clear_quarantine(o)
    PROVE  SnapshotExact'
<1>1. UNCHANGED registry /\ registry.accounts \subseteq Owners
  BY AccountFacts DEF admin_deactivate_account, admin_clear_quarantine
<1>2. \E a \in Account : /\ account' = [account EXCEPT ![o] = a]
                         /\ a.keys = account[o].keys
                         /\ a.active => account[o].active
  <2>1. CASE admin_deactivate_account(o)
    <3> DEFINE b == [account[o] EXCEPT !.quarantined = TRUE]
               a == [b EXCEPT !.active = FALSE]
    <3>1. b \in Account /\ b.keys = account[o].keys
      BY AccountFacts DEF Account
    <3>2. account' = [account EXCEPT ![o] = Rotated(a)]
      BY <2>1 DEF admin_deactivate_account
    <3> HIDE DEF b
    <3>3. a \in Account /\ a.keys = account[o].keys /\ a.active = FALSE
      BY <3>1, FreshFacts
    <3> HIDE DEF a
    <3>4. /\ Rotated(a) \in Account /\ Rotated(a).keys = account[o].keys
          /\ Rotated(a).active = FALSE
      BY <3>3, RotatedFacts
    <3> QED BY <3>2, <3>4
  <2>2. CASE admin_clear_quarantine(o)
    <3> DEFINE a == [account[o] EXCEPT !.quarantined = FALSE]
    <3>1. a \in Account /\ a.keys = account[o].keys /\ a.active = account[o].active
      BY AccountFacts DEF Account
    <3>2. account' = [account EXCEPT ![o] = a]
      BY <2>2, AccountFacts DEF admin_clear_quarantine
    <3> HIDE DEF a
    <3>3. a.active => account[o].active
      BY <3>1
    <3> QED BY <3>1, <3>2, <3>3
  <2> QED BY <2>1, <2>2
<1>3. PICK a \in Account : /\ account' = [account EXCEPT ![o] = a]
                           /\ a.keys = account[o].keys
                           /\ a.active => account[o].active
  BY <1>2
<1>4. Delegates(a) = Delegates(account[o])
  BY <1>3, SameKeys
<1>5. \A x \in Owners : /\ Delegates(account'[x]) = Delegates(account[x])
                        /\ account'[x].active => account[x].active
  BY <1>3, <1>4, AccountFacts
<1> QED BY <1>1, <1>5, SnapshotKept

\* Every step keeps the snapshot exact until the migration is over.
LEMMA NextSnapshot ==
    ASSUME AuthorityInv, SnapshotExact, [Next]_vars
    PROVE  SnapshotExact'
<1>1. ASSUME UNCHANGED <<registry, account>>
      PROVE  SnapshotExact'
  <2>1. UNCHANGED registry /\ UNCHANGED account /\ registry.accounts \subseteq Owners
    BY <1>1, AccountFacts
  <2> QED BY <2>1, SnapshotKept
<1>2. CASE UNCHANGED vars
  BY <1>1, <1>2 DEF vars
<1>3. CASE AdminCall
  <2>1. CASE finalize_migration
    BY <2>1, AccountFacts DEF finalize_migration, SnapshotExact, Registry
  <2>2. ASSUME NEW r \in Roots, mint_migration_cap(r) \/ burn_migration_cap(r)
        PROVE  SnapshotExact'
    BY <1>1, <2>2 DEF mint_migration_cap, burn_migration_cap
  <2> QED BY <1>3, <2>1, <2>2, SnapshotAdmin, SnapshotPin DEF AdminCall
<1>4. ASSUME NEW o \in Owners, OwnerCall(o)
      PROVE  SnapshotExact'
  <2>1. registry.finalized /\ registry'.finalized = registry.finalized
    BY <1>4, AccountFacts DEF OwnerCall, create_account, add_delegate_key,
       remove_delegate_key, deactivate_account, reactivate_account, Registry
  <2> QED BY <2>1 DEF SnapshotExact
<1>5. ASSUME NEW o \in Owners, ImportCall(o)
      PROVE  SnapshotExact'
  BY <1>5, SnapshotImport, SnapshotImportKey DEF ImportCall
<1>6. ASSUME NEW n \in Nodes, SealStep(n)
      PROVE  SnapshotExact'
  BY <1>1, <1>6 DEF SealStep, Sync, IssueKey, SealEncrypt
<1>7. ASSUME NEW o \in Owners, NEW c \in 0 .. MaxCounter, PersistBlob(o, c)
      PROVE  SnapshotExact'
  BY <1>1, <1>7 DEF PersistBlob
<1> QED BY <1>2, <1>3, <1>4, <1>5, <1>6, <1>7 DEF Next

\* Until the migration is finalized, the authority on chain is a part of the
\* pinned snapshot, and the import counters count exactly what is there.
THEOREM Snapshot == Spec => []SnapshotExact
<1>1. Init => SnapshotExact
  <2> SUFFICES ASSUME Init PROVE SnapshotExact
    OBVIOUS
  <2>1. AuthorityInv
    BY InitAuthority
  <2>2. /\ registry.accounts = {} /\ registry.imported_accounts = 0
        /\ registry.imported_delegates = 0
    BY DEF Init
  <2>3. Delegations = {}
    BY <2>1, <2>2, AbsentDelegates DEF Delegations
  <2>4. Cardinality({}) = 0
    BY FS_EmptySet
  <2> QED BY <2>2, <2>3, <2>4 DEF SnapshotExact
<1>2. AuthorityInv /\ SnapshotExact /\ [Next]_vars => SnapshotExact'
  BY NextSnapshot
<1> QED BY <1>1, <1>2, Authority, PTL DEF Spec

\* Every step keeps accounts legacy until the migration is over.
LEMMA NextLegacy ==
    ASSUME AuthorityInv, LegacyInv, [Next]_vars
    PROVE  LegacyInv'
<1> USE AccountFacts
<1>1. ASSUME registry'.accounts = registry.accounts,
             registry'.finalized = registry.finalized, UNCHANGED account
      PROVE  LegacyInv'
  BY <1>1 DEF LegacyInv
<1>2. CASE UNCHANGED vars
  BY <1>1, <1>2 DEF vars
<1>3. CASE AdminCall
  <2>1. ASSUME NEW o \in Owners,
               admin_deactivate_account(o) \/ admin_clear_quarantine(o)
        PROVE  LegacyInv'
    <3>1. UNCHANGED registry
      BY <2>1 DEF admin_deactivate_account, admin_clear_quarantine
    <3>2. \A x \in Owners : account'[x].legacy = account[x].legacy
      <4>1. CASE admin_deactivate_account(o)
        <5> DEFINE a == [account[o] EXCEPT !.quarantined = TRUE, !.active = FALSE]
        <5>1. Rotated(a).legacy = account[o].legacy
          BY DEF Rotated, Account
        <5>2. account' = [account EXCEPT ![o] = Rotated(a)]
          BY <4>1 DEF admin_deactivate_account
        <5> HIDE DEF a
        <5> QED BY <5>1, <5>2
      <4>2. CASE admin_clear_quarantine(o)
        BY <4>2 DEF admin_clear_quarantine, Account
      <4> QED BY <2>1, <4>1, <4>2
    <3> QED BY <3>1, <3>2 DEF LegacyInv
  <2>2. ASSUME NEW r \in Roots, NEW t \in Totals,
               pin_allowlist_root(r, t) \/ repin_allowlist_root(r, t)
        PROVE  LegacyInv'
    BY <1>1, <2>2 DEF pin_allowlist_root, repin_allowlist_root, Pinned, Registry
  <2>3. ASSUME NEW r \in Roots, mint_migration_cap(r) \/ burn_migration_cap(r)
        PROVE  LegacyInv'
    BY <1>1, <2>3 DEF mint_migration_cap, burn_migration_cap
  <2>4. CASE finalize_migration
    BY <2>4 DEF finalize_migration, LegacyInv, Registry
  <2> QED BY <1>3, <2>1, <2>2, <2>3, <2>4 DEF AdminCall
<1>4. ASSUME NEW o \in Owners, OwnerCall(o)
      PROVE  LegacyInv'
  <2>1. registry.finalized /\ registry'.finalized = registry.finalized
    BY <1>4 DEF OwnerCall, create_account, add_delegate_key,
       remove_delegate_key, deactivate_account, reactivate_account, Registry
  <2> QED BY <2>1 DEF LegacyInv
<1>5. ASSUME NEW o \in Owners, ImportCall(o)
      PROVE  LegacyInv'
  <2>1. registry'.finalized = registry.finalized
        /\ registry'.accounts \subseteq registry.accounts \cup {o}
    BY <1>5 DEF ImportCall, legacy_import_account, legacy_import_delegate_key, Registry
  <2>2. account'[o].legacy /\ \A x \in Owners \ {o} : account'[x] = account[x]
    BY <1>5 DEF ImportCall, legacy_import_account, legacy_import_delegate_key,
       DelegateImportable, NoAccount, Account
  <2> QED BY <2>1, <2>2 DEF LegacyInv
<1>6. ASSUME NEW n \in Nodes, SealStep(n)
      PROVE  LegacyInv'
  BY <1>1, <1>6 DEF SealStep, Sync, IssueKey, SealEncrypt
<1>7. ASSUME NEW o \in Owners, NEW c \in 0 .. MaxCounter, PersistBlob(o, c)
      PROVE  LegacyInv'
  BY <1>1, <1>7 DEF PersistBlob
<1> QED BY <1>2, <1>3, <1>4, <1>5, <1>6, <1>7 DEF Next

\* A key list without duplicates is as long as it has delegates.
LEMMA KeyListLength ==
    ASSUME NEW a \in Account, KeyListOK(a), NEW T, IsFiniteSet(T),
           Delegates(a) \subseteq T
    PROVE  Len(a.keys) <= Cardinality(T)
<1> DEFINE n == Len(a.keys)
           f == [i \in 1 .. n |-> a.keys[i]]
<1>1. n \in Nat
  BY DEF Account
<1>2. f \in Injection(1 .. n, T)
  BY DEF Injection, IsInjective, KeyListOK, Delegates
<1>3. Cardinality(1 .. n) = n
  BY <1>1, FS_Interval
<1> HIDE DEF n, f
<1>4. Cardinality(1 .. n) <= Cardinality(T)
  BY <1>2, FS_Injection
<1> QED BY <1>3, <1>4 DEF n

\* As long as an honest migration is not complete, some import is accepted.
LEMMA SomethingImportable ==
    ASSUME AuthorityInv, SnapshotExact, LegacyInv
    PROVE  ImportsNeverStuck
<1> SUFFICES ASSUME ~registry.finalized, registry.root \in caps, HonestManifest,
                    ~Complete
             PROVE  \/ \E o \in Owners, active \in BOOLEAN :
                         AccountImportable(registry.root, o, active)
                    \/ \E o \in Owners, k \in Keys :
                         DelegateImportable(registry.root, o, k)
  BY DEF ImportsNeverStuck
<1> DEFINE r == registry.root
<1>1. Importable(r)
  BY DEF Importable
<1>2. /\ registry.imported_accounts = Cardinality(registry.accounts)
      /\ registry.imported_delegates = Cardinality(Delegations)
      /\ registry.accounts \subseteq AccountsOf(r)
      /\ Delegations \subseteq DelegationsOf(r)
  BY AccountFacts DEF SnapshotExact, AccountsOf, DelegationsOf, Delegations
<1>3. IsFiniteSet(AccountsOf(r)) /\ IsFiniteSet(DelegationsOf(r))
  <2>1. AccountsOf(r) \subseteq Owners /\ DelegationsOf(r) \subseteq Owners \X Keys
    BY DEF AccountsOf, DelegationsOf
  <2>2. IsFiniteSet(Owners \X Keys)
    BY FiniteAssumption, FS_Product
  <2> QED BY <2>1, <2>2, FiniteAssumption, FS_Subset
<1>4. /\ registry.expected_accounts = Cardinality(AccountsOf(r))
      /\ registry.expected_delegates = Cardinality(DelegationsOf(r))
      /\ \A o \in Owners : /\ KeysOf(r, o) # {} => o \in AccountsOf(r)
                           /\ Cardinality(KeysOf(r, o)) <= MAX_DELEGATE_KEYS
  BY DEF HonestManifest
<1>5. /\ Cardinality(AccountsOf(r)) \in Nat /\ Cardinality(DelegationsOf(r)) \in Nat
      /\ Cardinality(registry.accounts) \in Nat /\ Cardinality(Delegations) \in Nat
  BY <1>3, Finite, FS_CardinalityType
<1>6. CASE registry.imported_accounts # registry.expected_accounts
  <2>1. registry.accounts # AccountsOf(r)
    BY <1>2, <1>4, <1>6
  <2>2. PICK o \in AccountsOf(r) : o \notin registry.accounts
    BY <1>2, <2>1
  <2>3. PICK active \in BOOLEAN : <<r, o, active>> \in AccountLeaves
    BY DEF AccountsOf
  <2>4. registry.imported_accounts < registry.expected_accounts
    <3>1. Cardinality(registry.accounts) <= Cardinality(AccountsOf(r))
      BY <1>2, <1>3, FS_Subset
    <3> QED BY <1>2, <1>4, <1>5, <1>6, <3>1
  <2>5. o \in Owners
    BY DEF AccountsOf
  <2>6. AccountImportable(r, o, active)
    BY <1>1, <2>2, <2>3, <2>4 DEF AccountImportable, ProvenAccount
  <2> QED BY <2>5, <2>6
<1>7. CASE registry.imported_accounts = registry.expected_accounts
  <2>1. registry.accounts = AccountsOf(r)
    BY <1>2, <1>3, <1>4, <1>7, FS_Subset
  <2>2. registry.imported_delegates # registry.expected_delegates
    BY <1>7 DEF Complete
  <2>3. Delegations # DelegationsOf(r)
    BY <1>2, <1>4, <2>2
  <2>4. PICK o \in Owners, k \in Keys :
          <<o, k>> \in DelegationsOf(r) /\ <<o, k>> \notin Delegations
    BY <1>2, <2>3 DEF DelegationsOf, Delegations
  <2>5. k \in KeysOf(r, o) /\ k \notin Delegates(account[o])
    BY <2>4 DEF DelegationsOf, KeysOf, Delegations
  <2>6. o \in registry.accounts /\ account[o].legacy
    BY <1>4, <2>1, <2>5 DEF LegacyInv
  <2>7. registry.imported_delegates < registry.expected_delegates
    <3>1. Cardinality(Delegations) <= Cardinality(DelegationsOf(r))
      BY <1>2, <1>3, FS_Subset
    <3> QED BY <1>2, <1>4, <1>5, <2>2, <3>1
  <2>8. Len(account[o].keys) < MAX_DELEGATE_KEYS
    <3> DEFINE T == KeysOf(r, o) \ {k}
    <3>1. IsFiniteSet(KeysOf(r, o))
      BY FiniteAssumption, FS_Subset DEF KeysOf
    <3>2. IsFiniteSet(T) /\ Cardinality(T) = Cardinality(KeysOf(r, o)) - 1
      BY <2>5, <3>1, FS_RemoveElement
    <3>3. Delegates(account[o]) \subseteq T
      <4> SUFFICES ASSUME NEW x \in Delegates(account[o]) PROVE x \in T
        OBVIOUS
      <4>1. x \in Keys
        BY AccountFacts DEF Delegates, Account
      <4>2. <<o, x>> \in DelegationsOf(r)
        BY <1>2, <4>1 DEF Delegations
      <4> QED BY <2>5, <4>1, <4>2 DEF DelegationsOf, KeysOf
    <3> HIDE DEF T
    <3>4. Len(account[o].keys) <= Cardinality(T)
      BY <3>2, <3>3, AccountFacts, KeyListLength
    <3>5. Len(account[o].keys) \in Nat /\ Cardinality(KeysOf(r, o)) \in Nat
      BY <3>1, AccountFacts, FS_CardinalityType DEF Account
    <3> QED BY <1>4, <3>2, <3>4, <3>5, NumberAssumption
  <2>9. DelegateImportable(r, o, k)
    BY <1>1, <2>5, <2>6, <2>7, <2>8 DEF DelegateImportable, ProvenDelegate, KeysOf
  <2> QED BY <2>9
<1> QED BY <1>6, <1>7

\* Nothing the admin does, an early quarantine included, puts the totals that
\* were declared for an honest manifest out of reach: until they are met there is
\* an import the contract accepts.
THEOREM NeverStuck == Spec => []ImportsNeverStuck
<1>1. Init => LegacyInv
  BY DEF Init, LegacyInv
<1>2. AuthorityInv /\ LegacyInv /\ [Next]_vars => LegacyInv'
  BY NextLegacy
<1>3. AuthorityInv /\ SnapshotExact /\ LegacyInv => ImportsNeverStuck
  BY SomethingImportable
<1> QED BY <1>1, <1>2, <1>3, Authority, Snapshot, PTL DEF Spec
===============================================================================
