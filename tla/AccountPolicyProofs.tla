------------------------- MODULE AccountPolicyProofs --------------------------
(***************************************************************************)
(* AuthorityInv is inductive, for any owners, delegates, nodes, manifests  *)
(* and bounds.  The calls of the contract fall into two classes: those     *)
(* that withdraw access and rotate the counter, and those that only add    *)
(* readers and leave it; one lemma for each class carries the argument.    *)
(***************************************************************************)
EXTENDS AccountPolicy, SequenceTheorems, FiniteSetTheorems, TLAPS

\* Appending a key adds exactly that delegate.
LEMMA AppendDelegates ==
    ASSUME NEW a \in Account, NEW k \in Keys
    PROVE  Delegates([a EXCEPT !.keys = Append(@, k)]) = Delegates(a) \cup {k}
<1> DEFINE q == a.keys
           r == Append(q, k)
<1>1. q \in Seq(Keys) /\ Len(q) \in Nat
  BY DEF Account
<1>2. /\ Len(r) = Len(q) + 1
      /\ \A i \in 1 .. Len(q) : r[i] = q[i]
      /\ r[Len(q) + 1] = k
  BY <1>1
<1>3. {r[i] : i \in 1 .. Len(r)} = {q[i] : i \in 1 .. Len(q)} \cup {k}
  <2>1. ASSUME NEW x \in {r[i] : i \in 1 .. Len(r)}
        PROVE  x \in {q[i] : i \in 1 .. Len(q)} \cup {k}
    <3>1. PICK i \in 1 .. Len(r) : x = r[i]
      OBVIOUS
    <3>2. CASE i = Len(q) + 1
      BY <3>1, <3>2, <1>2
    <3>3. CASE i # Len(q) + 1
      <4>1. i \in 1 .. Len(q)
        BY <3>1, <3>3, <1>1, <1>2
      <4> QED BY <4>1, <3>1, <1>2
    <3> QED BY <3>2, <3>3
  <2>2. ASSUME NEW x \in {q[i] : i \in 1 .. Len(q)} \cup {k}
        PROVE  x \in {r[i] : i \in 1 .. Len(r)}
    <3>1. CASE x = k
      <4>1. Len(q) + 1 \in 1 .. Len(r) /\ r[Len(q) + 1] = x
        BY <3>1, <1>1, <1>2
      <4> QED BY <4>1
    <3>2. CASE x # k
      <4>1. PICK i \in 1 .. Len(q) : x = q[i]
        BY <3>2
      <4>2. i \in 1 .. Len(r) /\ r[i] = x
        BY <4>1, <1>1, <1>2
      <4> QED BY <4>2
    <3> QED BY <3>1, <3>2
  <2> QED BY <2>1, <2>2
<1>4. [a EXCEPT !.keys = Append(@, k)].keys = r
  BY DEF Account
<1> QED BY <1>3, <1>4 DEF Delegates

\* Appending a key that is not there keeps a key list well formed.
LEMMA AppendKeyList ==
    ASSUME NEW a \in Account, NEW k \in Keys, KeyListOK(a), k \notin Delegates(a),
           Len(a.keys) < MAX_DELEGATE_KEYS
    PROVE  /\ [a EXCEPT !.keys = Append(@, k)] \in Account
           /\ KeyListOK([a EXCEPT !.keys = Append(@, k)])
<1> DEFINE q == a.keys
           r == Append(q, k)
<1>1. q \in Seq(Keys) /\ Len(q) \in Nat
  BY DEF Account
<1>2. /\ r \in Seq(Keys)
      /\ Len(r) = Len(q) + 1
      /\ \A i \in 1 .. Len(q) : r[i] = q[i]
      /\ r[Len(q) + 1] = k
  BY <1>1
<1>3. \A i \in 1 .. Len(q) : q[i] # k
  BY DEF Delegates
<1>4. \A i, j \in 1 .. Len(r) : r[i] = r[j] => i = j
  <2> SUFFICES ASSUME NEW i \in 1 .. Len(r), NEW j \in 1 .. Len(r), r[i] = r[j]
               PROVE  i = j
    OBVIOUS
  <2>1. i \in 1 .. Len(q) \/ i = Len(q) + 1
    BY <1>1, <1>2
  <2>2. j \in 1 .. Len(q) \/ j = Len(q) + 1
    BY <1>1, <1>2
  <2>3. CASE i \in 1 .. Len(q) /\ j \in 1 .. Len(q)
    BY <2>3, <1>2 DEF KeyListOK
  <2>4. CASE i \in 1 .. Len(q) /\ j = Len(q) + 1
    BY <2>4, <1>2, <1>3
  <2>5. CASE i = Len(q) + 1 /\ j \in 1 .. Len(q)
    BY <2>5, <1>2, <1>3
  <2> QED BY <2>1, <2>2, <2>3, <2>4, <2>5
<1>5. Len(r) <= MAX_DELEGATE_KEYS
  BY <1>1, <1>2, NumberAssumption
<1>6. [a EXCEPT !.keys = Append(@, k)].keys = r
  BY DEF Account
<1>7. [a EXCEPT !.keys = Append(@, k)] \in Account
  BY <1>2 DEF Account
<1> QED BY <1>4, <1>5, <1>6, <1>7 DEF KeyListOK

\* Taking a key out adds no delegate and keeps the list well formed.
LEMMA WithoutKeyList ==
    ASSUME NEW a \in Account, KeyListOK(a), NEW i \in 1 .. Len(a.keys)
    PROVE  LET b == Rotated([a EXCEPT !.keys = Without(@, i)]) IN
           /\ b \in Account
           /\ KeyListOK(b)
           /\ Delegates(b) \subseteq Delegates(a)
           /\ b.counter = a.counter + 1
           /\ b.active = a.active
<1> DEFINE q == a.keys
           r == Without(q, i)
           b == Rotated([a EXCEPT !.keys = Without(@, i)])
<1>1. q \in Seq(Keys) /\ a.counter \in Nat
  BY DEF Account
<1>2. /\ Len(q) \in Nat /\ \A j \in 1 .. Len(q) : q[j] \in Keys
      /\ \A m, n \in 1 .. Len(q) : q[m] = q[n] => m = n
      /\ Len(q) <= MAX_DELEGATE_KEYS
  BY <1>1, LenProperties, ElementOfSeq DEF KeyListOK
<1>3. r = [j \in 1 .. Len(q) - 1 |-> IF j < i THEN q[j] ELSE q[j + 1]]
  BY DEF Without
<1>4. /\ Len(q) - 1 \in Nat
      /\ \A j \in 1 .. Len(q) - 1 : j \in 1 .. Len(q) /\ j + 1 \in 1 .. Len(q)
  BY <1>2
<1>5. b.keys = r /\ b.counter = a.counter + 1 /\ b.active = a.active
  BY DEF Rotated, Account
<1>6. ASSUME r \in Seq(Keys) PROVE b \in Account
  <2> DEFINE c == [a EXCEPT !.keys = r]
  <2>1. c \in Account
    BY <1>6 DEF Account
  <2> HIDE DEF c
  <2>2. [c EXCEPT !.counter = @ + 1] \in Account
    BY <2>1 DEF Account
  <2> QED BY <2>2 DEF Rotated, c
<1> HIDE DEF r, b
<1>7. \A j \in 1 .. Len(q) - 1 : r[j] = IF j < i THEN q[j] ELSE q[j + 1]
  BY <1>3
<1>8. r \in [1 .. Len(q) - 1 -> Keys]
  BY <1>2, <1>3, <1>4
<1>9. r \in Seq(Keys) /\ Len(r) = Len(q) - 1
  <2>1. r \in Seq(Keys)
    BY <1>4, <1>8, SeqDef
  <2>2. DOMAIN r = 1 .. Len(q) - 1 /\ DOMAIN r = 1 .. Len(r) /\ Len(r) \in Nat
    BY <1>8, <2>1, LenProperties
  <2> QED BY <1>4, <2>1, <2>2
<1>10. \A m, n \in 1 .. Len(r) : r[m] = r[n] => m = n
  <2> SUFFICES ASSUME NEW m \in 1 .. Len(q) - 1, NEW n \in 1 .. Len(q) - 1,
                      r[m] = r[n]
               PROVE  m = n
    BY <1>9
  <2>1. /\ (IF m < i THEN m ELSE m + 1) \in 1 .. Len(q)
        /\ (IF n < i THEN n ELSE n + 1) \in 1 .. Len(q)
    BY <1>4
  <2>2. /\ r[m] = q[IF m < i THEN m ELSE m + 1]
        /\ r[n] = q[IF n < i THEN n ELSE n + 1]
    BY <1>7
  <2>3. (IF m < i THEN m ELSE m + 1) = (IF n < i THEN n ELSE n + 1)
    BY <1>2, <2>1, <2>2
  <2> QED BY <1>2, <2>3
<1>11. Delegates(b) \subseteq Delegates(a)
  <2> SUFFICES ASSUME NEW j \in 1 .. Len(r) PROVE r[j] \in Delegates(a)
    BY <1>5 DEF Delegates
  <2> QED BY <1>4, <1>7, <1>9 DEF Delegates
<1>12. KeyListOK(b)
  <2>1. Len(r) <= MAX_DELEGATE_KEYS
    BY <1>2, <1>9, NumberAssumption
  <2> QED BY <1>5, <1>10, <2>1 DEF KeyListOK
<1> QED BY <1>5, <1>6, <1>9, <1>11, <1>12 DEF b

-------------------------------------------------------------------------------
\* The part of the invariant that relates accounts, views, keys and blobs.
Separation == ViewInv /\ HeldInv /\ StoredInv /\ RevocationBites

\* A call that withdraws access and rotates the counter.
LEMMA RotateStep ==
    ASSUME TypeOK, Separation, NEW o \in Owners, NEW a \in Account,
           a.counter = account[o].counter + 1,
           Delegates(a) \subseteq Delegates(account[o]),
           account' = [account EXCEPT ![o] = a],
           UNCHANGED <<view, held, stored>>
    PROVE  Separation'
<1>1. /\ account'[o] = a
      /\ \A x \in Owners \ {o} : account'[x] = account[x]
      /\ account[o].counter \in Nat
  BY DEF TypeOK, Account
<1>2. ViewInv'
  <2> SUFFICES ASSUME NEW n \in Nodes, NEW x \in Owners
               PROVE  Behind(view[n][x], account'[x])
    BY DEF ViewInv
  <2>1. Behind(view[n][x], account[x]) /\ view[n][x].counter \in Nat
    BY DEF Separation, ViewInv, TypeOK, Account
  <2> QED BY <1>1, <2>1 DEF Behind
<1>3. HeldInv'
  <2> SUFFICES ASSUME NEW x \in Owners, NEW h \in held[x]
               PROVE  /\ h[2] <= account'[x].counter
                      /\ h[2] = account'[x].counter => h[1] \in Readers(x, account'[x])
    BY DEF HeldInv
  <2>1. /\ h[2] <= account[x].counter
        /\ h[2] = account[x].counter => h[1] \in Readers(x, account[x])
        /\ h[2] \in Nat
    BY DEF Separation, HeldInv, TypeOK
  <2> QED BY <1>1, <2>1
<1>4. StoredInv'
  <2> SUFFICES ASSUME NEW x \in Owners, NEW b \in stored[x]
               PROVE  /\ b.counter <= account'[x].counter
                      /\ Listed(x, account'[x]) \subseteq b.readers
                      /\ \A n \in Nodes : b.counter <= view[n][x].counter =>
                           Listed(x, view[n][x]) \subseteq b.readers
    BY DEF StoredInv
  <2>1. /\ b.counter <= account[x].counter /\ b.counter \in Nat
        /\ Listed(x, account[x]) \subseteq b.readers
        /\ \A n \in Nodes : b.counter <= view[n][x].counter =>
             Listed(x, view[n][x]) \subseteq b.readers
    BY DEF Separation, StoredInv, TypeOK, Blob
  <2>2. Listed(x, account'[x]) \subseteq Listed(x, account[x])
    BY <1>1 DEF Listed
  <2>3. b.counter <= account'[x].counter
    BY <1>1, <2>1
  <2> QED BY <2>1, <2>2, <2>3
<1>5. RevocationBites'
  BY DEF Separation, RevocationBites
<1> QED BY <1>2, <1>3, <1>4, <1>5 DEF Separation

\* Blobs keep their counters and readers, and whom account state a lists anew is
\* admitted to those of owner o.
Admitted(o, a) ==
    \A x \in Owners : \A b \in stored'[x] : \E d \in stored[x] :
        /\ b.counter = d.counter
        /\ d.readers \subseteq b.readers
        /\ x = o => Delegates(a) \subseteq Delegates(account[o]) \cup b.readers

\* A call that withdraws nothing and leaves the counter; whoever it lists anew
\* is admitted to what is stored.
LEMMA GrowStep ==
    ASSUME TypeOK, Separation, NEW o \in Owners, NEW a \in Account,
           a.counter = account[o].counter,
           account[o].active => a.active,
           Delegates(account[o]) \subseteq Delegates(a),
           account' = [account EXCEPT ![o] = a],
           UNCHANGED <<view, held>>,
           Admitted(o, a)
    PROVE  Separation'
<1>1. /\ account'[o] = a
      /\ \A x \in Owners \ {o} : account'[x] = account[x]
      /\ account[o].counter \in Nat
  BY DEF TypeOK, Account
<1>2. ViewInv'
  <2> SUFFICES ASSUME NEW n \in Nodes, NEW x \in Owners
               PROVE  Behind(view[n][x], account'[x])
    BY DEF ViewInv
  <2>1. Behind(view[n][x], account[x]) /\ view[n][x].counter \in Nat
    BY DEF Separation, ViewInv, TypeOK, Account
  <2> QED BY <1>1, <2>1 DEF Behind
<1>3. HeldInv'
  <2> SUFFICES ASSUME NEW x \in Owners, NEW h \in held[x]
               PROVE  /\ h[2] <= account'[x].counter
                      /\ h[2] = account'[x].counter => h[1] \in Readers(x, account'[x])
    BY DEF HeldInv
  <2>1. /\ h[2] <= account[x].counter
        /\ h[2] = account[x].counter => h[1] \in Readers(x, account[x])
    BY DEF Separation, HeldInv
  <2>2. Readers(x, account[x]) \subseteq Readers(x, account'[x])
    BY <1>1 DEF Readers, Listed
  <2> QED BY <1>1, <2>1, <2>2
<1>4. ASSUME NEW x \in Owners, NEW b \in stored'[x]
      PROVE  /\ b.counter <= account'[x].counter
             /\ Listed(x, account'[x]) \subseteq b.readers
             /\ \A n \in Nodes : b.counter <= view[n][x].counter =>
                  Listed(x, view[n][x]) \subseteq b.readers
             /\ \A p \in Parties : <<p, b.counter>> \in held[x] => p \in b.readers
  <2>1. PICK d \in stored[x] : /\ b.counter = d.counter
                               /\ d.readers \subseteq b.readers
                               /\ x = o => Delegates(a) \subseteq
                                             Delegates(account[o]) \cup b.readers
    BY <1>4 DEF Admitted
  <2>2. /\ d.counter <= account[x].counter
        /\ Listed(x, account[x]) \subseteq d.readers
        /\ \A n \in Nodes : d.counter <= view[n][x].counter =>
             Listed(x, view[n][x]) \subseteq d.readers
        /\ \A p \in Parties : <<p, d.counter>> \in held[x] => p \in d.readers
    BY DEF Separation, StoredInv, RevocationBites
  <2>3. Listed(x, account'[x]) \subseteq b.readers
    BY <1>1, <2>1, <2>2 DEF Listed
  <2>4. b.counter <= account'[x].counter
    BY <1>1, <2>1, <2>2
  <2> QED BY <2>1, <2>2, <2>3, <2>4
<1>5. StoredInv' /\ RevocationBites'
  BY <1>4 DEF StoredInv, RevocationBites
<1> QED BY <1>2, <1>3, <1>5 DEF Separation

\* Such a call withdraws nothing.
LEMMA GrowWithdraws ==
    ASSUME TypeOK, NEW o \in Owners, NEW a \in Account,
           a.counter = account[o].counter,
           account[o].active => a.active,
           Delegates(account[o]) \subseteq Delegates(a),
           account' = [account EXCEPT ![o] = a]
    PROVE  WithdrawalStep
<1>1. /\ account'[o] = a
      /\ \A x \in Owners \ {o} : account'[x] = account[x]
      /\ \A x \in Owners : account[x].counter \in Nat
  BY DEF TypeOK, Account
<1>2. \A x \in Owners : Readers(x, account[x]) \subseteq Readers(x, account'[x])
  BY <1>1 DEF Readers, Listed
<1> QED BY <1>1, <1>2 DEF WithdrawalStep

\* Neither does a step that leaves the accounts alone.
LEMMA IdleWithdraws ==
    ASSUME TypeOK, UNCHANGED account
    PROVE  WithdrawalStep
<1>1. \A x \in Owners : account[x].counter \in Nat
  BY DEF TypeOK, Account
<1> QED BY <1>1 DEF WithdrawalStep

-------------------------------------------------------------------------------
\* Rotating changes the counter and nothing else.
LEMMA RotatedFacts ==
    ASSUME NEW a \in Account
    PROVE  /\ Rotated(a) \in Account
           /\ Rotated(a).counter = a.counter + 1
           /\ Rotated(a).keys = a.keys
           /\ Rotated(a).active = a.active
  BY DEF Rotated, Account

\* Delegates and well-formedness depend on the key list alone.
LEMMA SameKeys ==
    ASSUME NEW a, NEW b, a.keys = b.keys
    PROVE  Delegates(a) = Delegates(b) /\ (KeyListOK(a) <=> KeyListOK(b))
  BY DEF Delegates, KeyListOK

\* Types after a call on one account.
LEMMA AccountCallType ==
    ASSUME TypeOK, NEW o \in Owners, NEW a \in Account, KeyListOK(a),
           account' = [account EXCEPT ![o] = a],
           registry' \in Registry, stored' \in [Owners -> SUBSET Blob],
           UNCHANGED <<caps, view, held, drafts>>
    PROVE  TypeOK'
<1>1. account' \in [Owners -> Account]
  BY DEF TypeOK
<1>2. \A x \in Owners : KeyListOK(account'[x])
  BY DEF TypeOK
<1> QED BY <1>1, <1>2 DEF TypeOK

\* Whoever has state is registered.
LEMMA AccountCallAbsent ==
    ASSUME AbsentInv, TypeOK, NEW o \in Owners, NEW a,
           account' = [account EXCEPT ![o] = a],
           registry'.accounts = registry.accounts \cup {o}
    PROVE  AbsentInv'
  BY DEF AbsentInv, TypeOK

\* A call that rotates, on a registered account.
LEMMA RotatingCall ==
    ASSUME AuthorityInv, NEW o \in registry.accounts, NEW a \in Account,
           KeyListOK(a),
           a.counter = account[o].counter + 1,
           Delegates(a) \subseteq Delegates(account[o]),
           account' = [account EXCEPT ![o] = a],
           UNCHANGED <<registry, caps, view, held, drafts, stored>>
    PROVE  AuthorityInv' /\ WithdrawalStep
<1>1. o \in Owners /\ TypeOK /\ AbsentInv /\ Separation
  BY DEF AuthorityInv, TypeOK, Registry, Separation
<1>2. TypeOK'
  <2>1. registry' \in Registry /\ stored' \in [Owners -> SUBSET Blob]
    BY <1>1 DEF TypeOK
  <2> QED BY <1>1, <2>1, AccountCallType
<1>3. AbsentInv'
  <2>1. registry'.accounts = registry.accounts \cup {o}
    OBVIOUS
  <2> QED BY <1>1, <2>1, AccountCallAbsent
<1>4. Separation'
  BY <1>1, RotateStep
<1>5. WithdrawalStep
  <2>1. /\ account'[o] = a /\ account[o].counter \in Nat
        /\ \A x \in Owners \ {o} : account'[x] = account[x]
        /\ \A x \in Owners : account[x].counter \in Nat
    BY <1>1 DEF TypeOK, Account
  <2> QED BY <2>1 DEF WithdrawalStep
<1> QED BY <1>2, <1>3, <1>4, <1>5 DEF AuthorityInv, Separation

\* A call that keeps the counter and the key list.
LEMMA KeepingCall ==
    ASSUME AuthorityInv, NEW o \in Owners, NEW a \in Account,
           a.keys = account[o].keys,
           a.counter = account[o].counter,
           account[o].active => a.active,
           account' = [account EXCEPT ![o] = a],
           registry' \in Registry,
           registry'.accounts = registry.accounts \cup {o},
           UNCHANGED <<caps, view, held, drafts, stored>>
    PROVE  AuthorityInv' /\ WithdrawalStep
<1>1. TypeOK /\ AbsentInv /\ Separation
  BY DEF AuthorityInv, Separation
<1>2. Delegates(a) = Delegates(account[o]) /\ KeyListOK(a)
  BY <1>1, SameKeys DEF TypeOK
<1>3. TypeOK'
  <2>1. stored' \in [Owners -> SUBSET Blob]
    BY <1>1 DEF TypeOK
  <2> QED BY <1>1, <1>2, <2>1, AccountCallType
<1>4. AbsentInv'
  BY <1>1, AccountCallAbsent
<1>5. Separation'
  <2>1. Admitted(o, a)
    BY <1>2 DEF Admitted
  <2>2. Delegates(account[o]) \subseteq Delegates(a) /\ UNCHANGED <<view, held>>
    BY <1>2
  <2> QED BY <1>1, <2>1, <2>2, GrowStep
<1>6. WithdrawalStep
  <2>1. Delegates(account[o]) \subseteq Delegates(a)
    BY <1>2
  <2> QED BY <1>1, <2>1, GrowWithdraws
<1> QED BY <1>3, <1>4, <1>5, <1>6 DEF AuthorityInv, Separation

\* A call that appends a new key and admits it to what is stored.
LEMMA AddingCall ==
    ASSUME AuthorityInv, NEW o \in registry.accounts, NEW k \in Keys,
           NEW a \in Account, KeyListOK(a),
           a.counter = account[o].counter,
           account[o].active => a.active,
           Delegates(a) = Delegates(account[o]) \cup {k},
           account' = [account EXCEPT ![o] = a],
           Admit(o, k),
           registry' \in Registry,
           registry'.accounts = registry.accounts,
           UNCHANGED <<caps, view, held, drafts>>
    PROVE  AuthorityInv' /\ WithdrawalStep
<1>1. o \in Owners /\ TypeOK /\ AbsentInv /\ Separation
  BY DEF AuthorityInv, TypeOK, Registry, Separation
<1>7. /\ stored' \in [Owners -> SUBSET Blob]
      /\ \A x \in Owners : \A b \in stored'[x] : \E d \in stored[x] :
               /\ b.counter = d.counter
               /\ d.readers \subseteq b.readers
               /\ x = o => {k} \subseteq b.readers
  <2> DEFINE more == {[b EXCEPT !.readers = @ \cup {k}] : b \in stored[o]}
  <2>1. stored \in [Owners -> SUBSET Blob]
    BY <1>1 DEF TypeOK
  <2>2. ASSUME NEW b \in more
        PROVE  b \in Blob /\ \E d \in stored[o] : /\ b.counter = d.counter
                                                  /\ d.readers \subseteq b.readers
                                                  /\ k \in b.readers
    <3>1. PICK d \in stored[o] : b = [d EXCEPT !.readers = @ \cup {k}]
      BY <2>2
    <3>2. d \in Blob
      BY <1>1, <2>1, <3>1
    <3>3. b \in Blob /\ b.counter = d.counter /\ b.readers = d.readers \cup {k}
      BY <3>1, <3>2 DEF Blob, Parties
    <3> QED BY <3>1, <3>3
  <2> HIDE DEF more
  <2>3. more \in SUBSET Blob
    BY <2>2
  <2>4. stored' = [stored EXCEPT ![o] = more]
    BY DEF Admit, more
  <2>5. stored' \in [Owners -> SUBSET Blob]
    BY <2>1, <2>3, <2>4
  <2>6. ASSUME NEW x \in Owners, NEW b \in stored'[x]
        PROVE  \E d \in stored[x] : /\ b.counter = d.counter
                                    /\ d.readers \subseteq b.readers
                                    /\ x = o => {k} \subseteq b.readers
    <3>1. CASE x = o
      BY <1>1, <2>1, <2>2, <2>4, <2>6, <3>1
    <3>2. CASE x # o
      BY <2>1, <2>4, <2>6, <3>2
    <3> QED BY <3>1, <3>2
  <2> QED BY <2>5, <2>6
<1>8. TypeOK'
  BY <1>1, <1>7, AccountCallType
<1>9. AbsentInv'
  <2>1. registry'.accounts = registry.accounts \cup {o}
    OBVIOUS
  <2> QED BY <1>1, <2>1, AccountCallAbsent
<1>10. Separation'
  <2>1. Delegates(account[o]) \subseteq Delegates(a) /\ UNCHANGED <<view, held>>
    OBVIOUS
  <2>2. Admitted(o, a)
    BY <1>7 DEF Admitted
  <2> QED BY <1>1, <2>1, <2>2, GrowStep
<1>11. WithdrawalStep
  <2>1. Delegates(account[o]) \subseteq Delegates(a)
    OBVIOUS
  <2> QED BY <1>1, <2>1, GrowWithdraws
<1> QED BY <1>8, <1>9, <1>10, <1>11 DEF AuthorityInv, Separation

-------------------------------------------------------------------------------
\* A call that changes the registry's other fields or the caps only.
LEMMA RegistryCall ==
    ASSUME AuthorityInv, registry' \in Registry,
           registry'.accounts = registry.accounts, caps' \subseteq Roots,
           UNCHANGED <<account, view, held, drafts, stored>>
    PROVE  AuthorityInv' /\ WithdrawalStep
<1>1. TypeOK'
  BY DEF AuthorityInv, TypeOK
<1>2. AbsentInv'
  BY DEF AuthorityInv, AbsentInv
<1>3. ViewInv' /\ HeldInv' /\ StoredInv' /\ RevocationBites'
  BY DEF AuthorityInv, ViewInv, HeldInv, StoredInv, RevocationBites
<1>4. WithdrawalStep
  BY IdleWithdraws DEF AuthorityInv
<1> QED BY <1>1, <1>2, <1>3, <1>4 DEF AuthorityInv

\* The invariant gives a registered account its type.
LEMMA AccountFacts ==
    ASSUME AuthorityInv
    PROVE  /\ registry \in Registry /\ registry.accounts \subseteq Owners
           /\ \A o \in Owners : account[o] \in Account /\ KeyListOK(account[o])
           /\ account \in [Owners -> Account]
  BY DEF AuthorityInv, TypeOK, Registry

\* What the owner's and the importer's calls write when they create an account.
LEMMA NewAccount ==
    ASSUME AuthorityInv, NEW o \in Owners \ registry.accounts,
           NEW a \in Account, a.keys = <<>>, a.counter = 0,
           account' = [account EXCEPT ![o] = a],
           registry' \in Registry,
           registry'.accounts = registry.accounts \cup {o},
           UNCHANGED <<caps, view, held, drafts, stored>>
    PROVE  AuthorityInv' /\ WithdrawalStep
<1>1. account[o] = NoAccount
  BY DEF AuthorityInv, AbsentInv
<1>2. a.keys = account[o].keys /\ a.counter = account[o].counter
      /\ ~account[o].active
  BY <1>1 DEF NoAccount
<1>3. account[o].active => a.active
  BY <1>2
<1> QED BY <1>2, <1>3, KeepingCall

\* An absent account is a well-typed empty one.
LEMMA NoAccountFacts ==
    NoAccount \in Account /\ NoAccount.keys = <<>> /\ NoAccount.counter = 0
<1>1. <<>> \in Seq(Keys)
  OBVIOUS
<1> QED BY <1>1 DEF NoAccount, Account

\* Setting the active flag keeps the rest.
LEMMA FreshFacts ==
    ASSUME NEW a \in Account, NEW flag \in BOOLEAN
    PROVE  /\ [a EXCEPT !.active = flag] \in Account
           /\ [a EXCEPT !.active = flag].keys = a.keys
           /\ [a EXCEPT !.active = flag].counter = a.counter
           /\ [a EXCEPT !.active = flag].active = flag
  BY DEF Account

\* create_account keeps the invariant.
LEMMA CreateStep ==
    ASSUME AuthorityInv, NEW o \in Owners, create_account(o)
    PROVE  AuthorityInv' /\ WithdrawalStep
<1> DEFINE a == [NoAccount EXCEPT !.active = TRUE]
<1>1. a \in Account /\ a.keys = <<>> /\ a.counter = 0
  BY NoAccountFacts, FreshFacts
<1>2. registry' \in Registry /\ registry'.accounts = registry.accounts \cup {o}
  BY AccountFacts DEF create_account, Registry
<1>3. o \in Owners \ registry.accounts
  BY DEF create_account
<1>4. account' = [account EXCEPT ![o] = a]
      /\ UNCHANGED <<caps, view, held, drafts, stored>>
  BY DEF create_account
<1> HIDE DEF a
<1> QED BY <1>1, <1>2, <1>3, <1>4, NewAccount

\* legacy_import_account keeps the invariant.
LEMMA ImportStep ==
    ASSUME AuthorityInv, NEW o \in Owners, legacy_import_account(o)
    PROVE  AuthorityInv' /\ WithdrawalStep
<1>1. PICK active \in BOOLEAN :
        account' = [account EXCEPT ![o] =
                      [NoAccount EXCEPT !.active = active, !.legacy = TRUE]]
  BY DEF legacy_import_account
<1> DEFINE a == [NoAccount EXCEPT !.active = active, !.legacy = TRUE]
<1>2. a \in Account /\ a.keys = <<>> /\ a.counter = 0
  <2> DEFINE b == [NoAccount EXCEPT !.active = active]
  <2>1. b \in Account /\ b.keys = <<>> /\ b.counter = 0
    BY NoAccountFacts, FreshFacts
  <2> HIDE DEF b
  <2>2. /\ [b EXCEPT !.legacy = TRUE] \in Account
        /\ [b EXCEPT !.legacy = TRUE].keys = b.keys
        /\ [b EXCEPT !.legacy = TRUE].counter = b.counter
    BY <2>1 DEF Account
  <2> QED BY <2>1, <2>2 DEF b
<1>3. registry' \in Registry /\ registry'.accounts = registry.accounts \cup {o}
  <2>1. registry \in Registry
        /\ registry' = [registry EXCEPT !.accounts = @ \cup {o},
                                        !.imported_accounts = @ + 1]
    BY AccountFacts DEF legacy_import_account
  <2> DEFINE r == [registry EXCEPT !.accounts = @ \cup {o}]
  <2>2. r \in Registry /\ r.accounts = registry.accounts \cup {o}
        /\ r.imported_accounts = registry.imported_accounts
    BY <2>1 DEF Registry
  <2>3. registry' = [r EXCEPT !.imported_accounts = @ + 1]
    BY <2>1, <2>2
  <2> HIDE DEF r
  <2> QED BY <2>2, <2>3 DEF Registry
<1>4. o \in Owners \ registry.accounts
      /\ UNCHANGED <<caps, view, held, drafts, stored>>
  BY DEF legacy_import_account, AccountImportable
<1>5. account' = [account EXCEPT ![o] = a]
  BY <1>1
<1> HIDE DEF a
<1> QED BY <1>2, <1>3, <1>4, <1>5, NewAccount

\* The account state that appending a key produces.
LEMMA AppendFacts ==
    ASSUME AuthorityInv, NEW o \in registry.accounts, NEW k \in Keys,
           k \notin Delegates(account[o]),
           Len(account[o].keys) < MAX_DELEGATE_KEYS,
           account' = [account EXCEPT ![o].keys = Append(@, k)]
    PROVE  \E a \in Account :
             /\ KeyListOK(a)
             /\ a.counter = account[o].counter
             /\ account[o].active => a.active
             /\ Delegates(a) = Delegates(account[o]) \cup {k}
             /\ account' = [account EXCEPT ![o] = a]
<1> DEFINE a == [account[o] EXCEPT !.keys = Append(@, k)]
<1>1. o \in Owners /\ account[o] \in Account /\ KeyListOK(account[o])
  BY AccountFacts
<1>2. a \in Account /\ KeyListOK(a)
  BY <1>1, AppendKeyList
<1>3. Delegates(a) = Delegates(account[o]) \cup {k}
  BY <1>1, AppendDelegates
<1>4. a.counter = account[o].counter /\ a.active = account[o].active
  BY <1>1 DEF Account
<1>5. account[o].active => a.active
  BY <1>4
<1>6. account' = [account EXCEPT ![o] = a]
  BY <1>1, AccountFacts
<1> HIDE DEF a
<1> QED BY <1>2, <1>3, <1>4, <1>5, <1>6

\* add_delegate_key keeps the invariant.
LEMMA AddStep ==
    ASSUME AuthorityInv, NEW o \in Owners, NEW k \in Keys, add_delegate_key(o, k)
    PROVE  AuthorityInv' /\ WithdrawalStep
<1>1. o \in registry.accounts
  BY DEF add_delegate_key
<1>2. PICK a \in Account :
        /\ KeyListOK(a)
        /\ a.counter = account[o].counter
        /\ account[o].active => a.active
        /\ Delegates(a) = Delegates(account[o]) \cup {k}
        /\ account' = [account EXCEPT ![o] = a]
  BY <1>1, AppendFacts DEF add_delegate_key
<1>3. Admit(o, k) /\ UNCHANGED <<registry, caps, view, held, drafts>>
  BY DEF add_delegate_key
<1>4. registry' \in Registry /\ registry'.accounts = registry.accounts
  BY <1>3, AccountFacts
<1> QED BY <1>1, <1>2, <1>3, <1>4, AddingCall

\* legacy_import_delegate_key keeps the invariant.
LEMMA ImportKeyStep ==
    ASSUME AuthorityInv, NEW o \in Owners, NEW k \in Keys,
           legacy_import_delegate_key(o, k)
    PROVE  AuthorityInv' /\ WithdrawalStep
<1>1. o \in registry.accounts
  BY DEF legacy_import_delegate_key, DelegateImportable
<1>2. PICK a \in Account :
        /\ KeyListOK(a)
        /\ a.counter = account[o].counter
        /\ account[o].active => a.active
        /\ Delegates(a) = Delegates(account[o]) \cup {k}
        /\ account' = [account EXCEPT ![o] = a]
  BY <1>1, AppendFacts DEF legacy_import_delegate_key, DelegateImportable
<1>3. Admit(o, k) /\ UNCHANGED <<caps, view, held, drafts>>
  BY DEF legacy_import_delegate_key
<1>4. registry' \in Registry /\ registry'.accounts = registry.accounts
  BY AccountFacts DEF legacy_import_delegate_key, Registry
<1> QED BY <1>1, <1>2, <1>3, <1>4, AddingCall

\* remove_delegate_key keeps the invariant.
LEMMA RemoveStep ==
    ASSUME AuthorityInv, NEW o \in Owners, NEW k \in Keys, remove_delegate_key(o, k)
    PROVE  AuthorityInv' /\ WithdrawalStep
<1>1. PICK i \in 1 .. Len(account[o].keys) :
        account' = [account EXCEPT ![o] =
                      Rotated([account[o] EXCEPT !.keys = Without(@, i)])]
  BY DEF remove_delegate_key
<1>2. /\ o \in registry.accounts
      /\ UNCHANGED <<registry, caps, view, held, drafts, stored>>
  BY DEF remove_delegate_key
<1> DEFINE a == Rotated([account[o] EXCEPT !.keys = Without(@, i)])
<1>3. account' = [account EXCEPT ![o] = a]
  BY <1>1
<1>4. account[o] \in Account /\ KeyListOK(account[o])
  BY AccountFacts
<1>5. /\ a \in Account
      /\ KeyListOK(a)
      /\ Delegates(a) \subseteq Delegates(account[o])
      /\ a.counter = account[o].counter + 1
  BY <1>4, WithoutKeyList
<1> HIDE DEF a
<1> QED BY <1>2, <1>3, <1>5, RotatingCall

\* A rotation of an account state with the same key list and counter.
LEMMA RotatedCall ==
    ASSUME AuthorityInv, NEW o \in registry.accounts, NEW a \in Account,
           a.keys = account[o].keys, a.counter = account[o].counter,
           account' = [account EXCEPT ![o] = Rotated(a)],
           UNCHANGED <<registry, caps, view, held, drafts, stored>>
    PROVE  AuthorityInv' /\ WithdrawalStep
<1> DEFINE b == Rotated(a)
<1>1. b \in Account /\ b.counter = account[o].counter + 1 /\ b.keys = account[o].keys
  BY RotatedFacts
<1>2. KeyListOK(account[o])
  BY AccountFacts
<1>3. account' = [account EXCEPT ![o] = b]
  OBVIOUS
<1> HIDE DEF b
<1>4. Delegates(b) = Delegates(account[o]) /\ KeyListOK(b)
  BY <1>1, <1>2, SameKeys
<1>5. Delegates(b) \subseteq Delegates(account[o])
  BY <1>4
<1> QED BY <1>1, <1>3, <1>4, <1>5, RotatingCall

\* deactivate_account keeps the invariant.
LEMMA DeactivateStep ==
    ASSUME AuthorityInv, NEW o \in Owners, deactivate_account(o)
    PROVE  AuthorityInv' /\ WithdrawalStep
<1> DEFINE a == [account[o] EXCEPT !.active = FALSE]
<1>1. a \in Account /\ a.keys = account[o].keys /\ a.counter = account[o].counter
  BY AccountFacts, FreshFacts
<1>2. /\ o \in registry.accounts
      /\ account' = [account EXCEPT ![o] = Rotated(a)]
      /\ UNCHANGED <<registry, caps, view, held, drafts, stored>>
  BY DEF deactivate_account
<1> HIDE DEF a
<1> QED BY <1>1, <1>2, RotatedCall

\* reactivate_account keeps the invariant, rotating or not.
LEMMA ReactivateStep ==
    ASSUME AuthorityInv, NEW o \in Owners, reactivate_account(o)
    PROVE  AuthorityInv' /\ WithdrawalStep
<1> DEFINE a == [account[o] EXCEPT !.active = TRUE]
<1>1. /\ a \in Account /\ a.keys = account[o].keys
      /\ a.counter = account[o].counter /\ a.active
  BY AccountFacts, FreshFacts
<1>2. /\ o \in registry.accounts
      /\ \/ account' = [account EXCEPT ![o] = Rotated(a)]
         \/ account' = [account EXCEPT ![o] = a]
      /\ UNCHANGED <<registry, caps, view, held, drafts, stored>>
  BY DEF reactivate_account
<1> HIDE DEF a
<1>3. CASE account' = [account EXCEPT ![o] = Rotated(a)]
  BY <1>1, <1>2, <1>3, RotatedCall
<1>4. CASE account' = [account EXCEPT ![o] = a]
  <2>1. registry' \in Registry /\ registry'.accounts = registry.accounts \cup {o}
    BY <1>2, AccountFacts
  <2> QED BY <1>1, <1>2, <1>4, <2>1, KeepingCall
<1> QED BY <1>2, <1>3, <1>4

\* admin_deactivate_account keeps the invariant.
LEMMA AdminDeactivateStep ==
    ASSUME AuthorityInv, NEW o \in Owners, admin_deactivate_account(o)
    PROVE  AuthorityInv' /\ WithdrawalStep
<1> DEFINE b == [account[o] EXCEPT !.quarantined = TRUE]
           a == [b EXCEPT !.active = FALSE]
<1>1. b \in Account /\ b.keys = account[o].keys /\ b.counter = account[o].counter
  BY AccountFacts DEF Account
<1>2. /\ o \in registry.accounts
      /\ account' = [account EXCEPT ![o] = Rotated(a)]
      /\ UNCHANGED <<registry, caps, view, held, drafts, stored>>
  BY DEF admin_deactivate_account
<1> HIDE DEF b
<1>3. a \in Account /\ a.keys = account[o].keys /\ a.counter = account[o].counter
  BY <1>1, FreshFacts
<1> HIDE DEF a
<1> QED BY <1>2, <1>3, RotatedCall

\* admin_clear_quarantine keeps the invariant.
LEMMA ClearStep ==
    ASSUME AuthorityInv, NEW o \in Owners, admin_clear_quarantine(o)
    PROVE  AuthorityInv' /\ WithdrawalStep
<1> DEFINE a == [account[o] EXCEPT !.quarantined = FALSE]
<1>1. /\ a \in Account /\ a.keys = account[o].keys
      /\ a.counter = account[o].counter /\ a.active = account[o].active
  BY AccountFacts DEF Account
<1>2. /\ o \in registry.accounts
      /\ account' = [account EXCEPT ![o] = a]
      /\ UNCHANGED <<registry, caps, view, held, drafts, stored>>
  BY AccountFacts DEF admin_clear_quarantine
<1>3. registry' \in Registry /\ registry'.accounts = registry.accounts \cup {o}
  BY <1>2, AccountFacts
<1>4. account[o].active => a.active
  BY <1>1
<1> HIDE DEF a
<1> QED BY <1>1, <1>2, <1>3, <1>4, KeepingCall

\* pin_allowlist_root and repin_allowlist_root keep the invariant.
LEMMA PinStep ==
    ASSUME AuthorityInv, NEW r \in Roots, NEW t \in Totals,
           pin_allowlist_root(r, t) \/ repin_allowlist_root(r, t)
    PROVE  AuthorityInv' /\ WithdrawalStep
<1>1. registry \in Registry /\ t[1] \in Nat /\ t[2] \in Nat /\ caps \subseteq Roots
  BY AccountFacts, NumberAssumption DEF AuthorityInv, TypeOK
<1>2. Pinned(r, t) /\ UNCHANGED <<account, caps, view, held, drafts, stored>>
  BY DEF pin_allowlist_root, repin_allowlist_root
<1>3. registry' \in Registry /\ registry'.accounts = registry.accounts
  BY <1>1, <1>2 DEF Pinned, Registry
<1> QED BY <1>1, <1>2, <1>3, RegistryCall

\* mint_migration_cap, burn_migration_cap and finalize_migration keep it.
LEMMA MigrationStep ==
    ASSUME AuthorityInv,
           \/ \E r \in Roots : mint_migration_cap(r) \/ burn_migration_cap(r)
           \/ finalize_migration
    PROVE  AuthorityInv' /\ WithdrawalStep
<1>1. registry \in Registry /\ caps \subseteq Roots
  BY AccountFacts DEF AuthorityInv, TypeOK
<1>2. ASSUME NEW r \in Roots, mint_migration_cap(r) \/ burn_migration_cap(r)
      PROVE  AuthorityInv' /\ WithdrawalStep
  <2>1. /\ caps' \subseteq Roots
        /\ UNCHANGED <<registry, account, view, held, drafts, stored>>
    BY <1>1, <1>2 DEF mint_migration_cap, burn_migration_cap
  <2>2. registry' \in Registry /\ registry'.accounts = registry.accounts
    BY <1>1, <2>1
  <2> QED BY <2>1, <2>2, RegistryCall
<1>3. CASE finalize_migration
  <2>1. registry' \in Registry /\ registry'.accounts = registry.accounts
    BY <1>1, <1>3 DEF finalize_migration, Registry
  <2>2. /\ caps' \subseteq Roots
        /\ UNCHANGED <<account, view, held, drafts, stored>>
    BY <1>1, <1>3 DEF finalize_migration
  <2> QED BY <2>1, <2>2, RegistryCall
<1> QED BY <1>2, <1>3

\* A node that catches up is level with the chain, so what the chain lists is
\* what its key servers serve.
LEMMA SyncStep ==
    ASSUME AuthorityInv, NEW n \in Nodes, Sync(n)
    PROVE  AuthorityInv' /\ WithdrawalStep
<1>1. /\ view' = [view EXCEPT ![n] = account]
      /\ UNCHANGED <<registry, account, caps, held, drafts, stored>>
  BY DEF Sync
<1>2. \A m \in Nodes : view'[m] = IF m = n THEN account ELSE view[m]
  BY <1>1 DEF AuthorityInv, TypeOK
<1>3. TypeOK'
  BY <1>1 DEF AuthorityInv, TypeOK
<1>4. ViewInv'
  <2> SUFFICES ASSUME NEW m \in Nodes, NEW o \in Owners
               PROVE  Behind(view'[m][o], account[o])
    BY <1>1 DEF ViewInv
  <2>1. account[o].counter \in Nat
    BY AccountFacts DEF Account
  <2>2. Behind(view[m][o], account[o]) /\ Behind(account[o], account[o])
    BY <2>1 DEF AuthorityInv, ViewInv, Behind
  <2> QED BY <1>2, <2>2
<1>5. StoredInv'
  BY <1>1, <1>2 DEF AuthorityInv, StoredInv
<1>6. AbsentInv' /\ HeldInv' /\ RevocationBites'
  BY <1>1 DEF AuthorityInv, AbsentInv, HeldInv, RevocationBites
<1>7. WithdrawalStep
  BY <1>1, IdleWithdraws DEF AuthorityInv
<1> QED BY <1>3, <1>4, <1>5, <1>6, <1>7 DEF AuthorityInv

\* A key server hands out a key: if its node is level with the account the party
\* is a current reader, if it lags the counter is an old one; either way the
\* party is among the readers of every blob under that counter.
LEMMA IssueStep ==
    ASSUME AuthorityInv, NEW n \in Nodes, NEW o \in Owners, NEW p \in Parties,
           NEW c \in 0 .. MaxCounter, IssueKey(n, o, p, c)
    PROVE  AuthorityInv' /\ WithdrawalStep
<1> DEFINE v == view[n][o]
<1>1. /\ v.active /\ c <= v.counter /\ (p = o \/ p \in Delegates(v))
      /\ held' = [held EXCEPT ![o] = @ \cup {<<p, c>>}]
      /\ UNCHANGED <<registry, account, caps, view, drafts, stored>>
  BY DEF IssueKey, seal_approve
<1>2. /\ held \in [Owners -> SUBSET (Parties \X Nat)] /\ c \in Nat
      /\ v.counter \in Nat /\ account[o].counter \in Nat
  BY NumberAssumption DEF AuthorityInv, TypeOK, Account
<1>3. \A x \in Owners : \A h \in held'[x] :
        h \in held[x] \/ (x = o /\ h = <<p, c>>)
  BY <1>1, <1>2
<1>4. TypeOK'
  <2>1. held' \in [Owners -> SUBSET (Parties \X Nat)]
    BY <1>1, <1>2
  <2> QED BY <1>1, <2>1 DEF AuthorityInv, TypeOK
<1>5. Behind(v, account[o])
  BY DEF AuthorityInv, ViewInv
<1>6. c <= account[o].counter
      /\ (c = account[o].counter => p \in Readers(o, account[o]))
  BY <1>1, <1>2, <1>5 DEF Behind, Readers, Listed
<1>7. HeldInv'
  <2> SUFFICES ASSUME NEW x \in Owners, NEW h \in held'[x]
               PROVE  /\ h[2] <= account[x].counter
                      /\ h[2] = account[x].counter => h[1] \in Readers(x, account[x])
    BY <1>1 DEF HeldInv
  <2>1. CASE h \in held[x]
    BY <2>1 DEF AuthorityInv, HeldInv
  <2>2. CASE x = o /\ h = <<p, c>>
    BY <1>6, <2>2
  <2> QED BY <1>3, <2>1, <2>2
<1>8. RevocationBites'
  <2> SUFFICES ASSUME NEW x \in Owners, NEW b \in stored[x], NEW q \in Parties,
                      <<q, b.counter>> \in held'[x]
               PROVE  q \in b.readers
    BY <1>1 DEF RevocationBites
  <2>1. CASE <<q, b.counter>> \in held[x]
    BY <2>1 DEF AuthorityInv, RevocationBites
  <2>2. CASE x = o /\ <<q, b.counter>> = <<p, c>>
    <3>1. q = p /\ b.counter = c
      BY <2>2
    <3>2. Listed(o, v) \subseteq b.readers
      BY <1>1, <2>2, <3>1 DEF AuthorityInv, StoredInv
    <3> QED BY <1>1, <3>1, <3>2 DEF Listed
  <2> QED BY <1>3, <2>1, <2>2
<1>9. AbsentInv' /\ ViewInv' /\ StoredInv'
  BY <1>1 DEF AuthorityInv, AbsentInv, ViewInv, StoredInv
<1>10. WithdrawalStep
  BY <1>1, IdleWithdraws DEF AuthorityInv
<1> QED BY <1>4, <1>7, <1>8, <1>9, <1>10 DEF AuthorityInv

\* Sealing a text touches the drafts only.
LEMMA SealStepInv ==
    ASSUME AuthorityInv, NEW n \in Nodes, NEW o \in Owners,
           NEW purpose \in {"normal", "migration"}, SealEncrypt(n, o, purpose)
    PROVE  AuthorityInv' /\ WithdrawalStep
<1>1. /\ drafts' = [drafts EXCEPT ![o] = @ \cup {view[n][o].counter}]
      /\ UNCHANGED <<registry, account, caps, view, held, stored>>
  BY DEF SealEncrypt
<1>2. view[n][o].counter \in Nat /\ drafts \in [Owners -> SUBSET Nat]
  BY DEF AuthorityInv, TypeOK, Account
<1>3. drafts' \in [Owners -> SUBSET Nat]
  BY <1>1, <1>2
<1>4. TypeOK'
  BY <1>1, <1>3 DEF AuthorityInv, TypeOK
<1>5. AbsentInv' /\ ViewInv' /\ HeldInv' /\ StoredInv' /\ RevocationBites'
  BY <1>1 DEF AuthorityInv, AbsentInv, ViewInv, HeldInv, StoredInv, RevocationBites
<1>6. WithdrawalStep
  BY <1>1, IdleWithdraws DEF AuthorityInv
<1> QED BY <1>4, <1>5, <1>6 DEF AuthorityInv

\* The fence admits a blob under the current counter only, whose key nobody but
\* current readers can hold.
LEMMA PersistStep ==
    ASSUME AuthorityInv, NEW o \in Owners, NEW c \in 0 .. MaxCounter,
           PersistBlob(o, c)
    PROVE  AuthorityInv' /\ WithdrawalStep
<1> DEFINE nb == [counter |-> c, readers |-> Listed(o, account[o])]
<1>1. /\ c = account[o].counter
      /\ stored' = [stored EXCEPT ![o] = @ \cup {nb}]
      /\ drafts' = [drafts EXCEPT ![o] = @ \ {c}]
      /\ UNCHANGED <<registry, account, caps, view, held>>
  BY DEF PersistBlob, seal_encrypt_fence
<1>2. /\ stored \in [Owners -> SUBSET Blob] /\ drafts \in [Owners -> SUBSET Nat]
      /\ account[o] \in Account /\ account[o].counter \in Nat
  BY DEF AuthorityInv, TypeOK, Account
<1>3. Listed(o, account[o]) \subseteq Parties
  <2>1. account[o].keys \in Seq(Keys)
    BY <1>2 DEF Account
  <2>2. \A i \in 1 .. Len(account[o].keys) : account[o].keys[i] \in Keys
    BY <2>1, ElementOfSeq
  <2> QED BY <2>2 DEF Listed, Delegates, Parties
<1>4. nb \in Blob /\ nb.counter = c /\ nb.readers = Listed(o, account[o])
  BY <1>1, <1>2, <1>3 DEF Blob
<1> HIDE DEF nb
<1>5. \A x \in Owners : \A b \in stored'[x] : b \in stored[x] \/ (x = o /\ b = nb)
  BY <1>1, <1>2
<1>6. TypeOK'
  <2>1. stored' \in [Owners -> SUBSET Blob] /\ drafts' \in [Owners -> SUBSET Nat]
    BY <1>1, <1>2, <1>4
  <2> QED BY <1>1, <2>1 DEF AuthorityInv, TypeOK
<1>7. StoredInv'
  <2> SUFFICES ASSUME NEW x \in Owners, NEW b \in stored'[x]
               PROVE  /\ b.counter <= account[x].counter
                      /\ Listed(x, account[x]) \subseteq b.readers
                      /\ \A n \in Nodes : b.counter <= view[n][x].counter =>
                           Listed(x, view[n][x]) \subseteq b.readers
    BY <1>1 DEF StoredInv
  <2>1. CASE b \in stored[x]
    BY <2>1 DEF AuthorityInv, StoredInv
  <2>2. CASE x = o /\ b = nb
    <3>1. b.counter <= account[x].counter /\ Listed(x, account[x]) \subseteq b.readers
      BY <1>1, <1>2, <1>4, <2>2
    <3>2. ASSUME NEW n \in Nodes, b.counter <= view[n][x].counter
          PROVE  Listed(x, view[n][x]) \subseteq b.readers
      <4>1. Behind(view[n][x], account[x]) /\ view[n][x].counter \in Nat
        BY DEF AuthorityInv, ViewInv, TypeOK, Account
      <4>2. Delegates(view[n][x]) \subseteq Delegates(account[x])
        BY <1>1, <1>2, <1>4, <2>2, <3>2, <4>1 DEF Behind
      <4> QED BY <3>1, <4>2 DEF Listed
    <3> QED BY <3>1, <3>2
  <2> QED BY <1>5, <2>1, <2>2
<1>8. RevocationBites'
  <2> SUFFICES ASSUME NEW x \in Owners, NEW b \in stored'[x], NEW q \in Parties,
                      <<q, b.counter>> \in held[x]
               PROVE  q \in b.readers
    BY <1>1 DEF RevocationBites
  <2>1. CASE b \in stored[x]
    BY <2>1 DEF AuthorityInv, RevocationBites
  <2>2. CASE x = o /\ b = nb
    <3>1. q \in Readers(o, account[o])
      BY <1>1, <1>4, <2>2 DEF AuthorityInv, HeldInv
    <3> QED BY <1>4, <2>2, <3>1 DEF Readers
  <2> QED BY <1>5, <2>1, <2>2
<1>9. AbsentInv' /\ ViewInv' /\ HeldInv'
  BY <1>1 DEF AuthorityInv, AbsentInv, ViewInv, HeldInv
<1>10. WithdrawalStep
  BY <1>1, IdleWithdraws DEF AuthorityInv
<1> QED BY <1>6, <1>7, <1>8, <1>9, <1>10 DEF AuthorityInv

-------------------------------------------------------------------------------
\* The fresh registry satisfies the invariant: no accounts, keys or blobs.
LEMMA InitAuthority == Init => AuthorityInv
<1> SUFFICES ASSUME Init PROVE AuthorityInv
  OBVIOUS
<1>1. NoAccount \in Account /\ KeyListOK(NoAccount)
  <2>1. Len(NoAccount.keys) = 0
    BY NoAccountFacts
  <2> QED BY <2>1, NoAccountFacts, NumberAssumption DEF KeyListOK
<1>2. registry \in Registry
  BY DEF Init, Registry
<1>3. /\ account \in [Owners -> Account] /\ \A o \in Owners : account[o] = NoAccount
      /\ view \in [Nodes -> [Owners -> Account]]
      /\ \A n \in Nodes, o \in Owners : view[n][o] = NoAccount
  BY <1>1 DEF Init
<1>4. TypeOK
  <2>1. /\ caps \subseteq Roots
        /\ held \in [Owners -> SUBSET (Parties \X Nat)]
        /\ drafts \in [Owners -> SUBSET Nat]
        /\ stored \in [Owners -> SUBSET Blob]
    BY DEF Init
  <2> QED BY <1>1, <1>2, <1>3, <2>1 DEF TypeOK
<1>5. ViewInv
  <2>1. Behind(NoAccount, NoAccount)
    BY NoAccountFacts DEF Behind
  <2> QED BY <1>3, <2>1 DEF ViewInv
<1>6. AbsentInv /\ HeldInv /\ StoredInv /\ RevocationBites
  BY <1>3 DEF Init, AbsentInv, HeldInv, StoredInv, RevocationBites
<1> QED BY <1>4, <1>5, <1>6 DEF AuthorityInv

\* Every call of the contract and every step of a key server, a node or a writer
\* keeps the invariant and rotates what it withdraws.
LEMMA NextAuthority ==
    ASSUME AuthorityInv, [Next]_vars
    PROVE  AuthorityInv' /\ WithdrawalStep
<1>1. CASE UNCHANGED vars
  <2>1. registry' \in Registry /\ registry'.accounts = registry.accounts
        /\ caps' \subseteq Roots
        /\ UNCHANGED <<account, view, held, drafts, stored>>
    BY <1>1 DEF vars, AuthorityInv, TypeOK
  <2> QED BY <2>1, RegistryCall
<1>2. CASE AdminCall
  BY <1>2, AdminDeactivateStep, ClearStep, PinStep, MigrationStep DEF AdminCall
<1>3. ASSUME NEW o \in Owners, OwnerCall(o)
      PROVE  AuthorityInv' /\ WithdrawalStep
  BY <1>3, CreateStep, AddStep, RemoveStep, DeactivateStep, ReactivateStep
     DEF OwnerCall
<1>4. ASSUME NEW o \in Owners, ImportCall(o)
      PROVE  AuthorityInv' /\ WithdrawalStep
  BY <1>4, ImportStep, ImportKeyStep DEF ImportCall
<1>5. ASSUME NEW n \in Nodes, SealStep(n)
      PROVE  AuthorityInv' /\ WithdrawalStep
  BY <1>5, SyncStep, IssueStep, SealStepInv DEF SealStep
<1>6. ASSUME NEW o \in Owners, NEW c \in 0 .. MaxCounter, PersistBlob(o, c)
      PROVE  AuthorityInv' /\ WithdrawalStep
  BY <1>6, PersistStep
<1> QED BY <1>1, <1>2, <1>3, <1>4, <1>5, <1>6 DEF Next

\* The counter separates readers from those whose access was withdrawn, in every
\* reachable state, whatever the owners, delegates, nodes, manifests and bounds.
THEOREM Authority == Spec => []AuthorityInv
<1>1. AuthorityInv /\ [Next]_vars => AuthorityInv'
  BY NextAuthority
<1> QED BY InitAuthority, <1>1, PTL DEF Spec

\* Types, and key lists that name nobody twice and stay within the limit.
THEOREM Types == Spec => []TypeOK
<1>1. AuthorityInv => TypeOK
  BY DEF AuthorityInv
<1> QED BY <1>1, Authority, PTL

\* Whoever can open a stored blob was a reader of the account when it was stored
\* or became one later: removing a delegate bites on everything written after.
THEOREM Revocation == Spec => []RevocationBites
<1>1. AuthorityInv => RevocationBites
  BY DEF AuthorityInv
<1> QED BY <1>1, Authority, PTL

\* Nobody holds the key that a frozen account's writes are sealed for.
THEOREM Frozen == Spec => []FrozenIsUnreadable
<1>1. AuthorityInv => FrozenIsUnreadable
  <2> SUFFICES ASSUME AuthorityInv, NEW o \in Owners, ~account[o].active,
                      NEW p \in Parties, <<p, account[o].counter>> \in held[o]
               PROVE  FALSE
    BY DEF FrozenIsUnreadable
  <2>1. p \in Readers(o, account[o])
    BY DEF AuthorityInv, HeldInv
  <2> QED BY <2>1 DEF Readers
<1> QED BY <1>1, Authority, PTL

\* No step withdraws access without rotating the counter, or turns it back.
THEOREM Withdrawal == Spec => WithdrawalRotates
<1>1. AuthorityInv /\ [Next]_vars => [WithdrawalStep]_vars
  BY NextAuthority
<1> QED BY <1>1, Authority, PTL DEF Spec, WithdrawalRotates
===============================================================================
