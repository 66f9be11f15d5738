-------------------------- MODULE UploadSlotsProofs ---------------------------
(***************************************************************************)
(* The invariants of UploadSlots and the limits that follow from them, for *)
(* every number of requests and wallets and every capacity.                *)
(***************************************************************************)
EXTENDS UploadSlots, FiniteSetTheorems, SequenceTheorems, TLAPS

\* The inductive invariant: conservation rests on who is in the queues, since a
\* release passes its slot to the head of a queue.
IndInv == TypeOK /\ QueuesExact /\ NoOvertaking /\ SlotsConserved

\* Nobody is inside beyond the limits.
WithinLimits ==
    /\ Cardinality({r \in Requests : pc[r] = "active"}) <= MaxActive
    /\ \A k \in Keys :
         Cardinality({r \in Requests : pc[r] = "active" /\ key[r] = k}) <= PerWallet

\* Every semaphore has at least one slot.
LEMMA CapacityType == \A s \in Semaphores : Capacity(s) \in Nat \ {0}
BY CapacityAssumption DEF Capacity

\* The case split ReleaseCases makes on a queue length.
LEMMA OneOrMore == \A n \in Nat : n > 0 => 1 < n \/ n = 1
OBVIOUS

\* The holders of a semaphore can be counted.
LEMMA HoldersFinite ==
    \A s \in Semaphores : IsFiniteSet(Holders(s)) /\ Cardinality(Holders(s)) \in Nat
<1> TAKE s \in Semaphores
<1>1. Holders(s) \subseteq Requests
  BY DEF Holders
<1> QED BY <1>1, RequestsAssumption, FS_Subset, FS_CardinalityType

\* Taking an element out, putting one in, and exchanging one.
LEMMA CardinalityMoves ==
    ASSUME NEW S, IsFiniteSet(S)
    PROVE  /\ \A x : x \notin S => Cardinality(S \cup {x}) = Cardinality(S) + 1
           /\ \A x : x \in S => Cardinality(S \ {x}) = Cardinality(S) - 1
           /\ \A x : x \in S => Cardinality(S) > 0
           /\ \A x, y : x \in S /\ y \notin S =>
                Cardinality((S \ {x}) \cup {y}) = Cardinality(S)
<1>0. Cardinality(S) \in Nat
  BY FS_CardinalityType
<1>1. \A x : x \notin S => Cardinality(S \cup {x}) = Cardinality(S) + 1
  BY FS_AddElement
<1>2. ASSUME NEW x, x \in S
      PROVE  /\ IsFiniteSet(S \ {x}) /\ Cardinality(S \ {x}) = Cardinality(S) - 1
  BY <1>2, FS_RemoveElement
<1>3. ASSUME NEW x, x \in S PROVE Cardinality(S) > 0
  <2>1. Cardinality(S \ {x}) \in Nat
    BY <1>2, <1>3, FS_CardinalityType
  <2> QED BY <1>0, <1>2, <1>3, <2>1
<1>4. ASSUME NEW x, NEW y, x \in S, y \notin S
      PROVE  Cardinality((S \ {x}) \cup {y}) = Cardinality(S)
  <2>1. IsFiniteSet(S \ {x}) /\ Cardinality(S \ {x}) = Cardinality(S) - 1
    BY <1>2, <1>4
  <2>2. y \notin S \ {x}
    BY <1>4
  <2>3. Cardinality((S \ {x}) \cup {y}) = Cardinality(S \ {x}) + 1
    BY <2>1, <2>2, FS_AddElement
  <2> QED BY <1>0, <2>1, <2>3
<1> QED BY <1>1, <1>2, <1>3, <1>4

\* SubSeq without the head, and SubSeq of everything.
LEMMA SubSeqFacts ==
    ASSUME NEW R, NEW q \in Seq(R)
    PROVE  /\ q # <<>> => /\ SubSeq(q, 2, Len(q)) \in Seq(R)
                         /\ Len(SubSeq(q, 2, Len(q))) = Len(q) - 1
                         /\ \A i \in 1 .. Len(q) - 1 : SubSeq(q, 2, Len(q))[i] = q[i + 1]
           /\ SubSeq(q, 1, Len(q)) = q
<1>1. SubSeq(q, 1, Len(q)) = q
  BY SubSeqFull
<1>2. ASSUME q # <<>>
      PROVE  /\ SubSeq(q, 2, Len(q)) \in Seq(R)
             /\ Len(SubSeq(q, 2, Len(q))) = Len(q) - 1
             /\ \A i \in 1 .. Len(q) - 1 : SubSeq(q, 2, Len(q))[i] = q[i + 1]
  <2>1. Len(q) \in Nat /\ Len(q) > 0
    BY <1>2
  <2>2. \A i \in 2 .. Len(q) : q[i] \in R
    BY <2>1
  <2>3. /\ SubSeq(q, 2, Len(q)) \in Seq(R)
        /\ Len(SubSeq(q, 2, Len(q))) = IF 2 <= Len(q) THEN Len(q) - 2 + 1 ELSE 0
        /\ \A i \in 1 .. Len(q) - 2 + 1 : SubSeq(q, 2, Len(q))[i] = q[2 + i - 1]
    BY <2>1, <2>2, SubSeqProperties
  <2>4. Len(SubSeq(q, 2, Len(q))) = Len(q) - 1
    <3>1. \A n \in Nat : n > 0 => (IF 2 <= n THEN n - 2 + 1 ELSE 0) = n - 1
      OBVIOUS
    <3> QED BY <2>1, <2>3, <3>1
  <2>5. ASSUME NEW i \in 1 .. Len(q) - 1
        PROVE  SubSeq(q, 2, Len(q))[i] = q[i + 1]
    <3>1. i \in 1 .. Len(q) - 2 + 1 /\ 2 + i - 1 = i + 1
      BY <2>1
    <3>2. SubSeq(q, 2, Len(q))[i] = q[2 + i - 1]
      BY <2>3, <3>1
    <3> QED BY <3>1, <3>2
  <2> QED BY <2>3, <2>4, <2>5
<1> QED BY <1>1, <1>2

\* A release finds an empty queue and frees the slot, or finds no free slot and
\* hands the slot to the head of the queue.
LEMMA ReleaseCases ==
    ASSUME IndInv, NEW s \in Semaphores, Holders(s) # {}
    PROVE  /\ available[s] \in Nat /\ waiters[s] \in Seq(Requests)
           /\ \/ /\ waiters[s] = <<>> /\ Len(waiters[s]) = 0
                 /\ Free(s) = available[s] + 1
                 /\ Woken(s, Free(s)) = 0 /\ WokenBy(s) = {}
              \/ /\ waiters[s] # <<>> /\ Len(waiters[s]) > 0
                 /\ available[s] = 0 /\ Free(s) = 1
                 /\ Woken(s, Free(s)) = 1 /\ WokenBy(s) = {waiters[s][1]}
<1>1. available[s] \in Nat /\ waiters[s] \in Seq(Requests)
  BY DEF IndInv, TypeOK
<1>2. PICK h : h \in Holders(s)
  OBVIOUS
<1>3. Cardinality(Holders(s)) > 0 /\ Cardinality(Holders(s)) \in Nat
  BY <1>2, HoldersFinite, CardinalityMoves
<1>4. available[s] < Capacity(s) /\ Capacity(s) \in Nat
  BY <1>1, <1>3, CapacityType DEF IndInv, SlotsConserved
<1>5. Free(s) = available[s] + 1
  BY <1>4 DEF Free
<1>6. CASE waiters[s] = <<>>
  <2>1. Len(waiters[s]) = 0
    BY <1>6
  <2>2. Woken(s, Free(s)) = 0
    BY <2>1, <1>5, <1>1 DEF Woken
  <2>3. WokenBy(s) = {}
    BY <2>2 DEF WokenBy
  <2> QED BY <1>1, <1>5, <1>6, <2>1, <2>2, <2>3
<1>7. CASE waiters[s] # <<>>
  <2>1. Len(waiters[s]) \in Nat /\ Len(waiters[s]) > 0
    BY <1>1, <1>7
  <2>2. available[s] = 0
    BY <1>1, <1>7 DEF IndInv, NoOvertaking
  <2>3. Woken(s, Free(s)) = 1
    <3>1. Free(s) = 1
      BY <2>2, <1>5
    <3>2. 1 < Len(waiters[s]) \/ Len(waiters[s]) = 1
      BY <2>1, OneOrMore
    <3>3. CASE 1 < Len(waiters[s])
      BY <3>1, <3>3 DEF Woken
    <3>4. CASE Len(waiters[s]) = 1
      BY <3>1, <3>4 DEF Woken
    <3> QED BY <3>2, <3>3, <3>4
  <2>4. WokenBy(s) = {waiters[s][1]}
    <3>1. 1 .. 1 = {1}
      OBVIOUS
    <3> QED BY <2>3, <3>1 DEF WokenBy
  <2> QED BY <1>1, <1>5, <1>7, <2>1, <2>2, <2>3, <2>4
<1> QED BY <1>6, <1>7

\* Who is woken was waiting for that very semaphore.
LEMMA WokenAwaits ==
    ASSUME IndInv, NEW s \in Semaphores, Holders(s) # {}
    PROVE  \A x \in WokenBy(s) : x \in Requests /\ Awaits(x, s)
<1>1. CASE waiters[s] = <<>>
  BY <1>1, ReleaseCases
<1>2. CASE waiters[s] # <<>>
  <2>1. WokenBy(s) = {waiters[s][1]} /\ 1 \in 1 .. Len(waiters[s])
        /\ waiters[s] \in Seq(Requests)
    BY <1>2, ReleaseCases
  <2> QED BY <2>1 DEF IndInv, QueuesExact
<1> QED BY <1>1, <1>2

\* What a release does to the holders and to the waiters of each semaphore.
LEMMA ReleaseEffects ==
    ASSUME IndInv, NEW r \in Requests,
           pc[r] \in {"active", "lateWallet", "lateGlobal"},
           NEW S, S = {s \in Semaphores : r \in Holders(s)},
           pc' = Moved(r, "none", S), key' = key,
           NEW s \in Semaphores
    PROVE  /\ s \notin S => Holders(s)' = Holders(s)
           /\ s \in S => Holders(s)' = (Holders(s) \ {r}) \cup WokenBy(s)
           /\ \A x \in Requests :
                Awaits(x, s)' <=> Awaits(x, s) /\ ~(s \in S /\ x \in WokenBy(s))
<1>1. \A z \in S : \A x \in WokenBy(z) : x \in Requests /\ Awaits(x, z)
  BY WokenAwaits
<1>2. pc \in [Requests -> PCs] /\ key \in [Requests -> Keys]
  BY DEF IndInv, TypeOK
<1>3. \A x \in Requests : pc'[x] =
         IF x = r THEN "none"
         ELSE IF "global" \in S /\ x \in WokenBy("global") THEN "hasGlobal"
         ELSE IF \E z \in S \ {"global"} : x \in WokenBy(z) THEN "hasWallet"
         ELSE pc[x]
  BY DEF Moved
<1>4. S \subseteq Semaphores /\ "global" \notin Keys
  BY GlobalAssumption
<1>5. ASSUME NEW x \in Requests
      PROVE  /\ x = r => ~Awaits(x, s) /\ pc'[x] = "none"
             /\ x # r /\ (\A z \in S : x \notin WokenBy(z)) => pc'[x] = pc[x]
             /\ x # r /\ "global" \in S /\ x \in WokenBy("global")
                  => pc[x] = "atGlobal" /\ pc'[x] = "hasGlobal"
             /\ \A z \in S \ {"global"} : x # r /\ x \in WokenBy(z)
                  => pc[x] = "atWallet" /\ key[x] = z /\ pc'[x] = "hasWallet"
  <2>1. x = r => ~Awaits(x, s) /\ pc'[x] = "none"
    BY <1>3 DEF Awaits
  <2>2. x # r /\ (\A z \in S : x \notin WokenBy(z)) => pc'[x] = pc[x]
    BY <1>3
  <2>3. x # r /\ "global" \in S /\ x \in WokenBy("global")
                  => pc[x] = "atGlobal" /\ pc'[x] = "hasGlobal"
    BY <1>1, <1>3 DEF Awaits
  <2>4. ASSUME NEW z \in S \ {"global"}, x # r, x \in WokenBy(z)
        PROVE  pc[x] = "atWallet" /\ key[x] = z /\ pc'[x] = "hasWallet"
    <3>1. pc[x] = "atWallet" /\ key[x] = z
      BY <1>1, <2>4 DEF Awaits
    <3>2. ~("global" \in S /\ x \in WokenBy("global"))
      BY <1>1, <3>1 DEF Awaits
    <3> QED BY <1>3, <2>4, <3>1, <3>2
  <2> QED BY <2>1, <2>2, <2>3, <2>4
<1>6. r \notin WokenBy(s) \/ s \notin S
  BY <1>1 DEF Awaits
<1>7. \A x \in Requests :
         Awaits(x, s)' <=> Awaits(x, s) /\ ~(s \in S /\ x \in WokenBy(s))
  <2> SUFFICES ASSUME NEW x \in Requests
               PROVE  Awaits(x, s)' <=> Awaits(x, s) /\ ~(s \in S /\ x \in WokenBy(s))
    OBVIOUS
  <2>1. CASE x = r
    BY <1>5, <2>1 DEF Awaits
  <2>2. CASE x # r /\ \A z \in S : x \notin WokenBy(z)
    BY <1>5, <2>2 DEF Awaits
  <2>3. CASE x # r /\ "global" \in S /\ x \in WokenBy("global")
    BY <1>5, <2>3 DEF Awaits
  <2>4. ASSUME NEW z \in S \ {"global"}, x # r, x \in WokenBy(z)
        PROVE  Awaits(x, s)' <=> Awaits(x, s) /\ ~(s \in S /\ x \in WokenBy(s))
    <3>1. pc[x] = "atWallet" /\ key[x] = z /\ pc'[x] = "hasWallet"
      BY <1>5, <2>4
    <3> QED BY <3>1, <2>4 DEF Awaits
  <2> QED BY <2>1, <2>2, <2>3, <2>4
<1> DEFINE JoinOrStay(x) == (x \in Holders(s) /\ ~(s \in S /\ x = r))
                            \/ (s \in S /\ x \in WokenBy(s))
<1>8. \A x \in Requests : x \in Holders(s)' <=> JoinOrStay(x)
  <2> SUFFICES ASSUME NEW x \in Requests
               PROVE  x \in Holders(s)' <=> JoinOrStay(x)
    OBVIOUS
  <2>1. CASE x = r
    <3>1. x \notin Holders(s)'
      BY <1>5, <2>1 DEF Holders
    <3>2. x \in Holders(s) => s \in S
      BY <2>1
    <3> QED BY <1>6, <2>1, <3>1, <3>2
  <2>2. CASE x # r /\ \A z \in S : x \notin WokenBy(z)
    <3>1. pc'[x] = pc[x]
      BY <1>5, <2>2
    <3>2. x \in Holders(s)' <=> x \in Holders(s)
      BY <3>1 DEF Holders
    <3> QED BY <2>2, <3>2
  <2>3. CASE x # r /\ "global" \in S /\ x \in WokenBy("global")
    <3>1. pc[x] = "atGlobal" /\ pc'[x] = "hasGlobal"
      BY <1>5, <2>3
    <3>2. CASE s = "global"
      BY <3>1, <3>2, <2>3 DEF Holders
    <3>3. CASE s # "global"
      <4>1. ~(s \in S /\ x \in WokenBy(s))
        BY <1>1, <3>1, <3>3 DEF Awaits
      <4>2. x \in Holders(s)' <=> x \in Holders(s)
        BY <3>1, <3>3 DEF Holders
      <4> QED BY <2>3, <4>1, <4>2
    <3> QED BY <3>2, <3>3
  <2>4. ASSUME NEW z \in S \ {"global"}, x # r, x \in WokenBy(z)
        PROVE  x \in Holders(s)' <=> JoinOrStay(x)
    <3>1. pc[x] = "atWallet" /\ key[x] = z /\ pc'[x] = "hasWallet"
      BY <1>5, <2>4
    <3>2. x \in Holders(s)' <=> s = z
      BY <3>1, <2>4 DEF Holders
    <3>3. x \notin Holders(s)
      BY <3>1 DEF Holders
    <3>4. s \in S /\ x \in WokenBy(s) <=> s = z
      BY <1>1, <3>1, <2>4 DEF Awaits
    <3> QED BY <3>2, <3>3, <3>4
  <2> QED BY <2>1, <2>2, <2>3, <2>4
<1>9. Holders(s) \subseteq Requests /\ Holders(s)' \subseteq Requests
      /\ (s \in S => WokenBy(s) \subseteq Requests)
  BY <1>1 DEF Holders
<1>10. s \notin S => Holders(s)' = Holders(s)
  BY <1>8, <1>9
<1>11. s \in S => Holders(s)' = (Holders(s) \ {r}) \cup WokenBy(s)
  <2> SUFFICES ASSUME s \in S PROVE Holders(s)' = (Holders(s) \ {r}) \cup WokenBy(s)
    OBVIOUS
  <2>1. r \notin WokenBy(s)
    BY <1>6
  <2> QED BY <1>8, <1>9, <2>1
<1> QED BY <1>7, <1>10, <1>11

\* What each semaphore looks like after a release.
LEMMA ReleasedQueue ==
    ASSUME IndInv, NEW S, NEW s \in Semaphores, s \in S, Holders(s) # {}, Release(S)
    PROVE  \/ /\ waiters[s] = <<>> /\ waiters'[s] = <<>>
              /\ available'[s] = available[s] + 1 /\ WokenBy(s) = {}
           \/ /\ waiters[s] # <<>> /\ available[s] = 0 /\ available'[s] = 0
              /\ waiters'[s] \in Seq(Requests)
              /\ Len(waiters'[s]) = Len(waiters[s]) - 1
              /\ \A i \in 1 .. Len(waiters[s]) - 1 : waiters'[s][i] = waiters[s][i + 1]
              /\ WokenBy(s) = {waiters[s][1]}
<1>1. /\ available'[s] = Free(s) - Woken(s, Free(s))
      /\ waiters'[s] = SubSeq(waiters[s], Woken(s, Free(s)) + 1, Len(waiters[s]))
  BY DEF Release
<1>2. available[s] \in Nat /\ waiters[s] \in Seq(Requests)
  BY ReleaseCases
<1>3. CASE waiters[s] = <<>>
  <2>1. /\ Len(waiters[s]) = 0 /\ Free(s) = available[s] + 1
        /\ Woken(s, Free(s)) = 0 /\ WokenBy(s) = {}
    BY <1>3, ReleaseCases
  <2>2. available'[s] = available[s] + 1
    BY <1>1, <1>2, <2>1
  <2>3. waiters'[s] = SubSeq(waiters[s], 1, Len(waiters[s]))
    BY <1>1, <2>1
  <2>4. waiters'[s] = <<>>
    BY <1>2, <1>3, <2>3, SubSeqFacts
  <2> QED BY <1>3, <2>1, <2>2, <2>4
<1>4. CASE waiters[s] # <<>>
  <2>1. /\ available[s] = 0 /\ Free(s) = 1
        /\ Woken(s, Free(s)) = 1 /\ WokenBy(s) = {waiters[s][1]}
    BY <1>4, ReleaseCases
  <2>2. available'[s] = 0
    BY <1>1, <2>1
  <2>3. waiters'[s] = SubSeq(waiters[s], 2, Len(waiters[s]))
    BY <1>1, <2>1
  <2>4. /\ waiters'[s] \in Seq(Requests)
        /\ Len(waiters'[s]) = Len(waiters[s]) - 1
        /\ \A i \in 1 .. Len(waiters[s]) - 1 : waiters'[s][i] = waiters[s][i + 1]
    BY <1>2, <1>4, <2>3, SubSeqFacts
  <2> QED BY <1>4, <2>1, <2>2, <2>4
<1> QED BY <1>3, <1>4

\* A queue that lost its head, which is the one who stopped waiting, is exact.
LEMMA PoppedQueue ==
    ASSUME NEW R, NEW q \in Seq(R), q # <<>>, NEW p \in Seq(R),
           Len(p) = Len(q) - 1, \A i \in 1 .. Len(q) - 1 : p[i] = q[i + 1],
           \A i, j \in 1 .. Len(q) : q[i] = q[j] => i = j
    PROVE  /\ \A i, j \in 1 .. Len(p) : p[i] = p[j] => i = j
           /\ \A x : (\E i \in 1 .. Len(p) : p[i] = x)
                     <=> (\E i \in 1 .. Len(q) : q[i] = x) /\ x # q[1]
<1>1. Len(q) \in Nat /\ Len(q) > 0
  OBVIOUS
<1> DEFINE n == Len(q)
<1>2. n \in Nat /\ n > 0 /\ Len(p) = n - 1
  BY <1>1
<1>3. /\ \A i \in 1 .. n - 1 : p[i] = q[i + 1]
      /\ \A i, j \in 1 .. n : q[i] = q[j] => i = j
  OBVIOUS
<1> HIDE DEF n
<1>4. \A i, j \in 1 .. n - 1 : p[i] = p[j] => i = j
  <2> SUFFICES ASSUME NEW i \in 1 .. n - 1, NEW j \in 1 .. n - 1, p[i] = p[j]
               PROVE  i = j
    OBVIOUS
  <2>1. i + 1 \in 1 .. n /\ j + 1 \in 1 .. n
    BY <1>2
  <2>2. q[i + 1] = q[j + 1]
    BY <1>3
  <2> QED BY <1>3, <2>1, <2>2
<1>5. ASSUME NEW x, NEW i \in 1 .. n - 1, p[i] = x
      PROVE  (\E k \in 1 .. n : q[k] = x) /\ x # q[1]
  <2>1. i + 1 \in 1 .. n /\ 1 \in 1 .. n /\ i + 1 # 1
    BY <1>2
  <2> QED BY <1>3, <1>5, <2>1
<1>6. ASSUME NEW x, NEW i \in 1 .. n, q[i] = x, x # q[1]
      PROVE  \E k \in 1 .. n - 1 : p[k] = x
  <2>1. i # 1
    BY <1>6
  <2>2. i - 1 \in 1 .. n - 1 /\ (i - 1) + 1 = i
    BY <1>2, <2>1
  <2> QED BY <1>3, <1>6, <2>2
<1> QED BY <1>2, <1>4, <1>5, <1>6 DEF n

\* Leave and GiveUp: the slots of a request that ends go to the heads of their
\* queues or become free.
LEMMA ReleasePreserves ==
    ASSUME IndInv, NEW r \in Requests,
           pc[r] \in {"active", "lateWallet", "lateGlobal"},
           NEW S, S = {s \in Semaphores : r \in Holders(s)},
           Release(S), pc' = Moved(r, "none", S), key' = key
    PROVE  /\ pc' \in [Requests -> PCs] /\ key' \in [Requests -> Keys]
           /\ available' \in [Semaphores -> Nat]
           /\ waiters' \in [Semaphores -> Seq(Requests)]
           /\ QueuesExact' /\ NoOvertaking' /\ SlotsConserved'
<1>1. pc' \in [Requests -> PCs] /\ key' \in [Requests -> Keys]
  BY DEF IndInv, TypeOK, Moved, PCs
<1>2. S \subseteq Semaphores /\ \A s \in S : Holders(s) # {} /\ r \in Holders(s)
  OBVIOUS
<1>3. ASSUME NEW s \in Semaphores, s \notin S
      PROVE  available'[s] = available[s] /\ waiters'[s] = waiters[s]
  BY <1>3 DEF Release
<1>4. ASSUME NEW s \in Semaphores
      PROVE  /\ available'[s] \in Nat /\ waiters'[s] \in Seq(Requests)
             /\ available'[s] > 0 => waiters'[s] = <<>>
  <2>1. available[s] \in Nat /\ waiters[s] \in Seq(Requests)
        /\ (available[s] > 0 => waiters[s] = <<>>)
    BY DEF IndInv, TypeOK, NoOvertaking
  <2>2. CASE s \notin S
    BY <1>3, <2>1, <2>2
  <2>3. CASE s \in S /\ waiters[s] = <<>>
    <3>1. waiters'[s] = <<>> /\ available'[s] = available[s] + 1
      BY <1>2, <2>3, ReleasedQueue
    <3> QED BY <2>1, <3>1
  <2>4. CASE s \in S /\ waiters[s] # <<>>
    <3>1. waiters'[s] \in Seq(Requests) /\ available'[s] = 0
      BY <1>2, <2>4, ReleasedQueue
    <3> QED BY <3>1
  <2> QED BY <2>2, <2>3, <2>4
<1>5. available' \in [Semaphores -> Nat] /\ waiters' \in [Semaphores -> Seq(Requests)]
  BY <1>4 DEF Release
<1>6. NoOvertaking'
  BY <1>4 DEF NoOvertaking
<1>7. ASSUME NEW s \in Semaphores
      PROVE  available'[s] + Cardinality(Holders(s)') = Capacity(s)
  <2>1. /\ available[s] \in Nat /\ waiters[s] \in Seq(Requests)
        /\ available[s] + Cardinality(Holders(s)) = Capacity(s)
        /\ IsFiniteSet(Holders(s)) /\ Cardinality(Holders(s)) \in Nat
    BY HoldersFinite DEF IndInv, TypeOK, SlotsConserved
  <2>2. /\ s \notin S => Holders(s)' = Holders(s)
        /\ s \in S => Holders(s)' = (Holders(s) \ {r}) \cup WokenBy(s)
    BY ReleaseEffects
  <2>3. CASE s \notin S
    BY <1>3, <2>1, <2>2, <2>3
  <2>4. CASE s \in S /\ waiters[s] = <<>>
    <3>1. WokenBy(s) = {} /\ available'[s] = available[s] + 1
      BY <1>2, <2>4, ReleasedQueue
    <3>2. Holders(s)' = Holders(s) \ {r} /\ r \in Holders(s)
      BY <1>2, <2>2, <2>4, <3>1
    <3>3. Cardinality(Holders(s) \ {r}) = Cardinality(Holders(s)) - 1
      BY <2>1, <3>2, CardinalityMoves
    <3> QED BY <2>1, <3>1, <3>2, <3>3, CapacityType
  <2>5. CASE s \in S /\ waiters[s] # <<>>
    <3>1. WokenBy(s) = {waiters[s][1]} /\ available'[s] = 0 /\ available[s] = 0
      BY <1>2, <2>5, ReleasedQueue
    <3>2. Holders(s)' = (Holders(s) \ {r}) \cup {waiters[s][1]} /\ r \in Holders(s)
      BY <1>2, <2>2, <2>5, <3>1
    <3>3. waiters[s][1] \notin Holders(s)
      <4>1. Awaits(waiters[s][1], s)
        BY <1>2, <2>5, <3>1, WokenAwaits
      <4> QED BY <4>1 DEF Awaits, Holders
    <3>4. Cardinality((Holders(s) \ {r}) \cup {waiters[s][1]}) = Cardinality(Holders(s))
      BY <2>1, <3>2, <3>3, CardinalityMoves
    <3> QED BY <2>1, <3>1, <3>2, <3>4
  <2> QED BY <2>3, <2>4, <2>5
<1>8. SlotsConserved'
  BY <1>7 DEF SlotsConserved, Semaphores, Capacity
<1>9. ASSUME NEW s \in Semaphores
      PROVE  /\ \A i, j \in 1 .. Len(waiters'[s]) : waiters'[s][i] = waiters'[s][j] => i = j
             /\ \A x \in Requests : Awaits(x, s)' <=>
                  \E i \in 1 .. Len(waiters'[s]) : waiters'[s][i] = x
  <2>1. /\ waiters[s] \in Seq(Requests)
        /\ \A i, j \in 1 .. Len(waiters[s]) : waiters[s][i] = waiters[s][j] => i = j
        /\ \A x \in Requests : Awaits(x, s) <=>
             \E i \in 1 .. Len(waiters[s]) : waiters[s][i] = x
    BY DEF IndInv, TypeOK, QueuesExact
  <2>2. \A x \in Requests :
           Awaits(x, s)' <=> Awaits(x, s) /\ ~(s \in S /\ x \in WokenBy(s))
    BY ReleaseEffects
  <2>3. CASE s \notin S
    BY <1>3, <2>1, <2>2, <2>3
  <2>4. CASE s \in S /\ waiters[s] = <<>>
    <3>1. WokenBy(s) = {} /\ waiters'[s] = waiters[s]
      BY <1>2, <2>4, ReleasedQueue
    <3> QED BY <2>1, <2>2, <3>1
  <2>5. CASE s \in S /\ waiters[s] # <<>>
    <3>1. /\ WokenBy(s) = {waiters[s][1]} /\ waiters'[s] \in Seq(Requests)
          /\ Len(waiters'[s]) = Len(waiters[s]) - 1
          /\ \A i \in 1 .. Len(waiters[s]) - 1 : waiters'[s][i] = waiters[s][i + 1]
      BY <1>2, <2>5, ReleasedQueue
    <3>2. /\ \A i, j \in 1 .. Len(waiters'[s]) : waiters'[s][i] = waiters'[s][j] => i = j
          /\ \A x : (\E i \in 1 .. Len(waiters'[s]) : waiters'[s][i] = x)
                <=> (\E i \in 1 .. Len(waiters[s]) : waiters[s][i] = x) /\ x # waiters[s][1]
      <4> DEFINE q == waiters[s]
                 p == waiters'[s]
      <4>1. /\ q \in Seq(Requests) /\ q # <<>> /\ p \in Seq(Requests)
            /\ Len(p) = Len(q) - 1 /\ \A i \in 1 .. Len(q) - 1 : p[i] = q[i + 1]
            /\ \A i, j \in 1 .. Len(q) : q[i] = q[j] => i = j
        BY <2>1, <2>5, <3>1
      <4> HIDE DEF q, p
      <4>2. /\ \A i, j \in 1 .. Len(p) : p[i] = p[j] => i = j
            /\ \A x : (\E i \in 1 .. Len(p) : p[i] = x)
                      <=> (\E i \in 1 .. Len(q) : q[i] = x) /\ x # q[1]
        BY <4>1, PoppedQueue
      <4> QED BY <4>2 DEF q, p
    <3> QED BY <2>1, <2>2, <2>5, <3>1, <3>2
  <2> QED BY <2>3, <2>4, <2>5
<1>10. QueuesExact'
  <2>1. ASSUME NEW s \in Semaphores, NEW i \in 1 .. Len(waiters'[s])
        PROVE  waiters'[s][i] \in Requests
    BY <1>4, ElementOfSeq
  <2> QED BY <1>9, <2>1 DEF QueuesExact, Semaphores
<1> QED BY <1>1, <1>5, <1>6, <1>8, <1>10

\* A queue with a newcomer at its end.
LEMMA JoinedQueue ==
    ASSUME NEW R, NEW q \in Seq(R), NEW r \in R,
           \A i, j \in 1 .. Len(q) : q[i] = q[j] => i = j,
           \A i \in 1 .. Len(q) : q[i] # r
    PROVE  /\ Append(q, r) \in Seq(R)
           /\ \A i, j \in 1 .. Len(Append(q, r)) :
                Append(q, r)[i] = Append(q, r)[j] => i = j
           /\ \A x : (\E i \in 1 .. Len(Append(q, r)) : Append(q, r)[i] = x)
                     <=> (\E i \in 1 .. Len(q) : q[i] = x) \/ x = r
<1> DEFINE n == Len(q)
           p == Append(q, r)
<1>1. /\ n \in Nat /\ p \in Seq(R) /\ Len(p) = n + 1 /\ p[n + 1] = r
      /\ \A i \in 1 .. n : p[i] = q[i]
      /\ \A i, j \in 1 .. n : q[i] = q[j] => i = j
      /\ \A i \in 1 .. n : q[i] # r
  OBVIOUS
<1> HIDE DEF n, p
<1>2. \A i \in 1 .. n + 1 : i \in 1 .. n \/ i = n + 1
  BY <1>1
<1>3. n + 1 \in 1 .. n + 1 /\ \A i \in 1 .. n : i \in 1 .. n + 1
  BY <1>1
<1>4. \A i, j \in 1 .. n + 1 : p[i] = p[j] => i = j
  <2> TAKE i, j \in 1 .. n + 1
  <2> QED BY <1>1, <1>2
<1>5. ASSUME NEW x
      PROVE  (\E i \in 1 .. n + 1 : p[i] = x) <=> (\E i \in 1 .. n : q[i] = x) \/ x = r
  <2>1. ASSUME NEW i \in 1 .. n + 1, p[i] = x
        PROVE  (\E k \in 1 .. n : q[k] = x) \/ x = r
    BY <1>1, <1>2, <2>1
  <2>2. ASSUME NEW i \in 1 .. n, q[i] = x PROVE \E k \in 1 .. n + 1 : p[k] = x
    BY <1>1, <1>3, <2>2
  <2>3. x = r => \E k \in 1 .. n + 1 : p[k] = x
    BY <1>1, <1>3
  <2> QED BY <2>1, <2>2, <2>3
<1> QED BY <1>1, <1>4, <1>5 DEF n, p

\* A queue without one of its entries.
LEMMA LeftQueue ==
    ASSUME NEW R, NEW q \in Seq(R), NEW k \in 1 .. Len(q),
           \A i, j \in 1 .. Len(q) : q[i] = q[j] => i = j
    PROVE  /\ Without(q, k) \in Seq(R)
           /\ \A i, j \in 1 .. Len(Without(q, k)) :
                Without(q, k)[i] = Without(q, k)[j] => i = j
           /\ \A x : (\E i \in 1 .. Len(Without(q, k)) : Without(q, k)[i] = x)
                     <=> (\E i \in 1 .. Len(q) : q[i] = x) /\ x # q[k]
<1> DEFINE n == Len(q)
           p == Without(q, k)
<1>1. /\ n \in Nat /\ k \in 1 .. n /\ \A i \in 1 .. n : q[i] \in R
      /\ \A i, j \in 1 .. n : q[i] = q[j] => i = j
  BY LenProperties, ElementOfSeq
<1>2. p = [j \in 1 .. n - 1 |-> IF j < k THEN q[j] ELSE q[j + 1]]
  BY DEF Without
<1> HIDE DEF n, p
<1>3. n - 1 \in Nat /\ \A j \in 1 .. n - 1 : j \in 1 .. n /\ j + 1 \in 1 .. n
  BY <1>1
<1>4. \A j \in 1 .. n - 1 : p[j] = IF j < k THEN q[j] ELSE q[j + 1]
  BY <1>2
<1>5. p \in [1 .. n - 1 -> R]
  BY <1>1, <1>2, <1>3
<1>6. p \in Seq(R) /\ Len(p) = n - 1
  <2>1. p \in Seq(R)
    BY <1>3, <1>5, SeqDef
  <2>2. DOMAIN p = 1 .. n - 1 /\ DOMAIN p = 1 .. Len(p) /\ Len(p) \in Nat
    BY <1>5, <2>1, LenProperties
  <2> QED BY <1>3, <2>1, <2>2
<1>7. \A i, j \in 1 .. n - 1 : p[i] = p[j] => i = j
  <2> SUFFICES ASSUME NEW i \in 1 .. n - 1, NEW j \in 1 .. n - 1, p[i] = p[j]
               PROVE  i = j
    OBVIOUS
  <2>1. (IF i < k THEN i ELSE i + 1) \in 1 .. n /\ (IF j < k THEN j ELSE j + 1) \in 1 .. n
    BY <1>3
  <2>2. p[i] = q[IF i < k THEN i ELSE i + 1] /\ p[j] = q[IF j < k THEN j ELSE j + 1]
    BY <1>4
  <2>3. (IF i < k THEN i ELSE i + 1) = (IF j < k THEN j ELSE j + 1)
    BY <1>1, <2>1, <2>2
  <2> QED BY <1>1, <2>3
<1>8. ASSUME NEW x, NEW i \in 1 .. n - 1, p[i] = x
      PROVE  (\E j \in 1 .. n : q[j] = x) /\ x # q[k]
  <2>1. PICK j \in 1 .. n : j = IF i < k THEN i ELSE i + 1
    BY <1>3
  <2>2. j # k /\ p[i] = q[j]
    BY <1>1, <1>4, <2>1
  <2> QED BY <1>1, <1>8, <2>2
<1>9. ASSUME NEW x, NEW i \in 1 .. n, q[i] = x, x # q[k]
      PROVE  \E j \in 1 .. n - 1 : p[j] = x
  <2>1. i # k
    BY <1>9
  <2>2. CASE i < k
    <3>1. i \in 1 .. n - 1
      BY <1>1, <2>2
    <3> QED BY <1>4, <1>9, <2>2, <3>1
  <2>3. CASE i > k
    <3>1. i - 1 \in 1 .. n - 1 /\ ~(i - 1 < k) /\ (i - 1) + 1 = i
      BY <1>1, <2>3
    <3> QED BY <1>4, <1>9, <3>1
  <2> QED BY <1>1, <2>1, <2>2, <2>3
<1> QED BY <1>6, <1>7, <1>8, <1>9 DEF n, p

\* QueuesExact, put as one equivalence per queue.
LEMMA QueuesExactIff ==
    ASSUME TypeOK
    PROVE  QueuesExact <=> \A s \in Semaphores :
             /\ \A i, j \in 1 .. Len(waiters[s]) : waiters[s][i] = waiters[s][j] => i = j
             /\ \A x \in Requests : Awaits(x, s) <=>
                  \E i \in 1 .. Len(waiters[s]) : waiters[s][i] = x
<1>1. \A s \in Semaphores : \A i \in 1 .. Len(waiters[s]) : waiters[s][i] \in Requests
  BY ElementOfSeq DEF TypeOK
<1> QED BY <1>1 DEF QueuesExact

\* Arrive and AcquireGlobal: a free slot gets a holder, or a queue a waiter.
LEMMA AcquirePreserves ==
    ASSUME IndInv, NEW r \in Requests, NEW s0 \in Semaphores,
           NEW has \in PCs, NEW at \in PCs, Acquire(r, s0, has, at),
           key' \in [Requests -> Keys], queued' \in Nat, active' \in Nat,
           r \notin Holders(s0), ~Awaits(r, s0),
           \A s \in Semaphores : Holders(s)' =
             IF s = s0 /\ available[s0] > 0 THEN Holders(s) \cup {r} ELSE Holders(s),
           \A s \in Semaphores : \A x \in Requests : Awaits(x, s)' <=>
             Awaits(x, s) \/ (x = r /\ s = s0 /\ ~(available[s0] > 0))
    PROVE  IndInv'
<1>1. TypeOK /\ QueuesExact /\ NoOvertaking /\ SlotsConserved
  BY DEF IndInv
<1>2. ASSUME NEW s \in Semaphores
      PROVE  /\ available[s] \in Nat /\ waiters[s] \in Seq(Requests)
             /\ available[s] > 0 => waiters[s] = <<>>
             /\ \A i, j \in 1 .. Len(waiters[s]) : waiters[s][i] = waiters[s][j] => i = j
             /\ \A x \in Requests : Awaits(x, s) <=>
                  \E i \in 1 .. Len(waiters[s]) : waiters[s][i] = x
             /\ available[s] + Cardinality(Holders(s)) = Capacity(s)
             /\ IsFiniteSet(Holders(s)) /\ Cardinality(Holders(s)) \in Nat
  BY <1>1, QueuesExactIff, HoldersFinite DEF TypeOK, NoOvertaking, SlotsConserved
<1>3. pc' \in [Requests -> PCs]
  BY <1>1 DEF TypeOK, Acquire
<1>4. CASE available[s0] > 0
  <2>1. /\ waiters' = waiters
        /\ available' = [available EXCEPT ![s0] = @ - 1]
    BY <1>1, <1>4 DEF Acquire, TypeOK
  <2>2. available' \in [Semaphores -> Nat] /\ waiters' \in [Semaphores -> Seq(Requests)]
    BY <1>1, <1>2, <1>4, <2>1 DEF TypeOK
  <2>3. TypeOK'
    BY <1>3, <2>2 DEF TypeOK, Semaphores, PCs
  <2>4. NoOvertaking'
    BY <1>1, <1>4, <2>1 DEF NoOvertaking, TypeOK, Semaphores
  <2>5. \A s \in Semaphores :
             /\ \A i, j \in 1 .. Len(waiters'[s]) : waiters'[s][i] = waiters'[s][j] => i = j
             /\ \A x \in Requests : Awaits(x, s)' <=>
                  \E i \in 1 .. Len(waiters'[s]) : waiters'[s][i] = x
    BY <1>2, <1>4, <2>1
  <2>6. QueuesExact'
    <3>1. \A s \in Semaphores : \A i \in 1 .. Len(waiters'[s]) : waiters'[s][i] \in Requests
      BY <2>2, ElementOfSeq
    <3> QED BY <2>5, <3>1 DEF QueuesExact, Semaphores
  <2>7. ASSUME NEW s \in Semaphores
        PROVE  available'[s] + Cardinality(Holders(s)') = Capacity(s)
    <3>1. CASE s = s0
      <4>1. Holders(s)' = Holders(s) \cup {r} /\ available'[s] = available[s] - 1
        BY <1>1, <1>4, <2>1, <3>1 DEF TypeOK
      <4>2. Cardinality(Holders(s) \cup {r}) = Cardinality(Holders(s)) + 1
        BY <1>2, <3>1, CardinalityMoves
      <4>3. /\ available[s] \in Nat /\ Cardinality(Holders(s)) \in Nat
            /\ available[s] + Cardinality(Holders(s)) = Capacity(s)
        BY <1>2
      <4>4. (available[s] - 1) + (Cardinality(Holders(s)) + 1) = Capacity(s)
        BY <4>3
      <4> QED BY <4>1, <4>2, <4>4, Zenon
    <3>2. CASE s # s0
      <4>1. Holders(s)' = Holders(s) /\ available'[s] = available[s]
        BY <1>1, <2>1, <3>2 DEF TypeOK
      <4> QED BY <1>2, <4>1
    <3> QED BY <3>1, <3>2
  <2>8. SlotsConserved'
    BY <2>7 DEF SlotsConserved, Semaphores, Capacity
  <2> QED BY <2>3, <2>4, <2>6, <2>8 DEF IndInv
<1>5. CASE ~(available[s0] > 0)
  <2>1. /\ waiters' = [waiters EXCEPT ![s0] = Append(@, r)]
        /\ available' = available
    BY <1>1, <1>5 DEF Acquire, TypeOK
  <2>2. waiters' \in [Semaphores -> Seq(Requests)]
    BY <1>1, <2>1 DEF TypeOK
  <2>3. TypeOK'
    BY <1>1, <1>3, <2>1, <2>2 DEF TypeOK, Semaphores, PCs
  <2>4. NoOvertaking'
    BY <1>1, <1>5, <2>1 DEF NoOvertaking, TypeOK, Semaphores
  <2>5. ASSUME NEW s \in Semaphores
        PROVE  /\ \A i, j \in 1 .. Len(waiters'[s]) : waiters'[s][i] = waiters'[s][j] => i = j
               /\ \A x \in Requests : Awaits(x, s)' <=>
                    \E i \in 1 .. Len(waiters'[s]) : waiters'[s][i] = x
    <3>1. CASE s = s0
      <4>1. waiters'[s] = Append(waiters[s], r)
        BY <1>1, <2>1, <3>1 DEF TypeOK
      <4>2. \A i \in 1 .. Len(waiters[s]) : waiters[s][i] # r
        BY <1>2, <3>1
      <4>3. /\ \A i, j \in 1 .. Len(Append(waiters[s], r)) :
                 Append(waiters[s], r)[i] = Append(waiters[s], r)[j] => i = j
            /\ \A x : (\E i \in 1 .. Len(Append(waiters[s], r)) : Append(waiters[s], r)[i] = x)
                  <=> (\E i \in 1 .. Len(waiters[s]) : waiters[s][i] = x) \/ x = r
        <5> DEFINE q == waiters[s]
        <5>1. /\ q \in Seq(Requests) /\ \A i \in 1 .. Len(q) : q[i] # r
              /\ \A i, j \in 1 .. Len(q) : q[i] = q[j] => i = j
          BY <1>2, <4>2
        <5> HIDE DEF q
        <5>2. /\ \A i, j \in 1 .. Len(Append(q, r)) : Append(q, r)[i] = Append(q, r)[j] => i = j
              /\ \A x : (\E i \in 1 .. Len(Append(q, r)) : Append(q, r)[i] = x)
                        <=> (\E i \in 1 .. Len(q) : q[i] = x) \/ x = r
          BY <5>1, JoinedQueue
        <5> QED BY <5>2 DEF q
      <4>4. \A x \in Requests : Awaits(x, s)' <=> Awaits(x, s) \/ x = r
        BY <1>5, <3>1
      <4>5. \A x \in Requests : Awaits(x, s)' <=>
               \E i \in 1 .. Len(Append(waiters[s], r)) : Append(waiters[s], r)[i] = x
        BY <1>2, <4>3, <4>4, Zenon
      <4> QED BY <4>1, <4>3, <4>5, Zenon
    <3>2. CASE s # s0
      <4>1. waiters'[s] = waiters[s]
        BY <1>1, <2>1, <3>2 DEF TypeOK
      <4>2. \A x \in Requests : Awaits(x, s)' <=> Awaits(x, s)
        BY <3>2
      <4> QED BY <1>2, <4>1, <4>2
    <3> QED BY <3>1, <3>2
  <2>6. QueuesExact'
    <3>1. \A s \in Semaphores : \A i \in 1 .. Len(waiters'[s]) : waiters'[s][i] \in Requests
      BY <2>2, ElementOfSeq
    <3> QED BY <2>5, <3>1 DEF QueuesExact, Semaphores
  <2>7. SlotsConserved'
    <3>1. \A s \in Semaphores : Holders(s)' = Holders(s)
      BY <1>5
    <3> QED BY <1>1, <2>1, <3>1 DEF SlotsConserved, Semaphores, Capacity
  <2> QED BY <2>3, <2>4, <2>6, <2>7 DEF IndInv
<1> QED BY <1>4, <1>5

\* TimeOut: whoever gives up waiting leaves exactly its own queue entry behind.
LEMMA TimeOutPreserves ==
    ASSUME IndInv, NEW r \in Requests, TimeOut(r)
    PROVE  IndInv'
<1>1. TypeOK /\ QueuesExact /\ NoOvertaking /\ SlotsConserved
  BY DEF IndInv
<1> DEFINE s0 == AwaitedBy(r)
<1>2. s0 \in Semaphores /\ \A s \in Semaphores : Awaits(r, s) <=> s = s0
  BY <1>1, GlobalAssumption DEF AwaitedBy, Awaits, Semaphores, TimeOut, TypeOK
<1>3. PICK k \in 1 .. Len(waiters[s0]) :
         waiters[s0][k] = r /\ waiters' = [waiters EXCEPT ![s0] = Without(@, k)]
  BY DEF TimeOut
<1>4. /\ key' = key /\ available' = available /\ queued' = queued /\ active' = active
      /\ pc[r] \in {"atWallet", "atGlobal"}
      /\ pc' = [pc EXCEPT ![r] = IF @ = "atWallet" THEN "lateWallet" ELSE "lateGlobal"]
  BY DEF TimeOut
<1> HIDE DEF s0
<1>5. pc' \in [Requests -> PCs]
  BY <1>1, <1>4 DEF TypeOK, PCs
<1>6. ASSUME NEW s \in Semaphores
      PROVE  /\ waiters[s] \in Seq(Requests)
             /\ \A i, j \in 1 .. Len(waiters[s]) : waiters[s][i] = waiters[s][j] => i = j
             /\ \A x \in Requests : Awaits(x, s) <=>
                  \E i \in 1 .. Len(waiters[s]) : waiters[s][i] = x
  BY <1>1, QueuesExactIff DEF TypeOK
<1>7. /\ Without(waiters[s0], k) \in Seq(Requests)
      /\ \A i, j \in 1 .. Len(Without(waiters[s0], k)) :
           Without(waiters[s0], k)[i] = Without(waiters[s0], k)[j] => i = j
      /\ \A x : (\E i \in 1 .. Len(Without(waiters[s0], k)) : Without(waiters[s0], k)[i] = x)
            <=> (\E i \in 1 .. Len(waiters[s0]) : waiters[s0][i] = x) /\ x # waiters[s0][k]
  <2> DEFINE q == waiters[s0]
  <2>1. /\ q \in Seq(Requests) /\ k \in 1 .. Len(q)
        /\ \A i, j \in 1 .. Len(q) : q[i] = q[j] => i = j
    BY <1>2, <1>3, <1>6
  <2> HIDE DEF q
  <2>2. /\ Without(q, k) \in Seq(Requests)
        /\ \A i, j \in 1 .. Len(Without(q, k)) : Without(q, k)[i] = Without(q, k)[j] => i = j
        /\ \A x : (\E i \in 1 .. Len(Without(q, k)) : Without(q, k)[i] = x)
              <=> (\E i \in 1 .. Len(q) : q[i] = x) /\ x # q[k]
    BY <2>1, LeftQueue
  <2> QED BY <2>2 DEF q
<1>8. waiters' \in [Semaphores -> Seq(Requests)]
  BY <1>1, <1>3, <1>7 DEF TypeOK
<1>9. TypeOK'
  BY <1>1, <1>4, <1>5, <1>8 DEF TypeOK, Semaphores, PCs
<1>10. \A s \in Semaphores : \A x \in Requests : Awaits(x, s)' <=> Awaits(x, s) /\ x # r
  BY <1>1, <1>4 DEF TypeOK, Awaits
<1>11. \A s \in Semaphores : Holders(s)' = Holders(s)
  <2> TAKE s \in Semaphores
  <2>1. \A x \in Requests : x \in Holders(s)' <=> x \in Holders(s)
    BY <1>1, <1>4 DEF TypeOK, Holders
  <2>2. Holders(s)' \subseteq Requests /\ Holders(s) \subseteq Requests
    BY DEF Holders
  <2> QED BY <2>1, <2>2
<1>12. SlotsConserved'
  BY <1>1, <1>4, <1>11 DEF SlotsConserved, Semaphores, Capacity
<1>13. ASSUME NEW s \in Semaphores
       PROVE  /\ \A i, j \in 1 .. Len(waiters'[s]) : waiters'[s][i] = waiters'[s][j] => i = j
              /\ \A x \in Requests : Awaits(x, s)' <=>
                   \E i \in 1 .. Len(waiters'[s]) : waiters'[s][i] = x
  <2>1. CASE s = s0
    <3>1. waiters'[s] = Without(waiters[s0], k)
      BY <1>1, <1>2, <1>3, <2>1 DEF TypeOK
    <3>2. \A x \in Requests : Awaits(x, s)' <=>
             \E i \in 1 .. Len(Without(waiters[s0], k)) : Without(waiters[s0], k)[i] = x
      BY <1>3, <1>6, <1>7, <1>10, <2>1, Zenon
    <3> QED BY <1>7, <3>1, <3>2, Zenon
  <2>2. CASE s # s0
    <3>1. waiters'[s] = waiters[s]
      BY <1>1, <1>3, <2>2 DEF TypeOK
    <3>2. \A x \in Requests : Awaits(x, s)' <=> Awaits(x, s)
      BY <1>2, <1>10, <2>2
    <3> QED BY <1>6, <3>1, <3>2
  <2> QED BY <2>1, <2>2
<1>14. QueuesExact'
  <2>1. \A s \in Semaphores : \A i \in 1 .. Len(waiters'[s]) : waiters'[s][i] \in Requests
    BY <1>8, ElementOfSeq
  <2> QED BY <1>13, <2>1 DEF QueuesExact, Semaphores
<1>15. NoOvertaking'
  <2>1. waiters[s0] # <<>>
    BY <1>2, <1>3, <1>6
  <2>2. \A s \in Semaphores : s # s0 => waiters'[s] = waiters[s]
    BY <1>1, <1>3 DEF TypeOK
  <2> QED BY <1>1, <1>2, <1>4, <2>1, <2>2 DEF NoOvertaking, Semaphores
<1> QED BY <1>9, <1>12, <1>14, <1>15 DEF IndInv

\* Enter changes neither who holds a slot nor who waits for one.
LEMMA EnterPreserves ==
    ASSUME IndInv, NEW r \in Requests, Enter(r)
    PROVE  IndInv'
<1>1. TypeOK /\ QueuesExact /\ NoOvertaking /\ SlotsConserved
  BY DEF IndInv
<1>2. TypeOK'
  BY <1>1 DEF TypeOK, Enter, PCs, Dec, Semaphores
<1>3. \A s \in Semaphores : \A x \in Requests : Awaits(x, s)' <=> Awaits(x, s)
  BY <1>1 DEF TypeOK, Enter, Awaits
<1>4. \A s \in Semaphores : Holders(s)' = Holders(s)
  <2> TAKE s \in Semaphores
  <2>1. \A x \in Requests : x \in Holders(s)' <=> x \in Holders(s)
    BY <1>1 DEF TypeOK, Enter, Holders
  <2>2. Holders(s)' \subseteq Requests /\ Holders(s) \subseteq Requests
    BY DEF Holders
  <2> QED BY <2>1, <2>2
<1>5. waiters' = waiters /\ available' = available
  BY DEF Enter
<1>6. NoOvertaking' /\ SlotsConserved'
  BY <1>1, <1>4, <1>5 DEF NoOvertaking, SlotsConserved, Semaphores, Capacity
<1>7. QueuesExact'
  <2>1. \A s \in Semaphores : \A i \in 1 .. Len(waiters[s]) : waiters[s][i] \in Requests
    BY <1>1, ElementOfSeq DEF TypeOK
  <2> QED BY <1>1, <1>3, <1>5, <2>1 DEF QueuesExact, Semaphores
<1> QED BY <1>2, <1>6, <1>7 DEF IndInv

\* Arrive and AcquireGlobal, through AcquirePreserves.
LEMMA ArrivePreserves ==
    ASSUME IndInv, NEW r \in Requests, Arrive(r)
    PROVE  IndInv'
<1>1. TypeOK
  BY DEF IndInv
<1>2. PICK k \in Keys : key' = [key EXCEPT ![r] = k]
                        /\ Acquire(r, k, "hasWallet", "atWallet")
  BY DEF Arrive
<1>3. k \in Semaphores /\ k # "global" /\ pc[r] = "none"
  BY GlobalAssumption DEF Semaphores, Arrive
<1>4. key' \in [Requests -> Keys] /\ queued' \in Nat /\ active' \in Nat
  BY <1>1, <1>2 DEF TypeOK, Arrive
<1>5. pc' = [pc EXCEPT ![r] = IF available[k] > 0 THEN "hasWallet" ELSE "atWallet"]
  BY <1>2 DEF Acquire
<1>6. \A x \in Requests : /\ x # r => pc'[x] = pc[x] /\ key'[x] = key[x]
                          /\ key'[r] = k
                          /\ pc'[r] = IF available[k] > 0 THEN "hasWallet" ELSE "atWallet"
  BY <1>1, <1>2, <1>5 DEF TypeOK
<1>7. \A s \in Semaphores : r \notin Holders(s) /\ ~Awaits(r, s)
  BY <1>3 DEF Holders, Awaits
<1>8. \A s \in Semaphores : Holders(s)' =
         IF s = k /\ available[k] > 0 THEN Holders(s) \cup {r} ELSE Holders(s)
  <2> TAKE s \in Semaphores
  <2>1. \A x \in Requests : x \in Holders(s)' <=>
           x \in Holders(s) \/ (x = r /\ s = k /\ available[k] > 0)
    <3> TAKE x \in Requests
    <3>1. CASE x = r
      BY <1>3, <1>6, <3>1 DEF Holders
    <3>2. CASE x # r
      BY <1>6, <3>2 DEF Holders
    <3> QED BY <3>1, <3>2
  <2>2. Holders(s)' \subseteq Requests /\ Holders(s) \subseteq Requests
    BY DEF Holders
  <2> QED BY <2>1, <2>2
<1>9. \A s \in Semaphores : \A x \in Requests : Awaits(x, s)' <=>
         Awaits(x, s) \/ (x = r /\ s = k /\ ~(available[k] > 0))
  <2> TAKE s \in Semaphores
  <2> TAKE x \in Requests
  <2>1. CASE x = r
    BY <1>3, <1>6, <2>1 DEF Awaits
  <2>2. CASE x # r
    BY <1>6, <2>2 DEF Awaits
  <2> QED BY <2>1, <2>2
<1>10. "hasWallet" \in PCs /\ "atWallet" \in PCs
  BY DEF PCs
<1> QED BY <1>2, <1>3, <1>4, <1>7, <1>8, <1>9, <1>10, AcquirePreserves

\* A request that holds its wallet slot and goes on to the global semaphore.
LEMMA AcquireGlobalPreserves ==
    ASSUME IndInv, NEW r \in Requests, AcquireGlobal(r)
    PROVE  IndInv'
<1>1. TypeOK
  BY DEF IndInv
<1>2. /\ Acquire(r, "global", "hasGlobal", "atGlobal") /\ pc[r] = "hasWallet"
      /\ key' = key /\ queued' = queued /\ active' = active
  BY DEF AcquireGlobal
<1>3. "global" \in Semaphores
  BY DEF Semaphores
<1>4. key' \in [Requests -> Keys] /\ queued' \in Nat /\ active' \in Nat
  BY <1>1, <1>2 DEF TypeOK
<1>5. pc' = [pc EXCEPT ![r] = IF available["global"] > 0 THEN "hasGlobal" ELSE "atGlobal"]
  BY <1>2 DEF Acquire
<1>6. \A x \in Requests :
         /\ x # r => pc'[x] = pc[x]
         /\ pc'[r] = IF available["global"] > 0 THEN "hasGlobal" ELSE "atGlobal"
  BY <1>1, <1>5 DEF TypeOK
<1>7. r \notin Holders("global") /\ ~Awaits(r, "global")
  BY <1>2 DEF Holders, Awaits
<1>8. \A s \in Semaphores : Holders(s)' =
         IF s = "global" /\ available["global"] > 0 THEN Holders(s) \cup {r} ELSE Holders(s)
  <2> TAKE s \in Semaphores
  <2>1. \A x \in Requests : x \in Holders(s)' <=>
           x \in Holders(s) \/ (x = r /\ s = "global" /\ available["global"] > 0)
    <3> TAKE x \in Requests
    <3>1. CASE x = r
      BY <1>2, <1>6, <3>1 DEF Holders
    <3>2. CASE x # r
      BY <1>2, <1>6, <3>2 DEF Holders
    <3> QED BY <3>1, <3>2
  <2>2. Holders(s)' \subseteq Requests /\ Holders(s) \subseteq Requests
    BY DEF Holders
  <2> QED BY <2>1, <2>2
<1>9. \A s \in Semaphores : \A x \in Requests : Awaits(x, s)' <=>
         Awaits(x, s) \/ (x = r /\ s = "global" /\ ~(available["global"] > 0))
  <2> TAKE s \in Semaphores
  <2> TAKE x \in Requests
  <2>1. CASE x = r
    BY <1>2, <1>6, <2>1 DEF Awaits
  <2>2. CASE x # r
    BY <1>2, <1>6, <2>2 DEF Awaits
  <2> QED BY <2>1, <2>2
<1>10. "hasGlobal" \in PCs /\ "atGlobal" \in PCs
  BY DEF PCs
<1> QED BY <1>2, <1>3, <1>4, <1>7, <1>8, <1>9, <1>10, AcquirePreserves

\* The slots a request gives back are the ones it holds.
LEMMA EndPreserves ==
    ASSUME IndInv, NEW r \in Requests, Leave(r) \/ GiveUp(r)
    PROVE  IndInv'
<1>1. TypeOK /\ key[r] \in Keys /\ key[r] # "global" /\ key[r] \in Semaphores
      /\ "global" \in Semaphores
  BY GlobalAssumption DEF IndInv, TypeOK, Semaphores
<1> DEFINE S == {s \in Semaphores : r \in Holders(s)}
<1>2. CASE Leave(r)
  <2>1. S = {"global", key[r]}
    BY <1>1, <1>2 DEF Leave, Holders
  <2>2. /\ Release(S) /\ pc' = Moved(r, "none", S) /\ key' = key
        /\ pc[r] = "active" /\ queued' = queued /\ active' = Dec(active)
    BY <1>2, <2>1 DEF Leave
  <2> HIDE DEF S
  <2>3. queued' \in Nat /\ active' \in Nat
    BY <1>1, <2>2 DEF TypeOK, Dec
  <2>4. /\ pc' \in [Requests -> PCs] /\ key' \in [Requests -> Keys]
        /\ available' \in [Semaphores -> Nat]
        /\ waiters' \in [Semaphores -> Seq(Requests)]
        /\ QueuesExact' /\ NoOvertaking' /\ SlotsConserved'
    BY <2>2, ReleasePreserves DEF S
  <2> QED BY <2>3, <2>4 DEF IndInv, TypeOK, Semaphores, PCs
<1>3. CASE GiveUp(r)
  <2>1. S = IF pc[r] = "lateGlobal" THEN {key[r]} ELSE {}
    BY <1>1, <1>3 DEF GiveUp, Holders
  <2>2. /\ Release(S) /\ pc' = Moved(r, "none", S) /\ key' = key
        /\ pc[r] \in {"lateWallet", "lateGlobal"}
        /\ queued' = Dec(queued) /\ active' = active
    BY <1>3, <2>1 DEF GiveUp
  <2> HIDE DEF S
  <2>3. queued' \in Nat /\ active' \in Nat
    BY <1>1, <2>2 DEF TypeOK, Dec
  <2>4. /\ pc' \in [Requests -> PCs] /\ key' \in [Requests -> Keys]
        /\ available' \in [Semaphores -> Nat]
        /\ waiters' \in [Semaphores -> Seq(Requests)]
        /\ QueuesExact' /\ NoOvertaking' /\ SlotsConserved'
    BY <2>2, ReleasePreserves DEF S
  <2> QED BY <2>3, <2>4 DEF IndInv, TypeOK, Semaphores, PCs
<1> QED BY <1>2, <1>3

-------------------------------------------------------------------------------
\* All slots are free and all queues empty at the start.
LEMMA InitIndInv == Init => IndInv
<1> SUFFICES ASSUME Init PROVE IndInv
  OBVIOUS
<1>1. \A s \in Semaphores : Capacity(s) \in Nat
  BY CapacityType
<1>2. TypeOK
  BY <1>1 DEF Init, TypeOK, PCs, Semaphores
<1>3. QueuesExact /\ NoOvertaking
  BY <1>2 DEF Init, QueuesExact, NoOvertaking, Awaits, TypeOK
<1>4. SlotsConserved
  <2> SUFFICES ASSUME NEW s \in Semaphores
               PROVE  available[s] + Cardinality(Holders(s)) = Capacity(s)
    BY DEF SlotsConserved
  <2>1. Holders(s) = {}
    BY DEF Init, Holders
  <2>2. Cardinality(Holders(s)) = 0
    BY <2>1, FS_EmptySet
  <2>3. available[s] = Capacity(s)
    BY DEF Init
  <2> QED BY <1>1, <2>2, <2>3
<1> QED BY <1>2, <1>3, <1>4 DEF IndInv

\* One lemma per action, put together.
LEMMA NextIndInv == IndInv /\ [Next]_vars => IndInv'
<1> SUFFICES ASSUME IndInv, [Next]_vars PROVE IndInv'
  OBVIOUS
<1>1. ASSUME NEW r \in Requests, Arrive(r) PROVE IndInv'
  BY <1>1, ArrivePreserves
<1>2. ASSUME NEW r \in Requests, AcquireGlobal(r) PROVE IndInv'
  BY <1>2, AcquireGlobalPreserves
<1>3. ASSUME NEW r \in Requests, Enter(r) PROVE IndInv'
  BY <1>3, EnterPreserves
<1>4. ASSUME NEW r \in Requests, Leave(r) \/ GiveUp(r) PROVE IndInv'
  BY <1>4, EndPreserves
<1>5. ASSUME NEW r \in Requests, TimeOut(r) PROVE IndInv'
  BY <1>5, TimeOutPreserves
<1>6. CASE UNCHANGED vars
  <2>1. /\ pc' = pc /\ key' = key /\ available' = available /\ waiters' = waiters
        /\ queued' = queued /\ active' = active
    BY <1>6 DEF vars
  <2>2. TypeOK' /\ NoOvertaking'
    BY <2>1 DEF IndInv, TypeOK, NoOvertaking, Semaphores, PCs
  <2>3. \A s, x : Awaits(x, s)' <=> Awaits(x, s)
    BY <2>1 DEF Awaits
  <2>4. QueuesExact'
    BY <2>1, <2>3 DEF IndInv, QueuesExact, Semaphores
  <2>5. \A s : Holders(s)' = Holders(s)
    BY <2>1 DEF Holders
  <2>6. SlotsConserved'
    BY <2>1, <2>5 DEF IndInv, SlotsConserved, Semaphores, Capacity
  <2> QED BY <2>2, <2>4, <2>6 DEF IndInv
<1> QED BY <1>1, <1>2, <1>3, <1>4, <1>5, <1>6 DEF Next

\* The inductive invariant holds of every behaviour of the limiter.
THEOREM SlotInvariance == Spec => []IndInv
BY InitIndInv, NextIndInv, PTL DEF Spec

\* No interleaving of timeouts, wake-ups and releases leaks a slot of
\* concurrency.ts's semaphores or mints one.
THEOREM SlotsAreConserved == Spec => []SlotsConserved
<1>1. IndInv => SlotsConserved
  BY DEF IndInv
<1> QED BY <1>1, SlotInvariance, PTL

\* A drain never leaves a free slot beside a waiter, and acquire never lets a
\* newcomer overtake one.
THEOREM NoWakeUpIsLost == Spec => []NoOvertaking
<1>1. IndInv => NoOvertaking
  BY DEF IndInv
<1> QED BY <1>1, SlotInvariance, PTL

\* The timer's splice and drain's shift keep every waiter queue exact.
THEOREM QueuesStayExact == Spec => []QueuesExact
<1>1. IndInv => QueuesExact
  BY DEF IndInv
<1> QED BY <1>1, SlotInvariance, PTL

\* However many requests and wallets there are, no more than MaxActive handlers
\* are past acquireWalrusUploadSlots at once, and no more than PerWallet of
\* them sign with the same wallet.
THEOREM LimitsHold == Spec => []WithinLimits
<1>1. IndInv => WithinLimits
  <2> SUFFICES ASSUME IndInv PROVE WithinLimits
    OBVIOUS
  <2>1. ASSUME NEW s \in Semaphores, NEW A, A \subseteq Holders(s)
        PROVE  Cardinality(A) <= Capacity(s)
    <3>1. Cardinality(A) <= Cardinality(Holders(s)) /\ Cardinality(A) \in Nat
      BY <2>1, HoldersFinite, FS_Subset, FS_CardinalityType
    <3>2. available[s] \in Nat /\ Cardinality(Holders(s)) \in Nat
          /\ available[s] + Cardinality(Holders(s)) = Capacity(s)
      BY HoldersFinite DEF IndInv, TypeOK, SlotsConserved
    <3> QED BY <3>1, <3>2
  <2>2. Cardinality({r \in Requests : pc[r] = "active"}) <= MaxActive
    <3>1. {r \in Requests : pc[r] = "active"} \subseteq Holders("global")
          /\ "global" \in Semaphores /\ Capacity("global") = MaxActive
      BY DEF Holders, Semaphores, Capacity
    <3> QED BY <2>1, <3>1
  <2>3. ASSUME NEW k \in Keys
        PROVE  Cardinality({r \in Requests : pc[r] = "active" /\ key[r] = k}) <= PerWallet
    <3>1. {r \in Requests : pc[r] = "active" /\ key[r] = k} \subseteq Holders(k)
          /\ k \in Semaphores /\ Capacity(k) = PerWallet
      BY GlobalAssumption DEF Holders, Semaphores, Capacity
    <3> QED BY <2>1, <3>1
  <2> QED BY <2>2, <2>3 DEF WithinLimits
<1> QED BY <1>1, SlotInvariance, PTL

-------------------------------------------------------------------------------
(* The two counters.                                                       *)

Running == {r \in Requests : pc[r] = "active"}
Entering == {r \in Requests : pc[r] \notin {"none", "active"}}

\* The control state of a request matters to the counters by its group only.
SameGroup(x) ==
    /\ pc'[x] = "active" <=> pc[x] = "active"
    /\ pc'[x] = "none" <=> pc[x] = "none"

\* A step moves the request it is about; whoever it wakes stays queued.
LEMMA OthersStay ==
    ASSUME IndInv, NEW r \in Requests,
           Arrive(r) \/ AcquireGlobal(r) \/ Enter(r) \/ Leave(r) \/ TimeOut(r) \/ GiveUp(r)
    PROVE  \A x \in Requests : x # r => SameGroup(x)
<1>1. pc \in [Requests -> PCs] /\ key \in [Requests -> Keys]
  BY DEF IndInv, TypeOK
<1>2. CASE Arrive(r) \/ AcquireGlobal(r) \/ Enter(r) \/ TimeOut(r)
  <2>1. \A x \in Requests : x # r => pc'[x] = pc[x]
    BY <1>1, <1>2 DEF Arrive, AcquireGlobal, Enter, TimeOut, Acquire
  <2> QED BY <2>1 DEF SameGroup
<1>3. CASE Leave(r) \/ GiveUp(r)
  <2> DEFINE held == IF pc[r] = "lateGlobal" THEN {key[r]} ELSE {}
             S == IF pc[r] = "active" THEN {"global", key[r]} ELSE held
  <2>1. pc' = Moved(r, "none", S)
    BY <1>3 DEF Leave, GiveUp
  <2>2. \A s \in S : s \in Semaphores /\ Holders(s) # {}
    <3>1. key[r] \in Keys /\ key[r] \in Semaphores /\ key[r] # "global"
      BY <1>1, GlobalAssumption DEF Semaphores
    <3>2. pc[r] \in {"active", "lateGlobal"} => r \in Holders(key[r])
      BY <3>1 DEF Holders
    <3>3. pc[r] = "active" => r \in Holders("global") /\ "global" \in Semaphores
      BY DEF Holders, Semaphores
    <3> QED BY <3>1, <3>2, <3>3
  <2> HIDE DEF S
  <2>3. \A s \in S : \A x \in WokenBy(s) : x \in Requests /\ pc[x] \in {"atWallet", "atGlobal"}
    BY <2>2, WokenAwaits DEF Awaits
  <2>4. \A x \in Requests : x # r =>
           \/ pc'[x] = pc[x]
           \/ /\ pc'[x] \in {"hasGlobal", "hasWallet"}
              /\ \E s \in S : x \in WokenBy(s)
    BY <2>1 DEF Moved
  <2> QED BY <2>3, <2>4 DEF SameGroup
<1> QED BY <1>2, <1>3

\* What a step does to one of the two groups, and to its number.
LEMMA GroupMoves ==
    ASSUME NEW r \in Requests, NEW A \in SUBSET Requests, NEW B \in SUBSET Requests,
           \A x \in Requests : x # r => (x \in B <=> x \in A)
    PROVE  /\ Cardinality(A) \in Nat
           /\ r \notin A /\ r \in B => Cardinality(B) = Cardinality(A) + 1
           /\ r \in A /\ r \notin B => /\ Cardinality(A) > 0
                                       /\ Cardinality(B) = Cardinality(A) - 1
           /\ (r \in A <=> r \in B) => B = A
<1>1. IsFiniteSet(A) /\ Cardinality(A) \in Nat
  BY RequestsAssumption, FS_Subset, FS_CardinalityType
<1>2. r \notin A /\ r \in B => B = A \cup {r}
  OBVIOUS
<1>3. r \in A /\ r \notin B => B = A \ {r}
  OBVIOUS
<1>4. (r \in A <=> r \in B) => B = A
  OBVIOUS
<1>5. /\ r \notin A => Cardinality(A \cup {r}) = Cardinality(A) + 1
      /\ r \in A => Cardinality(A \ {r}) = Cardinality(A) - 1 /\ Cardinality(A) > 0
  BY <1>1, CardinalityMoves
<1> QED BY <1>1, <1>2, <1>3, <1>4, <1>5

\* The group of the request that moves, at the start and at the end of a step.
LEMMA MoverMoves ==
    ASSUME IndInv, NEW r \in Requests
    PROVE  /\ Arrive(r) => pc[r] = "none" /\ pc'[r] \in {"hasWallet", "atWallet"}
           /\ AcquireGlobal(r) => pc[r] = "hasWallet" /\ pc'[r] \in {"hasGlobal", "atGlobal"}
           /\ Enter(r) => pc[r] = "hasGlobal" /\ pc'[r] = "active"
           /\ Leave(r) => pc[r] = "active" /\ pc'[r] = "none"
           /\ TimeOut(r) => /\ pc[r] \in {"atWallet", "atGlobal"}
                            /\ pc'[r] \in {"lateWallet", "lateGlobal"}
           /\ GiveUp(r) => pc[r] \in {"lateWallet", "lateGlobal"} /\ pc'[r] = "none"
<1>1. pc \in [Requests -> PCs]
  BY DEF IndInv, TypeOK
<1> QED
  BY <1>1 DEF Arrive, AcquireGlobal, Enter, Leave, TimeOut, GiveUp, Acquire, Moved

\* Every request is counted once when it joins and taken off once when it
\* goes on or gives up, so that Math.max never hides an error.
LEMMA NextCounters == IndInv /\ CountersExact /\ [Next]_vars => CountersExact'
<1> SUFFICES ASSUME IndInv, CountersExact, [Next]_vars PROVE CountersExact'
  OBVIOUS
<1>1. active = Cardinality(Running) /\ queued = Cardinality(Entering)
  BY DEF CountersExact, Running, Entering
<1>2. CASE UNCHANGED vars
  BY <1>2 DEF CountersExact, vars
<1>3. ASSUME NEW r \in Requests,
             Arrive(r) \/ AcquireGlobal(r) \/ Enter(r) \/ Leave(r) \/ TimeOut(r) \/ GiveUp(r)
      PROVE  active' = Cardinality(Running') /\ queued' = Cardinality(Entering')
  <2>1. \A x \in Requests : x # r =>
           (x \in Running' <=> x \in Running) /\ (x \in Entering' <=> x \in Entering)
    BY <1>3, OthersStay DEF SameGroup, Running, Entering
  <2>2. /\ Running \in SUBSET Requests /\ Running' \in SUBSET Requests
        /\ Entering \in SUBSET Requests /\ Entering' \in SUBSET Requests
    BY DEF Running, Entering
  <2>3. /\ r \in Running <=> pc[r] = "active"
        /\ r \in Running' <=> pc'[r] = "active"
        /\ r \in Entering <=> pc[r] \notin {"none", "active"}
        /\ r \in Entering' <=> pc'[r] \notin {"none", "active"}
    BY DEF Running, Entering
  <2>4. /\ active \in Nat
        /\ r \notin Running /\ r \in Running' => Cardinality(Running') = active + 1
        /\ r \in Running /\ r \notin Running' => active > 0 /\ Cardinality(Running') = active - 1
        /\ (r \in Running <=> r \in Running') => Cardinality(Running') = active
    BY <1>1, <2>1, <2>2, GroupMoves
  <2>5. /\ queued \in Nat
        /\ r \notin Entering /\ r \in Entering' => Cardinality(Entering') = queued + 1
        /\ r \in Entering /\ r \notin Entering' => queued > 0 /\ Cardinality(Entering') = queued - 1
        /\ (r \in Entering <=> r \in Entering') => Cardinality(Entering') = queued
    BY <1>1, <2>1, <2>2, GroupMoves
  <2>6. CASE Arrive(r)
    BY <2>3, <2>4, <2>5, <2>6, MoverMoves DEF Arrive
  <2>7. CASE AcquireGlobal(r) \/ TimeOut(r)
    BY <2>3, <2>4, <2>5, <2>7, MoverMoves DEF AcquireGlobal, TimeOut
  <2>8. CASE Enter(r)
    BY <2>3, <2>4, <2>5, <2>8, MoverMoves DEF Enter, Dec
  <2>9. CASE Leave(r)
    BY <2>3, <2>4, <2>5, <2>9, MoverMoves DEF Leave, Dec
  <2>10. CASE GiveUp(r)
    BY <2>3, <2>4, <2>5, <2>10, MoverMoves DEF GiveUp, Dec
  <2> QED BY <1>3, <2>6, <2>7, <2>8, <2>9, <2>10
<1> QED BY <1>2, <1>3 DEF Next, CountersExact, Running, Entering

\* The counters of concurrency.ts that the health and metrics routes read are
\* the numbers of running and of waiting requests.
THEOREM CountersStayExact == Spec => []CountersExact
<1>1. Init => CountersExact
  <2> SUFFICES ASSUME Init PROVE CountersExact
    OBVIOUS
  <2>1. Running = {} /\ Entering = {} /\ active = 0 /\ queued = 0
    BY DEF Init, Running, Entering
  <2> QED BY <2>1, FS_EmptySet DEF CountersExact, Running, Entering
<1> QED BY <1>1, NextCounters, SlotInvariance, PTL DEF Spec

\* Every variable of the limiter keeps its type; in particular no semaphore's
\* available goes below zero.
THEOREM TypeCorrect == Spec => []TypeOK
<1>1. IndInv => TypeOK
  BY DEF IndInv
<1> QED BY <1>1, SlotInvariance, PTL
===============================================================================
