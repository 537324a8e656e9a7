------------------------ MODULE AccessControlProofs ------------------------
(* Theorems about replicated access control lists, module AccessControl. *)
EXTENDS AccessControl, Functions, WellFoundedInduction, NaturalsInduction, TLAPS

\* Leaves are first-order unless they name another backend.
USE Zenon

-----------------------------------------------------------------------------
(* Going through a list of records *)

\* What holds of the first place and of the place after each holds of the last.
LEMMA Induct ==
    ASSUME NEW N \in Nat, NEW T, 0 \in T, \A i \in 1 .. N : i - 1 \in T => i \in T
    PROVE  \A i \in 0 .. N : i \in T
<1> SUFFICES ASSUME NEW j \in 0 .. N, j \notin T PROVE FALSE
  OBVIOUS
<1> DEFINE B == {i \in Nat : i <= N /\ i \notin T}
<1>1. B \subseteq Nat /\ B # {}
  BY SMT
<1>2. PICK m \in B : \A i \in B : ~(<<i, m>> \in OpToRel(<, Nat))
  BY <1>1, NatLessThanWellFounded, WFMin
<1>3. m # 0 /\ m \in 1 .. N /\ m - 1 \in Nat /\ m - 1 <= N
  BY SMT
<1>4. m - 1 \notin B
  <2>1. m - 1 < m
    BY <1>3, SMT
  <2>2. <<m - 1, m>> \in OpToRel(<, Nat)
    BY <1>1, <1>3, <2>1 DEF OpToRel
  <2> QED
    BY <1>2, <2>2
<1>5. m - 1 \in T
  BY <1>3, <1>4
<1> QED
  BY <1>3, <1>5

\* The catalogs ReplayLedger goes through.
Replays(g, known, records) ==
    g = [i \in 0 .. Len(records) |->
            IF i = 0 THEN known ELSE ReplayRecord(g[i - 1], records[i])]

LEMMA ReplayIs ==
    ASSUME NEW known, NEW records, Len(records) \in Nat
    PROVE  \E g : Replays(g, known, records) /\ ReplayLedger(known, records) = g[Len(records)]
<1> DEFINE N == Len(records)
<1> DEFINE Upto(m, g) == g = [i \in 0 .. m |-> IF i = 0 THEN known ELSE ReplayRecord(g[i - 1], records[i])]
<1> DEFINE T == {m \in 0 .. N : \E g : Upto(m, g)}
<1>1. 0 \in T
  <2>1. Upto(0, [i \in 0 .. 0 |-> known])
    BY SMT
  <2>2. \E g : Upto(0, g)
    <3> HIDE DEF Upto
    <3> QED
      BY <2>1
  <2> HIDE DEF Upto
  <2> QED
    BY <2>2, SMT
<1>2. ASSUME NEW m \in 1 .. N, m - 1 \in T PROVE m \in T
  <2>1. PICK g : Upto(m - 1, g)
    BY <1>2
  <2> DEFINE h == [i \in 0 .. m |-> IF i < m THEN g[i] ELSE ReplayRecord(g[m - 1], records[m])]
  <2>2. ASSUME NEW i \in 0 .. m
        PROVE  h[i] = IF i = 0 THEN known ELSE ReplayRecord(h[i - 1], records[i])
    <3>1. CASE i = 0
      BY <2>1, <3>1, SMT
    <3>2. CASE i # 0 /\ i < m
      <4>1. h[i] = g[i] /\ h[i - 1] = g[i - 1] /\ i \in 0 .. (m - 1)
        BY <3>2, SMT
      <4>2. g[i] = ReplayRecord(g[i - 1], records[i])
        BY <2>1, <3>2, <4>1
      <4> QED
        BY <3>2, <4>1, <4>2
    <3>3. CASE i = m
      <4>1. h[i] = ReplayRecord(g[m - 1], records[m]) /\ h[i - 1] = g[m - 1]
        BY <3>3, SMT
      <4> QED
        BY <3>3, <4>1, SMT
    <3> QED
      BY <3>1, <3>2, <3>3, SMT
  <2>3. Upto(m, h)
    BY <2>2
  <2>4. \E f : Upto(m, f)
    <3> HIDE DEF Upto, h
    <3> QED
      BY <2>3
  <2> HIDE DEF Upto
  <2> QED
    BY <2>4, SMT
<1>3. N \in T
  <2>1. N \in Nat /\ N \in 0 .. N
    BY SMT
  <2> HIDE DEF T, N
  <2> QED
    BY <1>1, <1>2, <2>1, Induct
<1>4. PICK g : Replays(g, known, records)
  BY <1>3 DEF Replays
<1>5. Replays(CHOOSE f : Replays(f, known, records), known, records)
  BY <1>4
<1>6. ReplayLedger(known, records) = (CHOOSE f : Replays(f, known, records))[N]
  BY DEF ReplayLedger, Replays
<1> QED
  BY <1>5, <1>6

\* The catalogs ApplyDelta goes through.
Applies(g, known, wall, origin, records) ==
    g = [i \in 0 .. Len(records) |->
            IF i = 0 THEN known ELSE ApplyRemoteAcl(g[i - 1], wall, origin, records[i])]

LEMMA DeltaIs ==
    ASSUME NEW known, NEW wall, NEW origin, NEW records, Len(records) \in Nat
    PROVE  \E g : Applies(g, known, wall, origin, records) /\ ApplyDelta(known, wall, origin, records) = g[Len(records)]
<1> DEFINE N == Len(records)
<1> DEFINE Upto(m, g) == g = [i \in 0 .. m |->
                           IF i = 0 THEN known ELSE ApplyRemoteAcl(g[i - 1], wall, origin, records[i])]
<1> DEFINE T == {m \in 0 .. N : \E g : Upto(m, g)}
<1>1. 0 \in T
  <2>1. Upto(0, [i \in 0 .. 0 |-> known])
    BY SMT
  <2>2. \E g : Upto(0, g)
    <3> HIDE DEF Upto
    <3> QED
      BY <2>1
  <2> HIDE DEF Upto
  <2> QED
    BY <2>2, SMT
<1>2. ASSUME NEW m \in 1 .. N, m - 1 \in T PROVE m \in T
  <2>1. PICK g : Upto(m - 1, g)
    BY <1>2
  <2> DEFINE h == [i \in 0 .. m |-> IF i < m THEN g[i] ELSE
                          ApplyRemoteAcl(g[m - 1], wall, origin, records[m])]
  <2>2. ASSUME NEW i \in 0 .. m
        PROVE  h[i] = IF i = 0 THEN known ELSE ApplyRemoteAcl(h[i - 1], wall, origin, records[i])
    <3>1. CASE i = 0
      BY <2>1, <3>1, SMT
    <3>2. CASE i # 0 /\ i < m
      <4>1. h[i] = g[i] /\ h[i - 1] = g[i - 1] /\ i \in 0 .. (m - 1)
        BY <3>2, SMT
      <4>2. g[i] = ApplyRemoteAcl(g[i - 1], wall, origin, records[i])
        BY <2>1, <3>2, <4>1
      <4> QED
        BY <3>2, <4>1, <4>2
    <3>3. CASE i = m
      <4>1. h[i] = ApplyRemoteAcl(g[m - 1], wall, origin, records[m]) /\ h[i - 1] = g[m - 1]
        BY <3>3, SMT
      <4> QED
        BY <3>3, <4>1, SMT
    <3> QED
      BY <3>1, <3>2, <3>3, SMT
  <2>3. Upto(m, h)
    BY <2>2
  <2>4. \E f : Upto(m, f)
    <3> HIDE DEF Upto, h
    <3> QED
      BY <2>3
  <2> HIDE DEF Upto
  <2> QED
    BY <2>4, SMT
<1>3. N \in T
  <2>1. N \in Nat /\ N \in 0 .. N
    BY SMT
  <2> HIDE DEF T, N
  <2> QED
    BY <1>1, <1>2, <2>1, Induct
<1>4. PICK g : Applies(g, known, wall, origin, records)
  BY <1>3 DEF Applies
<1>5. Applies(CHOOSE f : Applies(f, known, wall, origin, records), known, wall, origin, records)
  BY <1>4
<1>6. ApplyDelta(known, wall, origin, records) = (CHOOSE f : Applies(f, known, wall, origin, records))[N]
  BY DEF ApplyDelta, Applies
<1> QED
  BY <1>5, <1>6

-----------------------------------------------------------------------------
(* Catalogs *)

Requests == [coll : Collections, acl : Acl, ms : Nat]
AclRecords == [kind : {"acl"}, coll : Collections, acl : Acl, ms : Nat]
Records == [kind : {"put"}, coll : Collections] \cup AclRecords

\* Nothing is lost from k to l, and no version goes back.
Grows(k, l) ==
    /\ IsCatalog(l)
    /\ DOMAIN k \subseteq DOMAIN l
    /\ \A c \in DOMAIN k : l[c].ms >= k[c].ms

\* What l has and k does not have is the ACL of a record in S.
Vouched(k, l, S) ==
    \A c \in DOMAIN l : l[c].ms > 0 =>
        \/ c \in DOMAIN k /\ l[c] = k[c]
        \/ \E r \in S : r.kind = "acl" /\ r.coll = c /\ r.acl = l[c].acl /\ r.ms = l[c].ms

\* The ACL of r, or a later one, is in k.
Covers(k, r) == r.coll \in DOMAIN k /\ k[r.coll].ms >= r.ms

LEMMA GrowsOn ==
    ASSUME NEW k, NEW l, NEW m, IsCatalog(k), Grows(k, l), Grows(l, m)
    PROVE  Grows(k, m)
<1>1. \A c \in DOMAIN k : k[c].ms \in Nat /\ l[c].ms \in Nat /\ m[c].ms \in Nat
  BY DEF Grows, IsCatalog
<1> QED
  BY <1>1, SMT DEF Grows

LEMMA CoversOn ==
    ASSUME NEW k, NEW l, NEW r, IsCatalog(k), Grows(k, l), Covers(k, r), r.ms \in Nat
    PROVE  Covers(l, r)
<1>1. k[r.coll].ms \in Nat /\ l[r.coll].ms \in Nat /\ l[r.coll].ms >= k[r.coll].ms
  BY DEF Grows, IsCatalog, Covers
<1> QED
  BY <1>1, SMT DEF Grows, Covers

LEMMA GrowsSelf ==
    ASSUME NEW k, IsCatalog(k)
    PROVE  Grows(k, k)
<1>1. \A c \in DOMAIN k : k[c].ms \in Nat
  BY DEF IsCatalog
<1> QED
  BY <1>1, SMT DEF Grows

LEMMA EnsureFacts ==
    ASSUME NEW k, IsCatalog(k), NEW c \in Collections
    PROVE  /\ Grows(k, EnsureCollection(k, c))
           /\ c \in DOMAIN EnsureCollection(k, c)
           /\ Vouched(k, EnsureCollection(k, c), {})
<1> DEFINE e == EnsureCollection(k, c)
<1>1. /\ DOMAIN e = DOMAIN k \cup {c}
      /\ \A x \in DOMAIN k : e[x] = k[x]
      /\ c \notin DOMAIN k => e[c] = [acl |-> Public, ms |-> 0]
  BY DEF EnsureCollection
<1>2. [acl |-> Public, ms |-> 0] \in [acl : Acl, ms : Nat]
  BY DEF Acl, Public
<1> HIDE DEF e
<1>3. IsCatalog(e)
  BY <1>1, <1>2 DEF IsCatalog
<1>4. Grows(k, e)
  BY <1>1, <1>3, GrowsSelf DEF Grows
<1>5. Vouched(k, e, {})
  BY <1>1, SMT DEF Vouched
<1> QED
  BY <1>1, <1>4, <1>5 DEF e

LEMMA SetFacts ==
    ASSUME NEW k, IsCatalog(k), NEW r, r.coll \in DOMAIN k, r.acl \in Acl, r.ms \in Nat,
           r.kind = "acl"
    PROVE  /\ Grows(k, SetAclAt(k, r.coll, r.acl, r.ms))
           /\ Vouched(k, SetAclAt(k, r.coll, r.acl, r.ms), {r})
           /\ r.acl.parent # r.coll => Covers(SetAclAt(k, r.coll, r.acl, r.ms), r)
<1> DEFINE e == [k EXCEPT ![r.coll] = [acl |-> r.acl, ms |-> r.ms]]
<1>1. \A c \in DOMAIN k : k[c].ms \in Nat
  BY DEF IsCatalog
<1>2. CASE Accepts(k, r.coll, r.acl, r.ms)
  <2>1. /\ DOMAIN e = DOMAIN k
        /\ \A x \in DOMAIN k : x # r.coll => e[x] = k[x]
        /\ e[r.coll] = [acl |-> r.acl, ms |-> r.ms]
    OBVIOUS
  <2>2. r.ms >= k[r.coll].ms
    BY <1>2 DEF Accepts
  <2>3. SetAclAt(k, r.coll, r.acl, r.ms) = e
    BY <1>2 DEF SetAclAt
  <2> HIDE DEF e
  <2>4. IsCatalog(e)
    BY <2>1, SMT DEF IsCatalog
  <2>5. Grows(k, e)
    BY <1>1, <2>1, <2>2, <2>4, SMT DEF Grows
  <2>6. Vouched(k, e, {r})
    BY <2>1, SMT DEF Vouched
  <2>7. Covers(e, r)
    BY <2>1, SMT DEF Covers
  <2> QED
    BY <2>3, <2>5, <2>6, <2>7
<1>3. CASE ~Accepts(k, r.coll, r.acl, r.ms)
  <2>1. SetAclAt(k, r.coll, r.acl, r.ms) = k
    BY <1>3 DEF SetAclAt
  <2>2. r.acl.parent # r.coll => k[r.coll].ms >= r.ms
    BY <1>1, <1>3, SMT DEF Accepts
  <2> QED
    BY <2>1, <2>2, GrowsSelf DEF Vouched, Covers
<1> QED
  BY <1>2, <1>3

LEMMA VouchedOn ==
    ASSUME NEW k, NEW l, NEW m, NEW S, NEW S2, NEW U, Vouched(k, l, S), Vouched(l, m, S2),
           S \subseteq U, S2 \subseteq U
    PROVE  Vouched(k, m, U)
BY SMT DEF Vouched

\* One record of a ledger, replayed.
LEMMA ReplayRecordFacts ==
    ASSUME NEW k, IsCatalog(k), NEW r \in Records
    PROVE  /\ Grows(k, ReplayRecord(k, r))
           /\ Vouched(k, ReplayRecord(k, r), {r})
           /\ r.kind = "acl" /\ r.acl.parent # r.coll => Covers(ReplayRecord(k, r), r)
<1> DEFINE e == EnsureCollection(k, r.coll)
<1>1. r.coll \in Collections
  BY DEF Records, AclRecords
<1>2. Grows(k, e) /\ r.coll \in DOMAIN e /\ Vouched(k, e, {})
  BY <1>1, EnsureFacts
<1>3. IsCatalog(e)
  BY <1>2 DEF Grows
<1> HIDE DEF e
<1>4. CASE r.kind = "acl"
  <2>1. r.acl \in Acl /\ r.ms \in Nat
    BY <1>4 DEF Records, AclRecords
  <2>2. PICK l : l = SetAclAt(e, r.coll, r.acl, r.ms)
    OBVIOUS
  <2>3. Grows(e, l) /\ Vouched(e, l, {r}) /\ (r.acl.parent # r.coll => Covers(l, r))
    BY <1>2, <1>3, <1>4, <2>1, <2>2, SetFacts
  <2>4. ReplayRecord(k, r) = l
    BY <1>4, <2>2 DEF ReplayRecord, e
  <2>5. Grows(k, l)
    BY <1>2, <2>3, GrowsOn
  <2>6. Vouched(k, l, {r})
    BY <1>2, <2>3, VouchedOn, SMT
  <2> QED
    BY <2>3, <2>4, <2>5, <2>6
<1>5. CASE r.kind # "acl"
  <2>1. ReplayRecord(k, r) = e
    BY <1>5 DEF ReplayRecord, e
  <2> QED
    BY <1>2, <1>5, <2>1 DEF Vouched
<1> QED
  BY <1>4, <1>5

\* One record of a peer: only an ACL its owner attests.
LEMMA RemoteFacts ==
    ASSUME NEW k, IsCatalog(k), NEW r \in Records, NEW wall, NEW origin
    PROVE  /\ Grows(k, ApplyRemoteAcl(k, wall, origin, r))
           /\ Vouched(k, ApplyRemoteAcl(k, wall, origin, r),
                      {q \in {r} : q.kind = "acl" /\ q.acl.owner = origin})
<1> DEFINE e == EnsureCollection(k, r.coll)
<1> DEFINE S == {q \in {r} : q.kind = "acl" /\ q.acl.owner = origin}
<1>1. CASE r.kind # "acl" \/ r.acl.owner # origin \/ r.ms > wall + kMaxFutureSkewMs
  <2>1. ApplyRemoteAcl(k, wall, origin, r) = k
    BY <1>1 DEF ApplyRemoteAcl
  <2> QED
    BY <2>1, GrowsSelf DEF Vouched
<1>2. CASE ~(r.kind # "acl" \/ r.acl.owner # origin \/ r.ms > wall + kMaxFutureSkewMs)
  <2>1. r.coll \in Collections /\ r.acl \in Acl /\ r.ms \in Nat /\ r.kind = "acl" /\ r \in S
    BY <1>2 DEF Records, AclRecords
  <2>2. Grows(k, e) /\ r.coll \in DOMAIN e /\ Vouched(k, e, {})
    BY <2>1, EnsureFacts
  <2>3. IsCatalog(e)
    BY <2>2 DEF Grows
  <2>4. PICK l : l = SetAclAt(e, r.coll, r.acl, r.ms)
    OBVIOUS
  <2>5. ApplyRemoteAcl(k, wall, origin, r) = l
    BY <1>2, <2>4 DEF ApplyRemoteAcl
  <2> HIDE DEF e, S
  <2>6. Grows(e, l) /\ Vouched(e, l, {r})
    BY <2>1, <2>2, <2>3, <2>4, SetFacts
  <2>7. Grows(k, l)
    BY <2>2, <2>6, GrowsOn
  <2>8. Vouched(k, l, S)
    BY <2>1, <2>2, <2>6, VouchedOn, SMT
  <2> QED
    BY <2>5, <2>7, <2>8 DEF S
<1> QED
  BY <1>1, <1>2

\* A ledger, replayed: nothing of the catalog goes back, what is new is on the
\* ledger, and all of the ledger is in force.
LEMMA ReplayFacts ==
    ASSUME NEW known, IsCatalog(known), NEW records \in Seq(Records)
    PROVE  /\ Grows(known, ReplayLedger(known, records))
           /\ Vouched(known, ReplayLedger(known, records), Range(records))
           /\ \A i \in DOMAIN records :
                 records[i].kind = "acl" /\ records[i].acl.parent # records[i].coll =>
                     Covers(ReplayLedger(known, records), records[i])
<1> DEFINE N == Len(records)
<1>1. N \in Nat /\ DOMAIN records = 1 .. N /\ \A i \in 1 .. N : records[i] \in Records
  BY SMT
<1>2. PICK g : Replays(g, known, records) /\ ReplayLedger(known, records) = g[N]
  BY <1>1, ReplayIs
<1>3. g[0] = known /\ \A i \in 1 .. N : g[i] = ReplayRecord(g[i - 1], records[i])
  BY <1>1, <1>2, SMT DEF Replays
<1> DEFINE Own(r) == r.kind = "acl" /\ r.acl.parent # r.coll
<1> DEFINE Good(i) == /\ Grows(known, g[i])
                      /\ Vouched(known, g[i], Range(records))
                      /\ \A j \in 1 .. i : Own(records[j]) => Covers(g[i], records[j])
<1> DEFINE T == {i \in 0 .. N : Good(i)}
<1>4. 0 \in T
  <2>1. Grows(known, g[0]) /\ Vouched(known, g[0], Range(records))
    BY <1>3, GrowsSelf DEF Vouched
  <2>2. \A j \in 1 .. 0 : FALSE
    BY SMT
  <2> QED
    BY <1>1, <2>1, <2>2, SMT
<1>5. ASSUME NEW i \in 1 .. N, i - 1 \in T PROVE i \in T
  <2>1. PICK r \in Records : r = records[i]
    BY <1>1
  <2>2. PICK k : k = g[i - 1]
    OBVIOUS
  <2>3. PICK l : l = g[i]
    OBVIOUS
  <2>4. l = ReplayRecord(k, r)
    BY <1>3, <2>1, <2>2, <2>3
  <2>5. /\ Grows(known, k) /\ Vouched(known, k, Range(records))
        /\ \A j \in 1 .. i - 1 : Own(records[j]) => Covers(k, records[j])
    BY <1>5, <2>2
  <2>6. IsCatalog(k)
    BY <2>5 DEF Grows
  <2>7. Grows(k, l) /\ Vouched(k, l, {r}) /\ (Own(r) => Covers(l, r))
    BY <2>4, <2>6, ReplayRecordFacts
  <2>8. Grows(known, l)
    BY <2>5, <2>7, GrowsOn
  <2>9. Vouched(known, l, Range(records))
    <3>1. {r} \subseteq Range(records)
      BY <1>1, <2>1 DEF Range
    <3> QED
      BY <2>5, <2>7, <3>1, VouchedOn, SMT
  <2>10. ASSUME NEW j \in 1 .. i, Own(records[j]) PROVE Covers(l, records[j])
    <3>1. CASE j = i
      BY <2>1, <2>7, <2>10, <3>1
    <3>2. CASE j \in 1 .. i - 1
      <4>1. records[j] \in Records /\ Covers(k, records[j])
        BY <1>1, <2>5, <2>10, <3>2, SMT
      <4>2. records[j].ms \in Nat
        BY <2>10, <4>1 DEF Records, AclRecords
      <4> QED
        BY <2>6, <2>7, <4>1, <4>2, CoversOn
    <3> QED
      BY <3>1, <3>2, SMT
  <2> QED
    BY <2>3, <2>8, <2>9, <2>10, SMT
<1>6. N \in T
  <2>1. N \in Nat /\ N \in 0 .. N
    BY <1>1, SMT
  <2> HIDE DEF T, N
  <2> QED
    BY <1>4, <1>5, <2>1, Induct
<1> QED
  BY <1>1, <1>2, <1>6

\* What a peer sent, applied: only its own ACLs are new.
LEMMA ApplyDeltaFacts ==
    ASSUME NEW known, IsCatalog(known), NEW delta \in Seq(Records), NEW wall, NEW origin
    PROVE  /\ Grows(known, ApplyDelta(known, wall, origin, delta))
           /\ Vouched(known, ApplyDelta(known, wall, origin, delta),
                      {r \in Range(delta) : r.kind = "acl" /\ r.acl.owner = origin})
<1> DEFINE N == Len(delta)
<1> DEFINE S == {r \in Range(delta) : r.kind = "acl" /\ r.acl.owner = origin}
<1>1. N \in Nat /\ DOMAIN delta = 1 .. N /\ \A i \in 1 .. N : delta[i] \in Records
  BY SMT
<1>2. PICK g : Applies(g, known, wall, origin, delta) /\ ApplyDelta(known, wall, origin, delta) = g[N]
  BY <1>1, DeltaIs, SMT
<1>3. g[0] = known /\ \A i \in 1 .. N : g[i] = ApplyRemoteAcl(g[i - 1], wall, origin, delta[i])
  BY <1>1, <1>2, SMT DEF Applies
<1> DEFINE T == {i \in 0 .. N : Grows(known, g[i]) /\ Vouched(known, g[i], S)}
<1>4. 0 \in T
  BY <1>1, <1>3, GrowsSelf, SMT DEF Vouched
<1>5. ASSUME NEW i \in 1 .. N, i - 1 \in T PROVE i \in T
  <2>1. PICK r \in Records : r = delta[i]
    BY <1>1
  <2>2. PICK k : k = g[i - 1]
    OBVIOUS
  <2>3. PICK l : l = g[i]
    OBVIOUS
  <2>4. l = ApplyRemoteAcl(k, wall, origin, r)
    BY <1>3, <2>1, <2>2, <2>3
  <2>5. Grows(known, k) /\ Vouched(known, k, S)
    BY <1>5, <2>2
  <2>6. IsCatalog(k)
    BY <2>5 DEF Grows
  <2> DEFINE Q == {q \in {r} : q.kind = "acl" /\ q.acl.owner = origin}
  <2>7. Grows(k, l) /\ Vouched(k, l, Q)
    BY <2>4, <2>6, RemoteFacts, SMT
  <2>8. Q \subseteq S
    BY <1>1, <2>1 DEF Range
  <2> HIDE DEF S, Q
  <2>9. Grows(known, l) /\ Vouched(known, l, S)
    BY <2>5, <2>7, <2>8, GrowsOn, VouchedOn
  <2> QED
    BY <2>3, <2>9, SMT
<1>6. N \in T
  <2>1. N \in Nat /\ N \in 0 .. N
    BY <1>1, SMT
  <2> HIDE DEF T, N
  <2> QED
    BY <1>4, <1>5, <2>1, Induct
<1> QED
  BY <1>2, <1>6

\* What is sent is on the ledger of the peer.
LEMMA LedgerDeltaFacts ==
    ASSUME NEW mine \in Seq(Records), NEW theirs \in Seq(Records)
    PROVE  /\ LedgerDelta(mine, theirs) \in Seq(Records)
           /\ Range(LedgerDelta(mine, theirs)) \subseteq Range(theirs)
<1>1. Len(mine) \in Nat /\ Len(theirs) \in Nat /\ kMaxDeltaEntries \in Nat
  BY AccessControlAssumption, SMT
<1>2. CASE Len(mine) > Len(theirs)
  <2>1. LedgerDelta(mine, theirs) = <<>>
    BY <1>2 DEF LedgerDelta
  <2> QED
    BY <2>1, SMT DEF Range
<1>3. CASE ~(Len(mine) > Len(theirs))
  <2>1. PICK from, to : /\ from \in Nat \ {0} /\ to \in Nat /\ to <= Len(theirs)
                        /\ LedgerDelta(mine, theirs) = SubSeq(theirs, from, to)
    <3> DEFINE from == IF Len(mine) = Len(theirs) THEN 1 ELSE Len(mine) + 1
    <3> DEFINE to == from + kMaxDeltaEntries - 1
    <3> DEFINE end == IF to < Len(theirs) THEN to ELSE Len(theirs)
    <3>1. from \in Nat \ {0} /\ end \in Nat /\ end <= Len(theirs)
      BY <1>1, SMT
    <3>2. LedgerDelta(mine, theirs) = SubSeq(theirs, from, end)
      BY <1>3 DEF LedgerDelta
    <3> HIDE DEF from, end
    <3> QED
      BY <3>1, <3>2
  <2>2. /\ SubSeq(theirs, from, to) \in Seq(Records)
        /\ \A i \in DOMAIN SubSeq(theirs, from, to) :
              /\ SubSeq(theirs, from, to)[i] = theirs[from + i - 1]
              /\ from + i - 1 \in DOMAIN theirs
    BY <1>1, <2>1, SMT
  <2> QED
    BY <2>1, <2>2 DEF Range
<1> QED
  BY <1>2, <1>3

-----------------------------------------------------------------------------
(* The inductive invariant *)

TypeInv ==
    /\ now \in Nat
    /\ cat = [n \in Nodes |-> cat[n]]
    /\ \A n \in Nodes : IsCatalog(cat[n])
    /\ file = cat
    /\ wal \in [Nodes -> Seq(Records)]
    /\ setting \in [Nodes -> SUBSET Requests]

\* The API of n set the ACL of r.
SetBy(n, r) ==
    \E m \in made : /\ m.coll = r.coll /\ m.acl = r.acl /\ m.ms = r.ms /\ m.by = n
                    /\ r.acl.parent # r.coll

\* What a node has on its ledger, its own API set, and it is in force.
Recorded ==
    \A n \in Nodes : \A r \in Range(wal[n]) :
        r.kind = "acl" => SetBy(n, r) /\ Covers(cat[n], r)

\* The same for what a request has yet to record.
Requested == \A n \in Nodes : \A s \in setting[n] : SetBy(n, s) /\ Covers(cat[n], s)

Inv == TypeInv /\ Recorded /\ Requested /\ AclIsOwners

\* Where the ACL of collection c on node n comes from.
Owned(n, c, e) ==
    \E m \in made : /\ m.coll = c /\ m.acl = e.acl /\ m.ms = e.ms
                    /\ m.by \in {n, m.acl.owner}

LEMMA InvInit == Init => Inv
<1> SUFFICES ASSUME Init PROVE Inv
  OBVIOUS
<1>1. \A n \in Nodes : cat[n] \in HandEdited
  BY DEF Init
<1>2. \A n \in Nodes : IsCatalog(cat[n]) /\ \A c \in DOMAIN cat[n] : cat[n][c].ms = 0
  BY <1>1, AccessControlAssumption
<1>3. TypeInv
  <2>1. <<>> \in Seq(Records)
    BY SMT
  <2> QED
    BY <1>2, <2>1 DEF Init, TypeInv
<1>4. Recorded
  BY SMT DEF Init, Recorded, Range
<1>5. Requested
  BY DEF Init, Requested
<1>6. AclIsOwners
  BY <1>2, SMT DEF AclIsOwners
<1> QED
  BY <1>3, <1>4, <1>5, <1>6 DEF Inv

\* A catalog that has grown by ACLs that their owners, or this node, set.
LEMMA CatalogGrows ==
    ASSUME Inv, NEW n \in Nodes, NEW l, Save(n, l), Grows(cat[n], l), made \subseteq made',
           \A c \in DOMAIN l : l[c].ms > 0 =>
               (c \in DOMAIN cat[n] /\ l[c] = cat[n][c]) \/ Owned(n, c, l[c])'
    PROVE  /\ cat' = [m \in Nodes |-> cat'[m]] /\ file' = cat'
           /\ \A m \in Nodes : IsCatalog(cat'[m]) /\ Grows(cat[m], cat'[m])
           /\ AclIsOwners'
<1>1. TypeInv /\ AclIsOwners
  BY DEF Inv
<1>2. /\ cat' = [m \in Nodes |-> cat'[m]] /\ file' = cat'
      /\ cat'[n] = l /\ \A m \in Nodes : m # n => cat'[m] = cat[m]
  BY <1>1 DEF TypeInv, Save
<1>3. \A m \in Nodes : Grows(cat[m], cat'[m])
  BY <1>1, <1>2, GrowsSelf DEF TypeInv
<1>4. \A m \in Nodes : IsCatalog(cat'[m])
  BY <1>3 DEF Grows
<1>5. ASSUME NEW m \in Nodes, NEW c \in DOMAIN cat'[m], NEW e, e = cat'[m][c], e.ms > 0
      PROVE  Owned(m, c, e)'
  <2>1. CASE c \in DOMAIN cat[m] /\ e = cat[m][c]
    <3>1. Owned(m, c, e)
      BY <1>1, <1>5, <2>1, SMT DEF AclIsOwners, Owned
    <3> QED
      BY <3>1 DEF Owned
  <2>2. CASE ~(c \in DOMAIN cat[m] /\ e = cat[m][c])
    <3>1. m = n
      BY <1>2, <1>5, <2>2
    <3> QED
      BY <1>2, <1>5, <2>2, <3>1
  <2> QED
    BY <2>1, <2>2
<1>6. AclIsOwners'
  BY <1>5, SMT DEF AclIsOwners, Owned
<1> QED
  BY <1>2, <1>3, <1>4, <1>6

\* What is on a ledger or on its way there stays in force as catalogs grow.
LEMMA RecordsStay ==
    ASSUME Inv, made \subseteq made', \A m \in Nodes : Grows(cat[m], cat'[m])
    PROVE  /\ \A m \in Nodes : \A r \in Range(wal[m]) :
                  r.kind = "acl" => SetBy(m, r)' /\ Covers(cat'[m], r)
           /\ \A m \in Nodes : \A s \in setting[m] : SetBy(m, s)' /\ Covers(cat'[m], s)
<1>0. TypeInv /\ Recorded /\ Requested
  BY DEF Inv
<1>1. ASSUME NEW m \in Nodes, NEW r \in Range(wal[m]), r.kind = "acl"
      PROVE  SetBy(m, r)' /\ Covers(cat'[m], r)
  <2>1. SetBy(m, r) /\ Covers(cat[m], r)
    BY <1>0, <1>1 DEF Recorded
  <2>2. r.ms \in Nat
    <3>1. r \in Records
      BY <1>0, SMT DEF TypeInv, Range
    <3> QED
      BY <1>1, <3>1 DEF Records, AclRecords
  <2>3. IsCatalog(cat[m]) /\ Grows(cat[m], cat'[m])
    BY <1>0 DEF TypeInv
  <2> QED
    BY <2>1, <2>2, <2>3, CoversOn DEF SetBy
<1>2. ASSUME NEW m \in Nodes, NEW s \in setting[m]
      PROVE  SetBy(m, s)' /\ Covers(cat'[m], s)
  <2>1. SetBy(m, s) /\ Covers(cat[m], s)
    BY <1>0 DEF Requested
  <2>2. s.ms \in Nat
    BY <1>0, SMT DEF TypeInv, Requests
  <2>3. IsCatalog(cat[m]) /\ Grows(cat[m], cat'[m])
    BY <1>0 DEF TypeInv
  <2> QED
    BY <2>1, <2>2, <2>3, CoversOn DEF SetBy
<1> QED
  BY <1>1, <1>2

LEMMA RangeAppend ==
    ASSUME NEW s \in Seq(Records), NEW e \in Records
    PROVE  Append(s, e) \in Seq(Records) /\ Range(Append(s, e)) \subseteq Range(s) \cup {e}
<1>1. Append(s, e) \in Seq(Records) /\ DOMAIN Append(s, e) = 1 .. Len(s) + 1 /\ DOMAIN s = 1 .. Len(s)
  BY SMT
<1>2. \A i \in 1 .. Len(s) + 1 : Append(s, e)[i] = IF i \in 1 .. Len(s) THEN s[i] ELSE e
  BY SMT
<1> QED
  BY <1>1, <1>2 DEF Range

\* A document: an entry for its collection and a record.
LEMMA PutStep ==
    ASSUME Inv, NEW n \in Nodes, NEW c \in Collections, PutRaw(n, c)
    PROVE  Inv' /\ \A m \in Nodes : Grows(cat[m], cat'[m])
<1>0. TypeInv
  BY DEF Inv
<1>1. PICK l : l = EnsureCollection(cat[n], c)
  OBVIOUS
<1>2. PICK e \in Records : e = [kind |-> "put", coll |-> c]
  BY DEF Records
<1>3. /\ Save(n, l) /\ wal' = [wal EXCEPT ![n] = Append(@, e)]
      /\ UNCHANGED <<setting, now, made>>
  BY <1>1, <1>2 DEF PutRaw
<1>4. Grows(cat[n], l) /\ Vouched(cat[n], l, {})
  BY <1>0, <1>1, EnsureFacts DEF TypeInv
<1>5. /\ cat' = [m \in Nodes |-> cat'[m]] /\ file' = cat'
      /\ \A m \in Nodes : IsCatalog(cat'[m]) /\ Grows(cat[m], cat'[m])
      /\ AclIsOwners'
  BY <1>3, <1>4, CatalogGrows DEF Vouched
<1>6. wal \in [Nodes -> Seq(Records)]
  BY <1>0 DEF TypeInv
<1>7. /\ wal' \in [Nodes -> Seq(Records)]
      /\ \A m \in Nodes : Range(wal'[m]) \subseteq Range(wal[m]) \cup {e}
  BY <1>3, <1>6, RangeAppend, SMT
<1>8. TypeInv'
  BY <1>0, <1>3, <1>5, <1>7 DEF TypeInv
<1>9. Recorded' /\ Requested'
  <2>1. e.kind # "acl"
    BY <1>2
  <2>2. /\ \A m \in Nodes : \A r \in Range(wal[m]) :
              r.kind = "acl" => SetBy(m, r)' /\ Covers(cat'[m], r)
        /\ \A m \in Nodes : \A s \in setting[m] : SetBy(m, s)' /\ Covers(cat'[m], s)
    BY <1>3, <1>5, RecordsStay
  <2>3. Recorded'
    BY <1>7, <2>1, <2>2 DEF Recorded, Covers
  <2>4. Requested'
    BY <1>3, <2>2 DEF Requested, Covers
  <2> QED
    BY <2>3, <2>4
<1> QED
  BY <1>5, <1>8, <1>9 DEF Inv

\* An ACL set through the API.
LEMMA SetStep ==
    ASSUME Inv, NEW n \in Nodes, NEW c \in Collections, NEW acl \in ApiAcls,
           SetCollectionAcl(n, c, acl)
    PROVE  Inv' /\ \A m \in Nodes : Grows(cat[m], cat'[m])
<1>0. TypeInv
  BY DEF Inv
<1>1. PICK known : known = EnsureCollection(cat[n], c)
  OBVIOUS
<1>2. PICK w \in Nat : w = Wall(n)
  <2>1. Wall(n) \in Nat
    BY <1>0, AccessControlAssumption, SMT DEF Wall, TypeInv
  <2> QED
    BY <2>1
<1>3. PICK l : l = SetAclAt(known, c, acl, w)
  OBVIOUS
<1>4. PICK s \in Requests : s = [coll |-> c, acl |-> acl, ms |-> w]
  BY AccessControlAssumption DEF Requests
<1>5. PICK r : r = [kind |-> "acl", coll |-> c, acl |-> acl, ms |-> w]
  OBVIOUS
<1>6. Save(n, l) /\ UNCHANGED <<wal, now>>
  BY <1>1, <1>2, <1>3 DEF SetCollectionAcl
<1>7. IF Accepts(known, c, acl, w)
      THEN /\ setting' = [setting EXCEPT ![n] = @ \cup {s}]
           /\ made' = made \cup {[coll |-> c, acl |-> acl, ms |-> w, by |-> n]}
      ELSE UNCHANGED <<setting, made>>
  BY <1>1, <1>2, <1>4 DEF SetCollectionAcl
<1>8. Grows(cat[n], known) /\ c \in DOMAIN known /\ Vouched(cat[n], known, {}) /\ IsCatalog(cat[n])
  BY <1>0, <1>1, EnsureFacts DEF TypeInv
<1>9. IsCatalog(known)
  BY <1>8 DEF Grows
<1>10. /\ Grows(known, l) /\ Vouched(known, l, {r})
       /\ acl.parent # c => Covers(l, r)
  <2>1. r.kind = "acl" /\ r.coll = c /\ r.acl = acl /\ r.ms = w
    BY <1>5
  <2>2. r.acl \in Acl /\ r.ms \in Nat /\ r.coll \in DOMAIN known
    BY <1>8, <2>1, AccessControlAssumption
  <2>3. l = SetAclAt(known, r.coll, r.acl, r.ms)
    BY <1>3, <2>1
  <2> QED
    BY <1>9, <2>1, <2>2, <2>3, SetFacts
<1>11. Grows(cat[n], l)
  BY <1>8, <1>10, GrowsOn
<1>12. Vouched(cat[n], l, {r})
  BY <1>8, <1>10, VouchedOn, SMT
<1> DEFINE m0 == [coll |-> c, acl |-> acl, ms |-> w, by |-> n]
<1>13. ASSUME Accepts(known, c, acl, w) PROVE m0 \in made' /\ SetBy(n, s)' /\ Covers(l, s)
  <2>1. m0 \in made' /\ acl.parent # c
    BY <1>7, <1>13 DEF Accepts
  <2>2. s.coll = c /\ s.acl = acl /\ s.ms = w /\ r.coll = c /\ r.ms = w
    BY <1>4, <1>5
  <2>3. m0.coll = c /\ m0.acl = acl /\ m0.ms = w /\ m0.by = n
    OBVIOUS
  <2> HIDE DEF m0
  <2>4. SetBy(n, s)'
    BY <2>1, <2>2, <2>3 DEF SetBy
  <2> QED
    BY <1>10, <2>1, <2>2, <2>4 DEF Covers
<1>14. ASSUME NEW d \in DOMAIN l, l[d].ms > 0
       PROVE  (d \in DOMAIN cat[n] /\ l[d] = cat[n][d]) \/ Owned(n, d, l[d])'
  <2>1. CASE Accepts(known, c, acl, w)
    <3>1. CASE d \in DOMAIN cat[n] /\ l[d] = cat[n][d]
      BY <3>1
    <3>2. CASE r.coll = d /\ r.acl = l[d].acl /\ r.ms = l[d].ms
      <4>1. m0 \in made' /\ m0.coll = d /\ m0.acl = l[d].acl /\ m0.ms = l[d].ms /\ m0.by = n
        BY <1>5, <1>13, <2>1, <3>2
      <4> HIDE DEF m0
      <4> QED
        BY <4>1 DEF Owned
    <3> QED
      BY <1>12, <1>14, <3>1, <3>2 DEF Vouched
  <2>2. CASE ~Accepts(known, c, acl, w)
    BY <1>3, <1>8, <1>14, <2>2 DEF SetAclAt, Vouched
  <2> QED
    BY <2>1, <2>2
<1>15. made \subseteq made' /\ setting \in [Nodes -> SUBSET Requests]
  BY <1>0, <1>7 DEF TypeInv
<1>16. /\ cat' = [m \in Nodes |-> cat'[m]] /\ file' = cat'
       /\ \A m \in Nodes : IsCatalog(cat'[m]) /\ Grows(cat[m], cat'[m])
       /\ AclIsOwners'
  BY <1>6, <1>11, <1>14, <1>15, CatalogGrows
<1>17. /\ setting' \in [Nodes -> SUBSET Requests]
       /\ \A m \in Nodes : \A q \in setting'[m] :
             q \in setting[m] \/ (m = n /\ q = s /\ Accepts(known, c, acl, w))
  BY <1>7, <1>15
<1>18. TypeInv'
  BY <1>0, <1>6, <1>16, <1>17 DEF TypeInv
<1>19. /\ \A m \in Nodes : \A q \in Range(wal[m]) :
              q.kind = "acl" => SetBy(m, q)' /\ Covers(cat'[m], q)
       /\ \A m \in Nodes : \A q \in setting[m] : SetBy(m, q)' /\ Covers(cat'[m], q)
  BY <1>15, <1>16, RecordsStay
<1>20. Recorded'
  BY <1>6, <1>19 DEF Recorded, Covers
<1>21. Requested'
  <2>1. cat'[n] = l
    BY <1>0, <1>6 DEF TypeInv, Save
  <2>2. ASSUME NEW m \in Nodes, NEW q \in setting'[m] PROVE SetBy(m, q)' /\ Covers(cat'[m], q)
    BY <1>13, <1>17, <1>19, <2>1, <2>2
  <2> QED
    BY <2>2 DEF Requested, Covers
<1> QED
  BY <1>16, <1>18, <1>20, <1>21 DEF Inv

\* The record of an ACL that is set.
LEMMA AppendStep ==
    ASSUME Inv, NEW n \in Nodes, NEW s, AppendLedgerOp(n, s)
    PROVE  Inv' /\ \A m \in Nodes : Grows(cat[m], cat'[m])
<1>0. TypeInv /\ Recorded /\ Requested /\ AclIsOwners
  BY DEF Inv
<1>1. /\ s \in setting[n] /\ setting' = [setting EXCEPT ![n] = @ \ {s}]
      /\ wal' = [wal EXCEPT ![n] = Append(@, [kind |-> "acl", coll |-> s.coll, acl |-> s.acl,
                                              ms |-> s.ms])]
      /\ UNCHANGED <<cat, file, now, made>>
  BY DEF AppendLedgerOp
<1>2. s \in Requests
  BY <1>0, <1>1 DEF TypeInv
<1>3. PICK e \in Records :
          /\ e = [kind |-> "acl", coll |-> s.coll, acl |-> s.acl, ms |-> s.ms]
          /\ e.coll = s.coll /\ e.acl = s.acl /\ e.ms = s.ms
  <2> DEFINE e == [kind |-> "acl", coll |-> s.coll, acl |-> s.acl, ms |-> s.ms]
  <2>1. s.coll \in Collections /\ s.acl \in Acl /\ s.ms \in Nat
    BY <1>2 DEF Requests
  <2>2. e \in Records
    BY <2>1 DEF Records, AclRecords
  <2>3. e.coll = s.coll /\ e.acl = s.acl /\ e.ms = s.ms
    OBVIOUS
  <2> QED
    BY <2>2, <2>3
<1>4. wal \in [Nodes -> Seq(Records)] /\ wal' = [wal EXCEPT ![n] = Append(@, e)]
  BY <1>0, <1>1, <1>3 DEF TypeInv
<1>5. /\ wal' \in [Nodes -> Seq(Records)]
      /\ \A m \in Nodes : Range(wal'[m]) \subseteq Range(wal[m]) \cup {e}
      /\ \A m \in Nodes : m # n => wal'[m] = wal[m]
  BY <1>4, RangeAppend
<1>6. setting' \in [Nodes -> SUBSET Requests] /\ \A m \in Nodes : setting'[m] \subseteq setting[m]
  BY <1>0, <1>1 DEF TypeInv
<1>7. \A m \in Nodes : Grows(cat[m], cat'[m])
  BY <1>0, <1>1, GrowsSelf DEF TypeInv
<1>8. /\ \A m \in Nodes : \A r \in Range(wal[m]) :
            r.kind = "acl" => SetBy(m, r)' /\ Covers(cat'[m], r)
      /\ \A m \in Nodes : \A q \in setting[m] : SetBy(m, q)' /\ Covers(cat'[m], q)
  BY <1>1, <1>7, RecordsStay
<1>9. SetBy(n, e)' /\ Covers(cat'[n], e)
  <2>1. SetBy(n, s)' /\ Covers(cat'[n], s)
    BY <1>1, <1>8
  <2> QED
    BY <1>3, <2>1 DEF SetBy, Covers
<1>10. Recorded'
  <2>1. ASSUME NEW m \in Nodes, NEW r \in Range(wal'[m]), r.kind = "acl"
        PROVE  SetBy(m, r)' /\ Covers(cat'[m], r)
    <3>1. CASE r \in Range(wal[m])
      BY <1>8, <2>1, <3>1
    <3>2. CASE r \notin Range(wal[m])
      <4>1. r = e /\ m = n
        BY <1>5, <2>1, <3>2
      <4> QED
        BY <1>9, <4>1
    <3> QED
      BY <3>1, <3>2
  <2> QED
    BY <2>1 DEF Recorded, Covers
<1>11. Requested'
  BY <1>6, <1>8 DEF Requested, Covers
<1>12. TypeInv'
  BY <1>0, <1>1, <1>5, <1>6 DEF TypeInv
<1>13. AclIsOwners'
  BY <1>0, <1>1, SMT DEF AclIsOwners
<1> QED
  BY <1>7, <1>10, <1>11, <1>12, <1>13 DEF Inv

\* A round of the exchange.
LEMMA ExchangeStep ==
    ASSUME Inv, NEW n \in Nodes, NEW p \in Nodes, ExchangeLedger(n, p)
    PROVE  Inv' /\ \A m \in Nodes : Grows(cat[m], cat'[m])
<1>0. TypeInv /\ Recorded
  BY DEF Inv
<1>1. PICK delta : delta = LedgerDelta(wal[n], wal[p])
  OBVIOUS
<1>2. PICK w : w = Wall(n)
  OBVIOUS
<1>3. PICK l : l = ApplyDelta(cat[n], w, p, delta)
  OBVIOUS
<1>4. Save(n, l) /\ UNCHANGED <<wal, setting, now, made>>
  BY <1>1, <1>2, <1>3 DEF ExchangeLedger
<1>5. delta \in Seq(Records) /\ Range(delta) \subseteq Range(wal[p])
  BY <1>0, <1>1, LedgerDeltaFacts DEF TypeInv
<1> DEFINE S == {r \in Range(delta) : r.kind = "acl" /\ r.acl.owner = p}
<1>6. Grows(cat[n], l) /\ Vouched(cat[n], l, S)
  BY <1>0, <1>3, <1>5, ApplyDeltaFacts, SMT DEF TypeInv
<1>7. ASSUME NEW c \in DOMAIN l, l[c].ms > 0
      PROVE  (c \in DOMAIN cat[n] /\ l[c] = cat[n][c]) \/ Owned(n, c, l[c])'
  <2>1. CASE c \in DOMAIN cat[n] /\ l[c] = cat[n][c]
    BY <2>1
  <2>2. ASSUME NEW r \in S, r.coll = c, r.acl = l[c].acl, r.ms = l[c].ms
        PROVE  Owned(n, c, l[c])'
    <3>1. r.kind = "acl" /\ r.acl.owner = p /\ SetBy(p, r)
      BY <1>0, <1>5 DEF Recorded
    <3> QED
      BY <1>4, <2>2, <3>1 DEF SetBy, Owned
  <2>3. (c \in DOMAIN cat[n] /\ l[c] = cat[n][c])
        \/ \E r \in S : r.coll = c /\ r.acl = l[c].acl /\ r.ms = l[c].ms
    <3> HIDE DEF S
    <3> QED
      BY <1>6, <1>7 DEF Vouched
  <2> HIDE DEF S
  <2> QED
    BY <2>1, <2>2, <2>3
<1>8. /\ cat' = [m \in Nodes |-> cat'[m]] /\ file' = cat'
      /\ \A m \in Nodes : IsCatalog(cat'[m]) /\ Grows(cat[m], cat'[m])
      /\ AclIsOwners'
  BY <1>4, <1>6, <1>7, CatalogGrows
<1>9. /\ \A m \in Nodes : \A r \in Range(wal[m]) :
            r.kind = "acl" => SetBy(m, r)' /\ Covers(cat'[m], r)
      /\ \A m \in Nodes : \A s \in setting[m] : SetBy(m, s)' /\ Covers(cat'[m], s)
  BY <1>4, <1>8, RecordsStay
<1>10. Recorded' /\ Requested'
  BY <1>4, <1>9 DEF Recorded, Requested, Covers
<1>11. TypeInv'
  BY <1>0, <1>4, <1>8 DEF TypeInv
<1> QED
  BY <1>8, <1>10, <1>11 DEF Inv

\* A restart: the ledger over catalog.json, or over nothing.
LEMMA RestartStep ==
    ASSUME Inv, NEW n \in Nodes, NEW torn \in BOOLEAN, Restart(n, torn)
    PROVE  Inv' /\ \A m \in Nodes \ lost' : Grows(cat[m], cat'[m])
<1>0. TypeInv /\ Recorded /\ Requested /\ AclIsOwners
  BY DEF Inv
<1>1. PICK known : known = IF torn THEN <<>> ELSE cat[n]
  OBVIOUS
<1>2. PICK l : l = ReplayLedger(known, wal[n])
  OBVIOUS
<1>3. /\ Save(n, l) /\ setting' = [setting EXCEPT ![n] = {}]
      /\ torn => n \in lost'
      /\ UNCHANGED <<wal, now, made>>
  BY <1>0, <1>1, <1>2 DEF Restart, TypeInv
<1>4. IsCatalog(known) /\ \A c \in DOMAIN known : ~torn /\ known = cat[n]
  <2>1. CASE torn
    <3>1. known = <<>> /\ DOMAIN known = {}
      BY <1>1, <2>1, SMT
    <3> QED
      BY <3>1 DEF IsCatalog
  <2>2. CASE ~torn
    BY <1>0, <1>1, <2>2 DEF TypeInv
  <2> QED
    BY <2>1, <2>2
<1>5. wal[n] \in Seq(Records)
  BY <1>0 DEF TypeInv
<1>6. /\ Grows(known, l) /\ Vouched(known, l, Range(wal[n]))
      /\ \A i \in DOMAIN wal[n] :
             wal[n][i].kind = "acl" /\ wal[n][i].acl.parent # wal[n][i].coll => Covers(l, wal[n][i])
  BY <1>2, <1>4, <1>5, ReplayFacts
<1>7. \A r \in Range(wal[n]) : r.kind = "acl" => SetBy(n, r) /\ Covers(l, r)
  BY <1>0, <1>6, SMT DEF Recorded, SetBy, Range
<1>8. /\ cat' = [m \in Nodes |-> cat'[m]] /\ file' = cat'
      /\ cat'[n] = l /\ \A m \in Nodes : m # n => cat'[m] = cat[m]
  BY <1>0, <1>3 DEF TypeInv, Save
<1>9. \A m \in Nodes : IsCatalog(cat'[m])
  BY <1>0, <1>6, <1>8 DEF TypeInv, Grows
<1>10. TypeInv'
  <2>1. setting' \in [Nodes -> SUBSET Requests]
    BY <1>0, <1>3 DEF TypeInv
  <2> QED
    BY <1>0, <1>3, <1>8, <1>9, <2>1 DEF TypeInv
<1>11. Recorded'
  <2>1. ASSUME NEW m \in Nodes, NEW r \in Range(wal[m]), r.kind = "acl"
        PROVE  SetBy(m, r) /\ Covers(cat'[m], r)
    BY <1>0, <1>7, <1>8, <2>1 DEF Recorded
  <2> QED
    BY <1>3, <2>1 DEF Recorded, SetBy, Covers
<1>12. Requested'
  <2>1. \A m \in Nodes : IF m = n THEN setting'[m] = {} ELSE setting'[m] = setting[m]
    BY <1>0, <1>3 DEF TypeInv
  <2>2. ASSUME NEW m \in Nodes, NEW s \in setting'[m] PROVE SetBy(m, s) /\ Covers(cat'[m], s)
    BY <1>0, <1>8, <2>1, <2>2 DEF Requested
  <2> QED
    BY <1>3, <2>2 DEF Requested, SetBy, Covers
<1>13. AclIsOwners'
  <2>1. ASSUME NEW m \in Nodes, NEW c \in DOMAIN cat'[m], NEW e, e = cat'[m][c], e.ms > 0
        PROVE  Owned(m, c, e)
    <3>1. CASE c \in DOMAIN cat[m] /\ e = cat[m][c]
      BY <1>0, <2>1, <3>1, SMT DEF AclIsOwners, Owned
    <3>2. CASE ~(c \in DOMAIN cat[m] /\ e = cat[m][c])
      <4>1. m = n /\ e = l[c] /\ c \in DOMAIN l
        BY <1>8, <2>1, <3>2
      <4>2. ~(c \in DOMAIN known /\ l[c] = known[c])
        BY <1>4, <3>2, <4>1
      <4>3. PICK r \in Range(wal[n]) : r.kind = "acl" /\ r.coll = c /\ r.acl = e.acl /\ r.ms = e.ms
        BY <1>6, <2>1, <4>1, <4>2, SMT DEF Vouched
      <4>4. SetBy(n, r)
        BY <1>7, <4>3
      <4> QED
        BY <4>1, <4>3, <4>4 DEF SetBy, Owned
    <3> QED
      BY <3>1, <3>2
  <2> QED
    BY <1>3, <2>1, SMT DEF AclIsOwners, Owned
<1>14. ASSUME NEW m \in Nodes \ lost' PROVE Grows(cat[m], cat'[m])
  <2>1. CASE m # n
    BY <1>0, <1>8, <2>1, GrowsSelf DEF TypeInv
  <2>2. CASE m = n
    <3>1. known = cat[n]
      BY <1>1, <1>3, <1>14, <2>2
    <3> QED
      BY <1>6, <1>8, <2>2, <3>1
  <2> QED
    BY <2>1, <2>2
<1> QED
  BY <1>10, <1>11, <1>12, <1>13, <1>14 DEF Inv

LEMMA InvStep ==
    Inv /\ [Next]_vars => Inv' /\ \A m \in Nodes \ lost' : Grows(cat[m], cat'[m])
<1> SUFFICES ASSUME Inv, [Next]_vars
             PROVE  Inv' /\ \A m \in Nodes \ lost' : Grows(cat[m], cat'[m])
  OBVIOUS
<1>1. CASE \E n \in Nodes, c \in Collections : PutDocument(n, c)
  BY <1>1, PutStep DEF PutDocument
<1>2. CASE \E n, p \in Nodes, c \in Collections : MergeRemote(n, p, c)
  BY <1>2, PutStep DEF MergeRemote
<1>3. CASE \E n \in Nodes, c \in Collections, acl \in ApiAcls : SetCollectionAcl(n, c, acl)
  BY <1>3, SetStep
<1>4. CASE \E n \in Nodes : \E s \in setting[n] : AppendLedgerOp(n, s)
  BY <1>4, AppendStep
<1>5. CASE \E n, p \in Nodes : ExchangeLedger(n, p)
  BY <1>5, ExchangeStep
<1>6. CASE \E n \in Nodes, torn \in BOOLEAN : Restart(n, torn)
  BY <1>6, RestartStep
<1>7. CASE Tick \/ UNCHANGED vars
  <2>1. UNCHANGED <<cat, file, wal, setting, made>> /\ (now' = now \/ now' = now + 1)
    BY <1>7 DEF Tick, vars
  <2>2. TypeInv /\ Recorded /\ Requested /\ AclIsOwners
    BY DEF Inv
  <2>3. TypeInv'
    BY <2>1, <2>2, SMT DEF TypeInv
  <2>4. Recorded' /\ Requested'
    BY <2>1, <2>2, SMT DEF Recorded, Requested, SetBy, Covers, Range
  <2>5. AclIsOwners'
    BY <2>1, <2>2, SMT DEF AclIsOwners
  <2>6. \A m \in Nodes : Grows(cat[m], cat'[m])
    BY <2>1, <2>2, GrowsSelf DEF TypeInv
  <2> QED
    BY <2>3, <2>4, <2>5, <2>6 DEF Inv
<1> QED
  BY <1>1, <1>2, <1>3, <1>4, <1>5, <1>6, <1>7 DEF Next

\* For every set of nodes and collections, any clocks and any number of
\* restarts, an ACL in a catalog was set through the API of that node or of
\* the owner it names (SetCollectionAcl, ApplyRemoteAcl, ReplayLedger).
THEOREM OnlyOwnersSet == Spec => []AclIsOwners
<1>1. Inv => AclIsOwners
  BY DEF Inv
<1> QED
  BY <1>1, InvInit, InvStep, PTL DEF Spec

\* What a node has on its ledger is in force on it, also when catalog.json was
\* lost and all there is to start from is the ledger (ReplayLedger).
THEOREM LedgerIsInForce == Spec => []OwnAclsSurvive
<1>1. Inv => OwnAclsSurvive
  <2> SUFFICES ASSUME Inv, NEW n \in Nodes, NEW i \in DOMAIN wal[n], wal[n][i].kind = "acl"
               PROVE  Covers(cat[n], wal[n][i])
    BY DEF OwnAclsSurvive, Covers
  <2>1. wal[n][i] \in Range(wal[n])
    BY DEF Range
  <2> QED
    BY <2>1 DEF Inv, Recorded
<1> QED
  BY <1>1, InvInit, InvStep, PTL DEF Spec

\* No step, a restart with catalog.json included, takes the ACL of a collection
\* back to an older version (SetAclAt, ReplayLedger).
THEOREM VersionsOnlyGrow == Spec => AclNeverRewinds
<1> DEFINE Step == \A n \in Nodes \ lost' : \A c \in DOMAIN cat[n] :
                       c \in DOMAIN cat'[n] /\ cat'[n][c].ms >= cat[n][c].ms
<1>1. Inv /\ [Next]_vars => [Step]_vars
  BY InvStep DEF Grows
<1>2. Spec => []Inv
  BY InvInit, InvStep, PTL DEF Spec
<1> HIDE DEF Step
<1>3. Spec => [][Step]_vars
  BY <1>1, <1>2, PTL DEF Spec
<1> QED
  BY <1>3 DEF AclNeverRewinds, Step

=============================================================================
