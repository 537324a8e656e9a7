--------------------------- MODULE HandoffProofs ---------------------------
(* Theorems about the transit store of module Handoff. *)
EXTENDS Handoff, FiniteSetTheorems, TLAPS

\* Leaves are first-order unless they name another backend.
USE Zenon

-----------------------------------------------------------------------------
(* The inductive invariant *)

Keys == {Key(d) : d \in Docs} \cup {HexOfHash}
Hashes == {LedgerKeyHash(Owner, k) : k \in Keys}
Bytes == (SUBSET Nat) \ {{}}
Envelopes == [hash : Docs, bytes : Bytes, lsn : Nat \ {0}]

Records == [op : {"intent", "claimed"}, lsn : Nat, hash : Hashes]
           \cup [op : {"checkpoint"}, lsn : Nat]

Jobs == {Idle} \cup [pc : {"gate", "intent"}, doc : Docs, bytes : Bytes]
        \cup [pc : {"hold"}, doc : Docs, bytes : Bytes, lsn : Nat \ {0}]

Sessions == {Idle} \cup [pc : {"response"}, entries : SUBSET Envelopes]
            \cup [pc : {"claim"}, hashes : SUBSET Docs]

\* One envelope per document.
OnePerDocument(S) == \A e, f \in S : e.hash = f.hash => e = f

TypeInv ==
    /\ copy \in [Docs -> SUBSET Nat]
    /\ job \in [Threads -> Jobs]
    /\ ledger \subseteq Records /\ nextLsn \in Nat \ {0}
    /\ entries \subseteq Envelopes /\ IsFiniteSet(entries) /\ OnePerDocument(entries)
    /\ log \in Seq(Envelopes \cup {Torn})
    /\ settled \subseteq Hashes
    /\ session \in Sessions
    /\ owned \in [Docs -> SUBSET Nat]
    /\ overlapped \in BOOLEAN /\ writes \in Nat /\ faults \in Nat

\* Every envelope in memory, in the file or about to be stored has an intent
\* the ledger knows of, with an LSN the ledger has passed.
Backed(e) == e.lsn < nextLsn /\ (HasIntent(e) \/ Checkpointed(e))

IntentInv ==
    /\ \A e \in entries \cup (Range(log) \ {Torn}) : Backed(e)
    /\ \A t \in Threads : job[t].pc = "hold" => Backed(Stored(t))

\* What is being claimed has been merged.
ClaimInv ==
    /\ session.pc = "claim" => \A d \in session.hashes : owned[d] # {}
    /\ ClaimedWasApplied

PastGate(t) == job[t].pc \in {"intent", "hold"}

\* The first k records of a file are whole.
Clean(s, k) == k \in 0 .. Len(s) /\ \A i \in 1 .. k : s[i] # Torn

\* The envelopes whose time is not over when those of some intents have lapsed.
Left(S, gone) == {e \in S : e.lsn \notin gone}

\* As long as no two requests were past the gate together: the store, and what
\* a restart can make of any part of the log, is within the budget, and leaves
\* room for the request that is past the gate.
BudgetInv ==
    Budget > 0 /\ ~overlapped =>
        /\ BytesHeld <= Budget
        /\ \A t \in Threads : PastGate(t) => BytesHeld + 1 <= Budget
        /\ \A t, u \in Threads : PastGate(t) /\ PastGate(u) => t = u
        /\ \A k \in 0 .. Len(log) :
              Clean(log, k) => Cardinality(Left(Replay(SubSeq(log, 1, k)), lapsed)) <= Budget

Inv == TypeInv /\ IntentInv /\ ClaimInv /\ StoreMatchesLog /\ BudgetInv

-----------------------------------------------------------------------------
(* Files and what a restart makes of them *)

\* A sequence over a set, as a function.
LEMMA SeqFunction ==
    ASSUME NEW S, NEW s \in Seq(S)
    PROVE  /\ Len(s) \in Nat /\ DOMAIN s = 1 .. Len(s)
           /\ \A i \in 1 .. Len(s) : s[i] \in S
           /\ Range(s) = {s[i] : i \in 1 .. Len(s)} /\ Range(s) \subseteq S
BY SMT DEF Range

\* Replaying a file keeps the last record of each document.
LEMMA ReplayIs ==
    ASSUME NEW S, NEW s \in Seq(S)
    PROVE  /\ Replay(s) \subseteq Range(s)
           /\ OnePerDocument(Replay(s))
           /\ IsFiniteSet(Replay(s))
<1>1. /\ Len(s) \in Nat /\ DOMAIN s = 1 .. Len(s)
      /\ Range(s) = {s[i] : i \in 1 .. Len(s)}
  BY SeqFunction
<1> DEFINE I == {i \in DOMAIN s : \A j \in DOMAIN s : j > i => s[j].hash # s[i].hash}
<1>2. Replay(s) = {s[i] : i \in I} /\ I \subseteq 1 .. Len(s)
  BY <1>1 DEF Replay
<1>3. OnePerDocument(Replay(s))
  <2> SUFFICES ASSUME NEW i \in I, NEW j \in I, s[i].hash = s[j].hash
               PROVE  i = j
    BY <1>2 DEF OnePerDocument
  <2> QED
    BY <1>1, SMT
<1>4. IsFiniteSet(Replay(s))
  <2> DEFINE f == [i \in I |-> s[i]]
  <2>1. IsFiniteSet(I)
    <3>1. IsFiniteSet(1 .. Len(s))
      BY <1>1, FS_Interval, SMT
    <3> HIDE DEF I
    <3> QED
      BY <1>2, <3>1, FS_Subset
  <2>2. f \in Surjection(I, Replay(s))
    BY <1>2 DEF Surjection
  <2> QED
    BY <2>1, <2>2, FS_Surjection
<1> QED
  BY <1>1, <1>2, <1>3, <1>4

\* One more record replaces the document's earlier one.
LEMMA ReplayAppend ==
    ASSUME NEW S, NEW s \in Seq(S), NEW e \in S
    PROVE  Replay(Append(s, e)) = {x \in Replay(s) : x.hash # e.hash} \cup {e}
<1> DEFINE a == Append(s, e)
           n == Len(s)
           Kept(q, i) == \A j \in DOMAIN q : j > i => q[j].hash # q[i].hash
<1>1. /\ n \in Nat /\ DOMAIN s = 1 .. n /\ DOMAIN a = 1 .. n + 1 /\ a[n + 1] = e
      /\ \A i \in 1 .. n : a[i] = s[i]
  BY SMT
<1>2. Replay(a) = {a[i] : i \in {i \in 1 .. n + 1 : Kept(a, i)}}
  BY <1>1 DEF Replay
<1>3. Replay(s) = {s[i] : i \in {i \in 1 .. n : Kept(s, i)}}
  BY <1>1 DEF Replay
<1>4. Kept(a, n + 1)
  BY <1>1, SMT
<1>5. \A i \in 1 .. n : Kept(a, i) <=> Kept(s, i) /\ s[i].hash # e.hash
  <2> TAKE i \in 1 .. n
  <2>1. ASSUME Kept(a, i) PROVE Kept(s, i) /\ s[i].hash # e.hash
    BY <1>1, <2>1, SMT
  <2>2. ASSUME Kept(s, i), s[i].hash # e.hash PROVE Kept(a, i)
    BY <1>1, <2>2, SMT
  <2> QED
    BY <2>1, <2>2
<1> HIDE DEF Kept, a, n
<1>6. {i \in 1 .. n + 1 : Kept(a, i)}
      = {i \in 1 .. n : Kept(s, i) /\ s[i].hash # e.hash} \cup {n + 1}
  BY <1>1, <1>4, <1>5, SMT
<1>7. Replay(a) = {s[i] : i \in {i \in 1 .. n : Kept(s, i) /\ s[i].hash # e.hash}} \cup {e}
  BY <1>1, <1>2, <1>6, SMT
<1>8. {s[i] : i \in {i \in 1 .. n : Kept(s, i) /\ s[i].hash # e.hash}}
      = {x \in Replay(s) : x.hash # e.hash}
  BY <1>3
<1> QED
  BY <1>7, <1>8 DEF a

\* A set written to a file record by record.
LEMMA ListingIs ==
    ASSUME NEW S, IsFiniteSet(S)
    PROVE  /\ Listing(S) \in Seq(S)
           /\ Range(Listing(S)) = S
<1> DEFINE n == Cardinality(S)
<1>1. n \in Nat /\ ExistsBijection(1 .. n, S)
  BY FS_CardinalityType
<1>2. PICK b \in Bijection(1 .. n, S) : TRUE
  BY <1>1 DEF ExistsBijection
<1>3. b \in [1 .. n -> S] /\ IsInjective(b)
  BY <1>2 DEF Bijection, Injection, IsInjective
<1> HIDE DEF n
<1>4. Listing(S) \in [1 .. n -> S] /\ IsInjective(Listing(S))
  BY <1>3 DEF Listing, n
<1>5. Listing(S) \in Injection(1 .. n, S)
  BY <1>4 DEF Injection, IsInjective
<1>6. IsFiniteSet(1 .. n) /\ Cardinality(1 .. n) = n
  BY <1>1, FS_Interval, SMT
<1>7. Listing(S) \in Surjection(1 .. n, S)
  BY <1>5, <1>6, FS_Injection DEF n
<1>8. Listing(S) \in Seq(S)
  BY <1>1, <1>4, SMT
<1> QED
  BY <1>4, <1>7, <1>8 DEF Surjection, Range

LEMMA ReplaySet ==
    ASSUME NEW S, IsFiniteSet(S), OnePerDocument(S)
    PROVE  Replay(Listing(S)) = S
<1> DEFINE s == Listing(S)
<1>1. /\ s \in Seq(S) /\ Range(s) = S
  BY ListingIs
<1>2. \A i, j \in DOMAIN s : s[i] = s[j] => i = j
  <2>1. PICK b \in Bijection(1 .. Cardinality(S), S) : TRUE
    BY FS_CardinalityType DEF ExistsBijection
  <2>2. b \in [1 .. Cardinality(S) -> S] /\ IsInjective(b)
    BY <2>1 DEF Bijection, Injection, IsInjective
  <2> QED
    BY <2>2 DEF Listing, IsInjective
<1> HIDE DEF s
<1>3. \A i, j \in DOMAIN s : s[i].hash = s[j].hash => i = j
  BY <1>1, <1>2, SMT DEF OnePerDocument, Range
<1>4. \A i, j \in DOMAIN s : j > i => s[j].hash # s[i].hash
  BY <1>1, <1>3, SMT
<1>5. Replay(s) = {s[i] : i \in DOMAIN s}
  BY <1>4 DEF Replay
<1> QED
  BY <1>1, <1>5 DEF Range, s

\* Load reads up to the first torn frame.
LEMMA WholeIs ==
    ASSUME NEW S, NEW s \in Seq(S)
    PROVE  \E k \in 0 .. Len(s) : /\ Clean(s, k) /\ Whole(s) = SubSeq(s, 1, k)
                                  /\ k = Len(s) \/ s[k + 1] = Torn
<1> DEFINE I == {i \in 1 .. Len(s) : s[i] = Torn}
<1>1. Len(s) \in Nat
  BY SMT
<1>2. Whole(s) = IF I = {} THEN s ELSE SubSeq(s, 1, Min(I) - 1)
  BY DEF Whole
<1>3. CASE I = {}
  <2>1. Whole(s) = s
    BY <1>2, <1>3
  <2>2. SubSeq(s, 1, Len(s)) = s
    BY SMT
  <2>3. Clean(s, Len(s))
    BY <1>1, <1>3, SMT DEF Clean
  <2> QED
    <3>1. Len(s) \in 0 .. Len(s)
      BY <1>1, SMT
    <3>2. Whole(s) = SubSeq(s, 1, Len(s))
      BY <2>1, <2>2
    <3> QED
      BY <2>3, <3>1, <3>2
<1>4. CASE I # {}
  <2>1. PICK m \in I : \A i \in I : m <= i
    <3>1. I \subseteq Nat
      BY SMT
    <3>2. PICK m \in I : \A i \in I : ~ (<<i, m>> \in OpToRel(<, Nat))
      BY <1>4, <3>1, WFMin, NatLessThanWellFounded
    <3>3. \A i \in I : ~(i < m)
      <4>1. \A x, y \in Nat : x < y => <<x, y>> \in OpToRel(<, Nat)
        BY Zenon DEF OpToRel
      <4> QED
        BY <3>1, <3>2, <4>1
    <3> QED
      BY <3>1, <3>3, SMT
  <2>2. Min(I) = m
    <3>1. Min(I) \in I /\ \A i \in I : Min(I) <= i
      BY <2>1 DEF Min
    <3> QED
      BY <2>1, <3>1, SMT
  <2>3. m \in 1 .. Len(s) /\ s[m] = Torn /\ \A i \in 1 .. m - 1 : s[i] # Torn
    BY <2>1, SMT
  <2>4. Whole(s) = SubSeq(s, 1, m - 1)
    BY <1>2, <1>4, <2>2
  <2>5. m - 1 \in 0 .. Len(s) /\ Clean(s, m - 1) /\ s[(m - 1) + 1] = Torn
    BY <1>1, <2>3, SMT DEF Clean
  <2> DEFINE k == m - 1
  <2>6. /\ k \in 0 .. Len(s) /\ Clean(s, k) /\ Whole(s) = SubSeq(s, 1, k)
        /\ s[k + 1] = Torn
    BY <2>4, <2>5
  <2> HIDE DEF k
  <2> QED
    BY <2>6
<1> QED
  BY <1>3, <1>4

\* The first j records of a file.
LEMMA Prefix ==
    ASSUME NEW S, NEW s \in Seq(S), NEW j \in 0 .. Len(s)
    PROVE  /\ SubSeq(s, 1, j) \in Seq(S)
           /\ SubSeq(s, 1, j) = [i \in 1 .. j |-> s[i]]
           /\ Len(SubSeq(s, 1, j)) = j
           /\ \A i \in 1 .. j : SubSeq(s, 1, j)[i] = s[i]
           /\ Range(SubSeq(s, 1, j)) \subseteq Range(s)
<1>1. /\ Len(s) \in Nat /\ \A i \in 1 .. Len(s) : s[i] \in S
      /\ DOMAIN s = 1 .. Len(s)
  BY SMT
<1>2. SubSeq(s, 1, j) = [i \in 1 .. j |-> s[i]]
  BY <1>1, SMT
<1>3. SubSeq(s, 1, j) \in Seq(S) /\ Len(SubSeq(s, 1, j)) = j
  BY <1>1, SMT
<1>4. Range(SubSeq(s, 1, j)) \subseteq Range(s)
  BY <1>1, <1>2, SMT DEF Range
<1> QED
  BY <1>2, <1>3, <1>4

LEMMA SamePrefix ==
    ASSUME NEW S, NEW s \in Seq(S), NEW t \in Seq(S), NEW j \in 0 .. Len(s),
           j \in 0 .. Len(t), \A i \in 1 .. j : s[i] = t[i]
    PROVE  SubSeq(s, 1, j) = SubSeq(t, 1, j)
<1>1. SubSeq(s, 1, j) = [i \in 1 .. j |-> s[i]] /\ SubSeq(t, 1, j) = [i \in 1 .. j |-> t[i]]
  BY Prefix
<1> QED
  BY <1>1

\* A restart finds a whole part of the log.  The file it leaves either holds
\* just that, or has no whole part the log did not have.
LEMMA Loaded ==
    ASSUME NEW S, Torn \in S, log \in Seq(S), NEW n \in 0 .. Len(log), NEW file,
           \/ file = SubSeq(log, 1, n)
           \/ n < Len(log) /\ file = Append(SubSeq(log, 1, n), Torn),
           Load(file)
    PROVE  \E k \in 0 .. Len(log) :
              /\ Clean(log, k) /\ entries' = Replay(SubSeq(log, 1, k))
              /\ \/ log' = Listing(entries')
                 \/ /\ log' \in Seq(S) /\ Range(log') \subseteq Range(log) \cup {Torn}
                    /\ Torn \notin Range(log') => entries' = Replay(log')
                    /\ \A j \in 0 .. Len(log') : Clean(log', j) =>
                          /\ j \in 0 .. Len(log) /\ Clean(log, j)
                          /\ SubSeq(log', 1, j) = SubSeq(log, 1, j)
<1> DEFINE p == SubSeq(log, 1, n)
<1>1. /\ p \in Seq(S) /\ Len(p) = n /\ (\A i \in 1 .. n : p[i] = log[i])
      /\ Range(p) \subseteq Range(log) /\ Len(log) \in Nat
  BY Prefix, SMT
<1> HIDE DEF p
<1>2. /\ file \in Seq(S) /\ Len(file) \in Nat
      /\ \A i \in 1 .. n : file[i] = log[i]
      /\ \/ Len(file) = n
         \/ Len(file) = n + 1 /\ file[n + 1] = Torn
  <2>1. file = p \/ file = Append(p, Torn)
    BY DEF p
  <2>2. CASE file = p
    BY <1>1, <2>2, SMT
  <2>3. CASE file = Append(p, Torn)
    BY <1>1, <2>3, SMT
  <2> QED
    BY <2>1, <2>2, <2>3
<1>3. Range(file) \subseteq Range(log) \cup {Torn}
  <2>1. Range(file) = {file[i] : i \in 1 .. Len(file)}
        /\ Range(log) = {log[i] : i \in 1 .. Len(log)}
    BY <1>2, SeqFunction
  <2> QED
    BY <1>1, <1>2, <2>1, SMT
<1>4. ASSUME NEW j \in 0 .. Len(file), Clean(file, j)
      PROVE  /\ j \in 0 .. Len(log) /\ Clean(log, j)
             /\ SubSeq(file, 1, j) = SubSeq(log, 1, j)
  <2>1. j <= n
    BY <1>1, <1>2, <1>4, SMT DEF Clean
  <2>2. j \in 0 .. Len(log) /\ \A i \in 1 .. j : file[i] = log[i]
    BY <1>1, <1>2, <2>1, SMT
  <2>3. Clean(log, j)
    BY <1>4, <2>2 DEF Clean
  <2>4. SubSeq(file, 1, j) = SubSeq(log, 1, j)
    BY <1>2, <2>2, SamePrefix
  <2> QED
    BY <2>2, <2>3, <2>4
<1>5. PICK k \in 0 .. Len(file) :
         /\ Clean(file, k) /\ Whole(file) = SubSeq(file, 1, k)
         /\ k = Len(file) \/ file[k + 1] = Torn
  BY <1>2, WholeIs
<1>6. /\ k \in 0 .. Len(log) /\ Clean(log, k) /\ SubSeq(file, 1, k) = SubSeq(log, 1, k)
  BY <1>4, <1>5
<1>7. entries' = Replay(SubSeq(log, 1, k))
  BY <1>5, <1>6 DEF Load
<1>8. ASSUME log' = file, Torn \notin Range(file) PROVE entries' = Replay(file)
  <2>1. k = Len(file)
    <3>1. Range(file) = {file[i] : i \in 1 .. Len(file)}
      BY <1>2, SeqFunction
    <3> QED
      BY <1>2, <1>5, <1>8, <3>1, SMT
  <2>2. SubSeq(file, 1, Len(file)) = file
    BY <1>2, SMT
  <2> QED
    BY <1>6, <1>7, <2>1, <2>2
<1>9. log' = Listing(entries') \/ log' = file
  BY DEF Load
<1>10. CASE log' = file
  <2>1. /\ log' \in Seq(S) /\ Range(log') \subseteq Range(log) \cup {Torn}
        /\ Torn \notin Range(log') => entries' = Replay(log')
        /\ \A j \in 0 .. Len(log') : Clean(log', j) =>
              /\ j \in 0 .. Len(log) /\ Clean(log, j)
              /\ SubSeq(log', 1, j) = SubSeq(log, 1, j)
    BY <1>2, <1>3, <1>4, <1>8, <1>10
  <2> QED
    BY <1>6, <1>7, <2>1
<1>11. CASE log' = Listing(entries')
  BY <1>6, <1>7, <1>11
<1> QED
  BY <1>9, <1>10, <1>11

-----------------------------------------------------------------------------
(* The steps on the store *)

LEMMA JobIs ==
    ASSUME TypeInv, NEW t \in Threads
    PROVE  /\ job[t].pc \in {"gate", "intent"} =>
                 /\ job[t].doc \in Docs /\ job[t].bytes \in Bytes
                 /\ job[t] = [pc |-> job[t].pc, doc |-> job[t].doc, bytes |-> job[t].bytes]
           /\ job[t].pc = "hold" => /\ job[t].doc \in Docs /\ Stored(t) \in Envelopes
                                    /\ Stored(t).hash = job[t].doc
                                    /\ Stored(t).lsn = job[t].lsn
           /\ Stored(t) \in Envelopes => Stored(t) # Torn
<1>1. job[t] \in Jobs
  BY DEF TypeInv
<1>2. ASSUME job[t].pc \in {"gate", "intent"}
      PROVE  job[t] \in [pc : {"gate", "intent"}, doc : Docs, bytes : Bytes]
  BY <1>1, <1>2, SMT DEF Jobs, Idle
<1>3. ASSUME job[t].pc = "hold"
      PROVE  job[t] \in [pc : {"hold"}, doc : Docs, bytes : Bytes, lsn : Nat \ {0}]
  BY <1>1, <1>3, SMT DEF Jobs, Idle
<1>4. Torn.lsn = 0
  BY DEF Torn, Envelope
<1>5. \A e \in Envelopes : e.lsn # 0
  BY DEF Envelopes
<1> QED
  BY <1>2, <1>3, <1>4, <1>5 DEF Stored, Envelope, Envelopes

\* What a whole part of the log holds.
LEMMA PrefixIs ==
    ASSUME TypeInv, NEW k \in 0 .. Len(log), Clean(log, k)
    PROVE  /\ Replay(SubSeq(log, 1, k)) \subseteq Envelopes
           /\ Replay(SubSeq(log, 1, k)) \subseteq Range(log) \ {Torn}
           /\ IsFiniteSet(Replay(SubSeq(log, 1, k)))
           /\ OnePerDocument(Replay(SubSeq(log, 1, k)))
<1> DEFINE p == SubSeq(log, 1, k)
           S == Envelopes \cup {Torn}
<1>1. log \in Seq(S)
  BY DEF TypeInv
<1>2. /\ p \in Seq(S) /\ Len(p) = k /\ (\A i \in 1 .. k : p[i] = log[i])
      /\ Range(p) \subseteq Range(log)
  BY <1>1, Prefix, SMT
<1> HIDE DEF p, S
<1>3. /\ Replay(p) \subseteq Range(p) /\ OnePerDocument(Replay(p))
      /\ IsFiniteSet(Replay(p))
  BY <1>2, ReplayIs
<1>4. Range(p) = {p[i] : i \in 1 .. k} /\ Range(p) \subseteq S
  BY <1>2, SeqFunction
<1>5. Torn \notin Range(p)
  BY <1>2, <1>4 DEF Clean
<1> QED
  BY <1>2, <1>3, <1>4, <1>5 DEF p, S

LEMMA RestartIs ==
    ASSUME TypeInv, Restart
    PROVE  \E k \in 0 .. Len(log) :
              /\ Clean(log, k) /\ entries' = Replay(SubSeq(log, 1, k))
              /\ \/ log' = Listing(entries')
                 \/ /\ log' \in Seq(Envelopes \cup {Torn})
                    /\ Range(log') \subseteq Range(log) \cup {Torn}
                    /\ Torn \notin Range(log') => entries' = Replay(log')
                    /\ \A j \in 0 .. Len(log') : Clean(log', j) =>
                          /\ j \in 0 .. Len(log) /\ Clean(log, j)
                          /\ SubSeq(log', 1, j) = SubSeq(log, 1, j)
<1> DEFINE S == Envelopes \cup {Torn}
<1>1. log \in Seq(S) /\ Torn \in S
  BY DEF TypeInv
<1>2. PICK n \in 0 .. Len(log) :
         \/ Load(SubSeq(log, 1, n))
         \/ n < Len(log) /\ Load(Append(SubSeq(log, 1, n), Torn))
  BY DEF Restart
<1> HIDE DEF S
<1>3. CASE Load(SubSeq(log, 1, n))
  BY <1>1, <1>3, Loaded DEF S
<1>4. CASE n < Len(log) /\ Load(Append(SubSeq(log, 1, n), Torn))
  BY <1>1, <1>4, Loaded DEF S
<1> QED
  BY <1>2, <1>3, <1>4


StoreTypeInv ==
    /\ entries \subseteq Envelopes /\ IsFiniteSet(entries) /\ OnePerDocument(entries)
    /\ log \in Seq(Envelopes \cup {Torn})

LEMMA HoldStore ==
    ASSUME TypeInv, StoreMatchesLog, NEW t \in Threads, Hold(t)
    PROVE  /\ StoreTypeInv' /\ StoreMatchesLog'
           /\ Range(log') = Range(log) \cup {Stored(t)}
<1> DEFINE e == Stored(t)
           S == Envelopes \cup {Torn}
<1>1. e \in Envelopes /\ e # Torn /\ e.hash = job[t].doc
  BY JobIs DEF Hold
<1>2. /\ log' = Append(log, e) /\ log \in Seq(S) /\ e \in S
      /\ entries' = {x \in entries : x.hash # e.hash} \cup {e}
  BY <1>1 DEF Hold, TypeInv
<1> HIDE DEF e
<1>3. entries' \subseteq Envelopes /\ OnePerDocument(entries')
  BY <1>1, <1>2 DEF TypeInv, OnePerDocument
<1>4. IsFiniteSet(entries')
  <2>1. IsFiniteSet({x \in entries : x.hash # e.hash})
    <3> DEFINE T == {x \in entries : x.hash # e.hash}
    <3>1. T \in SUBSET entries /\ IsFiniteSet(entries)
      BY DEF TypeInv
    <3> HIDE DEF T
    <3>2. IsFiniteSet(T)
      BY <3>1, FS_Subset
    <3> QED
      BY <3>2 DEF T
  <2> QED
    BY <1>2, <2>1, FS_AddElement
<1>5. log' \in Seq(S)
  BY <1>2, SMT
<1> HIDE DEF S
<1>6. /\ Len(log) \in Nat /\ Len(log') = Len(log) + 1 /\ log'[Len(log) + 1] = e
      /\ \A i \in 1 .. Len(log) : log'[i] = log[i]
  BY <1>2, SMT
<1>7. Range(log') = Range(log) \cup {e}
  <2>1. Range(log') = {log'[i] : i \in 1 .. Len(log')}
    BY <1>5, SeqFunction
  <2>2. Range(log) = {log[i] : i \in 1 .. Len(log)}
    BY <1>2, SeqFunction
  <2> QED
    BY <1>6, <2>1, <2>2, SMT
<1>8. ASSUME Torn \notin Range(log') PROVE Replay(log') = entries'
  <2>1. Replay(log) = entries
    BY <1>7, <1>8 DEF StoreMatchesLog
  <2> QED
    BY <1>2, <2>1, ReplayAppend, SMT
<1> QED
  BY <1>3, <1>4, <1>5, <1>7, <1>8 DEF StoreTypeInv, StoreMatchesLog, OnePerDocument, e, S

LEMMA HoldFailsStore ==
    ASSUME TypeInv, StoreMatchesLog, NEW t \in Threads, HoldFails(t)
    PROVE  /\ StoreTypeInv' /\ StoreMatchesLog' /\ entries' = entries
           /\ Range(log') \subseteq Range(log) \cup {Torn}
<1> DEFINE S == Envelopes \cup {Torn}
<1>1. log \in Seq(S) /\ Torn \in S /\ entries' = entries
  BY DEF TypeInv, HoldFails
<1>2. CASE log' = log
  <2>1. StoreTypeInv'
    BY <1>1, <1>2 DEF TypeInv, StoreTypeInv, OnePerDocument
  <2>2. StoreMatchesLog'
    BY <1>1, <1>2 DEF StoreMatchesLog
  <2> QED
    BY <1>1, <1>2, <2>1, <2>2
<1>3. CASE log' = Append(log, Torn)
  <2>1. log' \in Seq(S)
    BY <1>1, <1>3, SMT
  <2> HIDE DEF S
  <2>2. /\ Len(log) \in Nat /\ Len(log') = Len(log) + 1 /\ log'[Len(log) + 1] = Torn
        /\ \A i \in 1 .. Len(log) : log'[i] = log[i]
    BY <1>1, <1>3, SMT
  <2>3. Range(log') = Range(log) \cup {Torn}
    <3>1. Range(log') = {log'[i] : i \in 1 .. Len(log')}
          /\ Range(log) = {log[i] : i \in 1 .. Len(log)}
      BY <1>1, <2>1, SeqFunction
    <3> QED
      BY <2>2, <3>1, SMT
  <2> QED
    BY <1>1, <2>1, <2>3 DEF TypeInv, StoreTypeInv, StoreMatchesLog, OnePerDocument, S
<1> QED
  BY <1>2, <1>3 DEF HoldFails

LEMMA CompactStore ==
    ASSUME TypeInv, StoreMatchesLog, NEW kept \in SUBSET entries, CompactLocked(kept)
    PROVE  /\ StoreTypeInv' /\ StoreMatchesLog' /\ entries' = kept
           /\ log' = log \/ (log' \in Seq(kept) /\ Range(log') = kept)
<1>1. entries' = kept /\ IsFiniteSet(kept) /\ kept \subseteq Envelopes /\ OnePerDocument(kept)
  BY FS_Subset DEF CompactLocked, TypeInv, OnePerDocument
<1>2. CASE kept = entries
  <2>1. log' = log
    BY <1>2 DEF CompactLocked
  <2> QED
    BY <1>1, <1>2, <2>1, SMT
    DEF TypeInv, StoreTypeInv, StoreMatchesLog, OnePerDocument, Replay, Range
<1>3. CASE kept # entries
  <2>1. log' = Listing(kept)
    BY <1>3 DEF CompactLocked
  <2>2. log' \in Seq(kept) /\ Range(log') = kept /\ Replay(log') = kept
    BY <1>1, <2>1, ListingIs, ReplaySet
  <2>3. log' \in Seq(Envelopes \cup {Torn})
    BY <1>1, <2>2, SMT
  <2> QED
    BY <1>1, <2>2, <2>3 DEF StoreTypeInv, StoreMatchesLog, OnePerDocument
<1> QED
  BY <1>2, <1>3

LEMMA RestartStore ==
    ASSUME TypeInv, Restart
    PROVE  /\ StoreTypeInv' /\ StoreMatchesLog'
           /\ entries' \subseteq Range(log) \ {Torn}
           /\ Range(log') \subseteq Range(log) \cup {Torn}
<1>1. PICK k \in 0 .. Len(log) :
              /\ Clean(log, k) /\ entries' = Replay(SubSeq(log, 1, k))
              /\ \/ log' = Listing(entries')
                 \/ /\ log' \in Seq(Envelopes \cup {Torn})
                    /\ Range(log') \subseteq Range(log) \cup {Torn}
                    /\ Torn \notin Range(log') => entries' = Replay(log')
  BY RestartIs
<1>2. /\ entries' \subseteq Envelopes /\ entries' \subseteq Range(log) \ {Torn}
      /\ IsFiniteSet(entries') /\ OnePerDocument(entries')
  BY <1>1, PrefixIs
<1>3. CASE log' = Listing(entries')
  <2>1. log' \in Seq(entries') /\ Range(log') = entries' /\ Replay(log') = entries'
    BY <1>2, <1>3, ListingIs, ReplaySet
  <2>2. log' \in Seq(Envelopes \cup {Torn})
    BY <1>2, <2>1, SMT
  <2> QED
    BY <1>2, <2>1, <2>2 DEF StoreTypeInv, StoreMatchesLog, OnePerDocument
<1>4. CASE ~(log' = Listing(entries'))
  BY <1>1, <1>2, <1>4 DEF StoreTypeInv, StoreMatchesLog, OnePerDocument
<1> QED
  BY <1>3, <1>4

-----------------------------------------------------------------------------
(* Types *)

LEMMA TypeInit == Init => TypeInv
<1> SUFFICES ASSUME Init PROVE TypeInv
  OBVIOUS
<1>1. job \in [Threads -> Jobs] /\ session \in Sessions
  BY DEF Init, Jobs, Sessions
<1>2. log \in Seq(Envelopes \cup {Torn})
  BY SMT DEF Init
<1>3. copy \in [Docs -> SUBSET Nat] /\ owned \in [Docs -> SUBSET Nat]
  BY DEF Init
<1>4. overlapped \in BOOLEAN
  BY Zenon DEF Init
<1>5. entries \subseteq Envelopes /\ IsFiniteSet(entries) /\ OnePerDocument(entries)
  BY FS_EmptySet DEF Init, OnePerDocument
<1>6. /\ ledger \subseteq Records /\ nextLsn \in Nat \ {0} /\ settled \subseteq Hashes
      /\ writes \in Nat /\ faults \in Nat
  BY SMT DEF Init
<1> QED
  BY <1>1, <1>2, <1>3, <1>4, <1>5, <1>6 DEF TypeInv

\* The parts of the state other than the store.
OtherTypeInv ==
    /\ copy \in [Docs -> SUBSET Nat]
    /\ job \in [Threads -> Jobs]
    /\ ledger \subseteq Records /\ nextLsn \in Nat \ {0}
    /\ settled \subseteq Hashes
    /\ session \in Sessions
    /\ owned \in [Docs -> SUBSET Nat]
    /\ overlapped \in BOOLEAN /\ writes \in Nat /\ faults \in Nat

LEMMA RequestType ==
    ASSUME TypeInv, NEW t \in Threads,
           \/ \E d \in Docs : BroadcastLocalWrite(t, d)
           \/ HoldForUnreachableOwners(t)
           \/ AppendIntent(t)
           \/ Hold(t)
           \/ HoldFails(t)
    PROVE  OtherTypeInv'
<1>1. Idle \in Jobs
  BY DEF Jobs
<1>2. ASSUME NEW d \in Docs, BroadcastLocalWrite(t, d) PROVE OtherTypeInv'
  <2>1. /\ copy' = [copy EXCEPT ![d] = @ \cup {writes + 1}] /\ writes' = writes + 1
        /\ job' = [job EXCEPT ![t] = [pc |-> "gate", doc |-> d, bytes |-> copy'[d]]]
    BY <1>2 DEF BroadcastLocalWrite
  <2>2. copy' \in [Docs -> SUBSET Nat] /\ copy'[d] \in Bytes /\ writes' \in Nat
    <3>1. writes + 1 \in Nat /\ copy \in [Docs -> SUBSET Nat]
      BY SMT DEF TypeInv
    <3>0. copy[d] \cup {writes + 1} \in SUBSET Nat
      BY <3>1
    <3>2. copy'[d] = copy[d] \cup {writes + 1} /\ copy' \in [Docs -> SUBSET Nat]
      BY <2>1, <3>0, <3>1
    <3>3. copy'[d] \in SUBSET Nat /\ copy'[d] # {}
      BY <3>1, <3>2
    <3> QED
      BY <2>1, <3>1, <3>2, <3>3 DEF Bytes
  <2>3. [pc |-> "gate", doc |-> d, bytes |-> copy'[d]] \in Jobs
    BY <2>2 DEF Jobs
  <2> QED
    BY <1>2, <2>1, <2>2, <2>3 DEF BroadcastLocalWrite, TypeInv, OtherTypeInv
<1>3. CASE HoldForUnreachableOwners(t)
  <2>1. /\ job[t].doc \in Docs /\ job[t].bytes \in Bytes
        /\ job[t] = [pc |-> job[t].pc, doc |-> job[t].doc, bytes |-> job[t].bytes]
    BY <1>3, JobIs DEF HoldForUnreachableOwners
  <2>2. [job[t] EXCEPT !.pc = "intent"] \in Jobs
    BY <2>1 DEF Jobs
  <2>3. job' \in [Threads -> Jobs]
    BY <1>1, <1>3, <2>2 DEF HoldForUnreachableOwners, TypeInv
  <2>4. overlapped' \in BOOLEAN
    BY <1>3 DEF HoldForUnreachableOwners, NoteOverlap
  <2> QED
    BY <1>3, <2>3, <2>4 DEF HoldForUnreachableOwners, TypeInv, OtherTypeInv
<1>4. CASE AppendIntent(t)
  <2>1. job[t].doc \in Docs /\ job[t].bytes \in Bytes
    BY <1>4, JobIs DEF AppendIntent
  <2>2. nextLsn \in Nat \ {0} /\ nextLsn' \in Nat \ {0}
    BY <1>4, SMT DEF AppendIntent, AppendLedgerOp, TypeInv
  <2>3. [pc |-> "hold", doc |-> job[t].doc, bytes |-> job[t].bytes, lsn |-> nextLsn] \in Jobs
    BY <2>1, <2>2 DEF Jobs
  <2>4. job' \in [Threads -> Jobs]
    BY <1>4, <2>3 DEF AppendIntent, WithIntent, TypeInv
  <2>5. LedgerKeyHash(Owner, Key(job[t].doc)) \in Hashes
    BY <2>1 DEF Hashes, Keys
  <2>6. ledger' \subseteq Records
    BY <1>4, <2>2, <2>5, SMT DEF AppendIntent, AppendLedgerOp, TypeInv, Records
  <2> QED
    BY <1>4, <2>2, <2>4, <2>6 DEF AppendIntent, TypeInv, OtherTypeInv
<1>5. CASE Hold(t)
  BY <1>1, <1>5 DEF Hold, TypeInv, OtherTypeInv
<1>6. CASE HoldFails(t)
  BY <1>1, <1>6, SMT DEF HoldFails, TypeInv, OtherTypeInv
<1> QED
  BY <1>2, <1>3, <1>4, <1>5, <1>6

LEMMA SessionIs ==
    ASSUME TypeInv
    PROVE  /\ session.pc = "response" => session.entries \subseteq Envelopes
           /\ session.pc = "claim" => session.hashes \subseteq Docs
<1>1. session \in Sessions
  BY DEF TypeInv
<1> QED
  BY <1>1, SMT DEF Sessions, Idle

LEMMA ClaimingType ==
    ASSUME NEW hashes \in SUBSET Docs, Claiming(hashes)
    PROVE  session' \in Sessions
BY DEF Claiming, Sessions

LEMMA FetchType ==
    ASSUME TypeInv,
           \/ HandleTransitQuery
           \/ ApplyHolderEntries
           \/ \E d \in Docs : RecordRemoteClaim(d)
           \/ LoseMessage
    PROVE  OtherTypeInv'
<1>1. CASE HandleTransitQuery
  <2>1. session' \in [pc : {"response"}, entries : SUBSET Envelopes]
    BY <1>1 DEF HandleTransitQuery, Live, TypeInv
  <2> QED
    BY <1>1, <2>1 DEF HandleTransitQuery, TypeInv, OtherTypeInv, Sessions
<1>2. CASE ApplyHolderEntries
  <2>1. PICK candidates \in SUBSET Nodes : \E applied \in SUBSET Designated(candidates) :
           MergeEntries(applied) /\ Claiming({e.hash : e \in applied})
    BY <1>2 DEF ApplyHolderEntries
  <2>2. PICK applied \in SUBSET Designated(candidates) :
           MergeEntries(applied) /\ Claiming({e.hash : e \in applied})
    BY <2>1
  <2>3. applied \subseteq Envelopes
    BY <1>2, SessionIs DEF ApplyHolderEntries, Designated
  <2>4. {e.hash : e \in applied} \in SUBSET Docs
    BY <2>3 DEF Envelopes
  <2>5. session' \in Sessions
    BY <2>2, <2>4, ClaimingType
  <2>6. owned' \in [Docs -> SUBSET Nat]
    <3>1. \A e \in applied : e.bytes \subseteq Nat
      BY <2>3 DEF Envelopes, Bytes
    <3> QED
      BY <2>2, <3>1, SMT DEF MergeEntries, TypeInv
  <2> QED
    BY <1>2, <2>5, <2>6 DEF ApplyHolderEntries, TypeInv, OtherTypeInv
<1>3. ASSUME NEW d \in Docs, RecordRemoteClaim(d) PROVE OtherTypeInv'
  <2>1. session.hashes \ {d} \in SUBSET Docs
    BY <1>3, SessionIs DEF RecordRemoteClaim
  <2>2. session' \in Sessions
    BY <1>3, <2>1, ClaimingType DEF RecordRemoteClaim
  <2>3. LedgerKeyHash(Owner, ClaimedKey(d)) \in Hashes
    BY DEF Hashes, Keys, ClaimedKey
  <2>4. ledger' \subseteq Records /\ nextLsn' \in Nat \ {0}
    BY <1>3, <2>3, SMT DEF RecordRemoteClaim, AppendLedgerOp, TypeInv, Records
  <2> QED
    BY <1>3, <2>2, <2>4 DEF RecordRemoteClaim, TypeInv, OtherTypeInv
<1>4. CASE LoseMessage
  BY <1>4 DEF LoseMessage, TypeInv, OtherTypeInv, Sessions
<1> QED
  BY <1>1, <1>2, <1>3, <1>4

LEMMA UpkeepType ==
    ASSUME TypeInv,
           \/ \E r \in ledger : RunCheckpoint(r.lsn)
           \/ Release
           \/ \E e \in entries : Lapse(e)
           \/ ExpireAsOf
           \/ Restart
    PROVE  OtherTypeInv'
<1>1. ASSUME NEW r \in ledger, RunCheckpoint(r.lsn) PROVE OtherTypeInv'
  <2>1. ledger' \subseteq ledger \cup {[op |-> "checkpoint", lsn |-> nextLsn]}
        /\ nextLsn' = nextLsn + 1
        /\ settled' \subseteq HashesBelow("intent", r.lsn)
    BY <1>1 DEF RunCheckpoint
  <2>2. HashesBelow("intent", r.lsn) \subseteq Hashes
    <3>1. \A x \in Records : x.op = "intent" => x.hash \in Hashes
      BY DEF Records
    <3> QED
      BY <3>1 DEF HashesBelow, TypeInv
  <2>3. [op |-> "checkpoint", lsn |-> nextLsn] \in Records
    BY DEF Records, TypeInv
  <2> QED
    BY <1>1, <2>1, <2>2, <2>3, SMT DEF RunCheckpoint, TypeInv, OtherTypeInv
<1>2. CASE Release
  BY <1>2 DEF Release, TypeInv, OtherTypeInv
<1>3. ASSUME NEW e \in entries, Lapse(e) PROVE OtherTypeInv'
  BY <1>3 DEF Lapse, TypeInv, OtherTypeInv
<1>4. CASE ExpireAsOf
  BY <1>4 DEF ExpireAsOf, TypeInv, OtherTypeInv
<1>5. CASE Restart
  BY <1>5, SMT DEF Restart, TypeInv, OtherTypeInv, Jobs, Sessions
<1> QED
  BY <1>1, <1>2, <1>3, <1>4, <1>5

\* What a step can do to the store.
StoreStep ==
    \/ UNCHANGED <<entries, log>>
    \/ \E t \in Threads : Hold(t) \/ HoldFails(t)
    \/ \E kept \in SUBSET entries : CompactLocked(kept)
    \/ Restart

LEMMA StoreSteps == TypeInv /\ [Next]_vars => StoreStep
<1> SUFFICES ASSUME TypeInv, [Next]_vars PROVE StoreStep
  OBVIOUS
<1>1. CASE Release
  <2>1. CompactLocked({e \in entries : e.hash \notin settled})
    BY <1>1 DEF Release
  <2> QED
    BY <2>1 DEF StoreStep
<1>2. CASE ExpireAsOf
  <2>1. CompactLocked(Live) /\ Live \in SUBSET entries
    BY <1>2 DEF ExpireAsOf, Live
  <2> QED
    BY <2>1 DEF StoreStep
<1>3. CASE \/ \E t \in Threads : \/ \E d \in Docs : BroadcastLocalWrite(t, d)
                                 \/ HoldForUnreachableOwners(t)
                                 \/ AppendIntent(t)
           \/ HandleTransitQuery \/ ApplyHolderEntries \/ LoseMessage
           \/ \E d \in Docs : RecordRemoteClaim(d)
           \/ \E r \in ledger : RunCheckpoint(r.lsn)
           \/ \E e \in entries : Lapse(e)
           \/ UNCHANGED vars
  BY <1>3
  DEF BroadcastLocalWrite, HoldForUnreachableOwners, AppendIntent,
      HandleTransitQuery, ApplyHolderEntries, LoseMessage, RecordRemoteClaim,
      RunCheckpoint, Lapse, vars, StoreStep
<1> QED
  BY <1>1, <1>2, <1>3 DEF Next, StoreStep

LEMMA StoreInv == TypeInv /\ StoreMatchesLog /\ StoreStep => StoreTypeInv' /\ StoreMatchesLog'
<1> SUFFICES ASSUME TypeInv, StoreMatchesLog, StoreStep
             PROVE  StoreTypeInv' /\ StoreMatchesLog'
  OBVIOUS
<1>1. CASE UNCHANGED <<entries, log>>
  BY <1>1, SMT DEF TypeInv, StoreTypeInv, StoreMatchesLog, OnePerDocument, Replay, Range
<1> QED
  BY <1>1, HoldStore, HoldFailsStore, CompactStore, RestartStore DEF StoreStep

LEMMA TypeStep == TypeInv /\ StoreMatchesLog /\ [Next]_vars => TypeInv' /\ StoreMatchesLog'
<1> SUFFICES ASSUME TypeInv, StoreMatchesLog, [Next]_vars
             PROVE  TypeInv' /\ StoreMatchesLog'
  OBVIOUS
<1>1. StoreTypeInv' /\ StoreMatchesLog'
  BY StoreSteps, StoreInv
<1>2. OtherTypeInv'
  <2>1. CASE UNCHANGED vars
    BY <2>1 DEF vars, TypeInv, OtherTypeInv
  <2> QED
    BY <2>1, RequestType, FetchType, UpkeepType DEF Next
<1> QED
  BY <1>1, <1>2 DEF TypeInv, StoreTypeInv, OtherTypeInv

-----------------------------------------------------------------------------
(* Intents and claims *)

\* The LSNs of the envelopes there are.
LEMMA HeldIs ==
    ASSUME TypeInv
    PROVE  /\ \A e \in entries \cup (Range(log) \ {Torn}) : e \in Envelopes
           /\ \A e \in Envelopes : e.lsn \in Nat
<1>1. Range(log) \subseteq Envelopes \cup {Torn}
  BY SeqFunction DEF TypeInv
<1> QED
  BY <1>1 DEF TypeInv, Envelopes

LEMMA BackedGrows ==
    ASSUME NEW e, e.lsn \in Nat, nextLsn \in Nat, nextLsn' \in Nat,
           nextLsn <= nextLsn', ledger \subseteq ledger', Backed(e)
    PROVE  Backed(e)'
BY SMT DEF Backed, HasIntent, Checkpointed

LEMMA IntentStep ==
    ASSUME TypeInv, StoreMatchesLog, IntentInv, [Next]_vars
    PROVE  IntentInv'
<1> DEFINE Held == entries \cup (Range(log) \ {Torn})
<1>1. TypeInv'
  BY TypeStep
<1>2. /\ nextLsn \in Nat /\ nextLsn' \in Nat
      /\ \A e \in Envelopes : e.lsn \in Nat /\ e # Torn
      /\ Held \subseteq Envelopes
      /\ \A t \in Threads : job[t].pc = "hold" => Stored(t) \in Envelopes
  BY <1>1, HeldIs, JobIs, SMT DEF TypeInv, Envelopes, Torn, Envelope
\* A step of the ledger backs what was backed.
<1>3. ASSUME NEW e \in Envelopes, Backed(e) PROVE Backed(e)'
  <2>1. CASE ledger \subseteq ledger' /\ nextLsn <= nextLsn'
    BY <1>2, <1>3, <2>1, BackedGrows
  <2>2. ASSUME NEW r \in ledger, RunCheckpoint(r.lsn) PROVE Backed(e)'
    <3>1. /\ [op |-> "checkpoint", lsn |-> nextLsn] \in ledger'
          /\ nextLsn' = nextLsn + 1
      BY <2>2 DEF RunCheckpoint
    <3>2. e.lsn < nextLsn
      BY <1>3 DEF Backed
    <3>3. Checkpointed(e)'
      <4> DEFINE c == [op |-> "checkpoint", lsn |-> nextLsn]
      <4>1. c \in ledger' /\ c.op = "checkpoint" /\ c.lsn > e.lsn
        BY <1>2, <3>1, <3>2
      <4> HIDE DEF c
      <4> QED
        BY <4>1 DEF Checkpointed
    <3> QED
      BY <1>2, <3>1, <3>2, <3>3, SMT DEF Backed
  <2>3. CASE ~ \E r \in ledger : RunCheckpoint(r.lsn)
    <3>1. ASSUME NEW rec, AppendLedgerOp(rec)
          PROVE  ledger \subseteq ledger' /\ nextLsn <= nextLsn'
      BY <1>2, <3>1, SMT DEF AppendLedgerOp
    <3>2. CASE UNCHANGED <<ledger, nextLsn>>
      BY <1>2, <2>1, <3>2, SMT
    <3>3. ASSUME NEW t \in Threads, AppendIntent(t) PROVE Backed(e)'
      BY <2>1, <3>1, <3>3 DEF AppendIntent
    <3>4. ASSUME NEW d \in Docs, RecordRemoteClaim(d) PROVE Backed(e)'
      BY <2>1, <3>1, <3>4 DEF RecordRemoteClaim
    <3>5. CASE \/ \E t \in Threads : \/ \E d \in Docs : BroadcastLocalWrite(t, d)
                                     \/ HoldForUnreachableOwners(t)
                                     \/ Hold(t) \/ HoldFails(t)
               \/ HandleTransitQuery \/ ApplyHolderEntries \/ LoseMessage
               \/ Release \/ ExpireAsOf \/ Restart
               \/ \E f \in entries : Lapse(f)
               \/ UNCHANGED vars
      <4>1. UNCHANGED <<ledger, nextLsn>>
        BY <3>5
        DEF BroadcastLocalWrite, HoldForUnreachableOwners, Hold, HoldFails,
            HandleTransitQuery, ApplyHolderEntries, LoseMessage, Release, ExpireAsOf,
            Restart, Lapse, vars
      <4> QED
        BY <3>2, <4>1
    <3> QED
      BY <2>3, <3>3, <3>4, <3>5 DEF Next
  <2> QED
    BY <2>2, <2>3
<1>4. ASSUME NEW e \in Held' PROVE Backed(e)'
  <2>1. CASE e \in Held
    <3>1. Backed(e)
      BY <2>1 DEF IntentInv
    <3> QED
      BY <1>2, <1>3, <2>1, <3>1
  <2>2. ASSUME NEW t \in Threads, Hold(t), e = Stored(t) PROVE Backed(e)'
    BY <1>2, <1>3, <2>2 DEF IntentInv, Hold
  <2>3. e \in Held \/ \E t \in Threads : Hold(t) /\ e = Stored(t)
    <3>1. CASE UNCHANGED <<entries, log>>
      BY <3>1
    <3>2. ASSUME NEW t \in Threads, Hold(t)
          PROVE  e \in Held \/ e = Stored(t)
      <4>1. Range(log') = Range(log) \cup {Stored(t)}
        BY <3>2, HoldStore
      <4>2. entries' \subseteq entries \cup {Stored(t)}
        BY <3>2 DEF Hold
      <4> QED
        BY <4>1, <4>2
    <3>3. ASSUME NEW t \in Threads, HoldFails(t) PROVE e \in Held
      BY <3>3, HoldFailsStore
    <3>4. ASSUME NEW kept \in SUBSET entries, CompactLocked(kept) PROVE e \in Held
      BY <3>4, CompactStore
    <3>5. CASE Restart
      BY <3>5, RestartStore
    <3> QED
      BY <3>1, <3>2, <3>3, <3>4, <3>5, StoreSteps DEF StoreStep
  <2> QED
    BY <2>1, <2>2, <2>3
<1>5. ASSUME NEW t \in Threads, job'[t].pc = "hold" PROVE Backed(Stored(t))'
  <2>1. CASE job'[t] = job[t]
    <3>1. Stored(t)' = Stored(t)
      BY <2>1 DEF Stored
    <3>2. Backed(Stored(t)) /\ Stored(t) \in Envelopes
      BY <1>2, <1>5, <2>1 DEF IntentInv
    <3>3. PICK e \in Envelopes : e = Stored(t)
      BY <3>2
    <3>4. Backed(e)'
      BY <1>3, <3>2, <3>3
    <3> QED
      BY <3>1, <3>3, <3>4
  <2>2. CASE AppendIntent(t)
    <3>1. /\ job'[t] = [pc |-> "hold", doc |-> job[t].doc, bytes |-> job[t].bytes,
                        lsn |-> nextLsn]
          /\ nextLsn' = nextLsn + 1
          /\ [op |-> "intent", lsn |-> nextLsn,
              hash |-> LedgerKeyHash(Owner, Key(job[t].doc))] \in ledger'
      BY <2>2 DEF AppendIntent, WithIntent, AppendLedgerOp, TypeInv
    <3>2. Stored(t)' = Envelope(job[t].doc, job[t].bytes, nextLsn)
      <4>1. /\ job'[t].doc = job[t].doc /\ job'[t].bytes = job[t].bytes
            /\ job'[t].lsn = nextLsn
        BY <3>1, SMT
      <4> QED
        BY <4>1 DEF Stored
    <3>3. Stored(t)'.lsn = nextLsn /\ Stored(t)'.hash = job[t].doc
      BY <3>2, SMT DEF Envelope
    <3>4. HasIntent(Stored(t))'
      BY <3>1, <3>3 DEF HasIntent
    <3>5. Stored(t)'.lsn < nextLsn'
      BY <1>2, <3>1, <3>3, SMT
    <3> QED
      BY <3>4, <3>5 DEF Backed
  <2>3. job'[t] = job[t] \/ AppendIntent(t)
    <3>1. ASSUME NEW u \in Threads,
                 \/ \E d \in Docs : BroadcastLocalWrite(u, d)
                 \/ HoldForUnreachableOwners(u) \/ Hold(u) \/ HoldFails(u)
                 \/ AppendIntent(u)
          PROVE  job'[t] = job[t] \/ AppendIntent(t)
      <4>1. CASE u # t
        BY <3>1, <4>1
        DEF BroadcastLocalWrite, HoldForUnreachableOwners, Hold, HoldFails,
            AppendIntent, WithIntent, TypeInv
      <4>2. CASE u = t
        <5>1. ASSUME NEW d \in Docs, BroadcastLocalWrite(t, d) PROVE FALSE
          <6>1. job'[t].pc = "gate"
            BY <5>1 DEF BroadcastLocalWrite, TypeInv
          <6> QED
            BY <1>5, <6>1
        <5>2. CASE HoldForUnreachableOwners(t)
          <6>1. job'[t] = Idle \/ job'[t] = [job[t] EXCEPT !.pc = "intent"]
            BY <5>2 DEF HoldForUnreachableOwners, TypeInv
          <6>2. job[t] = [pc |-> job[t].pc, doc |-> job[t].doc, bytes |-> job[t].bytes]
            BY <5>2, JobIs DEF HoldForUnreachableOwners
          <6> QED
            BY <1>5, <6>1, <6>2, SMT DEF Idle
        <5>3. CASE Hold(t) \/ HoldFails(t)
          BY <1>5, <5>3, SMT DEF Hold, HoldFails, TypeInv, Idle
        <5> QED
          BY <3>1, <4>2, <5>1, <5>2, <5>3
      <4> QED
        BY <4>1, <4>2
    <3>2. CASE Restart
      BY <1>5, <3>2 DEF Restart, Idle
    <3>3. CASE \/ HandleTransitQuery \/ ApplyHolderEntries \/ LoseMessage
               \/ \E d \in Docs : RecordRemoteClaim(d)
               \/ \E r \in ledger : RunCheckpoint(r.lsn)
               \/ Release \/ ExpireAsOf
               \/ \E e \in entries : Lapse(e)
               \/ UNCHANGED vars
      BY <3>3
      DEF HandleTransitQuery, ApplyHolderEntries, LoseMessage, RecordRemoteClaim,
          RunCheckpoint, Release, ExpireAsOf, Lapse, vars
    <3> QED
      BY <3>1, <3>2, <3>3 DEF Next
  <2> QED
    BY <2>1, <2>2, <2>3
<1> QED
  BY <1>4, <1>5 DEF IntentInv

LEMMA ClaimStep ==
    ASSUME TypeInv, ClaimInv, [Next]_vars
    PROVE  ClaimInv'
<1>1. CASE ApplyHolderEntries
  <2>1. PICK candidates \in SUBSET Nodes : \E applied \in SUBSET Designated(candidates) :
           MergeEntries(applied) /\ Claiming({e.hash : e \in applied})
    BY <1>1 DEF ApplyHolderEntries
  <2>2. PICK applied \in SUBSET Designated(candidates) :
           MergeEntries(applied) /\ Claiming({e.hash : e \in applied})
    BY <2>1
  <2>3. applied \subseteq Envelopes
    BY <1>1, SessionIs DEF ApplyHolderEntries, Designated
  <2>4. \A d \in Docs : owned[d] \subseteq owned'[d]
    BY <2>2 DEF MergeEntries
  <2>5. \A e \in applied : e.hash \in Docs /\ owned'[e.hash] # {}
    <3> TAKE e \in applied
    <3>1. e.hash \in Docs /\ e.bytes # {}
      BY <2>3 DEF Envelopes, Bytes
    <3>2. owned'[e.hash] = owned[e.hash]
             \cup UNION {f.bytes : f \in {f \in applied : f.hash = e.hash}}
      BY <2>2, <3>1 DEF MergeEntries
    <3>3. e.bytes \subseteq UNION {f.bytes : f \in {f \in applied : f.hash = e.hash}}
      OBVIOUS
    <3> QED
      BY <3>1, <3>2, <3>3
  <2>6. session'.pc = "claim" => \A d \in session'.hashes : owned'[d] # {}
    BY <2>2, <2>5 DEF Claiming, Idle
  <2>7. ClaimedWasApplied'
    BY <1>1, <2>4 DEF ApplyHolderEntries, ClaimInv, ClaimedWasApplied
  <2> QED
    BY <2>6, <2>7 DEF ClaimInv
<1>2. ASSUME NEW d \in Docs, RecordRemoteClaim(d) PROVE ClaimInv'
  <2> DEFINE new == [op |-> "claimed", lsn |-> nextLsn,
                     hash |-> LedgerKeyHash(Owner, ClaimedKey(d))]
  <2>1. /\ ledger' = ledger \cup {new} /\ owned' = owned /\ owned[d] # {}
        /\ session.pc = "claim" /\ Claiming(session.hashes \ {d})
    BY <1>2 DEF RecordRemoteClaim, AppendLedgerOp, ClaimInv
  <2>2. session'.pc = "claim" => \A h \in session'.hashes : owned'[h] # {}
    BY <2>1 DEF Claiming, Idle, ClaimInv
  <2>3. new.hash = <<Owner, ClaimedKey(d)>>
    BY DEF LedgerKeyHash
  <2>4. ASSUME NEW k \in {Key(x) : x \in Docs}, new.hash = LedgerKeyHash(Owner, k)
        PROVE  \E x \in Docs : Key(x) = k /\ owned'[x] # {}
    <3>1. ClaimedKey(d) = k
      BY <2>3, <2>4 DEF LedgerKeyHash
    <3>2. k # HexOfHash
      BY HandoffAssumption DEF Key
    <3>3. Key(d) = k
      BY <3>1, <3>2 DEF ClaimedKey
    <3> QED
      BY <2>1, <3>3
  <2> HIDE DEF new
  <2>5. ClaimedWasApplied'
    BY <2>1, <2>4 DEF ClaimInv, ClaimedWasApplied
  <2> QED
    BY <2>2, <2>5 DEF ClaimInv
<1>3. ASSUME NEW r \in ledger, RunCheckpoint(r.lsn) PROVE ClaimInv'
  <2>1. /\ ledger' \subseteq ledger \cup {[op |-> "checkpoint", lsn |-> nextLsn]}
        /\ UNCHANGED <<session, owned>>
    BY <1>3 DEF RunCheckpoint
  <2> QED
    BY <2>1, SMT DEF ClaimInv, ClaimedWasApplied
<1>4. ASSUME NEW t \in Threads, AppendIntent(t) PROVE ClaimInv'
  <2>1. /\ \A r \in ledger' : r \in ledger \/ r.op = "intent"
        /\ UNCHANGED <<session, owned>>
    BY <1>4, SMT DEF AppendIntent, AppendLedgerOp
  <2> QED
    BY <2>1 DEF ClaimInv, ClaimedWasApplied
<1>5. CASE session'.pc # "claim" /\ UNCHANGED <<ledger, owned>>
  BY <1>5 DEF ClaimInv, ClaimedWasApplied
<1>6. CASE UNCHANGED <<session, ledger, owned>>
  BY <1>6 DEF ClaimInv, ClaimedWasApplied
<1>7. CASE HandleTransitQuery \/ LoseMessage \/ Restart
  <2>1. session'.pc # "claim" /\ UNCHANGED <<ledger, owned>>
    BY <1>7, SMT DEF HandleTransitQuery, LoseMessage, Restart, Idle
  <2> QED
    BY <1>5, <2>1
<1>8. CASE \/ \E t \in Threads : \/ \E d \in Docs : BroadcastLocalWrite(t, d)
                                 \/ HoldForUnreachableOwners(t)
                                 \/ Hold(t) \/ HoldFails(t)
           \/ Release \/ ExpireAsOf
           \/ \E e \in entries : Lapse(e)
           \/ UNCHANGED vars
  <2>1. UNCHANGED <<session, ledger, owned>>
    BY <1>8
    DEF BroadcastLocalWrite, HoldForUnreachableOwners, Hold, HoldFails, Release,
        ExpireAsOf, Lapse, vars
  <2> QED
    BY <1>6, <2>1
<1> QED
  BY <1>1, <1>2, <1>3, <1>4, <1>7, <1>8 DEF Next

-----------------------------------------------------------------------------
(* The budget *)

\* Fewer envelopes, of which more have lapsed, are no more bytes.
LEMMA Fewer ==
    ASSUME NEW S, IsFiniteSet(S), NEW T \in SUBSET S, NEW L, NEW M, L \subseteq M
    PROVE  /\ Cardinality(Left(S, L)) \in Nat
           /\ Cardinality(Left(T, M)) \in Nat
           /\ Cardinality(Left(T, M)) <= Cardinality(Left(S, L))
<1> DEFINE A == Left(T, M)
           B == Left(S, L)
<1>1. A \subseteq B /\ B \subseteq S
  BY DEF Left
<1> HIDE DEF A, B
<1>2. IsFiniteSet(B)
  BY <1>1, FS_Subset
<1>3. IsFiniteSet(A) /\ Cardinality(A) <= Cardinality(B)
  BY <1>1, <1>2, FS_Subset
<1>4. Cardinality(A) \in Nat /\ Cardinality(B) \in Nat
  BY <1>2, <1>3, FS_CardinalityType
<1> QED
  BY <1>3, <1>4 DEF A, B

\* One more envelope is at most one more unit.
LEMMA OneMore ==
    ASSUME NEW S, IsFiniteSet(S), NEW T \in SUBSET S, NEW x, NEW L
    PROVE  Cardinality(Left(T \cup {x}, L))
              <= Cardinality(Left(S, L)) + 1
<1> DEFINE A == Left(T \cup {x}, L)
           B == Left(S, L)
<1>1. A \subseteq B \cup {x} /\ B \subseteq S
  BY DEF Left
<1> HIDE DEF A, B
<1>2. IsFiniteSet(B) /\ Cardinality(B) \in Nat
  BY <1>1, FS_Subset, FS_CardinalityType
<1>3. /\ IsFiniteSet(B \cup {x}) /\ Cardinality(B \cup {x}) \in Nat
      /\ Cardinality(B \cup {x}) <= Cardinality(B) + 1
  <2>1. IsFiniteSet(B \cup {x})
    BY <1>2, FS_AddElement
  <2>2. Cardinality(B \cup {x}) = Cardinality(B) \/ Cardinality(B \cup {x}) = Cardinality(B) + 1
    BY <1>2, FS_AddElement
  <2> QED
    BY <1>2, <2>1, <2>2, SMT
<1>4. Cardinality(A) \in Nat /\ Cardinality(A) <= Cardinality(B \cup {x})
  <2> DEFINE C == B \cup {x}
  <2>1. A \subseteq C /\ IsFiniteSet(C)
    BY <1>1, <1>3
  <2> HIDE DEF C
  <2>2. IsFiniteSet(A) /\ Cardinality(A) <= Cardinality(C)
    BY <2>1, FS_Subset
  <2>3. Cardinality(A) \in Nat
    BY <2>2, FS_CardinalityType
  <2> QED
    BY <2>2, <2>3 DEF C
<1> QED
  BY <1>2, <1>3, <1>4, SMT DEF A, B

\* The part of the budget invariant that is about the log.
LogWithin ==
    \A k \in 0 .. Len(log) :
        Clean(log, k) => Cardinality(Left(Replay(SubSeq(log, 1, k)), lapsed)) <= Budget

\* A step that leaves a beginning of the log, or a log of what it keeps.
LEMMA LogKept ==
    ASSUME TypeInv, TypeInv', LogWithin, Budget \in Nat, lapsed \subseteq lapsed',
           \A j \in 0 .. Len(log') : Clean(log', j) =>
               /\ j \in 0 .. Len(log) /\ Clean(log, j)
               /\ SubSeq(log', 1, j) = SubSeq(log, 1, j)
    PROVE  LogWithin'
<1> SUFFICES ASSUME NEW j \in 0 .. Len(log'), Clean(log', j)
             PROVE  Cardinality(Left(Replay(SubSeq(log', 1, j)), lapsed')) <= Budget
  BY DEF LogWithin, Left, Clean, Replay
<1>1. /\ j \in 0 .. Len(log) /\ Clean(log, j) /\ SubSeq(log', 1, j) = SubSeq(log, 1, j)
  OBVIOUS
<1> DEFINE R == Replay(SubSeq(log, 1, j))
<1>2. IsFiniteSet(R)
  BY <1>1, PrefixIs
<1>3. Cardinality(Left(R, lapsed)) <= Budget
  BY <1>1 DEF LogWithin
<1>4. Replay(SubSeq(log', 1, j)) = R
  BY <1>1
<1> HIDE DEF R
<1>5. /\ Cardinality(Left(R, lapsed')) \in Nat
      /\ Cardinality(Left(R, lapsed)) \in Nat
      /\ Cardinality(Left(R, lapsed')) <= Cardinality(Left(R, lapsed))
  BY <1>2, Fewer
<1> QED
  BY <1>3, <1>4, <1>5, SMT

LEMMA LogRewritten ==
    ASSUME TypeInv, TypeInv', NEW kept, IsFiniteSet(kept), log' \in Seq(kept),
           Cardinality(Left(kept, lapsed')) <= Budget, Budget \in Nat
    PROVE  LogWithin'
<1> SUFFICES ASSUME NEW j \in 0 .. Len(log'), Clean(log', j)
             PROVE  Cardinality(Left(Replay(SubSeq(log', 1, j)), lapsed')) <= Budget
  BY DEF LogWithin, Left, Clean, Replay
<1> DEFINE R == Replay(SubSeq(log', 1, j))
<1>1. R \subseteq kept
  <2>1. SubSeq(log', 1, j) \in Seq(kept)
    BY Prefix
  <2>2. Range(SubSeq(log', 1, j)) \subseteq kept
    BY <2>1, SeqFunction
  <2> QED
    BY <2>1, <2>2, ReplayIs
<1> HIDE DEF R
<1>2. /\ Cardinality(Left(R, lapsed')) \in Nat
      /\ Cardinality(Left(kept, lapsed')) \in Nat
      /\ Cardinality(Left(R, lapsed')) <= Cardinality(Left(kept, lapsed'))
  BY <1>1, Fewer
<1> QED
  BY <1>2, SMT DEF R

\* The budget invariant once its premise holds.
WithinInv ==
    /\ BytesHeld <= Budget
    /\ \A t \in Threads : PastGate(t) => BytesHeld + 1 <= Budget
    /\ \A t, u \in Threads : PastGate(t) /\ PastGate(u) => t = u
    /\ LogWithin

LEMMA Room == \A a, b, c \in Nat : a <= b /\ b + 1 <= c => a + 1 <= c
BY SMT

LEMMA BytesHeldIs ==
    ASSUME TypeInv
    PROVE  BytesHeld = Cardinality(Left(entries, lapsed)) /\ BytesHeld \in Nat
<1>1. BytesHeld = Cardinality(Left(entries, lapsed))
  BY DEF BytesHeld, Live, Left
<1>2. IsFiniteSet(entries)
  BY DEF TypeInv
<1> QED
  BY <1>1, <1>2, Fewer

\* A step that stores nothing keeps the budget, if whoever is past the gate
\* after it has the room.
LEMMA QuietWithin ==
    ASSUME TypeInv, TypeInv', WithinInv, Budget \in Nat,
           UNCHANGED log, entries' \subseteq entries, lapsed \subseteq lapsed',
           \A t \in Threads : PastGate(t)' =>
              \/ PastGate(t)
              \/ BytesHeld + 1 <= Budget /\ \A u \in Threads \ {t} : ~ PastGate(u)'
    PROVE  WithinInv'
<1>1. BytesHeld' \in Nat /\ BytesHeld \in Nat /\ BytesHeld' <= BytesHeld
  <2>1. /\ BytesHeld = Cardinality(Left(entries, lapsed)) /\ BytesHeld \in Nat
        /\ BytesHeld' = Cardinality(Left(entries', lapsed')) /\ BytesHeld' \in Nat
    <3>1. IsFiniteSet(entries')
      BY DEF TypeInv
    <3>2. Cardinality(Left(entries', lapsed')) \in Nat
      BY <3>1, Fewer
    <3>3. BytesHeld' = Cardinality(Left(entries', lapsed'))
      BY DEF BytesHeld, Live, Left
    <3> QED
      BY <3>2, <3>3, BytesHeldIs
  <2>2. IsFiniteSet(entries) /\ entries' \in SUBSET entries
    BY DEF TypeInv
  <2>3. Cardinality(Left(entries', lapsed')) <= Cardinality(Left(entries, lapsed))
    BY <2>2, Fewer
  <2> QED
    BY <2>1, <2>3
<1>2. LogWithin'
  <2>1. \A j \in 0 .. Len(log') : Clean(log', j) =>
               /\ j \in 0 .. Len(log) /\ Clean(log, j)
               /\ SubSeq(log', 1, j) = SubSeq(log, 1, j)
    OBVIOUS
  <2> QED
    BY <2>1, LogKept DEF WithinInv
<1>3. \A t, u \in Threads : PastGate(t)' /\ PastGate(u)' => t = u
  BY DEF WithinInv
<1>4. BytesHeld' <= Budget
  BY <1>1, SMT DEF WithinInv
<1>5. ASSUME NEW t \in Threads, PastGate(t)' PROVE BytesHeld' + 1 <= Budget
  <2>1. BytesHeld + 1 <= Budget
    BY <1>5 DEF WithinInv
  <2> QED
    BY <1>1, <2>1, Room
<1> QED
  BY <1>2, <1>3, <1>4, <1>5 DEF WithinInv


\* The thread that holds was the one past the gate, and had the room.
LEMMA HoldWithin ==
    ASSUME TypeInv, TypeInv', StoreMatchesLog, WithinInv, Budget \in Nat,
           NEW t \in Threads, Hold(t)
    PROVE  WithinInv'
<1> DEFINE x == Stored(t)
           S == Envelopes \cup {Torn}
           T == {e \in entries : e.hash # x.hash}
<1>1. /\ x \in Envelopes /\ x # Torn /\ x.hash = job[t].doc
  BY JobIs DEF Hold
<1>2. /\ log' = Append(log, x) /\ entries' = T \cup {x} /\ lapsed' = lapsed
      /\ log \in Seq(S) /\ x \in S /\ IsFiniteSet(entries) /\ T \in SUBSET entries
  BY <1>1 DEF Hold, TypeInv
<1>3. \A u \in Threads : ~ PastGate(u)'
  <2> TAKE u \in Threads
  <2>1. PastGate(t) /\ job'[t].pc = "idle" /\ (u # t => job'[u] = job[u])
    BY DEF Hold, PastGate, TypeInv, Idle
  <2> QED
    BY <2>1 DEF PastGate, WithinInv
<1>4. BytesHeld + 1 <= Budget /\ BytesHeld \in Nat
      /\ BytesHeld = Cardinality(Left(entries, lapsed))
  BY BytesHeldIs DEF WithinInv, PastGate, Hold
<1> HIDE DEF x, T
<1>5. BytesHeld' = Cardinality(Left(T \cup {x}, lapsed))
  BY <1>2 DEF BytesHeld, Live, Left
<1>6. /\ Cardinality(Left(T \cup {x}, lapsed)) <= Budget
  <2>1. Cardinality(Left(T \cup {x}, lapsed)) <= Cardinality(Left(entries, lapsed)) + 1
    BY <1>2, OneMore
  <2>2. Cardinality(Left(T \cup {x}, lapsed)) \in Nat
    <3>1. IsFiniteSet(entries')
      BY DEF TypeInv
    <3> QED
      BY <1>2, <3>1, Fewer
  <2> QED
    BY <1>4, <2>1, <2>2, SMT
<1>7. LogWithin'
  <2> SUFFICES ASSUME NEW j \in 0 .. Len(log'), Clean(log', j)
               PROVE  Cardinality(Left(Replay(SubSeq(log', 1, j)), lapsed)) <= Budget
    BY <1>2 DEF LogWithin, Left, Clean, Replay
  <2>1. /\ Len(log) \in Nat /\ Len(log') = Len(log) + 1 /\ log' \in Seq(S)
        /\ \A i \in 1 .. Len(log) : log'[i] = log[i]
    BY <1>2, SMT
  <2>2. CASE j <= Len(log)
    <3>1. j \in 0 .. Len(log) /\ Clean(log, j)
      BY <2>1, <2>2, SMT DEF Clean
    <3>2. SubSeq(log', 1, j) = SubSeq(log, 1, j)
      BY <1>2, <2>1, <3>1, SamePrefix, SMT
    <3> QED
      BY <3>1, <3>2 DEF WithinInv, LogWithin
  <2>3. CASE j = Len(log) + 1
    <3>1. SubSeq(log', 1, j) = log'
      BY <2>1, <2>3, Prefix, SMT
    <3>2. \A i \in 1 .. Len(log) : log[i] # Torn
      BY <2>1, <2>3, SMT DEF Clean
    <3>3. Torn \notin Range(log)
      BY <1>2, <3>2, SeqFunction
    <3>4. Replay(log) = entries
      BY <3>3 DEF StoreMatchesLog
    <3>5. Replay(log') = T \cup {x}
      BY <1>2, <3>4, ReplayAppend, SMT DEF T
    <3> QED
      BY <1>6, <3>1, <3>5
  <2> QED
    BY <2>1, <2>2, <2>3, SMT
<1> QED
  BY <1>3, <1>5, <1>6, <1>7 DEF WithinInv

LEMMA HoldFailsWithin ==
    ASSUME TypeInv, TypeInv', WithinInv, Budget \in Nat, NEW t \in Threads, HoldFails(t)
    PROVE  WithinInv'
<1> DEFINE S == Envelopes \cup {Torn}
<1>1. /\ entries' = entries /\ lapsed' = lapsed /\ log \in Seq(S) /\ Torn \in S
      /\ log' = log \/ log' = Append(log, Torn)
  BY DEF HoldFails, TypeInv
<1>2. \A u \in Threads : ~ PastGate(u)'
  <2> TAKE u \in Threads
  <2>1. PastGate(t) /\ job'[t].pc = "idle" /\ (u # t => job'[u] = job[u])
    BY DEF HoldFails, PastGate, TypeInv, Idle
  <2> QED
    BY <2>1 DEF PastGate, WithinInv
<1>3. BytesHeld' = BytesHeld
  BY <1>1 DEF BytesHeld, Live
<1>4. LogWithin'
  <2>1. ASSUME NEW j \in 0 .. Len(log'), Clean(log', j)
        PROVE  /\ j \in 0 .. Len(log) /\ Clean(log, j)
               /\ SubSeq(log', 1, j) = SubSeq(log, 1, j)
    <3>1. CASE log' = log
      BY <2>1, <3>1
    <3>2. CASE log' = Append(log, Torn)
      <4>1. /\ Len(log) \in Nat /\ Len(log') = Len(log) + 1 /\ log' \in Seq(S)
            /\ \A i \in 1 .. Len(log) : log'[i] = log[i]
            /\ log'[Len(log) + 1] = Torn
        BY <1>1, <3>2, SMT
      <4>2. j # Len(log) + 1
        BY <2>1, <4>1, SMT DEF Clean
      <4>3. j \in 0 .. Len(log)
        BY <2>1, <4>1, <4>2, SMT
      <4>4. Clean(log, j)
        BY <2>1, <4>1, <4>3, SMT DEF Clean
      <4>5. SubSeq(log', 1, j) = SubSeq(log, 1, j)
        BY <1>1, <4>1, <4>3, SamePrefix, SMT
      <4> QED
        BY <4>3, <4>4, <4>5
    <3> QED
      BY <1>1, <3>1, <3>2
  <2> QED
    BY <1>1, <2>1, LogKept DEF WithinInv
<1> QED
  BY <1>2, <1>3, <1>4 DEF WithinInv

LEMMA CompactWithin ==
    ASSUME TypeInv, TypeInv', StoreMatchesLog, WithinInv, Budget \in Nat,
           NEW kept \in SUBSET entries, CompactLocked(kept), UNCHANGED <<job, lapsed>>
    PROVE  WithinInv'
<1>1. entries' = kept /\ (log' = log \/ log' \in Seq(kept))
  BY CompactStore
<1>2. \A t \in Threads : PastGate(t)' => PastGate(t)
  BY DEF PastGate
<1>3. CASE log' = log
  BY <1>1, <1>2, <1>3, QuietWithin
<1>4. CASE log' \in Seq(kept)
  <2>1. BytesHeld = Cardinality(Left(entries, lapsed)) /\ BytesHeld \in Nat
    BY BytesHeldIs
  <2>2. BytesHeld' = Cardinality(Left(kept, lapsed))
    BY <1>1 DEF BytesHeld, Live, Left
  <2>3. IsFiniteSet(entries) /\ IsFiniteSet(kept)
    BY <1>1 DEF TypeInv
  <2>4. BytesHeld' \in Nat /\ BytesHeld' <= BytesHeld
    BY <2>1, <2>2, <2>3, Fewer
  <2>5. BytesHeld' <= Budget
    BY <2>1, <2>4, SMT DEF WithinInv
  <2>6. Cardinality(Left(kept, lapsed')) <= Budget
    BY <2>2, <2>5
  <2>7. LogWithin'
    BY <1>4, <2>3, <2>6, LogRewritten
  <2>8. \A t \in Threads : PastGate(t)' => BytesHeld' + 1 <= Budget
    BY <1>2, <2>1, <2>4, Room DEF WithinInv
  <2>9. \A t, u \in Threads : PastGate(t)' /\ PastGate(u)' => t = u
    BY <1>2 DEF WithinInv
  <2> QED
    BY <2>5, <2>7, <2>8, <2>9 DEF WithinInv
<1> QED
  BY <1>1, <1>3, <1>4

LEMMA RestartWithin ==
    ASSUME TypeInv, TypeInv', WithinInv, Budget \in Nat, Restart
    PROVE  WithinInv'
<1>1. PICK k \in 0 .. Len(log) :
              /\ Clean(log, k) /\ entries' = Replay(SubSeq(log, 1, k))
              /\ \/ log' = Listing(entries')
                 \/ \A j \in 0 .. Len(log') : Clean(log', j) =>
                          /\ j \in 0 .. Len(log) /\ Clean(log, j)
                          /\ SubSeq(log', 1, j) = SubSeq(log, 1, j)
  BY RestartIs
<1>2. lapsed' = lapsed /\ \A t \in Threads : ~ PastGate(t)'
  BY DEF Restart, PastGate, Idle
<1>3. Cardinality(Left(entries', lapsed')) <= Budget
  BY <1>1, <1>2 DEF WithinInv, LogWithin
<1>4. BytesHeld' <= Budget
  BY <1>3 DEF BytesHeld, Live, Left
<1>5. CASE log' = Listing(entries')
  <2>1. IsFiniteSet(entries')
    BY DEF TypeInv
  <2>2. log' \in Seq(entries')
    BY <1>5, <2>1, ListingIs
  <2>3. PICK kept : kept = entries'
    OBVIOUS
  <2>4. LogWithin'
    BY <1>3, <2>1, <2>2, <2>3, LogRewritten
  <2> QED
    BY <1>2, <1>4, <2>4 DEF WithinInv
<1>6. CASE \A j \in 0 .. Len(log') : Clean(log', j) =>
                          /\ j \in 0 .. Len(log) /\ Clean(log, j)
                          /\ SubSeq(log', 1, j) = SubSeq(log, 1, j)
  <2>1. LogWithin'
    BY <1>2, <1>6, LogKept DEF WithinInv
  <2> QED
    BY <1>2, <1>4, <2>1 DEF WithinInv
<1> QED
  BY <1>1, <1>5, <1>6


LEMMA BudgetStep ==
    ASSUME TypeInv, StoreMatchesLog, BudgetInv, [Next]_vars
    PROVE  BudgetInv'
<1>1. TypeInv' /\ Budget \in Nat
  BY TypeStep, HandoffAssumption
<1>2. (Budget > 0 /\ ~ overlapped => WithinInv) /\ (WithinInv' => BudgetInv')
  BY DEF BudgetInv, WithinInv, LogWithin
<1>3. overlapped => overlapped'
  <2>1. ASSUME NEW t \in Threads, HoldForUnreachableOwners(t) PROVE overlapped => overlapped'
    BY <2>1 DEF HoldForUnreachableOwners, NoteOverlap
  <2>2. ASSUME NEW t \in Threads, \/ \E d \in Docs : BroadcastLocalWrite(t, d)
                                  \/ AppendIntent(t) \/ Hold(t) \/ HoldFails(t)
        PROVE  overlapped' = overlapped
    BY <2>2 DEF BroadcastLocalWrite, AppendIntent, Hold, HoldFails
  <2>3. CASE \/ HandleTransitQuery \/ ApplyHolderEntries \/ LoseMessage
             \/ \E d \in Docs : RecordRemoteClaim(d)
             \/ \E r \in ledger : RunCheckpoint(r.lsn)
    BY <2>3 DEF HandleTransitQuery, ApplyHolderEntries, LoseMessage, RecordRemoteClaim,
                RunCheckpoint
  <2>4. CASE Release \/ ExpireAsOf \/ Restart \/ \E e \in entries : Lapse(e)
    BY <2>4 DEF Release, ExpireAsOf, Restart, Lapse
  <2>5. CASE UNCHANGED vars
    BY <2>5 DEF vars
  <2> QED
    BY <2>1, <2>2, <2>3, <2>4, <2>5 DEF Next
<1>4. CASE ~ (Budget > 0 /\ ~ overlapped')
  BY <1>4 DEF BudgetInv
<1>5. CASE Budget > 0 /\ ~ overlapped'
  <2> SUFFICES WithinInv'
    BY <1>2
  <2>1. WithinInv
    BY <1>2, <1>3, <1>5
  <2>2. ASSUME NEW t \in Threads, HoldForUnreachableOwners(t) PROVE WithinInv'
    <3>1. UNCHANGED <<log, entries, lapsed>>
      BY <2>2 DEF HoldForUnreachableOwners
    <3>2. \A u \in Threads \ {t} : ~ PastGate(u) /\ job'[u] = job[u]
      BY <1>5, <2>2 DEF HoldForUnreachableOwners, NoteOverlap, PastGate, TypeInv
    <3>3. job'[t].pc # "idle" => BytesHeld + 1 <= Budget
      <4>1. job'[t] = Idle \/ BytesHeld + 1 <= Budget
        BY <1>5, <2>2, SMT DEF HoldForUnreachableOwners, TypeInv
      <4> QED
        BY <4>1, SMT DEF Idle
    <3>4. \A u \in Threads : PastGate(u)' =>
              \/ PastGate(u)
              \/ BytesHeld + 1 <= Budget /\ \A v \in Threads \ {u} : ~ PastGate(v)'
      BY <3>2, <3>3 DEF PastGate
    <3> QED
      BY <1>1, <2>1, <3>1, <3>4, QuietWithin
  <2>3. ASSUME UNCHANGED log, entries' \subseteq entries, lapsed \subseteq lapsed',
               \A t \in Threads : PastGate(t)' => PastGate(t)
        PROVE  WithinInv'
    BY <1>1, <2>1, <2>3, QuietWithin
  <2>4. ASSUME NEW t \in Threads, \/ \E d \in Docs : BroadcastLocalWrite(t, d)
                                  \/ AppendIntent(t)
        PROVE  WithinInv'
    <3>1. UNCHANGED <<log, entries, lapsed>>
      BY <2>4 DEF BroadcastLocalWrite, AppendIntent
    <3>2. /\ \A u \in Threads \ {t} : job'[u] = job[u]
          /\ job'[t].pc = "gate" \/ job[t].pc = "intent"
      BY <2>4, SMT DEF BroadcastLocalWrite, AppendIntent, WithIntent, TypeInv
    <3>3. \A u \in Threads : PastGate(u)' => PastGate(u)
      BY <3>2 DEF PastGate
    <3> QED
      BY <2>3, <3>1, <3>3
  <2>5. CASE Release
    <3>1. /\ CompactLocked({e \in entries : e.hash \notin settled})
          /\ UNCHANGED <<job, lapsed>>
      BY <2>5 DEF Release
    <3> QED
      BY <1>1, <2>1, <3>1, CompactWithin
  <2>6. CASE ExpireAsOf
    <3>1. CompactLocked(Live) /\ UNCHANGED <<job, lapsed>> /\ Live \in SUBSET entries
      BY <2>6 DEF ExpireAsOf, Live
    <3> QED
      BY <1>1, <2>1, <3>1, CompactWithin
  <2>7. CASE \/ HandleTransitQuery \/ ApplyHolderEntries \/ LoseMessage
             \/ \E d \in Docs : RecordRemoteClaim(d)
             \/ \E r \in ledger : RunCheckpoint(r.lsn)
             \/ \E e \in entries : Lapse(e)
             \/ UNCHANGED vars
    <3>1. UNCHANGED <<log, entries, job>> /\ lapsed \subseteq lapsed'
      BY <2>7
      DEF HandleTransitQuery, ApplyHolderEntries, LoseMessage, RecordRemoteClaim,
          RunCheckpoint, Lapse, vars
    <3> QED
      BY <2>3, <3>1 DEF PastGate
  <2>8. ASSUME NEW t \in Threads, Hold(t) \/ HoldFails(t) PROVE WithinInv'
    BY <1>1, <2>1, <2>8, HoldWithin, HoldFailsWithin
  <2>9. CASE Restart
    BY <1>1, <2>1, <2>9, RestartWithin
  <2> QED
    BY <2>2, <2>4, <2>5, <2>6, <2>7, <2>8, <2>9 DEF Next
<1> QED
  BY <1>4, <1>5

-----------------------------------------------------------------------------
(* The theorems *)

LEMMA InvInit == Init => Inv
<1> SUFFICES ASSUME Init PROVE Inv
  OBVIOUS
<1>1. TypeInv
  BY TypeInit
<1>2. /\ entries = {} /\ log = <<>> /\ ledger = {} /\ session = Idle
      /\ \A t \in Threads : job[t] = Idle
  BY DEF Init
<1>3. /\ DOMAIN log = {} /\ Len(log) = 0 /\ Range(log) = {} /\ Replay(log) = {}
  BY <1>2, SMT DEF Range, Replay
<1>4. IntentInv
  <2>1. entries \cup (Range(log) \ {Torn}) = {}
    BY <1>2, <1>3
  <2>2. \A t \in Threads : job[t].pc # "hold"
    BY <1>2, SMT DEF Idle
  <2> QED
    BY <2>1, <2>2 DEF IntentInv
<1>5. ClaimInv
  BY <1>2 DEF ClaimInv, ClaimedWasApplied, Idle
<1>6. StoreMatchesLog
  BY <1>2, <1>3 DEF StoreMatchesLog
<1>7. BudgetInv
  <2>1. BytesHeld = 0
    BY <1>2, FS_EmptySet DEF BytesHeld, Live
  <2>2. \A t \in Threads : ~ PastGate(t)
    BY <1>2, SMT DEF PastGate, Idle
  <2>3. ASSUME NEW k \in 0 .. Len(log)
        PROVE  Left(Replay(SubSeq(log, 1, k)), lapsed) = {}
    <3>1. k = 0
      BY <1>3, <2>3, SMT
    <3>2. SubSeq(log, 1, k) = <<>>
      BY <1>2, <3>1, SMT
    <3>3. Replay(SubSeq(log, 1, k)) = {}
      BY <1>2, <1>3, <3>2
    <3> QED
      BY <3>3 DEF Left
  <2>4. Budget \in Nat /\ Cardinality({}) = 0
    BY HandoffAssumption, FS_EmptySet
  <2> QED
    <3>1. \A k \in 0 .. Len(log) :
             Cardinality(Left(Replay(SubSeq(log, 1, k)), lapsed)) <= Budget
      <4> TAKE k \in 0 .. Len(log)
      <4> DEFINE S == Left(Replay(SubSeq(log, 1, k)), lapsed)
      <4>1. S = {}
        BY <2>3
      <4> HIDE DEF S
      <4>2. Cardinality(S) <= Budget
        BY <2>4, <4>1, SMT
      <4> QED
        BY <4>2 DEF S
    <3>2. BytesHeld <= Budget
      BY <2>1, <2>4, SMT
    <3> QED
      BY <2>2, <3>1, <3>2 DEF BudgetInv
<1> QED
  BY <1>1, <1>4, <1>5, <1>6, <1>7 DEF Inv

LEMMA InvStep == Inv /\ [Next]_vars => Inv'
BY TypeStep, IntentStep, ClaimStep, BudgetStep DEF Inv

LEMMA Invariance == Spec => []Inv
BY InvInit, InvStep, PTL DEF Spec

\* HoldForUnreachableOwners appends the TRANSIT_INTENT before the bytes: in
\* every behaviour, with any number of threads, crashes, I/O errors and
\* checkpoints, no bytes are in the store, or in any state a restart can load,
\* without an intent in the ledger or a later checkpoint.
THEOREM LedgerFirst == Spec => []IntentBeforeBytes
<1>1. Inv => IntentBeforeBytes
  BY DEF Inv, IntentInv, Backed, IntentBeforeBytes
<1> QED
  BY <1>1, Invariance, PTL

\* HoldForUnreachableOwners refuses when the store is full: as long as no two
\* requests were past its check together, the live bytes are within
\* transit_budget_bytes, also after a restart from any prefix of the log.
THEOREM FullHolderRefuses == Spec => []BudgetRespected
<1>1. Inv => BudgetRespected
  BY DEF Inv, BudgetInv, BudgetRespected
<1> QED
  BY <1>1, Invariance, PTL

\* ApplyHolderEntries claims what it applied: a CLAIMED in the holder's ledger
\* whose key is a document's was sent after the owner merged such a document.
THEOREM ClaimsAreDeliveries == Spec => []ClaimedWasApplied
<1>1. Inv => ClaimedWasApplied
  BY DEF Inv, ClaimInv
<1> QED
  BY <1>1, Invariance, PTL

\* TransitStore::Load undoes nothing: without a torn frame the log replays to
\* the map in memory after any holds, releases, expiries and restarts.
THEOREM LoadFindsStore == Spec => []StoreMatchesLog
<1>1. Inv => StoreMatchesLog
  BY DEF Inv
<1> QED
  BY <1>1, Invariance, PTL

\* Release, ExpireAsOf and Hold drop no live envelope of a document the owner
\* has not merged, but for a newer version of the same document; only a crash
\* does.
THEOREM LiveBytesStay == Spec => KeptUntilDelivered
<1> DEFINE Stays == \A e \in Live : \/ e.bytes \subseteq owned[e.hash]
                                    \/ \E f \in entries' : f.hash = e.hash
                                    \/ faults' # faults
<1>1. Inv /\ [Next]_vars => Stays
  <2> SUFFICES ASSUME Inv, [Next]_vars, NEW e \in Live
               PROVE  (\E f \in entries' : f.hash = e.hash) \/ faults' # faults
    OBVIOUS
  <2>1. e \in entries /\ e.lsn \notin lapsed /\ TypeInv
    BY DEF Live, Inv
  <2>2. CASE entries \subseteq entries'
    BY <2>1, <2>2
  <2>3. ASSUME NEW t \in Threads, Hold(t) PROVE \E f \in entries' : f.hash = e.hash
    <3>1. /\ Stored(t) \in entries' /\ Stored(t).hash = job[t].doc
          /\ e.hash # job[t].doc => e \in entries'
      BY <2>1, <2>3, JobIs DEF Hold
    <3> QED
      BY <3>1
  <2>4. CASE Release
    <3>1. e.hash \in Docs /\ settled \subseteq Hashes
      BY <2>1 DEF TypeInv, Envelopes
    <3>2. e.hash[1] # Owner /\ \A h \in settled : h[1] = Owner
      BY <3>1, HandoffAssumption, SMT DEF Hashes, LedgerKeyHash
    <3> QED
      BY <2>1, <2>4, <3>2 DEF Release, CompactLocked
  <2>5. CASE ExpireAsOf
    BY <2>5 DEF ExpireAsOf, CompactLocked
  <2>6. ASSUME (\E t \in Threads : HoldFails(t)) \/ Restart PROVE faults' # faults
    BY <2>1, <2>6, SMT DEF HoldFails, Restart, TypeInv
  <2>7. CASE \/ \E t \in Threads : \/ \E d \in Docs : BroadcastLocalWrite(t, d)
                                   \/ HoldForUnreachableOwners(t)
                                   \/ AppendIntent(t)
             \/ HandleTransitQuery \/ ApplyHolderEntries \/ LoseMessage
             \/ \E d \in Docs : RecordRemoteClaim(d)
             \/ \E r \in ledger : RunCheckpoint(r.lsn)
             \/ \E f \in entries : Lapse(f)
             \/ UNCHANGED vars
    <3>1. entries' = entries
      BY <2>7
      DEF BroadcastLocalWrite, HoldForUnreachableOwners, AppendIntent,
          HandleTransitQuery, ApplyHolderEntries, LoseMessage, RecordRemoteClaim,
          RunCheckpoint, Lapse, vars
    <3> QED
      BY <2>2, <3>1
  <2> QED
    BY <2>3, <2>4, <2>5, <2>6, <2>7 DEF Next
<1>2. Inv /\ [Next]_vars => [Stays]_vars
  BY <1>1
<1> HIDE DEF Stays
<1>3. Spec => [][Stays]_vars
  BY <1>2, Invariance, PTL DEF Spec
<1> QED
  BY <1>3 DEF KeptUntilDelivered, Stays

=============================================================================
