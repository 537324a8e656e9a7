------------------------- MODULE ReplicationProofs -------------------------
(* Replication implements the abstract store, for any number of nodes, keys, *)
(* fields and writes and any losses and restarts.                            *)
EXTENDS Replication, FiniteSetTheorems, TLAPS

\* Leaves are first-order unless they name another backend.
USE Zenon

Docs == [Fields -> Stamps \cup {0}]

TypeInv ==
    /\ doc \in [Node -> [Keys -> Docs]]
    /\ clk \in [Node -> Nat]
    /\ written \in [Keys -> [Fields -> SUBSET Stamps]]
    /\ sess = [n \in Node |-> sess[n]]

\* Every field of d, a document of key k, shows a write of w or none.
Known(k, d, w) == d \in Docs /\ \A f \in Fields : d[f] = 0 \/ d[f] \in w[k][f]

\* A delta or a fulfilment: some keys with a document each.
Bundle(ds, w) == DOMAIN ds \subseteq Keys /\ \A k \in DOMAIN ds : Known(k, ds[k], w)

\* What is stored, on the wire or held by a round n is in.
Session(r, w) ==
    /\ r.pc \in {"digest", "delta", "fulfil"} => r.peer \in Node
    /\ r.pc = "digest" => DOMAIN r.digest \subseteq Keys
    /\ r.pc = "delta" => r.wanted \subseteq Keys /\ Bundle(r.pushed, w)
    /\ r.pc = "fulfil" => Bundle(r.docs, w)

Stored == \A n \in Node, k \in Keys : Known(k, doc[n][k], written)

OnTheWire ==
    \A msg \in net : msg.key \in Keys /\ msg.to \in Node /\ Known(msg.key, msg.doc, written)

InRounds == \A n \in Node : Session(sess[n], written)

\* A clock has passed what its node shows and what its node ever wrote.
ClocksPassed ==
    \A n \in Node, k \in Keys, f \in Fields :
        /\ doc[n][k][f] <= clk[n]
        /\ \A s \in written[k][f] : s \in StampsOf[n] => s <= clk[n]

Inv == TypeInv /\ Stored /\ OnTheWire /\ InRounds /\ ClocksPassed

LEMMA StampsAreNaturals ==
    Stamps \subseteq Nat /\ \A n \in Node : StampsOf[n] \subseteq Stamps /\ 0 \notin StampsOf[n]
BY ReplicationAssumption DEF Stamps

LEMMA FieldsAreNaturals == \A d \in Docs : \A f \in Fields : d[f] \in Nat
<1> SUFFICES ASSUME NEW d \in Docs, NEW f \in Fields PROVE d[f] \in Nat
  OBVIOUS
<1>1. d[f] \in Stamps \/ d[f] = 0
  BY DEF Docs
<1>2. d[f] \in Stamps => d[f] \in Nat
  BY StampsAreNaturals
<1> QED
  BY <1>1, <1>2, SMT

LEMMA InvInit == Init => Inv /\ Store!Init
<1> SUFFICES ASSUME Init PROVE Inv /\ Store!Init
  OBVIOUS
<1>1. TypeInv
  <2>1. Absent \in Docs
    BY DEF Absent, Docs
  <2> QED
    BY <2>1 DEF Init, TypeInv
<1>2. Stored /\ ClocksPassed
  BY SMT DEF Init, Stored, Known, Absent, Docs, ClocksPassed
<1>3. OnTheWire /\ InRounds
  BY DEF Init, OnTheWire, InRounds, Session, Idle
<1>4. Store!Init
  BY DEF Init, Store!Init, Absent
<1> QED
  BY <1>1, <1>2, <1>3, <1>4 DEF Inv

\* Merge takes each field from one of the documents, never the older one.
LEMMA MergeFacts ==
    ASSUME NEW a \in Docs, NEW b \in Docs
    PROVE  /\ Merge(a, b) \in Docs
           /\ \A f \in Fields :
                 /\ Merge(a, b)[f] = a[f] \/ (Merge(a, b)[f] = b[f] /\ b[f] > a[f])
BY StampsAreNaturals DEF Merge, Docs

\* MergeRemote of documents that show writes is a Learn of the store.
LEMMA MergeRemoteLearns ==
    ASSUME Inv, NEW n \in Node, NEW ds, Bundle(ds, written),
           MergeRemote(n, ds), written' = written
    PROVE  /\ Store!Learn(n)
           /\ doc' \in [Node -> [Keys -> Docs]] /\ clk' \in [Node -> Nat]
           /\ Stored' /\ ClocksPassed'
<1>0. TypeInv /\ Stored /\ ClocksPassed
  BY DEF Inv
<1> PICK v : v = [k \in Keys |-> IF k \in DOMAIN ds THEN Merge(doc[n][k], ds[k]) ELSE doc[n][k]]
  OBVIOUS
<1>1. doc' = [doc EXCEPT ![n] = v]
  BY DEF MergeRemote
<1>2. ASSUME NEW k \in Keys
      PROVE  /\ v[k] \in Docs
             /\ \A f \in Fields :
                   \/ v[k][f] = doc[n][k][f]
                   \/ /\ v[k][f] > doc[n][k][f] /\ v[k][f] \in written[k][f]
                      /\ k \in DOMAIN ds /\ v[k][f] = ds[k][f]
  <2>1. doc[n][k] \in Docs
    BY <1>0 DEF TypeInv
  <2>2. CASE k \notin DOMAIN ds
    BY <2>1, <2>2
  <2>3. CASE k \in DOMAIN ds
    <3>1. ds[k] \in Docs /\ \A f \in Fields : ds[k][f] = 0 \/ ds[k][f] \in written[k][f]
      BY <2>3 DEF Bundle, Known
    <3>2. v[k] = Merge(doc[n][k], ds[k])
      BY <2>3
    <3>3. \A f \in Fields : doc[n][k][f] \in Nat
      BY <2>1, FieldsAreNaturals
    <3> QED
      BY <2>1, <2>3, <3>1, <3>2, <3>3, MergeFacts, SMT
  <2> QED
    BY <2>2, <2>3
<1>3. v \in [Keys -> Docs]
  BY <1>2
<1>4. Store!Learn(n)
  BY <1>1, <1>2, <1>3 DEF Store!Learn, Docs
<1>5. doc' \in [Node -> [Keys -> Docs]] /\ doc'[n] = v /\ \A m \in Node \ {n} : doc'[m] = doc[m]
  BY <1>0, <1>1, <1>3 DEF TypeInv
<1>6. Stored'
  BY <1>0, <1>2, <1>5, SMT DEF Stored, Known
<1>7. PICK c \in {clk[n]} \cup UNION {{ds[k][f] : f \in Fields} : k \in DOMAIN ds} :
        /\ c >= clk[n] /\ \A k \in DOMAIN ds, f \in Fields : c >= ds[k][f]
        /\ clk' = [clk EXCEPT ![n] = c]
  <2>1. Observe(n, ds)
    BY DEF MergeRemote
  <2> QED
    BY <2>1 DEF Observe
<1>8. c \in Nat
  BY <1>0, <1>7, StampsAreNaturals, SMT DEF TypeInv, Bundle, Known, Docs
<1>9. clk' \in [Node -> Nat] /\ clk'[n] = c /\ \A m \in Node \ {n} : clk'[m] = clk[m]
  BY <1>0, <1>7, <1>8 DEF TypeInv
<1>10. ClocksPassed'
  <2> SUFFICES ASSUME NEW m \in Node, NEW k \in Keys, NEW f \in Fields
               PROVE  /\ doc'[m][k][f] <= clk'[m]
                      /\ \A s \in written[k][f] : s \in StampsOf[m] => s <= clk'[m]
    BY DEF ClocksPassed
  <2>1. clk[m] \in Nat /\ clk[m] <= clk'[m] /\ clk'[m] \in Nat
    BY <1>0, <1>7, <1>8, <1>9, SMT DEF TypeInv
  <2>2. doc[m][k][f] \in Nat /\ doc[m][k][f] <= clk'[m]
    <3>1. doc[m][k][f] \in Nat
      BY <1>0, FieldsAreNaturals DEF TypeInv
    <3> QED
      BY <1>0, <2>1, <3>1, SMT DEF ClocksPassed
  <2>3. ASSUME NEW s \in written[k][f], s \in StampsOf[m] PROVE s <= clk'[m]
    <3>1. s \in Nat /\ s <= clk[m]
      <4>1. s \in Stamps
        BY <2>3, StampsAreNaturals
      <4> QED
        BY <1>0, <2>3, <4>1, StampsAreNaturals DEF ClocksPassed
    <3> QED
      BY <2>1, <3>1, SMT
  <2>4. doc'[m][k][f] <= clk'[m]
    BY <1>2, <1>5, <1>7, <1>9, <2>2, SMT
  <2> QED
    BY <2>3, <2>4
<1> QED
  BY <1>4, <1>5, <1>6, <1>9, <1>10

\* What a document shows, it still shows once more writes are made.
LEMMA KnownGrows ==
    ASSUME NEW w, NEW x, \A k \in Keys : \A f \in Fields : w[k][f] \subseteq x[k][f]
    PROVE  /\ \A k \in Keys : \A d : Known(k, d, w) => Known(k, d, x)
           /\ \A r : Session(r, w) => Session(r, x)
<1>1. \A k \in Keys : \A d : Known(k, d, w) => Known(k, d, x)
  BY DEF Known
<1>2. \A ds : Bundle(ds, w) => Bundle(ds, x)
  BY <1>1 DEF Bundle
<1> QED
  BY <1>1, <1>2 DEF Session

\* A local write is a Write of the store.
LEMMA PutWrites ==
    ASSUME Inv, NEW n \in Node, NEW k \in Keys, NEW f \in Fields, Put(n, k, f)
    PROVE  Inv' /\ \E s \in Stamps : Store!Write(n, k, f, s)
<1>0. TypeInv /\ Stored /\ OnTheWire /\ InRounds /\ ClocksPassed
  BY DEF Inv
<1>1. PICK s \in StampsOf[n] :
        /\ s > clk[n] /\ doc' = [doc EXCEPT ![n][k][f] = s] /\ clk' = [clk EXCEPT ![n] = s]
        /\ net' = net \cup FanOut(s, n, k, doc'[n][k], 1, n)
        /\ written' = [written EXCEPT ![k][f] = @ \cup {s}]
        /\ sess' = sess
  BY DEF Put
<1>2. s \in Stamps /\ s \in Nat /\ clk[n] \in Nat
  BY <1>0, StampsAreNaturals DEF TypeInv
<1>3. /\ doc' \in [Node -> [Keys -> Docs]]
      /\ \A m \in Node, j \in Keys, g \in Fields :
            doc'[m][j][g] = IF m = n /\ j = k /\ g = f THEN s ELSE doc[m][j][g]
  <2>1. \A m \in Node : doc[m] \in [Keys -> Docs]
    BY <1>0 DEF TypeInv
  <2>2. [doc[n][k] EXCEPT ![f] = s] \in Docs
    BY <1>2, <2>1 DEF Docs
  <2>3. [doc[n] EXCEPT ![k] = [doc[n][k] EXCEPT ![f] = s]] \in [Keys -> Docs]
    BY <2>1, <2>2
  <2>4. doc' = [doc EXCEPT ![n] = [doc[n] EXCEPT ![k] = [doc[n][k] EXCEPT ![f] = s]]]
    BY <1>0, <1>1 DEF TypeInv
  <2>5. doc' \in [Node -> [Keys -> Docs]]
    BY <1>0, <2>3, <2>4 DEF TypeInv
  <2> QED
    BY <1>0, <2>1, <2>4, <2>5 DEF TypeInv, Docs
<1>4. /\ written' \in [Keys -> [Fields -> SUBSET Stamps]]
      /\ \A j \in Keys, g \in Fields :
            written'[j][g] = IF j = k /\ g = f THEN written[j][g] \cup {s} ELSE written[j][g]
  BY <1>0, <1>1, <1>2 DEF TypeInv
<1>5. clk' \in [Node -> Nat] /\ clk'[n] = s /\ \A m \in Node \ {n} : clk'[m] = clk[m]
  BY <1>0, <1>1, <1>2 DEF TypeInv
<1>6. Store!Write(n, k, f, s)
  <2>1. ASSUME NEW g \in Fields PROVE doc[n][k][g] < s
    <3>1. doc[n][k][g] \in Nat
      BY <1>0, FieldsAreNaturals DEF TypeInv
    <3> QED
      BY <1>0, <1>1, <1>2, <3>1, SMT DEF ClocksPassed
  <2>2. s \notin written[k][f]
    BY <1>0, <1>1, <1>2, SMT DEF ClocksPassed
  <2> QED
    BY <1>1, <2>1, <2>2 DEF Store!Write
<1>7. /\ \A j \in Keys : \A d : Known(j, d, written) => Known(j, d, written')
      /\ \A r : Session(r, written) => Session(r, written')
  BY <1>4, KnownGrows, ZenonT(40)
<1>8. Stored'
  <2> SUFFICES ASSUME NEW m \in Node, NEW j \in Keys PROVE Known(j, doc'[m][j], written')
    BY DEF Stored
  <2>1. doc'[m][j] \in Docs /\ Known(j, doc[m][j], written')
    BY <1>0, <1>3, <1>7 DEF Stored
  <2>2. ASSUME NEW g \in Fields PROVE doc'[m][j][g] = 0 \/ doc'[m][j][g] \in written'[j][g]
    <3>1. doc[m][j][g] = 0 \/ doc[m][j][g] \in written'[j][g]
      BY <2>1 DEF Known
    <3>2. CASE m = n /\ j = k /\ g = f
      BY <1>3, <1>4, <3>2
    <3>3. CASE ~(m = n /\ j = k /\ g = f)
      BY <1>3, <3>1, <3>3
    <3> QED
      BY <3>2, <3>3
  <2> QED
    BY <2>1, <2>2 DEF Known
<1>9. OnTheWire'
  <2> SUFFICES ASSUME NEW msg \in net'
               PROVE  msg.key \in Keys /\ msg.to \in Node /\ Known(msg.key, msg.doc, written')
    BY DEF OnTheWire
  <2>1. CASE msg \in net
    BY <1>0, <1>7, <2>1 DEF OnTheWire
  <2>2. CASE msg \in FanOut(s, n, k, doc'[n][k], 1, n)
    <3>1. msg.key = k /\ msg.to \in Node /\ msg.doc = doc'[n][k]
      BY <2>2, SMT DEF FanOut
    <3> QED
      BY <1>8, <3>1 DEF Stored
  <2> QED
    BY <1>1, <2>1, <2>2
<1>10. InRounds'
  BY <1>0, <1>1, <1>7 DEF InRounds
<1>11. ClocksPassed'
  <2> SUFFICES ASSUME NEW m \in Node, NEW j \in Keys, NEW g \in Fields
               PROVE  /\ doc'[m][j][g] <= clk'[m]
                      /\ \A x \in written'[j][g] : x \in StampsOf[m] => x <= clk'[m]
    BY DEF ClocksPassed
  <2>1. doc[m][j][g] \in Nat /\ doc[m][j][g] <= clk[m] /\ clk[m] \in Nat /\ clk[m] <= clk'[m]
    BY <1>0, <1>1, <1>2, <1>5, FieldsAreNaturals, SMT DEF TypeInv, ClocksPassed
  <2>2. doc'[m][j][g] <= clk'[m]
    BY <1>2, <1>3, <1>5, <2>1, SMT
  <2>3. ASSUME NEW x \in written'[j][g], x \in StampsOf[m] PROVE x <= clk'[m]
    <3>1. CASE x \in written[j][g]
      <4>1. x \in Stamps /\ x <= clk[m]
        BY <1>0, <2>3, <3>1, StampsAreNaturals DEF ClocksPassed
      <4>2. x \in Nat
        BY <4>1, StampsAreNaturals
      <4> QED
        BY <1>5, <2>1, <4>1, <4>2, SMT
    <3>2. CASE x = s
      <4>1. m = n
        BY <2>3, <3>2, ReplicationAssumption
      <4> QED
        BY <1>2, <1>5, <3>2, <4>1, SMT
    <3> QED
      BY <1>4, <2>3, <3>1, <3>2
  <2> QED
    BY <2>2, <2>3
<1>12. TypeInv'
  BY <1>0, <1>1, <1>3, <1>4, <1>5 DEF TypeInv
<1> QED
  BY <1>2, <1>6, <1>8, <1>9, <1>10, <1>11, <1>12 DEF Inv

\* The keys a node offers or wants are keys of its own digest.
LEMMA DigestKeys ==
    ASSUME NEW m, NEW y, NEW b
    PROVE  /\ FirstOf(Offers(LocalDigest(m), y), b) \subseteq Keys
           /\ FirstOf(Offers(y, LocalDigest(m)), b) \subseteq DOMAIN y
BY DEF FirstOf, Offers, LocalDigest

\* A step that merges nothing and writes nothing keeps what is stored.
LEMMA NothingMerged ==
    ASSUME Inv, UNCHANGED <<doc, clk, written>>, sess' = [n \in Node |-> sess'[n]]
    PROVE  TypeInv' /\ Stored' /\ ClocksPassed'
BY DEF Inv, TypeInv, Stored, ClocksPassed

\* A round that goes on with r keeps the others as they are.
LEMMA SessionMoves ==
    ASSUME TypeInv, InRounds, NEW n \in Node, NEW r, sess' = [sess EXCEPT ![n] = r],
           written' = written, Session(r, written)
    PROVE  sess' = [m \in Node |-> sess'[m]] /\ InRounds'
<1>1. /\ sess' = [m \in Node |-> sess'[m]]
      /\ sess'[n] = r /\ \A m \in Node \ {n} : sess'[m] = sess[m]
  BY DEF TypeInv
<1> QED
  BY <1>1 DEF InRounds

LEMMA InvStep == Inv /\ [Next]_vars => Inv' /\ [Store!Next]_(Store!vars)
<1> SUFFICES ASSUME Inv, [Next]_vars PROVE Inv' /\ [Store!Next]_(Store!vars)
  OBVIOUS
<1>0. TypeInv /\ Stored /\ OnTheWire /\ InRounds /\ ClocksPassed
  BY DEF Inv
<1>s. UNCHANGED <<doc, written>> => [Store!Next]_(Store!vars)
  BY DEF Store!vars
<1>l. ASSUME NEW n \in Node, Store!Learn(n) PROVE [Store!Next]_(Store!vars)
  BY <1>l DEF Store!Next
<1>i. Session(Idle, written)
  BY DEF Session, Idle
<1>1. ASSUME NEW n \in Node, NEW k \in Keys, NEW f \in Fields, Put(n, k, f)
      PROVE  Inv' /\ [Store!Next]_(Store!vars)
  BY <1>1, PutWrites DEF Store!Next
<1>2. ASSUME NEW msg \in net, HandleOpBroadcast(msg) PROVE Inv' /\ [Store!Next]_(Store!vars)
  <2>1. msg.key \in Keys /\ msg.to \in Node /\ Known(msg.key, msg.doc, written)
    BY <1>0 DEF OnTheWire
  <2>2. UNCHANGED <<sess, written>>
    BY <1>2 DEF HandleOpBroadcast
  <2>3. InRounds' /\ sess' = [n \in Node |-> sess'[n]]
    BY <1>0, <2>2 DEF InRounds, TypeInv
  <2>4. OnTheWire'
    <3> SUFFICES ASSUME NEW x \in net'
                 PROVE  x.key \in Keys /\ x.to \in Node /\ Known(x.key, x.doc, written)
      BY <2>2 DEF OnTheWire
    <3>1. x \in net \/ x \in FanOut(msg.id, msg.to, msg.key, msg.doc, msg.ttl - 1, msg.from)
      BY <1>2 DEF HandleOpBroadcast
    <3>2. CASE x \in FanOut(msg.id, msg.to, msg.key, msg.doc, msg.ttl - 1, msg.from)
      BY <2>1, <3>2, SMT DEF FanOut
    <3> QED
      BY <1>0, <3>1, <3>2 DEF OnTheWire
  <2>5. CASE msg.id \in seen[msg.to]
    <3>1. UNCHANGED <<doc, clk, written>>
      BY <1>2, <2>2, <2>5 DEF HandleOpBroadcast
    <3> QED
      BY <1>s, <2>3, <2>4, <3>1, NothingMerged DEF Inv
  <2>6. CASE msg.id \notin seen[msg.to]
    <3> DEFINE ds == [k \in {msg.key} |-> msg.doc]
    <3>1. MergeRemote(msg.to, ds)
      BY <1>2, <2>6 DEF HandleOpBroadcast
    <3>2. Bundle(ds, written)
      BY <2>1 DEF Bundle
    <3> HIDE DEF ds
    <3>3. /\ Store!Learn(msg.to) /\ Stored' /\ ClocksPassed'
          /\ doc' \in [Node -> [Keys -> Docs]] /\ clk' \in [Node -> Nat]
      BY <2>1, <2>2, <3>1, <3>2, MergeRemoteLearns
    <3>4. TypeInv'
      BY <1>0, <2>2, <2>3, <3>3 DEF TypeInv
    <3> QED
      BY <1>l, <2>1, <2>3, <2>4, <3>3, <3>4 DEF Inv
  <2> QED
    BY <2>5, <2>6
<1>3. ASSUME NEW n \in Node, NEW m \in SelectPeers(n), SendDigest(n, m)
      PROVE  Inv' /\ [Store!Next]_(Store!vars)
  <2> DEFINE r == [pc |-> "digest", peer |-> m, digest |-> LocalDigest(n)]
  <2>1. sess' = [sess EXCEPT ![n] = r] /\ UNCHANGED <<doc, clk, net, written>>
    BY <1>3 DEF SendDigest
  <2>2. Session(r, written)
    BY DEF Session, SelectPeers, LocalDigest
  <2> HIDE DEF r
  <2>3. InRounds' /\ sess' = [i \in Node |-> sess'[i]]
    BY <1>0, <2>1, <2>2, SessionMoves
  <2> QED
    BY <1>0, <1>s, <2>1, <2>3, NothingMerged DEF Inv, OnTheWire
<1>4. ASSUME NEW n \in Node, HandleDigest(n) PROVE Inv' /\ [Store!Next]_(Store!vars)
  <2>1. PICK m, pushed, wanted, docs :
        /\ m = sess[n].peer /\ sess[n].pc = "digest"
        /\ pushed = FirstOf(Offers(LocalDigest(m), sess[n].digest), MaxDelta)
        /\ wanted = FirstOf(Offers(sess[n].digest, LocalDigest(m)), MaxDelta - Cardinality(pushed))
        /\ docs = [k \in pushed |-> doc[m][k]]
        /\ sess' = [sess EXCEPT ![n] = [pc |-> "delta", peer |-> m, wanted |-> wanted, pushed |-> docs]]
        /\ UNCHANGED <<doc, clk, net, written>>
    BY <1>4 DEF HandleDigest
  <2>2. m \in Node /\ DOMAIN sess[n].digest \subseteq Keys
    BY <1>0, <2>1 DEF InRounds, Session
  <2>3. pushed \subseteq Keys /\ wanted \subseteq Keys
    BY <2>1, <2>2, DigestKeys
  <2>4. Bundle(docs, written)
    BY <1>0, <2>1, <2>2, <2>3 DEF Bundle, Stored
  <2>5. Session([pc |-> "delta", peer |-> m, wanted |-> wanted, pushed |-> docs], written)
    BY <2>2, <2>3, <2>4 DEF Session
  <2>6. InRounds' /\ sess' = [i \in Node |-> sess'[i]]
    BY <1>0, <2>1, <2>5, SessionMoves
  <2> QED
    BY <1>0, <1>s, <2>1, <2>6, NothingMerged DEF Inv, OnTheWire
<1>5. ASSUME NEW n \in Node, HandleDelta(n) PROVE Inv' /\ [Store!Next]_(Store!vars)
  <2>1. PICK r :
        /\ r = IF sess[n].wanted = {} THEN Idle
               ELSE [pc |-> "fulfil", peer |-> sess[n].peer,
                     docs |-> [k \in sess[n].wanted |-> doc'[n][k]]]
        /\ sess[n].pc = "delta" /\ MergeRemote(n, sess[n].pushed)
        /\ sess' = [sess EXCEPT ![n] = r]
        /\ UNCHANGED <<net, written>>
    BY <1>5 DEF HandleDelta
  <2>2. sess[n].peer \in Node /\ sess[n].wanted \subseteq Keys /\ Bundle(sess[n].pushed, written)
    BY <1>0, <2>1 DEF InRounds, Session
  <2>3. /\ Store!Learn(n) /\ Stored' /\ ClocksPassed'
        /\ doc' \in [Node -> [Keys -> Docs]] /\ clk' \in [Node -> Nat]
    BY <2>1, <2>2, MergeRemoteLearns
  <2>4. Session(r, written)
    <3>1. Bundle([k \in sess[n].wanted |-> doc'[n][k]], written)
      BY <2>1, <2>2, <2>3 DEF Bundle, Stored
    <3> QED
      BY <1>i, <2>1, <2>2, <3>1 DEF Session
  <2>5. InRounds' /\ sess' = [i \in Node |-> sess'[i]]
    BY <1>0, <2>1, <2>4, SessionMoves
  <2>6. TypeInv' /\ OnTheWire'
    BY <1>0, <2>1, <2>3, <2>5 DEF TypeInv, OnTheWire
  <2> QED
    BY <1>l, <2>3, <2>5, <2>6 DEF Inv
<1>6. ASSUME NEW n \in Node, HandleFulfilment(n) PROVE Inv' /\ [Store!Next]_(Store!vars)
  <2>1. /\ sess[n].pc = "fulfil" /\ MergeRemote(sess[n].peer, sess[n].docs)
        /\ sess' = [sess EXCEPT ![n] = Idle]
        /\ UNCHANGED <<net, written>>
    BY <1>6 DEF HandleFulfilment
  <2>2. sess[n].peer \in Node /\ Bundle(sess[n].docs, written)
    BY <1>0, <2>1 DEF InRounds, Session
  <2>3. /\ Store!Learn(sess[n].peer) /\ Stored' /\ ClocksPassed'
        /\ doc' \in [Node -> [Keys -> Docs]] /\ clk' \in [Node -> Nat]
    BY <2>1, <2>2, MergeRemoteLearns
  <2>4. InRounds' /\ sess' = [i \in Node |-> sess'[i]]
    BY <1>0, <1>i, <2>1, SessionMoves
  <2>5. TypeInv' /\ OnTheWire'
    BY <1>0, <2>1, <2>3, <2>4 DEF TypeInv, OnTheWire
  <2> QED
    BY <1>l, <2>2, <2>3, <2>4, <2>5 DEF Inv
<1>7. CASE LoseBroadcast
  <2>1. net' \subseteq net /\ UNCHANGED <<doc, clk, sess, written>>
    BY <1>7 DEF LoseBroadcast
  <2>2. InRounds' /\ OnTheWire' /\ sess' = [i \in Node |-> sess'[i]]
    BY <1>0, <2>1 DEF InRounds, OnTheWire, TypeInv
  <2> QED
    BY <1>s, <2>1, <2>2, NothingMerged DEF Inv
<1>8. ASSUME NEW n \in Node, RoundFails(n) \/ Restart(n)
      PROVE  Inv' /\ [Store!Next]_(Store!vars)
  <2>1. sess' = [sess EXCEPT ![n] = Idle] /\ net' \subseteq net /\ UNCHANGED <<doc, clk, written>>
    BY <1>8 DEF RoundFails, Restart
  <2>2. InRounds' /\ sess' = [i \in Node |-> sess'[i]]
    BY <1>0, <1>i, <2>1, SessionMoves
  <2>3. OnTheWire'
    BY <1>0, <2>1 DEF OnTheWire
  <2> QED
    BY <1>s, <2>1, <2>2, <2>3, NothingMerged DEF Inv
<1>9. CASE UNCHANGED vars
  BY <1>0, <1>s, <1>9 DEF vars, Inv, TypeInv, Stored, OnTheWire, InRounds, ClocksPassed
<1> QED
  BY <1>1, <1>2, <1>3, <1>4, <1>5, <1>6, <1>7, <1>8, <1>9 DEF Next

\* Broadcast, relay and gossip implement the abstract store however many
\* nodes, keys, fields and rounds there are and whatever is lost, duplicated
\* or cut short: no node shows a write nobody made, falls back to an older one
\* or stamps a write below what it shows (document.cpp Merge, MergeRemote,
\* HandleOpBroadcast, ExchangeDocuments).
THEOREM ReplicationImplementsStore == Spec => ImplementsStore
<1>1. Init => Store!Init
  BY InvInit
<1>2. Inv /\ [Next]_vars => [Store!Next]_(Store!vars)
  BY InvStep
<1>3. Init => Inv
  BY InvInit
<1>4. Inv /\ [Next]_vars => Inv'
  BY InvStep
<1> QED
  BY <1>1, <1>2, <1>3, <1>4, PTL DEF Spec, ImplementsStore, Store!Spec

-----------------------------------------------------------------------------
(* The relay and one lost message *)

Issued(s) == \E k \in Keys, f \in Fields : s \in written[k][f]

\* The broadcast of write s from its writer o to n is on the way, and the copy
\* m relays to n.
Direct(s, o, n) == \E msg \in net : msg.id = s /\ msg.from = o /\ msg.to = n /\ msg.ttl = 1
Relayed(s, m, n) == \E msg \in net : msg.id = s /\ msg.from = m /\ msg.to = n /\ msg.ttl = 0

\* Whoever has relayed s has relayed it to n, and some node has or will.
Backup(s, o, n) ==
    /\ \A m, x \in Node : Relayed(s, m, x) => Relayed(s, m, n)
    /\ \E m \in Node \ {o, n} : Relayed(s, m, n) \/ (Direct(s, o, m) /\ s \notin seen[m])

\* A message with a hop left comes from the writer, the others from a node that
\* has seen it; none goes to the writer.
Wires ==
    \A msg \in net :
        /\ msg.from \in Node /\ msg.to \in Node /\ Issued(msg.id)
        /\ \A o \in Node : msg.id \in StampsOf[o] =>
              /\ msg.to # o
              /\ \/ msg.ttl = 1 /\ msg.from = o
                 \/ msg.ttl = 0 /\ msg.from # o /\ msg.id \in seen[msg.from]

\* A message carries the write it is named after.
Payload ==
    \A msg \in net, k \in Keys, f \in Fields :
        msg.id \in written[k][f] => msg.key = k /\ msg.doc[f] >= msg.id

\* A node shows the writes it has seen, or later ones, and has seen its own.
Shown ==
    \A n \in Node :
        /\ \A s \in seen[n] : Issued(s)
        /\ \A k \in Keys, f \in Fields : \A s \in written[k][f] :
              /\ s \in seen[n] => doc[n][k][f] >= s
              /\ s \in StampsOf[n] => s \in seen[n]

\* A node that has not seen a write has two ways left to it, or one once a
\* message was lost.
Reach ==
    Cardinality(Node) > 2 /\ failed["broadcast"] <= 1 =>
        \A o, n \in Node : \A s \in StampsOf[o] :
            Issued(s) /\ s \notin seen[n] =>
                /\ Direct(s, o, n) \/ Backup(s, o, n)
                /\ failed["broadcast"] = 0 => Direct(s, o, n) /\ Backup(s, o, n)

RelayInv ==
    /\ failed \in [FailureKinds -> Nat]
    /\ seen = [n \in Node |-> seen[n]]
    /\ failed["restart"] = 0 => Wires /\ Payload /\ Shown /\ Reach

\* A third node, besides any two.
LEMMA ThirdNode ==
    ASSUME Cardinality(Node) > 2, NEW a \in Node, NEW b \in Node
    PROVE  \E m \in Node \ {a, b} : TRUE
<1> SUFFICES ASSUME Node \subseteq {a, b} PROVE FALSE
  OBVIOUS
<1>1. IsFiniteSet({b}) /\ Cardinality({b}) = 1
  BY FS_Singleton
<1>2. IsFiniteSet({b} \cup {a}) /\ Cardinality({b} \cup {a}) <= 2
  BY <1>1, FS_AddElement, SMT
<1>3. Cardinality(Node) <= Cardinality({b} \cup {a})
  BY <1>2, FS_Subset
<1>4. Cardinality(Node) \in Nat /\ Cardinality({b} \cup {a}) \in Nat
  BY <1>2, ReplicationAssumption, FS_CardinalityType
<1> QED
  BY <1>2, <1>3, <1>4, SMT

\* No step takes a field back.
LEMMA FieldsGrow ==
    ASSUME Inv, [Next]_vars, NEW n \in Node, NEW k \in Keys, NEW f \in Fields
    PROVE  doc[n][k][f] \in Nat /\ doc'[n][k][f] \in Nat /\ doc'[n][k][f] >= doc[n][k][f]
<1>1. TypeInv /\ TypeInv' /\ [Store!Next]_(Store!vars)
  BY InvStep DEF Inv
<1>2. doc[n][k] \in Docs /\ doc'[n][k] \in Docs
  BY <1>1 DEF TypeInv
<1>3. doc[n][k][f] \in Nat /\ doc'[n][k][f] \in Nat
  BY <1>2, FieldsAreNaturals
<1>4. ASSUME NEW m \in Node, NEW j \in Keys, NEW g \in Fields, NEW s \in Stamps,
             Store!Write(m, j, g, s)
      PROVE  doc'[n][k][f] >= doc[n][k][f]
  <2>1. doc' = [doc EXCEPT ![m][j][g] = s] /\ \A h \in Fields : doc[m][j][h] < s
    BY <1>4 DEF Store!Write
  <2>2. doc'[n][k][f] = IF m = n /\ j = k /\ g = f THEN s ELSE doc[n][k][f]
    <3>1. doc \in [Node -> [Keys -> [Fields -> Stamps \cup {0}]]]
      BY <1>1 DEF TypeInv, Docs
    <3> QED
      BY <2>1, <3>1
  <2>3. s \in Nat
    BY StampsAreNaturals
  <2> QED
    BY <1>3, <2>1, <2>2, <2>3, SMT
<1>5. ASSUME NEW m \in Node, Store!Learn(m) PROVE doc'[n][k][f] >= doc[n][k][f]
  <2>1. PICK v \in [Keys -> [Fields -> Stamps \cup {0}]] :
          /\ doc' = [doc EXCEPT ![m] = v]
          /\ \A j \in Keys, g \in Fields :
                \/ v[j][g] = doc[m][j][g]
                \/ v[j][g] > doc[m][j][g] /\ v[j][g] \in written[j][g]
    BY <1>5 DEF Store!Learn
  <2>2. doc'[n] = IF n = m THEN v ELSE doc[n]
    BY <1>1, <2>1 DEF TypeInv
  <2> QED
    BY <1>3, <2>1, <2>2, SMT
<1>6. CASE UNCHANGED Store!vars
  BY <1>3, <1>6, SMT DEF Store!vars
<1> QED
  BY <1>1, <1>3, <1>4, <1>5, <1>6 DEF Store!Next

\* Every write has one writer.
LEMMA OneWriter ==
    ASSUME TypeInv, NEW s, Issued(s)
    PROVE  /\ s \in Nat
           /\ \E o \in Node : s \in StampsOf[o] /\ \A p \in Node : s \in StampsOf[p] => p = o
<1>1. s \in Stamps
  BY DEF Issued, TypeInv
<1>2. s \in Nat
  BY <1>1, StampsAreNaturals
<1>3. PICK o \in Node : s \in StampsOf[o]
  BY <1>1 DEF Stamps
<1> QED
  BY <1>2, <1>3, ReplicationAssumption

\* A message to a node that has not seen its write is not the one that is
\* taken off the wire.
LEMMA StillOnTheWay ==
    ASSUME NEW msg \in net, net \ {msg} \subseteq net', msg.id \in seen'[msg.to],
           NEW s, NEW n, s \notin seen'[n], NEW m
    PROVE  (Direct(s, m, n) => Direct(s, m, n)') /\ (Relayed(s, m, n) => Relayed(s, m, n)')
BY DEF Direct, Relayed

\* A round of gossip, or a round that fails, takes nothing off the wire.
LEMMA RelayQuiet ==
    ASSUME Inv, [Next]_vars, RelayInv, UNCHANGED <<net, seen, written>>,
           failed' \in [FailureKinds -> Nat],
           failed'["restart"] = failed["restart"], failed'["broadcast"] = failed["broadcast"]
    PROVE  RelayInv'
<1> SUFFICES ASSUME failed["restart"] = 0 PROVE Wires' /\ Payload' /\ Shown' /\ Reach'
  BY DEF RelayInv
<1>1. Wires /\ Payload /\ Shown /\ Reach /\ TypeInv
  BY DEF RelayInv, Inv
<1>2. Wires' /\ Payload'
  BY <1>1, SMT DEF Wires, Payload, Issued
<1>3. Shown'
  <2> SUFFICES ASSUME NEW n \in Node, NEW k \in Keys, NEW f \in Fields, NEW s \in written[k][f]
               PROVE  (s \in seen[n] => doc'[n][k][f] >= s) /\ (s \in StampsOf[n] => s \in seen[n])
    BY <1>1, SMT DEF Shown, Issued
  <2>1. s \in Nat
    BY <1>1, OneWriter DEF Issued
  <2>2. doc[n][k][f] \in Nat /\ doc'[n][k][f] \in Nat /\ doc'[n][k][f] >= doc[n][k][f]
    BY FieldsGrow
  <2>3. (s \in seen[n] => doc[n][k][f] >= s) /\ (s \in StampsOf[n] => s \in seen[n])
    BY <1>1 DEF Shown
  <2> QED
    BY <2>1, <2>2, <2>3, SMT
<1>4. Reach'
  BY <1>1, SMT DEF Reach, Issued, Direct, Backup, Relayed
<1> QED
  BY <1>2, <1>3, <1>4

\* A write starts with both ways to every other node.
LEMMA RelayPut ==
    ASSUME Inv, [Next]_vars, RelayInv, NEW o \in Node, NEW k \in Keys, NEW f \in Fields, Put(o, k, f)
    PROVE  RelayInv'
<1>0. TypeInv /\ ClocksPassed /\ TypeInv'
  BY InvStep DEF Inv
<1>1. PICK s \in StampsOf[o] :
        /\ s > clk[o] /\ doc' = [doc EXCEPT ![o][k][f] = s]
        /\ seen' = [seen EXCEPT ![o] = @ \cup {s}]
        /\ net' = net \cup FanOut(s, o, k, doc'[o][k], 1, o)
        /\ written' = [written EXCEPT ![k][f] = @ \cup {s}]
        /\ failed' = failed
  BY DEF Put
<1>2. s \in Nat /\ clk[o] \in Nat
  BY <1>0, StampsAreNaturals DEF TypeInv
<1>3. ~Issued(s)
  BY <1>0, <1>1, <1>2, SMT DEF Issued, ClocksPassed
<1>4. \A j \in Keys, g \in Fields :
          written'[j][g] = IF j = k /\ g = f THEN written[j][g] \cup {s} ELSE written[j][g]
  BY <1>0, <1>1 DEF TypeInv
<1>5. ASSUME NEW x PROVE Issued(x)' <=> Issued(x) \/ x = s
  <2>1. Issued(x) => Issued(x)'
    BY <1>4 DEF Issued
  <2>2. s \in written'[k][f]
    BY <1>4
  <2>3. x = s => Issued(x)'
    BY <2>2 DEF Issued
  <2>4. ASSUME NEW j \in Keys, NEW g \in Fields, x \in written'[j][g], x # s PROVE x \in written[j][g]
    BY <1>4, <2>4
  <2>5. Issued(x)' => Issued(x) \/ x = s
    BY <2>4 DEF Issued
  <2> QED
    BY <2>1, <2>3, <2>5
<1>6. /\ seen' = [n \in Node |-> seen'[n]]
      /\ \A n \in Node : seen'[n] = IF n = o THEN seen[n] \cup {s} ELSE seen[n]
  BY <1>1 DEF RelayInv
<1>7. ASSUME NEW x \in net' PROVE \/ x \in net
                                  \/ /\ x.id = s /\ x.from = o /\ x.to \in Node \ {o} /\ x.key = k
                                     /\ x.doc = doc'[o][k] /\ x.ttl = 1
  BY <1>1, <1>7, SMT DEF FanOut
<1> SUFFICES ASSUME failed["restart"] = 0 PROVE Wires' /\ Payload' /\ Shown' /\ Reach'
  BY <1>1, <1>6 DEF RelayInv
<1>8. Wires /\ Payload /\ Shown /\ Reach
  BY DEF RelayInv
<1>9. doc'[o][k][f] = s
  <2>1. doc \in [Node -> [Keys -> [Fields -> Stamps \cup {0}]]]
    BY <1>0 DEF TypeInv, Docs
  <2> QED
    BY <1>1, <2>1, SMT
<1>10. Wires'
  <2> SUFFICES ASSUME NEW x \in net'
               PROVE  /\ x.from \in Node /\ x.to \in Node /\ Issued(x.id)'
                      /\ \A p \in Node : x.id \in StampsOf[p] =>
                            /\ x.to # p
                            /\ \/ x.ttl = 1 /\ x.from = p
                               \/ x.ttl = 0 /\ x.from # p /\ x.id \in seen'[x.from]
    BY DEF Wires
  <2>1. CASE x \in net
    BY <1>5, <1>6, <1>8, <2>1 DEF Wires
  <2>2. CASE x \notin net
    <3>1. x.id = s /\ x.from = o /\ x.to \in Node \ {o} /\ x.ttl = 1
      BY <1>7, <2>2
    <3>2. \A p \in Node : s \in StampsOf[p] => p = o
      BY ReplicationAssumption
    <3> QED
      BY <1>5, <3>1, <3>2
  <2> QED
    BY <2>1, <2>2
<1>11. Payload'
  <2> SUFFICES ASSUME NEW x \in net', NEW j \in Keys, NEW g \in Fields, x.id \in written'[j][g]
               PROVE  x.key = j /\ x.doc[g] >= x.id
    BY DEF Payload
  <2>1. CASE x \in net
    <3>1. Issued(x.id)
      BY <1>8, <2>1 DEF Wires
    <3>2. x.id \in written[j][g]
      BY <1>3, <1>4, <3>1
    <3> QED
      BY <1>8, <2>1, <3>2 DEF Payload
  <2>2. CASE x \notin net
    <3>1. x.id = s /\ x.key = k /\ x.doc = doc'[o][k]
      BY <1>7, <2>2
    <3>2. j = k /\ g = f
      BY <1>3, <1>4, <3>1 DEF Issued
    <3> QED
      BY <1>2, <1>9, <3>1, <3>2, SMT
  <2> QED
    BY <2>1, <2>2
<1>12. Shown'
  <2>1. ASSUME NEW n \in Node, NEW x \in seen'[n] PROVE Issued(x)'
    BY <1>5, <1>6, <1>8, <2>1 DEF Shown
  <2>2. ASSUME NEW n \in Node, NEW j \in Keys, NEW g \in Fields, NEW x \in written'[j][g]
        PROVE  (x \in seen'[n] => doc'[n][j][g] >= x) /\ (x \in StampsOf[n] => x \in seen'[n])
    <3>1. CASE x = s
      <4>1. j = k /\ g = f
        BY <1>3, <1>4, <2>2, <3>1 DEF Issued
      <4>2. x \in StampsOf[n] => n = o
        BY <3>1, ReplicationAssumption
      <4>3. x \in seen'[n] => n = o
        BY <1>3, <1>6, <1>8, <3>1 DEF Shown
      <4> QED
        BY <1>2, <1>6, <1>9, <3>1, <4>1, <4>2, <4>3, SMT
    <3>2. CASE x # s
      <4>1. x \in written[j][g] /\ (x \in seen'[n] <=> x \in seen[n])
        BY <1>4, <1>6, <2>2, <3>2
      <4>2. (x \in seen[n] => doc[n][j][g] >= x) /\ (x \in StampsOf[n] => x \in seen[n])
        BY <1>8, <4>1 DEF Shown
      <4>3. x \in Nat
        BY <1>0, <4>1, OneWriter DEF Issued
      <4>4. doc[n][j][g] \in Nat /\ doc'[n][j][g] \in Nat /\ doc'[n][j][g] >= doc[n][j][g]
        BY FieldsGrow
      <4> QED
        BY <4>1, <4>2, <4>3, <4>4, SMT
    <3> QED
      BY <3>1, <3>2
  <2> QED
    BY <2>1, <2>2 DEF Shown
<1>13. Reach'
  <2> SUFFICES ASSUME Cardinality(Node) > 2, failed["broadcast"] <= 1,
                      NEW p \in Node, NEW n \in Node, NEW x \in StampsOf[p],
                      Issued(x)', x \notin seen'[n]
               PROVE  /\ Direct(x, p, n)' \/ Backup(x, p, n)'
                      /\ failed["broadcast"] = 0 => Direct(x, p, n)' /\ Backup(x, p, n)'
    BY <1>1 DEF Reach
  <2>1. CASE x = s
    <3>1. p = o /\ n # o
      BY <1>6, <2>1, ReplicationAssumption
    <3>2. ASSUME NEW m \in Node, m # o PROVE Direct(s, o, m)' /\ s \notin seen'[m]
      <4> DEFINE y == [id |-> s, from |-> o, to |-> m, key |-> k, doc |-> doc'[o][k], ttl |-> 1]
      <4>1. y \in FanOut(s, o, k, doc'[o][k], 1, o)
        BY <3>2 DEF FanOut
      <4>2. y \in net' /\ y.id = s /\ y.from = o /\ y.to = m /\ y.ttl = 1
        BY <1>1, <4>1, SMT
      <4> HIDE DEF y
      <4>3. Direct(s, o, m)'
        BY <4>2 DEF Direct
      <4>4. s \notin seen'[m]
        BY <1>3, <1>6, <1>8, <3>2 DEF Shown
      <4> QED
        BY <4>3, <4>4
    <3>3. ASSUME NEW m \in Node, NEW y \in Node PROVE ~Relayed(s, m, y)'
      <4> SUFFICES ASSUME NEW w \in net', w.id = s, w.ttl = 0 PROVE FALSE
        BY DEF Relayed
      <4>1. w \in net
        BY <1>7, SMT
      <4> QED
        BY <1>3, <1>8, <4>1 DEF Wires
    <3>4. PICK m \in Node \ {o, n} : TRUE
      BY ThirdNode
    <3>5. Direct(s, o, m)' /\ s \notin seen'[m]
      BY <3>2, <3>4
    <3>6. Backup(s, o, n)'
      BY <3>3, <3>4, <3>5 DEF Backup
    <3> QED
      BY <2>1, <3>1, <3>2, <3>6
  <2>2. CASE x # s
    <3>1. Issued(x) /\ x \notin seen[n]
      BY <1>5, <1>6, <2>2
    <3>2. /\ Direct(x, p, n) \/ Backup(x, p, n)
          /\ failed["broadcast"] = 0 => Direct(x, p, n) /\ Backup(x, p, n)
      BY <1>8, <3>1 DEF Reach
    <3>3. ASSUME NEW m \in Node, NEW y \in Node
          PROVE  (Direct(x, m, y)' <=> Direct(x, m, y)) /\ (Relayed(x, m, y)' <=> Relayed(x, m, y))
      <4>1. net \subseteq net' /\ \A w \in net' : w.id = x => w \in net
        BY <1>1, <1>7, <2>2
      <4> QED
        BY <4>1 DEF Direct, Relayed
    <3>4. \A m \in Node : x \in seen'[m] <=> x \in seen[m]
      BY <1>6, <2>2
    <3>5. Backup(x, p, n) => Backup(x, p, n)'
      BY <3>3, <3>4 DEF Backup
    <3> QED
      BY <3>2, <3>3, <3>5
  <2> QED
    BY <2>1, <2>2
<1> QED
  BY <1>10, <1>11, <1>12, <1>13

\* A lost message takes one of the ways.
LEMMA RelayLoses ==
    ASSUME Inv, [Next]_vars, RelayInv, LoseBroadcast
    PROVE  RelayInv'
<1>1. PICK lost \in net : net' = net \ {lost}
  BY DEF LoseBroadcast
<1>2. /\ UNCHANGED <<doc, seen, written>> /\ failed \in [FailureKinds -> Nat]
      /\ failed' = [failed EXCEPT !["broadcast"] = @ + 1]
  BY DEF LoseBroadcast, Fail, RelayInv
<1>3. /\ failed' \in [FailureKinds -> Nat] /\ failed'["restart"] = failed["restart"]
      /\ failed'["broadcast"] = failed["broadcast"] + 1 /\ failed["broadcast"] \in Nat
  BY <1>2, SMT DEF FailureKinds
<1> SUFFICES ASSUME failed["restart"] = 0 PROVE Wires' /\ Payload' /\ Shown' /\ Reach'
  BY <1>2, <1>3 DEF RelayInv
<1>4. Wires /\ Payload /\ Shown /\ Reach
  BY DEF RelayInv
<1>5. Wires' /\ Payload'
  BY <1>1, <1>2, <1>4, SMT DEF Wires, Payload, Issued
<1>6. Shown'
  BY <1>2, <1>4 DEF Shown, Issued
<1>7. Reach'
  <2> SUFFICES ASSUME Cardinality(Node) > 2, failed'["broadcast"] <= 1,
                      NEW o \in Node, NEW n \in Node, NEW s \in StampsOf[o],
                      Issued(s), s \notin seen[n]
               PROVE  Direct(s, o, n)' \/ Backup(s, o, n)'
    BY <1>2, <1>3, SMT DEF Reach, Issued
  <2>1. Direct(s, o, n) /\ Backup(s, o, n)
    BY <1>3, <1>4, SMT DEF Reach
  <2>2. CASE lost.id = s /\ lost.to = n /\ lost.ttl = 1
    <3>1. ASSUME NEW m \in Node \ {n} PROVE Direct(s, o, m) => Direct(s, o, m)'
      BY <1>1, <2>2, <3>1 DEF Direct
    <3>2. ASSUME NEW m \in Node, NEW x \in Node PROVE Relayed(s, m, x)' <=> Relayed(s, m, x)
      BY <1>1, <2>2, SMT DEF Relayed
    <3> QED
      BY <1>2, <2>1, <3>1, <3>2 DEF Backup
  <2>3. CASE ~(lost.id = s /\ lost.to = n /\ lost.ttl = 1)
    BY <1>1, <2>1, <2>3 DEF Direct
  <2> QED
    BY <2>2, <2>3
<1> QED
  BY <1>5, <1>6, <1>7

\* A duplicate is dropped by a node that does not need it.
LEMMA RelayDuplicate ==
    ASSUME Inv, [Next]_vars, RelayInv, NEW msg \in net, msg.id \in seen[msg.to],
           net' = net \ {msg}, UNCHANGED <<doc, seen, written, failed>>
    PROVE  RelayInv'
<1> SUFFICES ASSUME failed["restart"] = 0 PROVE Wires' /\ Payload' /\ Shown' /\ Reach'
  BY DEF RelayInv
<1>1. Wires /\ Payload /\ Shown /\ Reach
  BY DEF RelayInv
<1>2. Wires' /\ Payload'
  BY <1>1, SMT DEF Wires, Payload, Issued
<1>3. Shown'
  BY <1>1 DEF Shown, Issued
<1>4. Reach'
  <2> SUFFICES ASSUME Cardinality(Node) > 2, failed["broadcast"] <= 1,
                      NEW o \in Node, NEW n \in Node, NEW s \in StampsOf[o],
                      Issued(s), s \notin seen[n]
               PROVE  /\ Direct(s, o, n)' \/ Backup(s, o, n)'
                      /\ failed["broadcast"] = 0 => Direct(s, o, n)' /\ Backup(s, o, n)'
    BY DEF Reach, Issued
  <2>1. /\ Direct(s, o, n) \/ Backup(s, o, n)
        /\ failed["broadcast"] = 0 => Direct(s, o, n) /\ Backup(s, o, n)
    BY <1>1 DEF Reach
  <2>2. ASSUME NEW m \in Node, NEW x \in Node, s \notin seen[x]
        PROVE  (Direct(s, m, x) => Direct(s, m, x)') /\ (Relayed(s, m, x) => Relayed(s, m, x)')
    BY <2>2, StillOnTheWay
  <2>3. ASSUME NEW m \in Node, NEW x \in Node, Relayed(s, m, x)' PROVE Relayed(s, m, x)
    BY <2>3 DEF Relayed
  <2>4. Backup(s, o, n) => Backup(s, o, n)'
    BY <2>2, <2>3 DEF Backup
  <2> QED
    BY <2>1, <2>2, <2>4
<1> QED
  BY <1>2, <1>3, <1>4

\* A first receipt shows the write and, from its author, passes it on to
\* every node that may still need it.
LEMMA RelayReceipt ==
    ASSUME Inv, [Next]_vars, RelayInv, NEW msg \in net, HandleOpBroadcast(msg),
           msg.id \notin seen[msg.to]
    PROVE  RelayInv'
<1> DEFINE i == msg.id
           t == msg.to
<1>0. TypeInv /\ OnTheWire
  BY DEF Inv
<1>1. /\ seen' = [seen EXCEPT ![t] = @ \cup {i}]
      /\ MergeRemote(t, [k \in {msg.key} |-> msg.doc])
      /\ net' = (net \ {msg}) \cup
                   (IF msg.ttl > 0 THEN FanOut(i, t, msg.key, msg.doc, msg.ttl - 1, msg.from) ELSE {})
      /\ written' = written /\ failed' = failed
  BY DEF HandleOpBroadcast
<1>2. t \in Node /\ msg.key \in Keys /\ msg.doc \in Docs
  BY <1>0 DEF OnTheWire, Known
<1>3. /\ seen' = [n \in Node |-> seen'[n]]
      /\ \A n \in Node : seen'[n] = IF n = t THEN seen[n] \cup {i} ELSE seen[n]
  BY <1>1, <1>2 DEF RelayInv
<1> SUFFICES ASSUME failed["restart"] = 0 PROVE Wires' /\ Payload' /\ Shown' /\ Reach'
  BY <1>1, <1>3 DEF RelayInv
<1>4. Wires /\ Payload /\ Shown /\ Reach
  BY DEF RelayInv
<1>5. PICK o \in Node : i \in StampsOf[o] /\ \A p \in Node : i \in StampsOf[p] => p = o
  BY <1>0, <1>4, OneWriter DEF Wires
<1>6. /\ Issued(i) /\ msg.from \in Node /\ t # o
      /\ \/ msg.ttl = 1 /\ msg.from = o
         \/ msg.ttl = 0 /\ msg.from # o /\ i \in seen[msg.from]
  BY <1>4, <1>5 DEF Wires
<1> DEFINE relays == IF msg.ttl = 1 THEN FanOut(i, t, msg.key, msg.doc, 0, o) ELSE {}
<1>7. net' = (net \ {msg}) \cup relays
  BY <1>1, <1>6, SMT
<1>8. ASSUME NEW x \in relays
      PROVE  /\ msg.ttl = 1 /\ x.id = i /\ x.from = t /\ x.to \in Node \ {t, o} /\ x.ttl = 0
             /\ x.key = msg.key /\ x.doc = msg.doc
  BY <1>8, SMT DEF FanOut
<1>9. ASSUME NEW m \in Node \ {t, o}, msg.ttl = 1 PROVE Relayed(i, t, m)'
  <2> DEFINE y == [id |-> i, from |-> t, to |-> m, key |-> msg.key, doc |-> msg.doc, ttl |-> 0]
  <2>1. y \in relays
    BY <1>9 DEF FanOut
  <2>2. y \in net' /\ y.id = i /\ y.from = t /\ y.to = m /\ y.ttl = 0
    BY <1>7, <2>1
  <2> HIDE DEF y, i, t, relays
  <2> QED
    BY <2>2 DEF Relayed
<1> HIDE DEF relays, i, t
<1>10. Wires'
  <2> SUFFICES ASSUME NEW x \in net'
               PROVE  /\ x.from \in Node /\ x.to \in Node /\ Issued(x.id)
                      /\ \A p \in Node : x.id \in StampsOf[p] =>
                            /\ x.to # p
                            /\ \/ x.ttl = 1 /\ x.from = p
                               \/ x.ttl = 0 /\ x.from # p /\ x.id \in seen'[x.from]
    BY <1>1 DEF Wires, Issued
  <2>1. CASE x \in net
    BY <1>3, <1>4, <2>1 DEF Wires
  <2>2. CASE x \in relays
    BY <1>2, <1>3, <1>5, <1>6, <1>8, <2>2, SMT
  <2> QED
    BY <1>7, <2>1, <2>2
<1>11. Payload'
  <2> SUFFICES ASSUME NEW x \in net', NEW j \in Keys, NEW g \in Fields, x.id \in written[j][g]
               PROVE  x.key = j /\ x.doc[g] >= x.id
    BY <1>1 DEF Payload
  <2>1. CASE x \in net
    BY <1>4, <2>1 DEF Payload
  <2>2. CASE x \in relays
    <3>1. x.id = msg.id /\ x.key = msg.key /\ x.doc = msg.doc
      BY <1>8, <2>2 DEF i
    <3> QED
      BY <1>4, <3>1 DEF Payload
  <2> QED
    BY <1>7, <2>1, <2>2
<1>12. Shown'
  <2>1. ASSUME NEW n \in Node, NEW x \in seen'[n] PROVE Issued(x)
    BY <1>3, <1>4, <1>6, <2>1, SMT DEF Shown
  <2>2. ASSUME NEW n \in Node, NEW j \in Keys, NEW g \in Fields, NEW x \in written[j][g]
        PROVE  (x \in seen'[n] => doc'[n][j][g] >= x) /\ (x \in StampsOf[n] => x \in seen'[n])
    <3>1. (x \in seen[n] => doc[n][j][g] >= x) /\ (x \in StampsOf[n] => x \in seen[n])
      BY <1>4 DEF Shown
    <3>2. x \in Nat
      BY <1>0, OneWriter DEF Issued
    <3>3. doc[n][j][g] \in Nat /\ doc'[n][j][g] \in Nat /\ doc'[n][j][g] >= doc[n][j][g]
      BY FieldsGrow
    <3>4. CASE x \in seen[n]
      BY <1>3, <3>1, <3>2, <3>3, <3>4, SMT
    <3>5. CASE x \in seen'[n] /\ x \notin seen[n]
      <4>1. n = t /\ x = i
        BY <1>3, <3>5
      <4>2. msg.key = j /\ msg.doc[g] >= x
        BY <1>4, <4>1 DEF Payload, i
      <4>3. doc'[n][j] = Merge(doc[n][j], msg.doc)
        <5>1. doc \in [Node -> [Keys -> Docs]]
          BY <1>0 DEF TypeInv
        <5> QED
          BY <1>1, <4>1, <4>2, <5>1 DEF MergeRemote
      <4>4. msg.doc[g] \in Nat
        BY <1>2, FieldsAreNaturals
      <4>5. doc'[n][j][g] >= msg.doc[g]
        BY <3>3, <4>3, <4>4, SMT DEF Merge
      <4> QED
        BY <3>1, <3>2, <3>3, <3>5, <4>2, <4>4, <4>5, SMT
    <3> QED
      BY <3>1, <3>4, <3>5
  <2> QED
    BY <1>1, <2>1, <2>2, SMT DEF Shown, Issued
<1>13. Reach'
  <2> SUFFICES ASSUME Cardinality(Node) > 2, failed["broadcast"] <= 1,
                      NEW p \in Node, NEW n \in Node, NEW s \in StampsOf[p],
                      Issued(s), s \notin seen'[n]
               PROVE  /\ Direct(s, p, n)' \/ Backup(s, p, n)'
                      /\ failed["broadcast"] = 0 => Direct(s, p, n)' /\ Backup(s, p, n)'
    BY <1>1 DEF Reach, Issued
  <2>1. s \notin seen[n] /\ ~(s \in StampsOf[n])
    BY <1>3, <1>4 DEF Shown, Issued
  <2>2. /\ Direct(s, p, n) \/ Backup(s, p, n)
        /\ failed["broadcast"] = 0 => Direct(s, p, n) /\ Backup(s, p, n)
    BY <1>4, <2>1 DEF Reach
  <2>3. msg.id \in seen'[msg.to] /\ net \ {msg} \subseteq net'
    BY <1>2, <1>3, <1>7 DEF i, t
  <2>4. ASSUME NEW m \in Node, NEW x \in Node, s \notin seen'[x]
        PROVE  (Direct(s, m, x) => Direct(s, m, x)') /\ (Relayed(s, m, x) => Relayed(s, m, x)')
    BY <2>3, <2>4, StillOnTheWay
  <2>5. ASSUME NEW m \in Node, NEW x \in Node, Relayed(s, m, x)' PROVE Relayed(s, m, n)' \/ Relayed(s, m, x)
    <3>1. PICK y \in net' : y.id = s /\ y.from = m /\ y.to = x /\ y.ttl = 0
      BY <2>5 DEF Relayed
    <3>2. CASE y \in net
      BY <3>1, <3>2 DEF Relayed
    <3>3. CASE y \in relays
      <4>1. msg.ttl = 1 /\ s = i /\ m = t
        BY <1>8, <3>1, <3>3
      <4>2. n # t /\ n # o
        BY <1>3, <1>5, <2>1, <4>1
      <4> QED
        BY <1>9, <4>1, <4>2
    <3> QED
      BY <1>7, <3>2, <3>3
  <2>6. ASSUME Backup(s, p, n) PROVE Backup(s, p, n)'
    <3>1. ASSUME NEW m \in Node, NEW x \in Node, Relayed(s, m, x)' PROVE Relayed(s, m, n)'
      <4>1. Relayed(s, m, x) => Relayed(s, m, n)
        BY <2>6 DEF Backup
      <4> QED
        BY <2>4, <2>5, <3>1, <4>1
    <3>2. PICK m \in Node \ {p, n} : Relayed(s, m, n) \/ (Direct(s, p, m) /\ s \notin seen[m])
      BY <2>6 DEF Backup
    <3>3. CASE Relayed(s, m, n)
      <4>1. Relayed(s, m, n)'
        BY <2>4, <3>3
      <4> QED
        BY <3>1, <4>1 DEF Backup
    <3>4. CASE Direct(s, p, m) /\ s \notin seen'[m]
      <4>1. Direct(s, p, m)'
        BY <2>4, <3>4
      <4> QED
        BY <3>1, <3>4, <4>1 DEF Backup
    <3>5. CASE s \in seen'[m] /\ s \notin seen[m]
      <4>1. m = t /\ s = i /\ p = o
        BY <1>3, <1>5, <3>5
      <4>2. CASE msg.ttl = 1
        <5>1. n # t /\ n # o
          BY <1>5, <2>1, <3>2, <4>1
        <5>2. Relayed(s, t, n)'
          BY <1>9, <4>1, <4>2, <5>1
        <5> QED
          BY <3>1, <3>2, <4>1, <5>2 DEF Backup
      <4>3. CASE msg.ttl = 0
        <5>1. msg.from \in Node \ {p, n}
          BY <1>6, <2>1, <4>1, <4>3, SMT
        <5>2. Relayed(s, msg.from, t)
          BY <4>1, <4>3 DEF Relayed, i, t
        <5>3. Relayed(s, msg.from, n)
          BY <1>2, <2>6, <5>1, <5>2 DEF Backup
        <5>4. Relayed(s, msg.from, n)'
          BY <2>4, <5>1, <5>3
        <5> QED
          BY <3>1, <5>1, <5>4 DEF Backup
      <4> QED
        BY <1>6, <4>2, <4>3
    <3> QED
      BY <3>2, <3>3, <3>4, <3>5
  <2> QED
    BY <2>2, <2>4, <2>6
<1> QED
  BY <1>10, <1>11, <1>12, <1>13

LEMMA RelayInit == Init => RelayInv
BY SMT DEF Init, RelayInv, FailureKinds, Wires, Payload, Shown, Reach, Issued

LEMMA RelayStep == Inv /\ RelayInv /\ [Next]_vars => RelayInv'
<1> SUFFICES ASSUME Inv, RelayInv, [Next]_vars PROVE RelayInv'
  OBVIOUS
<1>0. failed \in [FailureKinds -> Nat] /\ {"restart", "broadcast"} \subseteq FailureKinds
  BY DEF RelayInv, FailureKinds
<1>1. ASSUME NEW n \in Node, NEW k \in Keys, NEW f \in Fields, Put(n, k, f) PROVE RelayInv'
  BY <1>1, RelayPut
<1>2. ASSUME NEW msg \in net, HandleOpBroadcast(msg) PROVE RelayInv'
  <2>1. CASE msg.id \in seen[msg.to]
    <3>1. net' = net \ {msg} /\ UNCHANGED <<doc, seen, written, failed>>
      BY <1>2, <2>1 DEF HandleOpBroadcast
    <3> QED
      BY <2>1, <3>1, RelayDuplicate
  <2>2. CASE msg.id \notin seen[msg.to]
    BY <1>2, <2>2, RelayReceipt
  <2> QED
    BY <2>1, <2>2
<1>3. ASSUME NEW n \in Node, NEW m \in SelectPeers(n), SendDigest(n, m) PROVE RelayInv'
  <2>1. UNCHANGED <<net, seen, written, failed>>
    BY <1>3 DEF SendDigest
  <2> QED
    BY <1>0, <2>1, RelayQuiet
<1>4. ASSUME NEW n \in Node, HandleDigest(n) \/ HandleDelta(n) \/ HandleFulfilment(n) PROVE RelayInv'
  <2>1. UNCHANGED <<net, seen, written, failed>>
    BY <1>4 DEF HandleDigest, HandleDelta, HandleFulfilment
  <2> QED
    BY <1>0, <2>1, RelayQuiet
<1>5. CASE LoseBroadcast
  BY <1>5, RelayLoses
<1>6. ASSUME NEW n \in Node, RoundFails(n) PROVE RelayInv'
  <2>1. UNCHANGED <<net, seen, written>> /\ failed' = [failed EXCEPT !["round"] = @ + 1]
    BY <1>6 DEF RoundFails, Fail
  <2>2. /\ failed' \in [FailureKinds -> Nat]
        /\ failed'["restart"] = failed["restart"] /\ failed'["broadcast"] = failed["broadcast"]
    BY <1>0, <2>1, SMT DEF FailureKinds
  <2> QED
    BY <2>1, <2>2, RelayQuiet
<1>7. ASSUME NEW n \in Node, Restart(n) PROVE RelayInv'
  <2>1. seen' = [seen EXCEPT ![n] = {}] /\ failed' = [failed EXCEPT !["restart"] = @ + 1]
    BY <1>7 DEF Restart, Fail
  <2>2. failed' \in [FailureKinds -> Nat] /\ failed'["restart"] # 0
    BY <1>0, <2>1, SMT DEF FailureKinds
  <2>3. seen' = [m \in Node |-> seen'[m]]
    BY <2>1 DEF RelayInv
  <2> QED
    BY <2>2, <2>3 DEF RelayInv
<1>8. CASE UNCHANGED vars
  <2>1. UNCHANGED <<net, seen, written, failed>>
    BY <1>8 DEF vars
  <2> QED
    BY <1>0, <2>1, RelayQuiet
<1> QED
  BY <1>1, <1>2, <1>3, <1>4, <1>5, <1>6, <1>7, <1>8 DEF Next

\* Once no broadcast is left on the way, both ways of a write have been used
\* up by the nodes that needed them.
LEMMA RelayEnds == Inv /\ RelayInv => RelayMasksOneLoss
<1> SUFFICES ASSUME Inv, RelayInv, Cardinality(Node) > 2, net = {},
                    failed["broadcast"] <= 1, failed["restart"] = 0,
                    NEW n \in Node, NEW k \in Keys, NEW f \in Fields
             PROVE  doc[n][k][f] = Max(written[k][f] \cup {0})
  BY DEF RelayMasksOneLoss, Converged
<1>0. TypeInv /\ Stored /\ Shown /\ Reach
  BY DEF Inv, RelayInv
<1>1. doc[n][k][f] \in Nat /\ doc[n][k][f] \in written[k][f] \cup {0}
  <2>1. doc[n][k] \in Docs /\ (doc[n][k][f] = 0 \/ doc[n][k][f] \in written[k][f])
    BY <1>0 DEF Stored, Known
  <2> QED
    BY <2>1, FieldsAreNaturals
<1>2. ASSUME NEW s \in written[k][f] PROVE s \in Nat /\ doc[n][k][f] >= s
  <2>1. Issued(s)
    BY DEF Issued
  <2>2. PICK o \in Node : s \in StampsOf[o]
    BY <1>0, <2>1, OneWriter
  <2>3. \A m, x \in Node : ~Direct(s, m, x) /\ ~Relayed(s, m, x)
    BY DEF Direct, Relayed
  <2>4. s \in seen[n]
    BY <1>0, <2>1, <2>2, <2>3 DEF Reach, Backup
  <2>5. s \in Nat
    BY <1>0, <2>1, OneWriter
  <2> QED
    BY <1>0, <2>4, <2>5 DEF Shown
<1> DEFINE S == written[k][f] \cup {0}
<1>3. \A y \in S : y \in Nat /\ doc[n][k][f] >= y
  BY <1>1, <1>2, SMT
<1>4. \A x \in S : (\A y \in S : x >= y) => x = doc[n][k][f]
  BY <1>1, <1>3, SMT
<1>5. doc[n][k][f] \in S /\ \A y \in S : doc[n][k][f] >= y
  BY <1>1, <1>3
<1> HIDE DEF S
<1>6. Max(S) \in S /\ \A y \in S : Max(S) >= y
  BY <1>5 DEF Max
<1>7. Max(S) = doc[n][k][f]
  BY <1>4, <1>6
<1> QED
  BY <1>7 DEF S

\* In a mesh of three nodes or more, of any size and after any writes, one
\* lost broadcast costs nothing as long as no node restarts: when the last
\* broadcast is off the wire every node shows every write, whatever gossip did
\* (HandleOpBroadcast's dedup, relay to all but the sender, TTL 1).
THEOREM RelayCoversOneLoss == Spec => []RelayMasksOneLoss
<1>1. Init => Inv /\ RelayInv
  BY InvInit, RelayInit
<1>2. Inv /\ RelayInv /\ [Next]_vars => Inv' /\ RelayInv'
  BY InvStep, RelayStep
<1>3. Inv /\ RelayInv => RelayMasksOneLoss
  BY RelayEnds
<1> QED
  BY <1>1, <1>2, <1>3, PTL DEF Spec

=============================================================================
