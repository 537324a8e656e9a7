----------------------------- MODULE Replication -----------------------------
(***************************************************************************)
(* Replication of documents between nodes: the eager broadcast of a local  *)
(* write with its bounded relay (src/src/net/network_manager.cpp) and the  *)
(* anti-entropy rounds of src/src/net/gossip.cpp.                          *)
(*                                                                         *)
(* A document is an object whose fields are last-writer-wins registers, so *)
(* it is represented by the stamp of the write each field shows: merging   *)
(* takes the later stamp of each field, the digest's top_ts is the largest *)
(* stamp, and its content_hash stands for the document itself.  Stamps are *)
(* unique; their order says nothing about real time, because every node    *)
(* stamps by its own hybrid clock.                                         *)
(***************************************************************************)
EXTENDS Naturals, FiniteSets, FiniteSetsExt

CONSTANTS
    Node, Fields,
    Keys,        \* numbered in the order a digest is walked
    StampsOf,    \* the stamps each node will issue
    MaxDelta,    \* how many entries fit in a delta response
    MaxRounds,   \* how many gossip rounds run at once
    MaxFailures  \* how many broadcasts and rounds are lost and nodes restarted

Stamps == UNION {StampsOf[n] : n \in Node}

ASSUME ReplicationAssumption ==
    /\ IsFiniteSet(Node)
    /\ StampsOf \in [Node -> SUBSET (Nat \ {0})]
    /\ \A m, n \in Node : m # n => StampsOf[m] \cap StampsOf[n] = {}
    /\ Keys \subseteq Nat
    /\ {MaxDelta, MaxRounds} \subseteq Nat \ {0}
    /\ MaxFailures \in Nat

VARIABLES
    doc,      \* doc[n][k][f]: the materialised documents of each node
    clk,      \* the largest stamp each node's clock has produced or observed
    seen,     \* the message ids each node's dedup cache holds
    net,      \* broadcasts queued or on the wire
    sess,     \* the gossip round each node is in
    failed,   \* how many failures of each kind have happened
    written   \* history: the stamps written to each field

vars == <<doc, clk, seen, net, sess, failed, written>>

FailureKinds == {"broadcast", "round", "restart"}

Absent == [f \in Fields |-> 0]

Top(d) == Max({d[f] : f \in Fields})

Merge(a, b) == [f \in Fields |-> IF b[f] > a[f] THEN b[f] ELSE a[f]]

Idle == [pc |-> "idle"]

Init ==
    /\ doc = [n \in Node |-> [k \in Keys |-> Absent]]
    /\ clk = [n \in Node |-> 0]
    /\ seen = [n \in Node |-> {}]
    /\ net = {}
    /\ sess = [n \in Node |-> Idle]
    /\ failed = [kind \in FailureKinds |-> 0]
    /\ written = [k \in Keys |-> [f \in Fields |-> {}]]

\* Observe: the clock of n takes the largest of its stamp and those of ds, a
\* function from a set of keys to documents.
Observe(n, ds) ==
    \E c \in {clk[n]} \cup UNION {{ds[k][f] : f \in Fields} : k \in DOMAIN ds} :
        /\ c >= clk[n] /\ \A k \in DOMAIN ds, f \in Fields : c >= ds[k][f]
        /\ clk' = [clk EXCEPT ![n] = c]

\* Mutant: the incoming document replaces the local one.
MergeRemoteOverwrites(n, ds) ==
    /\ doc' = [doc EXCEPT ![n] =
                  [k \in Keys |-> IF k \in DOMAIN ds THEN ds[k] ELSE @[k]]]
    /\ Observe(n, ds)

\* The state of node n after MergeRemote of every document of ds.
MergeRemote(n, ds) ==
    /\ doc' = [doc EXCEPT ![n] =
                  [k \in Keys |-> IF k \in DOMAIN ds THEN Merge(@[k], ds[k]) ELSE @[k]]]
    /\ Observe(n, ds)

-----------------------------------------------------------------------------
(* Broadcast *)

FanOut(id, n, k, d, ttl, exclude) ==
    {[id |-> id, from |-> n, to |-> m, key |-> k, doc |-> d, ttl |-> ttl] :
        m \in Node \ {n, exclude}}

\* PutDocument of one field, then BroadcastLocalWrite.  The message id is the
\* stamp of the write.
Put(n, k, f) ==
    \E s \in StampsOf[n] :
        /\ s > clk[n]
        /\ doc' = [doc EXCEPT ![n][k][f] = s]
        /\ clk' = [clk EXCEPT ![n] = s]
        /\ seen' = [seen EXCEPT ![n] = @ \cup {s}]
        /\ net' = net \cup FanOut(s, n, k, doc'[n][k], 1, n)
        /\ written' = [written EXCEPT ![k][f] = @ \cup {s}]
        /\ UNCHANGED <<sess, failed>>

\* Mutant: the last hop is not relayed.
HandleOpBroadcastOneHop(msg) ==
    /\ msg \in net
    /\ IF msg.id \in seen[msg.to]
       THEN net' = net \ {msg} /\ UNCHANGED <<doc, clk, seen>>
       ELSE /\ seen' = [seen EXCEPT ![msg.to] = @ \cup {msg.id}]
            /\ MergeRemote(msg.to, [k \in {msg.key} |-> msg.doc])
            /\ net' = (net \ {msg}) \cup
                  (IF msg.ttl > 1
                   THEN FanOut(msg.id, msg.to, msg.key, msg.doc, msg.ttl - 1, msg.from)
                   ELSE {})
    /\ UNCHANGED <<sess, failed, written>>

\* A duplicate is suppressed; anything else is merged and, with a positive
\* TTL, relayed to everyone but its sender.
HandleOpBroadcast(msg) ==
    /\ msg \in net
    /\ IF msg.id \in seen[msg.to]
       THEN net' = net \ {msg} /\ UNCHANGED <<doc, clk, seen>>
       ELSE /\ seen' = [seen EXCEPT ![msg.to] = @ \cup {msg.id}]
            /\ MergeRemote(msg.to, [k \in {msg.key} |-> msg.doc])
            /\ net' = (net \ {msg}) \cup
                  (IF msg.ttl > 0
                   THEN FanOut(msg.id, msg.to, msg.key, msg.doc, msg.ttl - 1, msg.from)
                   ELSE {})
    /\ UNCHANGED <<sess, failed, written>>

-----------------------------------------------------------------------------
(* Anti-entropy *)

Fingerprint(d) == [top_ts |-> Top(d), content_hash |-> d]

\* Mutant: timestamps alone decide.
DiffersByTimestamp(a, b) == a.top_ts > b.top_ts

\* One copy is newer, or as new with other bytes.
Differs(a, b) ==
    \/ a.top_ts > b.top_ts
    \/ a.top_ts = b.top_ts /\ a.content_hash # b.content_hash

\* The digest of the documents a node has.
LocalDigest(n) ==
    [k \in {j \in Keys : doc[n][j] # Absent} |-> Fingerprint(doc[n][k])]

\* The keys of digest x whose copy the owner of digest y should be given.
Offers(x, y) ==
    {k \in DOMAIN x : k \notin DOMAIN y \/ Differs(x[k], y[k])}

\* The ranking only makes some peers likelier than others.
SelectPeers(n) == Node \ {n}

\* ExchangeDocuments sends its digest to a peer SelectPeers chose.
SendDigest(n, m) ==
    /\ sess[n] = Idle
    /\ Cardinality({i \in Node : sess[i] # Idle}) < MaxRounds
    /\ sess' = [sess EXCEPT ![n] = [pc |-> "digest", peer |-> m,
                                    digest |-> LocalDigest(n)]]
    /\ UNCHANGED <<doc, clk, seen, net, failed, written>>

\* The first b keys of S in the order the digest maps are walked.
FirstOf(S, b) == {k \in S : Cardinality({j \in S : j < k}) < b}

\* The peer answers with the documents it pushes and then the keys it wants, as
\* far as kMaxDeltaBytes allows.
HandleDigest(n) ==
    /\ sess[n].pc = "digest"
    /\ LET m == sess[n].peer
           pushed == FirstOf(Offers(LocalDigest(m), sess[n].digest), MaxDelta)
           wanted == FirstOf(Offers(sess[n].digest, LocalDigest(m)),
                             MaxDelta - Cardinality(pushed))
       IN  sess' = [sess EXCEPT ![n] =
                       [pc |-> "delta", peer |-> m, wanted |-> wanted,
                        pushed |-> [k \in pushed |-> doc[m][k]]]]
    /\ UNCHANGED <<doc, clk, seen, net, failed, written>>

\* The rest of ExchangeDocuments: merge what was pushed, send what was wanted.
HandleDelta(n) ==
    /\ sess[n].pc = "delta"
    /\ MergeRemote(n, sess[n].pushed)
    /\ sess' = [sess EXCEPT ![n] =
                   IF sess[n].wanted = {} THEN Idle
                   ELSE [pc |-> "fulfil", peer |-> sess[n].peer,
                         docs |-> [k \in sess[n].wanted |-> doc'[n][k]]]]
    /\ UNCHANGED <<seen, net, failed, written>>

\* The peer merges the fulfilment: a broadcast with a fresh id and TTL 0.
HandleFulfilment(n) ==
    /\ sess[n].pc = "fulfil"
    /\ MergeRemote(sess[n].peer, sess[n].docs)
    /\ sess' = [sess EXCEPT ![n] = Idle]
    /\ UNCHANGED <<seen, net, failed, written>>

-----------------------------------------------------------------------------
(* Failures *)

Fail(kind) ==
    /\ MapThenSumSet(LAMBDA i : failed[i], FailureKinds) < MaxFailures
    /\ failed' = [failed EXCEPT ![kind] = @ + 1]

\* A broadcast is dropped: a full queue, a lost connection, a rate limit.
LoseBroadcast ==
    /\ Fail("broadcast")
    /\ \E msg \in net : net' = net \ {msg}
    /\ UNCHANGED <<doc, clk, seen, sess, written>>

\* A request of the round fails: ExchangeDocuments returns.
RoundFails(n) ==
    /\ Fail("round")
    /\ sess[n] # Idle
    /\ sess' = [sess EXCEPT ![n] = Idle]
    /\ UNCHANGED <<doc, clk, seen, net, written>>

\* A restart empties the dedup cache and the fan-out queue and ends the round.
Restart(n) ==
    /\ Fail("restart")
    /\ seen' = [seen EXCEPT ![n] = {}]
    /\ net' = {msg \in net : msg.from # n}
    /\ sess' = [sess EXCEPT ![n] = Idle]
    /\ UNCHANGED <<doc, clk, written>>

Next ==
    \/ \E n \in Node, k \in Keys, f \in Fields : Put(n, k, f)
    \/ \E msg \in net : HandleOpBroadcast(msg)
    \/ \E n \in Node : \E m \in SelectPeers(n) : SendDigest(n, m)
    \/ \E n \in Node : HandleDigest(n)
    \/ \E n \in Node : HandleDelta(n)
    \/ \E n \in Node : HandleFulfilment(n)
    \/ LoseBroadcast
    \/ \E n \in Node : RoundFails(n)
    \/ \E n \in Node : Restart(n)

Spec == Init /\ [][Next]_vars

\* The gossip loop runs for ever and a uniform pick some of the time keeps
\* every peer in reach (gossip.cpp:69-73); a request is answered or fails.
Fairness ==
    \A n \in Node :
        /\ \A m \in SelectPeers(n) : SF_vars(SendDigest(n, m))
        /\ WF_vars(HandleDigest(n))
        /\ WF_vars(HandleDelta(n))
        /\ WF_vars(HandleFulfilment(n))

FairSpec == Spec /\ Fairness

-----------------------------------------------------------------------------
(* Properties *)

Store == INSTANCE EventualStore WITH view <- doc

\* Broadcast, relay and gossip implement the abstract store: documents grow
\* only by writes that were made, and never fall back to an older write.
ImplementsStore == Store!Spec

\* Once the writes stop, all nodes come to hold the same documents, and each
\* field shows the last write made to it anywhere (network_manager.cpp:439-445,
\* gossip as "the correctness backstop", 858-861).
Converged ==
    \A n \in Node, k \in Keys, f \in Fields :
        doc[n][k][f] = Max(written[k][f] \cup {0})

Convergence == <>[]Converged

\* With three nodes or more the single relay hop makes up for one lost
\* message: when no broadcast is left on the way, every node shows every write
\* without any help from gossip (network_manager.cpp:492-508).
RelayMasksOneLoss ==
    (/\ Cardinality(Node) > 2
     /\ net = {}
     /\ failed["broadcast"] <= 1
     /\ failed["restart"] = 0) => Converged

=============================================================================
