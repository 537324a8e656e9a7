-------------------------- MODULE NodeWritesProofs --------------------------
(* Theorems about the write paths of one node, module NodeWrites. *)
EXTENDS NodeWrites, TLAPS

\* Leaves are first-order unless they name another backend.
USE Zenon

Document == [Fields -> Nat]

Requests ==
    {None}
    \cup [pc : {"read"}, previous : Document, fields : SUBSET Fields]
    \cup [pc : {"observed"}, remote : Document]
    \cup [pc : {"stamped", "appended", "written"},
          changes : SUBSET (Fields \X Nat), doc : Document]

TypeInv ==
    /\ ledger \in Seq([type : {"put"}, doc : Document] \cup [type : {"abort"}])
    /\ row \in Document
    /\ clk \in Nat
    /\ req \in [Threads -> Requests]
    /\ acked \in SUBSET (Fields \X Nat)
    /\ raced \in BOOLEAN

\* The last PUT is one of them.
LastIsPut == Puts # {} => Max(Puts) \in Puts

\* Document d is below e.
Below(d, e) == \A f \in Fields : d[f] <= e[f]

\* What is on its way to the row is a PUT.
Attested ==
    /\ RowIsAttested
    /\ \A t \in Threads : req[t].pc = "appended" =>
          \E i \in Puts : ledger[i].doc = req[t].doc

\* Every stamp of d is at most k.
Passed(d, k) == \A f \in Fields : d[f] <= k

ClockPassed ==
    /\ Passed(row, clk)
    /\ \A i \in Puts : Passed(ledger[i].doc, clk)
    /\ \A t \in Threads :
          /\ req[t].pc = "read" => Passed(req[t].previous, clk)
          /\ req[t].pc = "observed" => Passed(req[t].remote, clk)
          /\ req[t].pc \in {"stamped", "appended", "written"} => Passed(req[t].doc, clk)

\* What a request that nothing raced knows of the row and of the last PUT.
Carries(t) == \A w \in req[t].changes : req[t].doc[w[1]] >= w[2]

Alone(t) ==
    /\ \A u \in Threads : req[t].pc \in InFlight /\ req[u].pc \in InFlight => t = u
    /\ req[t].pc = "read" => req[t].previous = row
    /\ req[t].pc = "stamped" => Below(row, req[t].doc) /\ Carries(t)
    /\ req[t].pc = "appended" =>
          Below(row, req[t].doc) /\ Carries(t) /\ Puts # {} /\ LastPut = req[t].doc
    /\ req[t].pc = "written" =>
          row = req[t].doc /\ Carries(t) /\ Puts # {} /\ LastPut = req[t].doc

Unraced == ~raced => \A t \in Threads : Alone(t)

\* A scan that LocalDigest has still to enter shows the row as it is.
DigestInv ==
    (~raced /\ \A t \in Threads : req[t].pc # "written") =>
        /\ cache \subseteq {row}
        /\ cache = {} => scanned \subseteq {row}

Inv ==
    TypeInv /\ LastIsPut /\ Attested /\ ClockPassed /\ Unraced /\ AckedWritesKept /\ DigestInv

LEMMA InvInit == Init => Inv
<1> SUFFICES ASSUME Init PROVE Inv
  OBVIOUS
<1>1. TypeInv
  <2>1. Absent \in Document
    BY DEF Absent, Document
  <2>2. req \in [Threads -> Requests]
    BY DEF Init, Requests
  <2>3. ledger \in Seq([type : {"put"}, doc : Document] \cup [type : {"abort"}])
    BY SMT DEF Init
  <2> QED
    BY <2>1, <2>2, <2>3 DEF Init, TypeInv
<1>2. Puts = {} /\ acked = {} /\ \A t \in Threads : req[t].pc = "none"
  BY SMT DEF Init, Puts, None
<1>3. LastIsPut /\ Attested /\ AckedWritesKept
  BY <1>2 DEF Init, LastIsPut, Attested, RowIsAttested, AckedWritesKept, Shows
<1>4. ClockPassed
  BY <1>2, SMT DEF Init, ClockPassed, Passed, Absent
<1>5. Unraced /\ DigestInv
  BY <1>2 DEF Init, Unraced, Alone, InFlight, DigestInv
<1> QED
  BY <1>1, <1>3, <1>4, <1>5 DEF Inv

\* Appending a PUT makes it the last one and keeps the others.
LEMMA AppendPutFacts ==
    ASSUME TypeInv, NEW d \in Document,
           ledger' = Append(ledger, [type |-> "put", doc |-> d])
    PROVE  /\ ledger' \in Seq([type : {"put"}, doc : Document] \cup [type : {"abort"}])
           /\ Puts' = Puts \cup {Len(ledger) + 1}
           /\ \A i \in Puts : ledger'[i] = ledger[i]
           /\ ledger'[Len(ledger) + 1].doc = d
           /\ Max(Puts)' \in Puts' /\ LastPut' = d
<1> DEFINE L == Len(ledger)
<1>1. /\ ledger' \in Seq([type : {"put"}, doc : Document] \cup [type : {"abort"}])
      /\ L \in Nat /\ DOMAIN ledger = 1 .. L /\ DOMAIN ledger' = 1 .. (L + 1)
      /\ \A i \in 1 .. L : ledger'[i] = ledger[i]
      /\ ledger'[L + 1] = [type |-> "put", doc |-> d]
  BY SMT DEF TypeInv
<1>2. Puts' = Puts \cup {L + 1}
  BY <1>1, SMT DEF Puts
<1>3. L + 1 \in Puts' /\ \A i \in Puts' : i \in Nat /\ i <= L + 1
  BY <1>1, <1>2, SMT DEF Puts
<1>4. Max(Puts)' = L + 1
  BY <1>1, <1>3, SMT DEF Max
<1>5. LastPut' = d /\ Max(Puts)' \in Puts'
  BY <1>1, <1>3, <1>4, SMT DEF LastPut
<1>6. \A i \in Puts : ledger'[i] = ledger[i]
  BY <1>1 DEF Puts
<1>7. ledger'[L + 1].doc = d
  BY <1>1, SMT
<1> QED
  BY <1>1, <1>2, <1>5, <1>6, <1>7

\* An ABORT record changes none of the PUTs.
LEMMA AppendAbortFacts ==
    ASSUME TypeInv, LastIsPut, ledger' = Append(ledger, [type |-> "abort"])
    PROVE  /\ ledger' \in Seq([type : {"put"}, doc : Document] \cup [type : {"abort"}])
           /\ Puts' = Puts
           /\ \A i \in Puts : ledger'[i] = ledger[i]
           /\ LastIsPut'
           /\ Puts # {} => LastPut' = LastPut
<1> DEFINE L == Len(ledger)
<1>1. /\ ledger' \in Seq([type : {"put"}, doc : Document] \cup [type : {"abort"}])
      /\ L \in Nat /\ DOMAIN ledger = 1 .. L /\ DOMAIN ledger' = 1 .. (L + 1)
      /\ \A i \in 1 .. L : ledger'[i] = ledger[i]
      /\ ledger'[L + 1] = [type |-> "abort"]
  BY SMT DEF TypeInv
<1>2. Puts' = Puts /\ Puts \subseteq 1 .. L
  BY <1>1, SMT DEF Puts
<1>3. Max(Puts)' = Max(Puts)
  BY <1>2
<1> QED
  BY <1>1, <1>2, <1>3 DEF LastIsPut, LastPut

\* A step that leaves the ledger alone leaves its PUTs alone.
LEMMA SameLedger ==
    ASSUME ledger' = ledger
    PROVE  Puts' = Puts /\ LastPut' = LastPut /\ (LastIsPut => LastIsPut')
BY DEF Puts, LastPut, LastIsPut

\* What each kind of request holds.
LEMMA RequestFields ==
    ASSUME TypeInv, NEW t \in Threads
    PROVE  /\ req[t].pc = "read" =>
                req[t].previous \in Document /\ req[t].fields \subseteq Fields
           /\ req[t].pc = "observed" => req[t].remote \in Document
           /\ req[t].pc \in {"stamped", "appended", "written"} =>
                /\ req[t].doc \in Document /\ req[t].changes \subseteq Fields \X Nat
                /\ req[t] = [pc |-> req[t].pc, changes |-> req[t].changes, doc |-> req[t].doc]
BY SMT DEF TypeInv, Requests, None

\* When the clock does not go back and the row and the PUTs stay, ClockPassed
\* is left to show of the thread that steps.
LEMMA ClockMoves ==
    ASSUME TypeInv, ClockPassed, NEW t \in Threads,
           \A e \in Document : Passed(e, clk) => Passed(e, clk'),
           row' = row, ledger' = ledger,
           \A u \in Threads \ {t} : req'[u] = req[u],
           req'[t].pc = "read" => Passed(req'[t].previous, clk'),
           req'[t].pc = "observed" => Passed(req'[t].remote, clk'),
           req'[t].pc \in {"stamped", "appended", "written"} => Passed(req'[t].doc, clk')
    PROVE  ClockPassed'
<1>1. row \in Document /\ \A i \in Puts : ledger[i].doc \in Document
  BY SMT DEF TypeInv, Puts
<1>2. Passed(row', clk') /\ \A i \in Puts' : Passed(ledger'[i].doc, clk')
  BY <1>1 DEF ClockPassed, Puts
<1>3. ASSUME NEW u \in Threads, u # t
      PROVE  /\ req'[u].pc = "read" => Passed(req'[u].previous, clk')
             /\ req'[u].pc = "observed" => Passed(req'[u].remote, clk')
             /\ req'[u].pc \in {"stamped", "appended", "written"} => Passed(req'[u].doc, clk')
  BY <1>3, RequestFields DEF ClockPassed
<1> QED
  BY <1>2, <1>3 DEF ClockPassed, Passed

LEMMA InvStep == Inv /\ [Next]_vars => Inv'
<1> SUFFICES ASSUME Inv, [Next]_vars PROVE Inv'
  OBVIOUS
<1>0. TypeInv /\ LastIsPut /\ Attested /\ ClockPassed /\ Unraced /\ AckedWritesKept /\ DigestInv
  BY DEF Inv
<1>1. ASSUME NEW t \in Threads, NEW S \in SUBSET Fields \ {{}}, PutDocument(t, S) PROVE Inv'
  <2> DEFINE r == [pc |-> "read", previous |-> row, fields |-> S]
  <2>1. /\ req[t].pc = "none" /\ req' = [req EXCEPT ![t] = r]
        /\ raced' = (raced \/ \E u \in Threads \ {t} : req[u].pc \in InFlight)
        /\ UNCHANGED <<ledger, row, cache, clk, scanned, acked>>
    BY <1>1, SMT DEF PutDocument, Continue, NoteRace, None
  <2>2. Puts' = Puts /\ LastPut' = LastPut /\ LastIsPut'
    BY <1>0, <2>1, SameLedger
  <2>3. req'[t] = r /\ \A u \in Threads \ {t} : req'[u] = req[u]
    BY <1>0, <2>1 DEF TypeInv
  <2>4. TypeInv'
    <3>1. r \in Requests
      BY <1>0 DEF TypeInv, Requests
    <3> QED
      BY <1>0, <2>1, <3>1 DEF TypeInv
  <2>5. Attested'
    BY <1>0, <2>1, <2>2, <2>3, SMT DEF Attested, RowIsAttested
  <2>6. ClockPassed'
    BY <1>0, <2>1, <2>2, <2>3, SMT DEF ClockPassed, Passed
  <2>7. Unraced'
    <3> SUFFICES ASSUME ~raced', NEW u \in Threads PROVE Alone(u)'
      BY DEF Unraced
    <3>1. ~raced /\ Alone(u) /\ \A v \in Threads \ {t} : req[v].pc \notin InFlight
      BY <1>0, <2>1 DEF Unraced
    <3>2. CASE u = t
      BY <2>1, <2>3, <3>1, <3>2, SMT DEF Alone, InFlight
    <3>3. CASE u # t
      BY <2>1, <2>2, <2>3, <3>1, <3>3 DEF Alone, InFlight, Below, Carries
    <3> QED
      BY <3>2, <3>3
  <2>8. AckedWritesKept'
    BY <1>0, <2>1, <2>2 DEF AckedWritesKept, Shows
  <2>9. DigestInv'
    BY <1>0, <2>1, <2>3 DEF DigestInv
  <2> QED
    BY <2>2, <2>4, <2>5, <2>6, <2>7, <2>8, <2>9 DEF Inv
<1>2. ASSUME NEW t \in Threads, StampUpdate(t) PROVE Inv'
  <2>1. req[t].pc = "read" /\ UNCHANGED <<ledger, row, cache, scanned, acked, raced>>
    BY <1>2 DEF StampUpdate
  <2>0. PICK s \in LocalStamps :
        /\ s > clk /\ clk' = s
        /\ req' = [req EXCEPT ![t] =
                     [pc |-> "stamped",
                      changes |-> {<<f, s>> : f \in req[t].fields},
                      doc |-> [f \in Fields |-> IF f \in req[t].fields THEN s
                                                ELSE req[t].previous[f]]]]
    BY <1>2 DEF StampUpdate, Continue
  <2>2. PICK c, d :
        /\ s > clk /\ clk' = s
        /\ c = {<<f, s>> : f \in req[t].fields}
        /\ d = [f \in Fields |-> IF f \in req[t].fields THEN s ELSE req[t].previous[f]]
        /\ req' = [req EXCEPT ![t] = [pc |-> "stamped", changes |-> c, doc |-> d]]
    BY <2>0
  <2>3. Puts' = Puts /\ LastPut' = LastPut /\ LastIsPut'
    BY <1>0, <2>1, SameLedger
  <2>4. s \in Nat /\ req[t].previous \in Document /\ req[t].fields \subseteq Fields
    BY <1>0, <2>1, RequestFields, NodeWritesAssumption
  <2>5. c \subseteq Fields \X Nat /\ d \in Document
    BY <2>2, <2>4, SMT DEF Document
  <2>6. /\ req'[t] = [pc |-> "stamped", changes |-> c, doc |-> d]
        /\ \A u \in Threads \ {t} : req'[u] = req[u]
    BY <1>0, <2>2 DEF TypeInv
  <2>7. TypeInv'
    <3>1. [pc |-> "stamped", changes |-> c, doc |-> d] \in Requests
      BY <2>5 DEF Requests
    <3> QED
      BY <1>0, <2>1, <2>2, <2>4, <3>1 DEF TypeInv
  <2>8. Attested'
    BY <1>0, <2>1, <2>3, <2>6, SMT DEF Attested, RowIsAttested
  <2>9. ClockPassed'
    <3>1. \A e \in Document : Passed(e, clk) => Passed(e, clk')
      BY <1>0, <2>2, <2>4, SMT DEF Passed, Document, TypeInv
    <3>2. Passed(d, clk')
      BY <1>0, <2>1, <2>2, <2>4, SMT DEF Passed, ClockPassed, Document, TypeInv
    <3> QED
      BY <1>0, <2>1, <2>3, <2>6, <3>1, <3>2, ClockMoves, SMT
  <2>10. Unraced'
    <3> SUFFICES ASSUME ~raced', NEW u \in Threads PROVE Alone(u)'
      BY DEF Unraced
    <3>1. ~raced /\ Alone(u) /\ Alone(t)
      BY <1>0, <2>1 DEF Unraced
    <3>2. CASE u = t
      <4>1. Below(row, d)
        BY <1>0, <2>1, <2>2, <2>4, <3>1, SMT DEF Below, Alone, ClockPassed, Passed, TypeInv, Document
      <4>2. \A w \in c : d[w[1]] >= w[2]
        BY <2>2, <2>4, SMT
      <4> QED
        BY <2>1, <2>6, <3>1, <3>2, <4>1, <4>2, SMT DEF Alone, InFlight, Below, Carries
    <3>3. CASE u # t
      BY <2>1, <2>3, <2>6, <3>1, <3>3 DEF Alone, InFlight, Below, Carries
    <3> QED
      BY <3>2, <3>3
  <2>11. AckedWritesKept'
    BY <1>0, <2>1, <2>3 DEF AckedWritesKept, Shows
  <2>12. DigestInv'
    BY <1>0, <2>1, <2>6 DEF DigestInv
  <2> QED
    BY <2>3, <2>7, <2>8, <2>9, <2>10, <2>11, <2>12 DEF Inv
<1>3. ASSUME NEW t \in Threads, NEW d \in RemoteDocs, MergeRemote(t, d) PROVE Inv'
  <2> DEFINE r == [pc |-> "observed", remote |-> d]
  <2>1. /\ req[t].pc = "none" /\ req' = [req EXCEPT ![t] = r]
        /\ clk' \in {clk} \cup {d[f] : f \in Fields}
        /\ clk' >= clk /\ \A f \in Fields : clk' >= d[f]
        /\ UNCHANGED <<ledger, row, cache, scanned, acked, raced>>
    BY <1>3, SMT DEF MergeRemote, Continue, None
  <2>2. Puts' = Puts /\ LastPut' = LastPut /\ LastIsPut'
    BY <1>0, <2>1, SameLedger
  <2>3. req'[t] = r /\ \A u \in Threads \ {t} : req'[u] = req[u]
    BY <1>0, <2>1 DEF TypeInv
  <2>4. d \in Document
    BY NodeWritesAssumption DEF Document
  <2>5. clk' \in Nat
    BY <1>0, <2>1, <2>4 DEF TypeInv, Document
  <2>6. TypeInv'
    <3>1. r \in Requests
      BY <2>4 DEF Requests
    <3> QED
      BY <1>0, <2>1, <2>5, <3>1 DEF TypeInv
  <2>7. Attested'
    BY <1>0, <2>1, <2>2, <2>3, SMT DEF Attested, RowIsAttested
  <2>8. ClockPassed'
    <3>1. \A e \in Document : Passed(e, clk) => Passed(e, clk')
      BY <1>0, <2>1, <2>5, SMT DEF Passed, Document, TypeInv
    <3>2. Passed(d, clk')
      BY <2>1, <2>4, <2>5 DEF Passed, Document
    <3> QED
      BY <1>0, <2>1, <2>3, <3>1, <3>2, ClockMoves, SMT
  <2>9. Unraced'
    BY <1>0, <2>1, <2>2, <2>3, SMT DEF Unraced, Alone, InFlight, Below, Carries
  <2>10. AckedWritesKept'
    BY <1>0, <2>1, <2>2 DEF AckedWritesKept, Shows
  <2>11. DigestInv'
    BY <1>0, <2>1, <2>3 DEF DigestInv
  <2> QED
    BY <2>2, <2>6, <2>7, <2>8, <2>9, <2>10, <2>11 DEF Inv
<1>4. ASSUME NEW t \in Threads, MergeExisting(t) PROVE Inv'
  <2>1. PICK d, c, m :
        /\ req[t].pc = "observed" /\ d = req[t].remote
        /\ c = {<<f, d[f]>> : f \in Fields} /\ m = Merge(row, d)
        /\ req' = [req EXCEPT ![t] = [pc |-> "stamped", changes |-> c, doc |-> m]]
        /\ raced' = (raced \/ \E u \in Threads \ {t} : req[u].pc \in InFlight)
        /\ UNCHANGED <<ledger, row, cache, clk, scanned, acked>>
    BY <1>4 DEF MergeExisting, Continue, NoteRace
  <2>2. Puts' = Puts /\ LastPut' = LastPut /\ LastIsPut'
    BY <1>0, <2>1, SameLedger
  <2>3. /\ req'[t] = [pc |-> "stamped", changes |-> c, doc |-> m]
        /\ \A u \in Threads \ {t} : req'[u] = req[u]
    BY <1>0, <2>1 DEF TypeInv
  <2>4. d \in Document /\ row \in Document /\ clk \in Nat
    BY <1>0, <2>1, RequestFields DEF TypeInv
  <2>5. /\ m \in Document /\ Below(row, m)
        /\ \A f \in Fields : m[f] >= d[f] /\ m[f] \in {row[f], d[f]}
    BY <2>1, <2>4, SMT DEF Merge, Document, Below
  <2>6. c \subseteq Fields \X Nat /\ \A w \in c : m[w[1]] >= w[2]
    BY <2>1, <2>4, <2>5, SMT DEF Document
  <2>7. TypeInv'
    <3>1. [pc |-> "stamped", changes |-> c, doc |-> m] \in Requests
      BY <2>5, <2>6 DEF Requests
    <3> QED
      BY <1>0, <2>1, <3>1 DEF TypeInv
  <2>8. Attested'
    BY <1>0, <2>1, <2>2, <2>3, SMT DEF Attested, RowIsAttested
  <2>9. ClockPassed'
    <3>1. Passed(m, clk')
      BY <1>0, <2>1, <2>4, <2>5 DEF Passed, ClockPassed, Document
    <3> QED
      BY <1>0, <2>1, <2>3, <3>1, ClockMoves, SMT
  <2>10. Unraced'
    <3> SUFFICES ASSUME ~raced', NEW u \in Threads PROVE Alone(u)'
      BY DEF Unraced
    <3>1. ~raced /\ Alone(u) /\ \A v \in Threads \ {t} : req[v].pc \notin InFlight
      BY <1>0, <2>1 DEF Unraced
    <3>2. CASE u = t
      BY <2>1, <2>3, <2>5, <2>6, <3>1, <3>2, SMT DEF Alone, InFlight, Below, Carries
    <3>3. CASE u # t
      BY <2>1, <2>2, <2>3, <3>1, <3>3, SMT DEF Alone, InFlight, Below, Carries
    <3> QED
      BY <3>2, <3>3
  <2>11. AckedWritesKept'
    BY <1>0, <2>1, <2>2 DEF AckedWritesKept, Shows
  <2>12. DigestInv'
    BY <1>0, <2>1, <2>3 DEF DigestInv
  <2> QED
    BY <2>2, <2>7, <2>8, <2>9, <2>10, <2>11, <2>12 DEF Inv
<1>5. ASSUME NEW t \in Threads, AppendPut(t) PROVE Inv'
  <2>1. PICK c, d :
        /\ req[t] = [pc |-> "stamped", changes |-> c, doc |-> d]
        /\ c \subseteq Fields \X Nat /\ d \in Document
    BY <1>0, <1>5, RequestFields DEF AppendPut
  <2>2. /\ ledger' = Append(ledger, [type |-> "put", doc |-> d])
        /\ req' = [req EXCEPT ![t] = [pc |-> "appended", changes |-> c, doc |-> d]]
        /\ UNCHANGED <<row, cache, clk, scanned, acked, raced>>
    <3>1. req[t].doc = d /\ [req[t] EXCEPT !.pc = "appended"] = [pc |-> "appended", changes |-> c, doc |-> d]
      BY <2>1, SMT
    <3>2. /\ ledger' = Append(ledger, [type |-> "put", doc |-> req[t].doc])
          /\ req' = [req EXCEPT ![t] = [req[t] EXCEPT !.pc = "appended"]]
          /\ UNCHANGED <<row, cache, clk, scanned, acked, raced>>
      BY <1>5 DEF AppendPut, Continue
    <3> QED
      BY <3>1, <3>2
  <2>3. /\ ledger' \in Seq([type : {"put"}, doc : Document] \cup [type : {"abort"}])
        /\ Puts' = Puts \cup {Len(ledger) + 1}
        /\ \A i \in Puts : ledger'[i] = ledger[i]
        /\ ledger'[Len(ledger) + 1].doc = d
        /\ LastIsPut' /\ LastPut' = d
    BY <1>0, <2>1, <2>2, AppendPutFacts DEF LastIsPut
  <2>4. /\ req'[t] = [pc |-> "appended", changes |-> c, doc |-> d]
        /\ \A u \in Threads \ {t} : req'[u] = req[u]
    BY <1>0, <2>2 DEF TypeInv
  <2>5. TypeInv'
    <3>1. [pc |-> "appended", changes |-> c, doc |-> d] \in Requests
      BY <2>1 DEF Requests
    <3> QED
      BY <1>0, <2>2, <2>3, <3>1 DEF TypeInv
  <2>6. Attested'
    <3>1. \A e : (\E i \in Puts : ledger[i].doc = e) => \E i \in Puts' : ledger'[i].doc = e
      BY <2>3
    <3>2. RowIsAttested'
      BY <1>0, <2>2, <3>1 DEF Attested, RowIsAttested
    <3>3. ASSUME NEW u \in Threads, req'[u].pc = "appended"
          PROVE  \E i \in Puts' : ledger'[i].doc = req'[u].doc
      <4>1. CASE u = t
        BY <2>3, <2>4, <4>1, SMT
      <4>2. CASE u # t
        BY <1>0, <2>4, <3>1, <3>3, <4>2, SMT DEF Attested
      <4> QED
        BY <4>1, <4>2
    <3> QED
      BY <3>2, <3>3 DEF Attested
  <2>7. ClockPassed'
    <3>1. Passed(d, clk)
      BY <1>0, <2>1, SMT DEF ClockPassed
    <3>2. \A i \in Puts' : Passed(ledger'[i].doc, clk)
      BY <1>0, <2>3, <3>1 DEF ClockPassed
    <3>3. ASSUME NEW u \in Threads
          PROVE  /\ req'[u].pc = "read" => Passed(req'[u].previous, clk)
                 /\ req'[u].pc = "observed" => Passed(req'[u].remote, clk)
                 /\ req'[u].pc \in {"stamped", "appended", "written"} => Passed(req'[u].doc, clk)
      BY <1>0, <2>4, <3>1, SMT DEF ClockPassed
    <3> QED
      BY <1>0, <2>2, <3>2, <3>3 DEF ClockPassed, Passed
  <2>8. Unraced'
    <3> SUFFICES ASSUME ~raced', NEW u \in Threads PROVE Alone(u)'
      BY DEF Unraced
    <3>1. ~raced /\ Alone(u) /\ Alone(t)
      BY <1>0, <2>2 DEF Unraced
    <3>2. CASE u = t
      BY <2>1, <2>2, <2>3, <2>4, <3>1, <3>2, SMT DEF Alone, InFlight, Below, Carries
    <3>3. CASE u # t
      BY <2>1, <2>2, <2>3, <2>4, <3>1, <3>3, SMT DEF Alone, InFlight, Below, Carries
    <3> QED
      BY <3>2, <3>3
  <2>9. AckedWritesKept'
    <3> SUFFICES ASSUME ~raced PROVE Shows(row)' /\ Shows(LastPut)'
      BY <2>2 DEF AckedWritesKept
    <3>1. Shows(row) /\ Below(row, d)
      BY <1>0, <2>1, SMT DEF AckedWritesKept, Unraced, Alone
    <3>2. ASSUME NEW w \in acked PROVE row[w[1]] >= w[2] /\ d[w[1]] >= w[2]
      <4>1. w[1] \in Fields /\ w[2] \in Nat
        BY <1>0 DEF TypeInv
      <4>2. row[w[1]] \in Nat /\ d[w[1]] \in Nat /\ row[w[1]] <= d[w[1]]
        BY <1>0, <2>1, <3>1, <4>1 DEF TypeInv, Document, Below
      <4> QED
        BY <3>1, <4>1, <4>2, SMT DEF Shows
    <3> QED
      BY <2>2, <2>3, <3>2 DEF Shows
  <2>10. DigestInv'
    BY <1>0, <2>1, <2>2, <2>4, SMT DEF DigestInv
  <2> QED
    BY <2>3, <2>5, <2>6, <2>7, <2>8, <2>9, <2>10 DEF Inv
<1>6. ASSUME NEW t \in Threads, Materialise(t) PROVE Inv'
  <2>1. PICK c, d :
        /\ req[t] = [pc |-> "appended", changes |-> c, doc |-> d]
        /\ c \subseteq Fields \X Nat /\ d \in Document
    BY <1>0, <1>6, RequestFields DEF Materialise
  <2>2. /\ row' = d
        /\ req' = [req EXCEPT ![t] = [pc |-> "written", changes |-> c, doc |-> d]]
        /\ UNCHANGED <<ledger, cache, clk, scanned, acked, raced>>
    <3>1. req[t].doc = d /\ [req[t] EXCEPT !.pc = "written"] = [pc |-> "written", changes |-> c, doc |-> d]
      BY <2>1, SMT
    <3>2. /\ row' = req[t].doc
          /\ req' = [req EXCEPT ![t] = [req[t] EXCEPT !.pc = "written"]]
          /\ UNCHANGED <<ledger, cache, clk, scanned, acked, raced>>
      BY <1>6 DEF Materialise, Continue
    <3> QED
      BY <3>1, <3>2
  <2>3. Puts' = Puts /\ LastPut' = LastPut /\ LastIsPut'
    BY <1>0, <2>2, SameLedger
  <2>4. /\ req'[t] = [pc |-> "written", changes |-> c, doc |-> d]
        /\ \A u \in Threads \ {t} : req'[u] = req[u]
    BY <1>0, <2>2 DEF TypeInv
  <2>5. TypeInv'
    <3>1. [pc |-> "written", changes |-> c, doc |-> d] \in Requests
      BY <2>1 DEF Requests
    <3> QED
      BY <1>0, <2>1, <2>2, <3>1 DEF TypeInv
  <2>6. Attested'
    <3>1. RowIsAttested'
      BY <1>0, <2>1, <2>2, <2>3, SMT DEF Attested, RowIsAttested
    <3> QED
      BY <1>0, <2>2, <2>3, <2>4, <3>1, SMT DEF Attested
  <2>7. ClockPassed'
    <3>1. Passed(d, clk)
      BY <1>0, <2>1, SMT DEF ClockPassed
    <3>2. ASSUME NEW u \in Threads
          PROVE  /\ req'[u].pc = "read" => Passed(req'[u].previous, clk)
                 /\ req'[u].pc = "observed" => Passed(req'[u].remote, clk)
                 /\ req'[u].pc \in {"stamped", "appended", "written"} => Passed(req'[u].doc, clk)
      BY <1>0, <2>4, <3>1, SMT DEF ClockPassed
    <3> QED
      BY <1>0, <2>2, <2>3, <3>1, <3>2 DEF ClockPassed, Passed
  <2>8. Unraced'
    <3> SUFFICES ASSUME ~raced', NEW u \in Threads PROVE Alone(u)'
      BY DEF Unraced
    <3>1. ~raced /\ Alone(u) /\ Alone(t)
      BY <1>0, <2>2 DEF Unraced
    <3>2. CASE u = t
      BY <2>1, <2>2, <2>3, <2>4, <3>1, <3>2, SMT DEF Alone, InFlight, Below, Carries
    <3>3. CASE u # t
      BY <2>1, <2>2, <2>3, <2>4, <3>1, <3>3, SMT DEF Alone, InFlight, Below, Carries
    <3> QED
      BY <3>2, <3>3
  <2>9. AckedWritesKept'
    <3>1. ~raced => Puts # {} /\ LastPut = d
      BY <1>0, <2>1, SMT DEF Unraced, Alone
    <3> QED
      BY <1>0, <2>2, <2>3, <3>1 DEF AckedWritesKept, Shows
  <2>10. DigestInv'
    BY <2>4, SMT DEF DigestInv
  <2> QED
    BY <2>3, <2>5, <2>6, <2>7, <2>8, <2>9, <2>10 DEF Inv
<1>7. ASSUME NEW t \in Threads, MaterialiseFails(t) PROVE Inv'
  <2>1. /\ req[t].pc = "appended"
        /\ ledger' = Append(ledger, [type |-> "abort"])
        /\ req' = [req EXCEPT ![t] = None]
        /\ UNCHANGED <<row, cache, clk, scanned, acked, raced>>
    BY <1>7 DEF MaterialiseFails, Continue
  <2>2. /\ ledger' \in Seq([type : {"put"}, doc : Document] \cup [type : {"abort"}])
        /\ Puts' = Puts
        /\ \A i \in Puts : ledger'[i] = ledger[i]
        /\ LastIsPut'
        /\ Puts # {} => LastPut' = LastPut
    BY <1>0, <2>1, AppendAbortFacts
  <2>3. req'[t].pc = "none" /\ \A u \in Threads \ {t} : req'[u] = req[u]
    BY <1>0, <2>1 DEF TypeInv, None
  <2>4. TypeInv'
    <3>1. None \in Requests
      BY DEF Requests
    <3> QED
      BY <1>0, <2>1, <2>2, <3>1 DEF TypeInv
  <2>5. Attested'
    <3>1. RowIsAttested'
      BY <1>0, <2>1, <2>2 DEF Attested, RowIsAttested
    <3>2. ASSUME NEW u \in Threads, req'[u].pc = "appended"
          PROVE  \E i \in Puts' : ledger'[i].doc = req'[u].doc
      BY <1>0, <2>2, <2>3, <3>2, SMT DEF Attested
    <3> QED
      BY <3>1, <3>2 DEF Attested
  <2>6. ClockPassed'
    BY <1>0, <2>1, <2>2, <2>3, ZenonT(40) DEF ClockPassed, Passed
  <2>7. Unraced'
    <3> SUFFICES ASSUME ~raced', NEW u \in Threads PROVE Alone(u)'
      BY DEF Unraced
    <3>1. ~raced /\ Alone(u) /\ Alone(t)
      BY <1>0, <2>1 DEF Unraced
    <3> QED
      BY <2>1, <2>2, <2>3, <3>1, ZenonT(40) DEF Alone, InFlight, Below, Carries
  <2>8. AckedWritesKept'
    BY <1>0, <2>1, <2>2 DEF AckedWritesKept, Shows
  <2>9. DigestInv'
    BY <1>0, <2>1, <2>3 DEF DigestInv
  <2> QED
    BY <2>2, <2>4, <2>5, <2>6, <2>7, <2>8, <2>9 DEF Inv
<1>8. ASSUME NEW t \in Threads, NoteDigest(t) PROVE Inv'
  <2>1. PICK c, d :
        /\ req[t] = [pc |-> "written", changes |-> c, doc |-> d]
        /\ c \subseteq Fields \X Nat /\ d \in Document
    BY <1>0, <1>8, RequestFields DEF NoteDigest
  <2>2. /\ cache' = {d} /\ acked' = acked \cup c
        /\ req' = [req EXCEPT ![t] = None]
        /\ UNCHANGED <<ledger, row, clk, scanned, raced>>
    BY <1>8, <2>1, SMT DEF NoteDigest, Continue
  <2>3. Puts' = Puts /\ LastPut' = LastPut /\ LastIsPut'
    BY <1>0, <2>2, SameLedger
  <2>4. req'[t].pc = "none" /\ \A u \in Threads \ {t} : req'[u] = req[u]
    BY <1>0, <2>2 DEF TypeInv, None
  <2>5. TypeInv'
    <3>1. None \in Requests
      BY DEF Requests
    <3> QED
      BY <1>0, <2>1, <2>2, <3>1 DEF TypeInv
  <2>6. Attested' /\ ClockPassed'
    BY <1>0, <2>2, <2>3, <2>4, SMT DEF Attested, RowIsAttested, ClockPassed, Passed
  <2>7. Unraced'
    <3> SUFFICES ASSUME ~raced', NEW u \in Threads PROVE Alone(u)'
      BY DEF Unraced
    <3>1. ~raced /\ Alone(u)
      BY <1>0, <2>2 DEF Unraced
    <3> QED
      BY <2>2, <2>3, <2>4, <3>1 DEF Alone, InFlight, Below, Carries
  <2>8. ~raced => row = d /\ LastPut = d /\ \A w \in c : d[w[1]] >= w[2]
    BY <1>0, <2>1, SMT DEF Unraced, Alone, Carries
  <2>9. AckedWritesKept'
    BY <1>0, <2>2, <2>3, <2>8 DEF AckedWritesKept, Shows
  <2>10. DigestInv'
    BY <2>2, <2>8 DEF DigestInv
  <2> QED
    BY <2>3, <2>5, <2>6, <2>7, <2>9, <2>10 DEF Inv
<1>9. CASE ScanForDigest \/ FillDigest
  <2>1. UNCHANGED <<ledger, row, clk, req, acked, raced>>
    BY <1>9 DEF ScanForDigest, FillDigest
  <2>2. Puts' = Puts /\ LastPut' = LastPut /\ LastIsPut'
    BY <1>0, <2>1, SameLedger
  <2>3. TypeInv' /\ Attested' /\ ClockPassed'
    BY <1>0, <2>1, <2>2 DEF TypeInv, Attested, RowIsAttested, ClockPassed, Passed
  <2>4. Unraced' /\ AckedWritesKept'
    BY <1>0, <2>1, <2>2 DEF Unraced, Alone, Below, Carries, AckedWritesKept, Shows
  <2>5. DigestInv'
    <3>1. CASE ScanForDigest
      BY <1>0, <2>1, <3>1, SMT DEF ScanForDigest, DigestInv
    <3>2. CASE FillDigest
      BY <1>0, <2>1, <3>2, SMT DEF FillDigest, DigestInv
    <3> QED
      BY <1>9, <3>1, <3>2
  <2> QED
    BY <2>2, <2>3, <2>4, <2>5 DEF Inv
<1>10. CASE Reboot
  <2>1. /\ row' = IF Puts = {} THEN Absent ELSE LastPut
        /\ cache' = {} /\ scanned' = {} /\ req' = [t \in Threads |-> None]
        /\ UNCHANGED <<ledger, clk, acked, raced>>
    BY <1>10 DEF Reboot, ReplayLedger
  <2>2. Puts' = Puts /\ LastPut' = LastPut /\ LastIsPut'
    BY <1>0, <2>1, SameLedger
  <2>3. \A t \in Threads : req'[t].pc = "none"
    BY <2>1 DEF None
  <2>4. Puts # {} => LastPut \in Document /\ Passed(LastPut, clk) /\ \E i \in Puts : ledger[i].doc = LastPut
    <3>1. \A i \in Puts : ledger[i].doc \in Document
      BY <1>0, SMT DEF TypeInv, Puts
    <3> QED
      BY <1>0, <3>1 DEF LastIsPut, LastPut, ClockPassed
  <2>5. Absent \in Document /\ Passed(Absent, clk)
    BY <1>0, SMT DEF Absent, Document, Passed, TypeInv
  <2>6. TypeInv'
    <3>1. req' \in [Threads -> Requests]
      BY <2>1 DEF Requests
    <3> QED
      BY <1>0, <2>1, <2>4, <2>5, <3>1 DEF TypeInv
  <2>7. Attested'
    BY <2>1, <2>2, <2>3, <2>4 DEF Attested, RowIsAttested
  <2>8. ClockPassed'
    BY <1>0, <2>1, <2>2, <2>3, <2>4, <2>5 DEF ClockPassed, Passed
  <2>9. Unraced' /\ DigestInv'
    BY <2>1, <2>3 DEF Unraced, Alone, InFlight, DigestInv
  <2>10. AckedWritesKept'
    <3>1. Puts = {} => row = Absent
      BY <1>0 DEF Attested, RowIsAttested
    <3> QED
      BY <1>0, <2>1, <2>2, <3>1 DEF AckedWritesKept, Shows
  <2> QED
    BY <2>2, <2>6, <2>7, <2>8, <2>9, <2>10 DEF Inv
<1>11. CASE UNCHANGED vars
  <2>1. UNCHANGED <<ledger, row, cache, clk, req, scanned, acked, raced>>
    BY <1>11 DEF vars
  <2>2. Puts' = Puts /\ LastPut' = LastPut /\ LastIsPut'
    BY <1>0, <2>1, SameLedger
  <2>3. TypeInv' /\ Attested' /\ ClockPassed'
    BY <1>0, <2>1, <2>2 DEF TypeInv, Attested, RowIsAttested, ClockPassed, Passed
  <2>4. Unraced' /\ AckedWritesKept' /\ DigestInv'
    BY <1>0, <2>1, <2>2 DEF Unraced, Alone, Below, Carries, AckedWritesKept, Shows, DigestInv
  <2> QED
    BY <2>2, <2>3, <2>4 DEF Inv
<1> QED
  BY <1>1, <1>2, <1>3, <1>4, <1>5, <1>6, <1>7, <1>8, <1>9, <1>10, <1>11 DEF Next

\* For any number of threads, fields, requests and failing backends, no crash
\* leaves a row that is not a PUT of the ledger (storage_engine.cpp:268-270).
THEOREM RowsAreAttested == Spec => []RowIsAttested
<1>1. Inv => RowIsAttested
  BY DEF Inv, Attested
<1> QED
  BY <1>1, InvInit, InvStep, PTL DEF Spec

\* Until two requests overlap on the document, what was reported as done is in
\* the row and in the PUT that a boot replays, through aborted writes and
\* crashes (PutDocument, MergeRemote, PutRaw, ReplayLedger).
THEOREM AckedWritesSurvive == Spec => []AckedWritesKept
<1>1. Inv => AckedWritesKept
  BY DEF Inv
<1> QED
  BY <1>1, InvInit, InvStep, PTL DEF Spec

\* Until two requests overlap on the document, LocalDigest filling the cache
\* while a write is under way leaves no stale fingerprint once it is noted
\* (NoteDigest, LocalDigest).
THEOREM DigestStaysFresh == Spec => []DigestIsFresh
<1>1. Inv => DigestIsFresh
  BY DEF Inv, DigestInv, DigestIsFresh
<1> QED
  BY <1>1, InvInit, InvStep, PTL DEF Spec

=============================================================================
