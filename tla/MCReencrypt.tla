---------------------------- MODULE MCReencrypt ----------------------------
(* Two logs, a catalog, a paged file and the identity.  Pages of 2 bytes are *)
(* sealed into 3: two sealed pages have the size of three plain ones.        *)
EXTENDS Reencrypt, TLC

CONSTANTS wal, transit, catalog, rows, identity

MCOrder == <<wal, transit, catalog, rows, identity>>
MCKind == wal :> "log" @@ transit :> "log" @@ catalog :> "json" @@ rows :> "dsf"
            @@ identity :> "identity"

Plain(N, tails, oks) == [n : N, tail : tails, ok : oks, seal : {<<>>}]

MCDirectories ==
    {[files |-> wal :> w @@ transit :> t @@ catalog :> c @@ rows :> r @@ identity :> i,
      vendored |-> v] :
        w \in Plain({0, 2}, {"none", "short", "long"}, {TRUE}) \cup Plain({2}, {"none"}, {FALSE}),
        t \in Plain({0, 1}, {"none"}, {TRUE}) \cup {Missing},
        c \in Plain({1}, {"none"}, BOOLEAN),
        r \in Plain({0, 2, 3, 4}, {"none"}, {TRUE}),
        i \in Plain({1}, {"none"}, BOOLEAN),
        v \in BOOLEAN}

=============================================================================
