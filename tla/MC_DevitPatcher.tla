---------------------------- MODULE MC_DevitPatcher ----------------------------
\* Instances of DevitPatcher: diffs as git prints them, of one or two files, for
\* one or two requests.
EXTENDS DevitPatcher, TLC

P == {"a.rs", "a.toml", "b"}
T == {"a.tmp", "b.tmp"}
TempName == [q \in P |-> IF q = "b" THEN "b.tmp" ELSE "a.tmp"]
Req == {1, 2}

Disks(f) == [q \in P |-> IF q \in DOMAIN f THEN f[q] ELSE NoFile]
Clean == [t \in T |-> NoFile]
Left  == [t \in T |-> Torn]

\* A change of one file, what it was made from, and a request to apply such changes.
Change(q, a, b, m, c) == [path |-> q, old |-> a, new |-> b, kept |-> m, context |-> c]
Olds(chs) == Disks([q \in {chs[i].path : i \in DOMAIN chs} |->
                  (CHOOSE c \in ToSet(chs) : c.path = q).old])
Asked(chs, front, dry) ==
    [files |-> FromDiff(Printed(chs)), changes |-> chs, front |-> front, dry |-> dry]
Idle == Asked(<<>>, "mcp", TRUE)

Case(disks, temps, j1, j2) == [start |-> disks, temp |-> temps, job |-> <<j1, j2>>]

Short(n) == {t \in {Empty} \cup UNION {[lines : [1 .. k -> Letters], nl : BOOLEAN] : k \in 1 .. n} : t \in Texts}

\* Every change between two short texts, with every edit script.
Small == UNION {UNION {{Change("b", x[1], x[2], m, c) : m \in Matchings(x[1], x[2])} :
                   c \in 0 .. 1} :
            x \in {y \in (Short(2) \cup {NoFile}) \X (Short(2) \cup {NoFile}) : y[1] # y[2]}}

\* Several hunks that move what is behind them, with and without context.
Long == [lines |-> <<"x", "y", "x", "y", "y">>, nl |-> TRUE]
Big == {Change("b", Long, [lines |-> r[1], nl |-> TRUE], r[2], c) : c \in 0 .. 1,
           r \in {<<<<"y", "y">>, {<<2, 1>>, <<5, 2>>}>>,
                  <<<<"x", "x", "y", "y", "x", "y">>, {<<1, 2>>, <<2, 3>>, <<4, 4>>, <<5, 6>>}>>,
                  <<<<"y", "x", "y", "y", "y">>, {<<2, 1>>, <<3, 2>>, <<4, 3>>}>>}}

OneFile == {Case(Olds(<<ch>>), Clean, Asked(<<ch>>, "core", FALSE), Idle) : ch \in Small \cup Big}

\* A few changes of a given file.
X == [lines |-> <<"x">>, nl |-> TRUE]
Y == [lines |-> <<"y">>, nl |-> TRUE]
Some(q) == {Change(q, X, Y, {}, 1), Change(q, NoFile, X, {}, 1), Change(q, X, NoFile, {}, 1)}

\* Patches of two files, whose second one may have changed since.
TwoFiles ==
    UNION {{Case([Olds(<<f, s>>) EXCEPT ![s.path] = now], left, Asked(<<f, s>>, front, dry), Idle) :
               f \in Some("a.rs"), s \in Some("a.toml") \cup Some("b"), front \in {"core", "mcp"},
               dry \in BOOLEAN, left \in {Clean, Left}} : now \in {NoFile, X, Y}}

\* Two requests at once: the same file, the same temporary name, nothing shared.
TwoRequests ==
    {Case([q \in P |-> X], Clean, Asked(<<f>>, "core", FALSE), Asked(s, "mcp", dry)) :
        f \in Some("a.rs"), dry \in BOOLEAN,
        s \in UNION {{<<Change(q, X, Y, {}, 1)>>, <<Change("b", X, NoFile, {}, 1), Change(q, X, Y, {}, 1)>>} :
                        q \in {"a.rs", "a.toml"}}}

Everything == OneFile \cup TwoFiles \cup TwoRequests

\* A diff that starts with the removal of an empty file.
Printable == {Case(Olds(d), Clean, Asked(d, "mcp", FALSE), Idle) :
                d \in {<<Change("a.rs", Empty, NoFile, {}, 1), Change("b", X, Y, {}, 1)>>}}
=============================================================================
