----------------------------- MODULE MCServing ------------------------------
(* A small instance of Serving for TLC: a resuming client beside the refresh  *)
(* job of one file, the job alone with two files, a client with arbitrary      *)
(* headers, or two clients that walk the upstream servers.                     *)
EXTENDS Serving

CONSTANTS a1, stranger, f1, f2, r1, r2

H(scheme, host) == [scheme |-> scheme, host |-> host, slash |-> FALSE]
Q(origin, xs, servers, author) ==
    [origin |-> origin, xs |-> xs, servers |-> servers, author |-> author]

\* A host inside the network comes first; the lists and queries repeat servers, and
\* name them so that s1, which is in the overlay, may be asked over http but s2 not.
TwoConfigured == <<H("https", "lan"), H("https", "s1")>>
\* One server in two spellings.
Spelled == <<H("https", "s1"), [H("https", "s1") EXCEPT !.slash = TRUE]>>
ListBound == [a \in {a1, stranger} |->
                IF a = a1 THEN {<<>>, <<H("none", "s1"), H("https", "s2")>>} ELSE {<<>>}]
AsksByAuthor == Q(<<>>, <<>>, <<>>, a1)
AsksByOrigin == Q(<<H("none", "s1")>>, <<>>, <<H("http", "s2")>>, Nothing)
AsksByList == Q(<<>>, <<H("none", "s2")>>, <<H("http", "s1")>>, a1)
AsksByStranger == Q(<<>>, <<>>, <<>>, stranger)
QueryBound == [r \in {r1, r2} |->
                 IF r = r1 THEN {AsksByAuthor, AsksByStranger}
                 ELSE {AsksByOrigin, AsksByList}]

TwoBytes == <<1, 2>>
OneContent == [f \in {f1, f2} |-> {TwoBytes}]
Rewritten == [f \in {f1, f2} |-> {TwoBytes, <<3, 4>>}]
Group(first, second, files) ==
    [role |-> [r \in {r1, r2} |-> IF r = r1 THEN first ELSE second], files |-> files]
Groups == {Group("resumer", "away", {f1}), Group("away", "away", {f1, f2}),
           Group("prober", "away", {}), Group("walker", "walker", {})}
OnlyWalkers == {Group("walker", "walker", {})}
ResumerAndFile == {Group("resumer", "away", {f1})}
=============================================================================
