------------------------------- MODULE MCTrust ------------------------------
(* A small instance of Trust for TLC: an owner with two contacts, and one    *)
(* key they may follow, which may also announce a DVM.                       *)
EXTENDS Trust, TLC

CONSTANTS o, c1, c2, k

Event(key) ==
    [pubkey |-> key, kind |-> "auth", verb |-> "upload", xs |-> <<>>, created |-> 0,
     expires |-> 1, servers |-> {}, signed |-> TRUE]

Keys == {o, c1, c2, k}
TwoContacts == {c1, c2}
Whitelist == {o}
Lists2 == (o :> {c1, c2}) @@ (c1 :> {k}) @@ (c2 :> {k})
Candidates == {k}
Presented == {Event(o), Event(k)}
=============================================================================
