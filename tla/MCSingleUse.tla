---------------------------- MODULE MCSingleUse -----------------------------
(* A small instance of SingleUse for TLC: one deletion event that lives for  *)
(* one second, one that is refused (its server tag is another's), a report  *)
(* of two blobs by a whitelisted key and one by an outsider.                 *)
EXTENDS SingleUse, TLC

CONSTANTS k1, k2, h1, h2

Event(key, kind, verb, xs, expires, servers) ==
    [pubkey |-> key, kind |-> kind, verb |-> verb, xs |-> xs, created |-> 0,
     expires |-> expires, servers |-> servers, signed |-> TRUE]

Presented == {Event(k1, "auth", "delete", <<h1>>, 1, {"ours", "other"}),
              Event(k1, "auth", "delete", <<h1>>, 1, {"other"}),
              Event(k1, "report", "none", <<h1, h2>>, 0, {}),
              Event(k2, "report", "none", <<h1, h2>>, 0, {})}

Whitelist == {k1}
AllFaults == {"crash", "cancel", "io"}
Crashes == {"crash"}
NoFaults == {}
Symmetry == Permutations(Requests)
=============================================================================
