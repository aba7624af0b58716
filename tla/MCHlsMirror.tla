---------------------------- MODULE MCHlsMirror -----------------------------
(* Small instances of HlsMirror for TLC: a to d are blobs of one to four    *)
(* units; a and b are playlists that lead back to each other.               *)
EXTENDS HlsMirror, TLC

CONSTANTS a, b, c, d, u1, u2, m, s1, s2

SizeOf == (a :> 1) @@ (b :> 2) @@ (c :> 3) @@ (d :> 4)
Sent(body, length) == [body |-> body, length |-> length]

PlaylistOf == (a :> <<b, c, b>>) @@ (b :> <<a, a, d>>) @@ (c :> << >>) @@ (d :> << >>)
OriginOf == (a :> {Sent(a, TRUE)}) @@ (b :> {Sent(b, TRUE)})
            @@ (c :> {Sent(c, FALSE), Sent(a, TRUE)}) @@ (d :> {Sent(d, FALSE)})

Ask(door, hash, body, length, keep) ==
    [door |-> door, hash |-> hash, body |-> body, length |-> length, keep |-> keep]

UploadsAndCopies ==
    (u1 :> {Ask("put", b, b, TRUE, 1), Ask("put", c, c, FALSE, 0), Ask("put", a, b, TRUE, 0)})
    @@ (u2 :> {Ask("fill", b, b, FALSE, 0), Ask("mirror", d, d, FALSE, 0)})
    @@ (m :> {Ask("mirror", a, a, TRUE, 0)}) @@ (s1 :> {}) @@ (s2 :> {})
Guesses == (u1 :> {Nothing, 1, 2}) @@ (u2 :> {2}) @@ [t \in {m, s1, s2} |-> {Nothing}]
TwoClientsOrOnePlaylist == {{u1, u2}, {m, s1, s2}}
OnePlaylist == {{m, s1, s2}}
TwoClients == {{u1, u2}}
OneMirror == {{m}}
MirrorPays == [t \in {u1, u2, m, s1, s2} |-> {1}]
=============================================================================
