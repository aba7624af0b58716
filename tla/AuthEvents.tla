----------------------------- MODULE AuthEvents -----------------------------
(***************************************************************************)
(* The grammar of the signed Nostr events that clients present             *)
(* (services/auth.rs) and the policy that maps a feature's mode to an      *)
(* authorization mode (services/authorization.rs).                         *)
(*                                                                         *)
(* An event is a record: the signer, the kind ("auth" stands for 24242,    *)
(* "report" for 1984), the first t tag, the x tags, the creation time, the *)
(* expiration tag and the server tags.  A domain in a server tag is        *)
(* "ours", "other" or "malformed"; an absent or unreadable expiration tag  *)
(* is 0, which is refused like an expired one.  Events are told apart by   *)
(* their content, as their ids are.                                        *)
(***************************************************************************)
EXTENDS Naturals, Sequences

CONSTANTS
    AllowedPubkeys,    \* ALLOWED_NPUBS
    MaxTTL,            \* auth_max_ttl_secs
    RequireServerTag   \* auth_require_server_tag

ASSUME AuthAssumption ==
    /\ MaxTTL \in Nat
    /\ RequireServerTag \in BOOLEAN

\* validate_server_tags: no tag, or only well-formed ones of which one is ours.
ServerTagsMatch(e) ==
    e.servers = {} \/ ("ours" \in e.servers /\ "malformed" \notin e.servers)

\* verify_event
Verified(e, now) ==
    /\ e.signed
    /\ e.created <= now
    /\ now < e.expires

\* verify_event_with_policy
VerifiedWithPolicy(e, now) ==
    /\ Verified(e, now)
    /\ e.expires <= e.created + MaxTTL
    /\ RequireServerTag => e.servers # {}
    /\ ServerTagsMatch(e)

\* validate_upload_auth, validate_chunk_upload_auth, validate_delete_auth
BindsTo(e, verb, h) ==
    /\ e.verb = verb
    /\ \E i \in DOMAIN e.xs : e.xs[i] = h

\* mode_for
ModeFor(feature) ==
    CASE feature = "off"    -> "refuse"
      [] feature = "wot"    -> "WotOnly"
      [] feature = "dvm"    -> "DvmOnly"
      [] feature = "public" -> IF AllowedPubkeys = {} THEN "Unrestricted" ELSE "Strict"
=============================================================================
