---------------------------- MODULE BlobService ----------------------------
(***************************************************************************)
(* What Almond's blob storage promises the handlers that use it: every     *)
(* hash is absent, held as a cached copy, held as an upload, or barred by  *)
(* a quarantine, and every operation on it takes effect once, at one       *)
(* moment between its call and its return, or not at all.  Nothing else    *)
(* ever changes a hash.  Locations, guards, files and the order in which   *)
(* file and index are touched do not appear; BlobStore shows how a         *)
(* deployment without a bucket implements this, crashes included.          *)
(***************************************************************************)
CONSTANTS Hashes, Tasks, None

VARIABLES
    status,   \* what the service holds of each hash
    pending   \* the operation each task is in, and whether it took effect

serviceVars == <<status, pending>>

Operations == {"upload", "cache", "Requested", "Reported", "Quarantined", "Evicted",
               "reconcile"}

\* What an operation makes of a hash; an empty set where it has no effect.
\* Uploads replace cached copies and nothing else, a cache fill replaces
\* nothing, and a barred hash stays barred.
Effect(how, s) ==
    CASE how = "upload" /\ s \in {"absent", "cached"}                  -> {"uploaded"}
      [] how = "cache" /\ s = "absent"                                 -> {"cached"}
      [] how \in {"Requested", "Reported", "Evicted"}
           /\ s \in {"cached", "uploaded"}                             -> {"absent"}
      [] how = "Quarantined" /\ s \in {"cached", "uploaded"}           -> {"barred"}
      [] OTHER                                                         -> {}

\* The operations that may return without an effect although they have one:
\* publications may fail or be refused, evictions may be out of date.
MayDoNothing(how) == how \in {"upload", "cache", "Evicted"}

Init ==
    /\ status = [h \in Hashes |-> "absent"]
    /\ pending = [p \in Tasks |-> None]

Call(p) ==
    /\ pending[p] = None
    /\ \E how \in Operations, h \in Hashes :
         pending' = [pending EXCEPT ![p] = [how |-> how, hash |-> h, done |-> FALSE]]
    /\ UNCHANGED status

\* The moment of effect; the operation may return at once.
Act(p) ==
    /\ pending[p] # None /\ ~pending[p].done
    /\ \E s \in Effect(pending[p].how, status[pending[p].hash]) :
         status' = [status EXCEPT ![pending[p].hash] = s]
    /\ \E after \in {None, [how |-> pending[p].how, hash |-> pending[p].hash, done |-> TRUE]} :
         pending' = [pending EXCEPT ![p] = after]

\* A removal that returns without having done anything found nothing to do.
Return(p) ==
    /\ pending[p] # None
    /\ \/ pending[p].done
       \/ MayDoNothing(pending[p].how)
       \/ Effect(pending[p].how, status[pending[p].hash]) = {}
    /\ pending' = [pending EXCEPT ![p] = None]
    /\ UNCHANGED status

\* A crash ends every operation.  At most one of those under way on a hash may
\* still turn out to have taken effect.
Crash ==
    /\ status' \in [Hashes -> {"absent", "cached", "uploaded", "barred"}]
    /\ \A h \in Hashes :
         \/ status'[h] = status[h]
         \/ \E p \in Tasks : /\ pending[p] # None /\ ~pending[p].done
                             /\ pending[p].hash = h
                             /\ status'[h] \in Effect(pending[p].how, status[h])
    /\ pending' = [p \in Tasks |-> None]

Next == Crash \/ \E p \in Tasks : Call(p) \/ Act(p) \/ Return(p)

Spec == Init /\ [][Next]_serviceVars
=============================================================================
