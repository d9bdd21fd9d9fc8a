---------------------------- MODULE VideoPromise ----------------------------
(***************************************************************************)
(* What uploading a video promises a host, whatever the tabs, the network, *)
(* the API's requests and the sweep do: an upload arrives, and is listed   *)
(* once and for all, or is doomed, or goes for good; what is doomed is not *)
(* listed any more, though it may stay for a while and takes up space, and *)
(* a video that was deleted never comes back; only a file that arrived     *)
(* whole and is not unfit is listed; and a file is taken out of the bucket *)
(* only after its upload is doomed or gone, or its video is.  It does not  *)
(* promise that a fit file is listed.  VideoUpload implements this.        *)
(***************************************************************************)
CONSTANT Uploads

VARIABLES
    shown,   \* what the host has of each upload
    files,   \* the files in the bucket
    unfit    \* the host's file does not pass the probe

Showing(st) == {u \in Uploads : shown[u] = st}
Show(u, st) == shown' = [shown EXCEPT ![u] = st] /\ UNCHANGED <<files, unfit>>

Init ==
    /\ shown = [u \in Uploads |-> "absent"]
    /\ files = {}
    /\ unfit \in BOOLEAN

Begin(u) == u \in Showing("absent") /\ Show(u, "arriving")

(* It was never begun: no space, or the start failed. *)
Abandon(u) == u \in Showing("absent") /\ Show(u, "gone")

Doom(u) == u \in Showing("arriving") /\ Show(u, "doomed")

Forget(u) == u \in Showing("arriving") \cup Showing("doomed") /\ Show(u, "gone")

(* Whoever stitched the file may be told that it did not. *)
Store(u) ==
    /\ shown[u] # "absent"
    /\ files' = files \cup {u}
    /\ shown' = shown \/ (shown[u] = "arriving" /\ shown' = [shown EXCEPT ![u] = "doomed"])
    /\ UNCHANGED unfit

List(u) == u \in Showing("arriving") \cap files /\ ~unfit /\ Show(u, "listed")

Delete(u) == u \in Showing("listed") /\ Show(u, "gone")

Erase(u) ==
    /\ u \in Showing("doomed") \cup Showing("gone")
    /\ files' = files \ {u}
    /\ UNCHANGED <<shown, unfit>>

Next ==
    \E u \in Uploads :
        \/ Begin(u) \/ Abandon(u) \/ Doom(u) \/ Forget(u)
        \/ Store(u) \/ List(u) \/ Delete(u) \/ Erase(u)

Spec == Init /\ [][Next]_<<shown, files, unfit>>
=============================================================================
