-------------------------- MODULE ClipPromise --------------------------
(***************************************************************************)
(* What the clip queue promises a host, whatever the clip makers, the      *)
(* network and the sweeps do: a clip asked for waits, is then made or      *)
(* fails once and for all, and is there until it is deleted; a clip shown  *)
(* as ready has its file, and no file is taken out of storage before the   *)
(* clip is deleted.  ClipJobs implements this.                             *)
(***************************************************************************)
CONSTANT Jobs

VARIABLES
    shown,  \* what the host sees of each clip
    files   \* the files in storage

Showing(st) == {j \in Jobs : shown[j] = st}
Show(S, st) == shown' = [j \in Jobs |-> IF j \in S THEN st ELSE shown[j]]

Init == shown = [j \in Jobs |-> "absent"] /\ files = {}

Ask(S) == S \subseteq Showing("absent") /\ Show(S, "waiting") /\ UNCHANGED files

Write(j) == shown[j] # "absent" /\ files' = files \cup {j} /\ UNCHANGED shown

Make(j) == j \in Showing("waiting") \cap files /\ Show({j}, "ready") /\ UNCHANGED files

Fail(S) == S \subseteq Showing("waiting") /\ Show(S, "failed") /\ UNCHANGED files

Delete(S) == S \cap Showing("absent") = {} /\ Show(S, "deleted") /\ UNCHANGED files

Erase(j) == shown[j] = "deleted" /\ files' = files \ {j} /\ UNCHANGED shown

Next ==
    \/ \E S \in SUBSET Jobs : Ask(S) \/ Fail(S) \/ Delete(S)
    \/ \E j \in Jobs : Write(j) \/ Make(j) \/ Erase(j)

Spec == Init /\ [][Next]_<<shown, files>>
=============================================================================
