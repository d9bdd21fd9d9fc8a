------------------------------ MODULE SFUBox ------------------------------
(***************************************************************************)
(* The on-demand video server of one project (api/sfu_box.go,              *)
(* store/sfu_box.go): a droplet made when something needs it and deleted   *)
(* after a quiet spell, by a state machine whose state is one row.         *)
(*                                                                         *)
(* A step of the machine (boxStep) runs on any instance of the API, for    *)
(* the tick or for a join that finds the box down.  It takes the row's     *)
(* lease, reads what needs the box, calls the cloud, saves the row and     *)
(* gives the lease back.  Each of these is one action here, so that        *)
(* sessions, joins, the cloud and other steps go on in between; a join     *)
(* reads and writes the row without the lease.                             *)
(*                                                                         *)
(* Time is abstracted: the lease of a dead step, a backoff, the idle grace *)
(* and a request's hold run out at any moment, and a boot deadline may     *)
(* have passed at any step.  A step that lives never outlives its lease:   *)
(* its 45 s budget is half the lease (boxStepBudget, boxLeaseTTL).         *)
(***************************************************************************)
EXTENDS Naturals, FiniteSets

CONSTANTS
    Steppers,    \* API instances that may run a step
    Joiners,     \* joins in progress at once
    Droplets,    \* droplet ids (an id that nothing names any more is used again)
    NoDroplet,   \* droplet_id NULL; the reserved IP parked or unassigned
    Nobody,      \* no holder of the lease
    MaxFailures, \* cfg.MaxFailures
    MaxFaults,   \* bound: faults in one behaviour
    Events       \* the faults that happen

ASSUME NoDropletAssumption == NoDroplet \notin Droplets
ASSUME NobodyAssumption == Nobody \notin Steppers
ASSUME MaxFailuresAssumption == MaxFailures \in Nat \ {0}
ASSUME MaxFaultsAssumption == MaxFaults \in Nat
ASSUME EventsAssumption == Events \subseteq {"error", "break", "crash", "probe", "activity", "slow", "run"}

VARIABLES
    row,       \* sfu_box_state, but for the three fields below
    requested, \* requested_until is in the future
    grace,     \* last_needed_at, or the last end of a session, is within the idle grace
    lease,     \* lease_holder, while lease_until is in the future
    runs,      \* open rows of sfu_box_runs
    pc,        \* how far a step has come
    st,        \* the step's copy of the row
    in,        \* what the step has read (boxInputs)
    look,      \* how far a join has come, and the row it read
    cloud,     \* the managed droplets: absent, new, active, up (services answer), dying
    ip,        \* the droplet the reserved IP is on
    sessions,  \* needed by a session that is live, about to be or recorded (now), or
               \* only by one that is finalizing (after)
    clips,     \* clips are being made on the box, or rushed
    people,    \* participants or egress on the box
    steady,    \* what has needed the box without a break since the step began (history)
    faults     \* faults so far

rowVars == <<row, requested, grace, lease, runs>>
steps   == <<pc, st, in, steady>>
cloudVars == <<cloud, ip>>
demand  == <<sessions, clips, people>>
vars == <<rowVars, steps, look, cloudVars, demand, faults>>

Actuals == {"down", "creating", "booting", "ready", "draining", "deleting", "failed"}
Demands == {"sessions", "clips", "requested", "people"}
DropletOrNone == Droplets \cup {NoDroplet}

Rows == [actual : Actuals, droplet : DropletOrNone, failures : 0 .. MaxFailures,
         wait : BOOLEAN, alerted : BOOLEAN]
NewRow == [actual |-> "down", droplet |-> NoDroplet, failures |-> 0, wait |-> FALSE, alerted |-> FALSE]

Inputs == [sessions : BOOLEAN, due : BOOLEAN, clips : BOOLEAN, requested : BOOLEAN,
           grace : BOOLEAN, busy : {"yes", "no", "unknown"}]
NoInputs == [sessions |-> FALSE, due |-> FALSE, clips |-> FALSE, requested |-> FALSE,
             grace |-> FALSE, busy |-> "no"]

Labels == {"idle", "sessions", "finalizing", "clips", "activity", "find", "park", "volume", "create", "probe",
           "read", "assign", "check", "ask", "late", "delete", "timeout", "save", "release"}

Looks == [pc : {"idle", "request", "probe", "mark", "enter"}, actual : Actuals, droplet : DropletOrNone]
NoLook == [pc |-> "idle", actual |-> "down", droplet |-> NoDroplet]

(* Every variable keeps its type. *)
TypeOK ==
    /\ row \in Rows
    /\ requested \in BOOLEAN
    /\ grace \in BOOLEAN
    /\ lease \in Steppers \cup {Nobody}
    /\ runs \subseteq Droplets
    /\ pc \in [Steppers -> Labels]
    /\ st \in [Steppers -> Rows]
    /\ in \in [Steppers -> Inputs]
    /\ look \in [Joiners -> Looks]
    /\ cloud \in [Droplets -> {"absent", "new", "active", "up", "dying"}]
    /\ ip \in DropletOrNone
    /\ sessions \in {"no", "now", "after"}
    /\ clips \in BOOLEAN
    /\ people \in BOOLEAN
    /\ steady \in [Steppers -> SUBSET Demands]
    /\ faults \in 0 .. MaxFaults

Init ==
    /\ row = NewRow
    /\ requested = FALSE
    /\ grace = FALSE
    /\ lease = Nobody
    /\ runs = {}
    /\ pc = [p \in Steppers |-> "idle"]
    /\ st = [p \in Steppers |-> NewRow]
    /\ in = [p \in Steppers |-> NoInputs]
    /\ look = [n \in Joiners |-> NoLook]
    /\ cloud = [d \in Droplets |-> "absent"]
    /\ ip = NoDroplet
    /\ sessions = "no"
    /\ clips = FALSE
    /\ people = FALSE
    /\ steady = [p \in Steppers |-> {}]
    /\ faults = 0

(* A fault of kind e happens, while the bound allows one. *)
Fault(e) == e \in Events /\ faults < MaxFaults /\ faults' = faults + 1
NoFault == UNCHANGED faults

-----------------------------------------------------------------------------
(* The droplets and what runs on them *)

Exist == {d \in Droplets : cloud[d] # "absent"}
BoxAnswers == \E d \in Droplets : cloud[d] = "up" /\ ip = d

(* Nobody stays on a server that stops answering. *)
CutOff ==
    /\ people' = (people /\ BoxAnswers')
    /\ steady' = [p \in Steppers |-> IF people' THEN steady[p] ELSE steady[p] \ {"people"}]

Current ==
    {k \in Demands : \/ k = "sessions" /\ sessions # "no"
                     \/ k = "clips" /\ clips
                     \/ k = "requested" /\ requested
                     \/ k = "people" /\ people}

(* A demand that ends has not lasted through any step in progress. *)
Ends(k) == steady' = [p \in Steppers |-> steady[p] \ {k}]

-----------------------------------------------------------------------------
(* The decision: decideBox *)

(* Needed by more than clips: this restarts the idle grace. *)
NeededBySession(i) == i.sessions \/ i.requested \/ i.busy = "yes"

(* Mutant of WantedUp: clips being made do not keep the box. *)
WantedUpNoClips(i) == NeededBySession(i) \/ i.grace

WantedUp(i) == NeededBySession(i) \/ i.clips \/ i.grace

-----------------------------------------------------------------------------
(* A step: boxStep *)

Goto(p, l) == pc' = [pc EXCEPT ![p] = l]
SetRow(p, r) == st' = [st EXCEPT ![p] = r]
SetInputs(p, i) == in' = [in EXCEPT ![p] = i]
Wanted(p) == WantedUp(in[p])

Begin(p) ==
    /\ pc[p] = "idle"
    /\ lease' = p
    /\ SetRow(p, row)
    /\ SetInputs(p, [NoInputs EXCEPT !.requested = requested])
    /\ steady' = [steady EXCEPT ![p] = Current]
    /\ Goto(p, "sessions")
    /\ UNCHANGED <<row, requested, grace, runs, look, cloudVars, demand, faults>>

(* Mutant of TakeSFUBoxLease: the lease is taken whoever has it. *)
TakeAnyLease(p) == Begin(p)

TakeSFUBoxLease(p) == lease = Nobody /\ Begin(p)

(* SFUBoxDemand; due: a scheduled start has passed. *)
ReadSessions(p) ==
    /\ pc[p] = "sessions"
    /\ LET now == sessions = "now" IN
       \E due \in {FALSE, now} :
          SetInputs(p, [in[p] EXCEPT !.sessions = now, !.due = due, !.grace = grace])
    /\ Goto(p, "finalizing")
    /\ UNCHANGED <<rowVars, st, steady, look, cloudVars, demand, faults>>

(* FinalizingOn.  While one session is live, another may be finalizing. *)
ReadFinalizing(p) ==
    /\ pc[p] = "finalizing"
    /\ \E f \in BOOLEAN :
          /\ sessions = "after" => f
          /\ sessions = "no" => ~f
          /\ SetInputs(p, [in[p] EXCEPT !.sessions = @ \/ f])
    /\ Goto(p, "clips")
    /\ UNCHANGED <<rowVars, st, steady, look, cloudVars, demand, faults>>

ReadClips(p) ==
    /\ pc[p] = "clips"
    /\ SetInputs(p, [in[p] EXCEPT !.clips = clips])
    /\ Goto(p, "activity")
    /\ UNCHANGED <<rowVars, st, steady, look, cloudVars, demand, faults>>

(* What LiveKit says is running. *)
Says(busy) ==
    \/ BoxAnswers /\ busy = (IF people THEN "yes" ELSE "no") /\ NoFault
    \/ ~BoxAnswers /\ busy = "unknown" /\ NoFault
    \/ busy = "unknown" /\ Fault("activity")

(* What boxAct does to row r before any call: given up on and not wanted, it
   starts afresh; draining and wanted again, it is ready. *)
Resume(r, wanted) ==
    IF r.actual = "failed" /\ ~wanted
    THEN [r EXCEPT !.actual = "down", !.failures = 0, !.wait = FALSE, !.alerted = FALSE]
    ELSE IF r.actual = "draining" /\ wanted THEN [r EXCEPT !.actual = "ready"] ELSE r

(* Mutant of FirstCall: when LiveKit does not answer, nobody is on the box. *)
FirstCallTrusting(r, wanted, busy) ==
    CASE r.actual \in {"down", "failed"} -> IF wanted /\ r.wait THEN "save" ELSE "find"
      [] r.actual \in {"creating", "deleting"} -> "read"
      [] r.actual = "booting" -> "probe"
      [] OTHER -> IF wanted THEN "read" ELSE "delete"

(* ... and its first call. *)
FirstCall(r, wanted, busy) ==
    CASE r.actual \in {"down", "failed"} -> IF wanted /\ r.wait THEN "save" ELSE "find"
      [] r.actual \in {"creating", "deleting"} -> "read"
      [] r.actual = "booting" -> "probe"
      [] OTHER -> IF wanted THEN "read" ELSE IF busy = "unknown" THEN "check" ELSE "delete"

(* LiveKit is asked only while the box is up.  Then decideBox, and boxAct. *)
ReadActivity(p) ==
    /\ pc[p] = "activity"
    /\ \E busy \in {"yes", "no", "unknown"} :
          /\ IF st[p].actual \in {"ready", "draining"} THEN Says(busy) ELSE busy = "no" /\ NoFault
          /\ SetInputs(p, [in[p] EXCEPT !.busy = busy])
          /\ SetRow(p, Resume(st[p], WantedUp(in'[p])))
          /\ Goto(p, FirstCall(st[p], WantedUp(in'[p]), busy))
    /\ UNCHANGED <<rowVars, steady, look, cloudVars, demand>>

(* boxFailure *)
Failed(r) ==
    LET n == IF r.failures < MaxFailures THEN r.failures + 1 ELSE MaxFailures
    IN  [r EXCEPT !.failures = n,
                  !.wait = TRUE,
                  !.actual = IF n = MaxFailures /\ @ = "down" THEN "failed" ELSE @,
                  !.alerted = @ \/ n = MaxFailures]

(* Mutant of FindManaged: only looked for when the box is wanted. *)
FindWhenWanted(p) ==
    /\ pc[p] = "find"
    /\ IF Wanted(p) /\ Exist # {}
       THEN /\ \E d \in Exist :
                  /\ SetRow(p, [st[p] EXCEPT !.droplet = d, !.actual = "booting"])
                  /\ runs' = runs \cup {d}
            /\ Goto(p, "save")
       ELSE /\ Goto(p, IF Wanted(p) THEN "volume" ELSE "park")
            /\ UNCHANGED <<st, runs>>
    /\ UNCHANGED <<row, requested, grace, lease, in, steady, look, cloudVars, demand, faults>>

(* boxFindManaged, boxAdopt: a managed droplet the row does not know is taken. *)
FindManaged(p) ==
    /\ pc[p] = "find"
    /\ \/ /\ \E d \in Exist :
                /\ SetRow(p, [st[p] EXCEPT !.droplet = d,
                                           !.actual = IF cloud[d] = "new" THEN "creating" ELSE "booting"])
                /\ runs' = runs \cup {d}
          /\ Goto(p, "save")
          /\ NoFault
       \/ /\ (Exist = {} /\ NoFault) \/ Fault("error")
          /\ Goto(p, IF Wanted(p) THEN "volume" ELSE "park")
          /\ UNCHANGED <<st, runs>>
    /\ UNCHANGED <<row, requested, grace, lease, in, steady, look, cloudVars, demand>>

(* boxParkIP while down: every few minutes, and a failure is only logged. *)
ParkIP(p) ==
    /\ pc[p] = "park"
    /\ ip' \in {ip, NoDroplet}
    /\ Goto(p, "save")
    /\ UNCHANGED <<rowVars, st, in, look, cloud, sessions, clips, faults>>
    /\ CutOff

(* boxCreate, up to the create: the snapshot, and the volume, which a droplet
   that exists still has. *)
VolumeByName(p) ==
    /\ pc[p] = "volume"
    /\ \/ /\ Exist = {} /\ NoFault
          /\ Goto(p, "create")
          /\ UNCHANGED st
       \/ /\ (Exist # {} /\ NoFault) \/ Fault("error")
          /\ SetRow(p, Failed(st[p]))
          /\ Goto(p, "save")
    /\ UNCHANGED <<rowVars, in, steady, look, cloudVars, demand>>

(* An id the cloud may give a new droplet: nothing names it. *)
Unnamed(d) ==
    /\ d \notin Exist \cup runs
    /\ row.droplet # d
    /\ \A p \in Steppers : st[p].droplet # d
    /\ \A n \in Joiners : look[n].droplet # d

Creates(d) == Unnamed(d) /\ cloud' = [cloud EXCEPT ![d] = "new"]

(* Mutant of CreateDroplet: its error is not looked at, the id is 0. *)
CreateUnchecked(p) ==
    /\ pc[p] = "create"
    /\ \E d \in DropletOrNone :
          /\ IF d = NoDroplet THEN UNCHANGED cloud /\ Fault("error") ELSE Creates(d) /\ NoFault
          /\ SetRow(p, [st[p] EXCEPT !.droplet = d, !.actual = "creating"])
          /\ runs' = runs \cup {d}
    /\ Goto(p, "save")
    /\ UNCHANGED <<row, requested, grace, lease, in, steady, look, ip, demand>>

(* CreateDroplet, StartSFUBoxRun.  When the answer is lost, the droplet may be
   there all the same. *)
CreateDroplet(p) ==
    /\ pc[p] = "create"
    /\ \/ \E d \in Droplets :
             /\ Creates(d)
             /\ SetRow(p, [st[p] EXCEPT !.droplet = d, !.actual = "creating"])
             /\ runs' = runs \cup {d}
             /\ NoFault
       \/ /\ UNCHANGED cloud \/ \E d \in Droplets : Creates(d)
          /\ SetRow(p, Failed(st[p]))
          /\ Fault("error")
          /\ UNCHANGED runs
    /\ Goto(p, "save")
    /\ UNCHANGED <<row, requested, grace, lease, in, steady, look, ip, demand>>

(* Booting: the readiness check. *)
Probe(p) ==
    /\ pc[p] = "probe"
    /\ \/ /\ BoxAnswers /\ NoFault
          /\ SetRow(p, [st[p] EXCEPT !.actual = "ready", !.failures = 0, !.wait = FALSE, !.alerted = FALSE])
          /\ Goto(p, "save")
       \/ /\ (~BoxAnswers /\ NoFault) \/ Fault("probe")
          /\ Goto(p, IF Wanted(p) THEN "read" ELSE "ask")
          /\ UNCHANGED st
    /\ UNCHANGED <<rowVars, in, steady, look, cloudVars, demand>>

(* Mutant of WithoutDroplet: the id is left in the row. *)
DownWithDroplet(r) == [r EXCEPT !.actual = "down"]

(* boxGone: also parks the IP, which the droplet has left already. *)
WithoutDroplet(r) == [r EXCEPT !.actual = "down", !.droplet = NoDroplet]

Lost(r) ==
    CASE r.actual \in {"creating", "booting"} -> Failed(WithoutDroplet(r))
      [] r.actual = "ready" -> [WithoutDroplet(r) EXCEPT !.alerted = TRUE]
      [] OTHER -> WithoutDroplet(r)

(* The next call for a droplet that is there. *)
NextCalls(r, wanted) ==
    CASE r.actual = "creating" /\ ~wanted -> {"delete"}
      [] r.actual = "creating" /\ wanted -> IF cloud[r.droplet] = "new" THEN {"save", "late"} ELSE {"assign"}
      [] r.actual = "deleting" -> {"save", "delete"}
      [] OTHER -> {"assign"}

(* The droplet is read: it is gone, or there, or the call failed. *)
ReadDroplet(p) ==
    /\ pc[p] = "read"
    /\ \/ /\ st[p].droplet \notin Exist
          /\ SetRow(p, Lost(st[p]))
          /\ (runs' = runs \ {st[p].droplet} /\ NoFault) \/ (UNCHANGED runs /\ Fault("run"))
          /\ Goto(p, "save")
       \/ /\ st[p].droplet \in Exist
          /\ \E l \in NextCalls(st[p], Wanted(p)) : Goto(p, l) /\ (IF l = "late" THEN Fault("slow") ELSE NoFault)
          /\ UNCHANGED <<st, runs>>
       \/ /\ Fault("error")
          /\ Goto(p, "save")
          /\ UNCHANGED <<st, runs>>
    /\ UNCHANGED <<row, requested, grace, lease, in, steady, look, cloudVars, demand>>

(* boxAssignIP, boxKeepIP, boxIPStuck.  The cloud takes no inactive droplet,
   and an error may come of an assign that was made. *)
AssignIP(p) ==
    /\ pc[p] = "assign"
    /\ \/ /\ cloud[st[p].droplet] \in {"active", "up"} /\ NoFault
          /\ ip' = st[p].droplet
          /\ SetRow(p, IF st[p].actual = "creating" THEN [st[p] EXCEPT !.actual = "booting"] ELSE st[p])
          /\ Goto(p, "save")
       \/ /\ \/ cloud[st[p].droplet] \notin {"active", "up"} /\ UNCHANGED ip /\ NoFault
             \/ cloud[st[p].droplet] \in {"active", "up"} /\ ip' \in {ip, st[p].droplet} /\ Fault("error")
          /\ \E stuck \in BOOLEAN :
                SetRow(p, [st[p] EXCEPT !.alerted = @ \/ (st[p].actual = "creating" /\ stuck)])
          /\ Goto(p, "save")
       \/ /\ st[p].actual = "booting" /\ Fault("slow")
          /\ ip' \in IF cloud[st[p].droplet] \in {"active", "up"} THEN {ip, st[p].droplet} ELSE {ip}
          /\ Goto(p, "late")
          /\ UNCHANGED st
    /\ UNCHANGED <<rowVars, in, look, cloud, sessions, clips>>
    /\ CutOff

(* The drain check, LiveKit not having said: busy unless the probe fails too. *)
DrainCheck(p) ==
    /\ pc[p] = "check"
    /\ \/ /\ BoxAnswers /\ NoFault
          /\ SetRow(p, [st[p] EXCEPT !.actual = "draining"])
          /\ Goto(p, "save")
       \/ /\ (~BoxAnswers /\ NoFault) \/ Fault("probe")
          /\ Goto(p, "delete")
          /\ UNCHANGED st
    /\ UNCHANGED <<rowVars, in, steady, look, cloudVars, demand>>

(* Before a booting box is deleted (not wanted, or past its deadline), LiveKit
   is asked: it may be an adopted one, serving through a failed check. *)
AskFirst(p) ==
    /\ pc[p] \in {"ask", "late"}
    /\ \E busy \in {"yes", "no", "unknown"} :
          /\ Says(busy)
          /\ IF busy = "yes"
             THEN /\ SetRow(p, [st[p] EXCEPT !.alerted = @ \/ pc[p] = "late"])
                  /\ Goto(p, "save")
             ELSE /\ UNCHANGED st
                  /\ Goto(p, IF pc[p] = "ask" THEN "delete" ELSE "timeout")
    /\ UNCHANGED <<rowVars, in, steady, look, cloudVars, demand>>

Dying(d) == cloud' = [cloud EXCEPT ![d] = IF @ = "absent" THEN @ ELSE "dying"]

(* boxDelete; past the boot deadline, boxFailure as well. *)
DeleteDroplet(p) ==
    /\ pc[p] \in {"delete", "timeout"}
    /\ LET Count(r) == IF pc[p] = "timeout" THEN Failed(r) ELSE r
       IN  \/ /\ Dying(st[p].droplet) /\ NoFault
              /\ SetRow(p, Count([st[p] EXCEPT !.actual = "deleting"]))
           \/ /\ Dying(st[p].droplet) \/ UNCHANGED cloud
              /\ Fault("error")
              /\ SetRow(p, Count(st[p]))
    /\ Goto(p, "save")
    /\ UNCHANGED <<rowVars, in, look, ip, sessions, clips>>
    /\ CutOff

(* Not ready when a session should have begun: the admins are told, once. *)
Overdue(p) == Wanted(p) /\ in[p].due /\ st[p].actual # "ready"

SaveSFUBox(p) ==
    /\ pc[p] = "save"
    /\ IF lease = p
       THEN /\ row' = [st[p] EXCEPT !.alerted = @ \/ Overdue(p)]
            /\ grace' = (grace \/ NeededBySession(in[p]))
       ELSE UNCHANGED <<row, grace>>
    /\ Goto(p, "release")
    /\ UNCHANGED <<requested, lease, runs, st, in, steady, look, cloudVars, demand, faults>>

Forget(p) ==
    /\ Goto(p, "idle")
    /\ SetRow(p, NewRow)
    /\ SetInputs(p, NoInputs)
    /\ steady' = [steady EXCEPT ![p] = {}]

ReleaseSFUBoxLease(p) ==
    /\ pc[p] = "release"
    /\ lease' = IF lease = p THEN Nobody ELSE lease
    /\ Forget(p)
    /\ UNCHANGED <<row, requested, grace, runs, look, cloudVars, demand, faults>>

(* The step's deadline passes, or the database answers an error: no call after
   this one is made, nothing is saved, and the lease is given back. *)
StepBreaks(p) ==
    /\ pc[p] \notin {"idle", "release"}
    /\ Fault("break")
    /\ Goto(p, "release")
    /\ UNCHANGED <<rowVars, st, in, steady, look, cloudVars, demand>>

(* The instance goes: the lease is not given back. *)
Crash(p) ==
    /\ pc[p] # "idle"
    /\ Fault("crash")
    /\ Forget(p)
    /\ UNCHANGED <<rowVars, look, cloudVars, demand>>

StepOn(p) ==
    \/ ReadSessions(p) \/ ReadFinalizing(p) \/ ReadClips(p) \/ ReadActivity(p)
    \/ FindManaged(p) \/ ParkIP(p) \/ VolumeByName(p) \/ CreateDroplet(p)
    \/ Probe(p) \/ ReadDroplet(p) \/ AssignIP(p) \/ DrainCheck(p) \/ AskFirst(p) \/ DeleteDroplet(p)
    \/ SaveSFUBox(p) \/ ReleaseSFUBoxLease(p)

-----------------------------------------------------------------------------
(* Joins: boxReady.  (The step a join runs when the box is down is a step.) *)

Looking(n, l) == look' = [look EXCEPT ![n].pc = l]

JoinReads(n) ==
    /\ look[n].pc = "idle"
    /\ look' = [look EXCEPT ![n] = [pc |-> "request", actual |-> row.actual, droplet |-> row.droplet]]
    /\ UNCHANGED <<rowVars, steps, cloudVars, demand, faults>>

(* boxRequest, for a box in any state (an error is only logged); then in, or the
   probe, or told to wait. *)
JoinRequests(n) ==
    /\ look[n].pc = "request"
    /\ (requested' = TRUE /\ NoFault) \/ (UNCHANGED requested /\ Fault("error"))
    /\ CASE look[n].actual \in {"ready", "draining"} -> Looking(n, "enter")
         [] look[n].actual = "booting" -> Looking(n, "probe")
         [] OTHER -> look' = [look EXCEPT ![n] = NoLook]
    /\ UNCHANGED <<row, grace, lease, runs, steps, cloudVars, demand>>

(* boxProbeNow: at most one probe every 10 s, so not every join makes one. *)
JoinProbes(n) ==
    /\ look[n].pc = "probe"
    /\ \/ BoxAnswers /\ Looking(n, "mark")
       \/ look' = [look EXCEPT ![n] = NoLook]
    /\ UNCHANGED <<rowVars, steps, cloudVars, demand, faults>>

(* The join goes on whether a row was changed or not; when the run could not be
   stamped as well, it waits. *)
MarkSFUBoxReady(n) ==
    /\ look[n].pc = "mark"
    /\ row' = IF row.actual = "booting" /\ row.droplet = look[n].droplet
              THEN [row EXCEPT !.actual = "ready", !.failures = 0, !.wait = FALSE]
              ELSE row
    /\ \/ Looking(n, "enter") /\ NoFault
       \/ look' = [look EXCEPT ![n] = NoLook] /\ Fault("error")
    /\ UNCHANGED <<requested, grace, lease, runs, steps, cloudVars, demand>>

(* EnsureRoom and the token: on the server if it answers. *)
JoinEnters(n) ==
    /\ look[n].pc = "enter"
    /\ people' = (people \/ BoxAnswers)
    /\ look' = [look EXCEPT ![n] = NoLook]
    /\ UNCHANGED <<rowVars, steps, cloudVars, sessions, clips, faults>>

(* handleRetryVideoServer, "Try again": the backoff is cleared.  (The request and
   the step that it makes then are a join's and a step.) *)
RetrySFUBox ==
    /\ row.wait
    /\ row' = [row EXCEPT !.wait = FALSE]
    /\ UNCHANGED <<requested, grace, lease, runs, steps, look, cloudVars, demand, faults>>

-----------------------------------------------------------------------------
(* Everything else *)

(* Mutant of LeaseRunsOut: it never does. *)
LeaseNeverRunsOut == FALSE /\ UNCHANGED vars

(* Only a dead step's lease: a step that lives gives it back first. *)
LeaseRunsOut ==
    /\ \E p \in Steppers : lease = p /\ pc[p] = "idle"
    /\ lease' = Nobody
    /\ UNCHANGED <<row, requested, grace, runs, steps, look, cloudVars, demand, faults>>

(* The moment passes for the row and for every copy of it. *)
BackoffRunsOut ==
    /\ row.wait \/ \E p \in Steppers : st[p].wait
    /\ row' = [row EXCEPT !.wait = FALSE]
    /\ st' = [p \in Steppers |-> [st[p] EXCEPT !.wait = FALSE]]
    /\ UNCHANGED <<requested, grace, lease, runs, pc, in, steady, look, cloudVars, demand, faults>>

GraceRunsOut ==
    /\ grace
    /\ grace' = FALSE
    /\ UNCHANGED <<row, requested, lease, runs, steps, look, cloudVars, demand, faults>>

(* The hold (10 min) outlasts the join that asked for it, which is answered
   within 60 s or not at all. *)
RequestRunsOut ==
    /\ requested
    /\ \A n \in Joiners : look[n].pc \in {"idle", "request"}
    /\ requested' = FALSE
    /\ Ends("requested")
    /\ UNCHANGED <<row, grace, lease, runs, pc, st, in, look, cloudVars, demand, faults>>

(* Any session.  One that begins while only others' finalizing needs the box
   is a need of its own. *)
SessionsBegin ==
    /\ sessions # "now"
    /\ sessions' \in {"now", "after"} \ {sessions}
    /\ Ends("sessions")
    /\ UNCHANGED <<rowVars, pc, st, in, look, cloudVars, clips, people, faults>>

(* A session that was held leaves an end; one called off does not.  What is
   finalizing when the rest is over has needed the box without a break. *)
SessionsEnd ==
    /\ sessions # "no"
    /\ \/ sessions' = "no" /\ Ends("sessions")
       \/ sessions = "now" /\ sessions' = "after" /\ UNCHANGED steady
    /\ grace' \in {grace, grace \/ sessions = "now"}
    /\ UNCHANGED <<row, requested, lease, runs, pc, st, in, look, cloudVars, clips, people, faults>>

ClipsBegin ==
    /\ ~clips
    /\ clips' = TRUE
    /\ UNCHANGED <<rowVars, steps, look, cloudVars, sessions, people, faults>>

ClipsEnd ==
    /\ clips
    /\ clips' = FALSE
    /\ Ends("clips")
    /\ UNCHANGED <<rowVars, pc, st, in, look, cloudVars, sessions, people, faults>>

PeopleLeave ==
    /\ people
    /\ people' = FALSE
    /\ Ends("people")
    /\ UNCHANGED <<rowVars, pc, st, in, look, cloudVars, sessions, clips, faults>>

(* The cloud makes the droplet active, its boot script brings the services up.
   A boot takes two minutes: joins that began before the create are over. *)
ComesUp(d) ==
    /\ cloud[d] \in {"new", "active"}
    /\ \A n \in Joiners : look[n].droplet \in {d, NoDroplet}
    /\ cloud' = [cloud EXCEPT ![d] = IF @ = "new" THEN "active" ELSE "up"]
    /\ UNCHANGED <<rowVars, steps, look, ip, demand, faults>>

(* A deleted droplet is gone; the reserved IP is on nothing. *)
Vanishes(d) ==
    /\ cloud[d] = "dying"
    /\ cloud' = [cloud EXCEPT ![d] = "absent"]
    /\ ip' = IF ip = d THEN NoDroplet ELSE ip
    /\ UNCHANGED <<rowVars, steps, look, demand, faults>>

WorldStep ==
    \/ LeaseRunsOut \/ BackoffRunsOut \/ GraceRunsOut \/ RequestRunsOut
    \/ SessionsBegin \/ SessionsEnd \/ ClipsBegin \/ ClipsEnd \/ PeopleLeave
    \/ \E d \in Droplets : ComesUp(d) \/ Vanishes(d)

JoinOn(n) == JoinRequests(n) \/ JoinProbes(n) \/ MarkSFUBoxReady(n) \/ JoinEnters(n)

JoinStep ==
    \/ \E n \in Joiners : JoinReads(n) \/ JoinOn(n)
    \/ RetrySFUBox

Next ==
    \/ \E p \in Steppers : TakeSFUBoxLease(p) \/ StepOn(p) \/ StepBreaks(p) \/ Crash(p)
    \/ JoinStep
    \/ WorldStep

Spec == Init /\ [][Next]_vars

-----------------------------------------------------------------------------
(* Safety *)

(* The row names a droplet exactly while there is one to look after: a row
   that is down or failed with a droplet would never delete it, one in any
   other state without would read and delete nothing for ever. *)
RowNamesDroplet == row.droplet = NoDroplet <=> row.actual \in {"down", "failed"}

(* Never two droplets: "so two ticks (or a tick and a join) never both create
   a droplet" (0152_sfu_box.sql), whatever answers and saves are lost. *)
OneDroplet == \A d, e \in Exist : d = e

(* p sends a delete of a droplet that was not being deleted. *)
Deletes(p) ==
    /\ pc[p] \in {"delete", "timeout"}
    /\ \E d \in Exist : cloud[d] # "dying" /\ cloud'[d] = "dying"

(* Short of the boot deadline, no delete is sent while sessions, clips or a
   join's request have needed the box ever since the step began: whatever the
   step read, and in whatever order, it cannot have missed them.  A session
   that ends under the step and is finalizing from then on is not missed
   either: what it was is read before what it becomes. *)
DeletesUnneeded ==
    [][\A p \in Steppers : Deletes(p) /\ pc[p] = "delete" => steady[p] \subseteq {"people"}]_vars

(* No delete is sent, past the deadline or not, while people have been on the
   box ever since the step began: a call to LiveKit that fails, a health check
   that fails or a save that is lost is not enough (two of them can be: a box
   that answers neither is taken to have nobody on it). *)
DeletesUnoccupied ==
    [][\A p \in Steppers : Deletes(p) => "people" \notin steady[p]]_vars

-----------------------------------------------------------------------------
(* Liveness *)

(* Some instance ticks every minute and its step goes on, a join is answered,
   the cloud does what it is asked, and backoffs, the grace and the leases of
   dead steps run out. *)
Fairness ==
    /\ \A p \in Steppers : WF_vars(TakeSFUBoxLease(p)) /\ WF_vars(StepOn(p))
    /\ \A n \in Joiners : WF_vars(JoinOn(n))
    /\ WF_vars(LeaseRunsOut) /\ WF_vars(BackoffRunsOut) /\ WF_vars(GraceRunsOut)
    /\ \A d \in Droplets : WF_vars(ComesUp(d)) /\ WF_vars(Vanishes(d))

FairSpec == Spec /\ Fairness

Idle == sessions = "no" /\ ~clips /\ ~requested /\ ~people

(* A session that stays gets its server, for good, after any faults. *)
WantedComesUp == <>[](sessions = "now") => <>[](row.actual = "ready" /\ BoxAnswers)

(* When nothing needs the box any more, no droplet stays, known or unknown. *)
IdleGoesDown == <>[]Idle => <>[](Exist = {})

-----------------------------------------------------------------------------
(* What the comments say and the code does not do *)

(* store/sfu_box.go: requested_until and the booting -> ready promotion are
   "both safe without the lease"; MarkSFUBoxReady "can only race with itself". *)
ReadyIsNotUndone ==
    [][row.actual = "ready" /\ row'.droplet = row.droplet => row'.actual # "booting"]_vars
=============================================================================
