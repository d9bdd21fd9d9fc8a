----------------------- MODULE SFUBox_people_proofs -----------------------
(***************************************************************************)
(* Proofs about SFUBox, on top of SFUBox_proofs, for any number of         *)
(* instances, joins and droplets: what it takes for the server to be       *)
(* deleted under people who are on it.                                     *)
(*                                                                         *)
(* People are on the box only while it answers, so a step that asks        *)
(* LiveKit, or probes the box, hears of them unless that call fails.  The  *)
(* invariant counts the failures a step has met by each of its calls, and  *)
(* shows that the one state in which the box is deleted without asking, a  *)
(* droplet that was still being created, is never one with people on it.   *)
(* From the same invariant: a ready row that is turned back to booting is  *)
(* the work of a join, which writes the row without the lease.             *)
(***************************************************************************)
EXTENDS SFUBox_proofs

-----------------------------------------------------------------------------
(* The invariant *)

(* Where a step has changed nothing of its row but what Resume changes. *)
Early == {"sessions", "finalizing", "clips", "activity", "find", "park", "volume", "create"}

(* The states of a row that lets a join in, or probe. *)
Serving == {"booting", "ready", "draining"}

(* The droplet that row r names is the only one that exists in c. *)
NamesAll(r, c) == r.droplet # NoDroplet => \A d \in Droplets : c[d] # "absent" => d = r.droplet

(* Past its creation a droplet has started. *)
Started(r, c) == r.actual \notin {"down", "failed", "creating"} => c[r.droplet] # "new"

(* While the droplet of r is being created nobody is on it (o: people), and no
   join (k: look) can be let in to it. *)
Unserved(r, o, k) ==
    r.actual = "creating" =>
        /\ ~o
        /\ \A n \in Joiners : k[n].actual \in Serving => k[n].droplet # r.droplet

RowPart(r, c, o, k) == NamesAll(r, c) /\ Started(r, c) /\ Unserved(r, o, k)

(* What a step that is at l with row r has met, after f faults, when people
   have been on the box since it began. *)
Met(l, r, f) ==
    /\ l = "check" => "activity" \in Events /\ 1 <= f
    /\ l = "ask" => "probe" \in Events /\ 1 <= f
    /\ l \in {"read", "assign"} => (r.actual = "booting" => "probe" \in Events /\ 1 <= f)
    /\ l = "late" => "probe" \in Events /\ 2 <= f
    /\ l = "delete" => (r.actual # "deleting" => {"activity", "probe"} \subseteq Events /\ 2 <= f)
    /\ l = "timeout" => {"activity", "probe"} \subseteq Events /\ 2 <= f

(* What holds of one step that is at l with row r, when w is the row that is
   saved and s has needed the box since the step began. *)
StepPart(l, r, w, s, f) ==
    /\ l = "idle" => r.droplet = NoDroplet
    /\ l \in Early => r.droplet = w.droplet
    /\ l \in {"find", "park", "volume", "create"} => w.droplet = NoDroplet
    /\ r.actual = "creating" => w.actual \in {"creating", "down", "failed"}
    /\ "people" \in s => Met(l, r, f)

(* What holds of one join: the droplet it saw is the one that serves, if any does. *)
LookPart(k, c) ==
    /\ RowOK(k)
    /\ k.pc \in {"probe", "mark", "enter"} => k.actual \in Serving
    /\ Started(k, c)
    /\ k.droplet # NoDroplet => \A d \in Droplets : c[d] = "up" => d = k.droplet

PeopleInv ==
    /\ people => BoxAnswers
    /\ RowPart(row, cloud, people, look)
    /\ \A p \in Steppers : RowPart(st[p], cloud, people, look)
    /\ \A p \in Steppers : StepPart(pc[p], st[p], row, steady[p], faults)
    /\ \A n \in Joiners : LookPart(look[n], cloud)

-----------------------------------------------------------------------------
(* Lemmas *)

(* A droplet is new only when it was, or is just created; none comes up. *)
CloudAges ==
    \A d \in Droplets : /\ cloud'[d] = "new" => cloud[d] = "new" \/ Unnamed(d)
                        /\ cloud'[d] = "up" => cloud[d] = "up"

LEMMA StartedStays ==
    ASSUME NEW r, RowOK(r), r.droplet \in DropletOrNone, ~Unnamed(r.droplet), Started(r, cloud), CloudAges
    PROVE  Started(r, cloud')
  BY DEF RowOK, Started, CloudAges, DropletOrNone

(* A step that has nothing. *)
LEMMA IdleStep ==
    ASSUME IInv, PeopleInv, NEW q \in Steppers, pc[q] = "idle"
    PROVE  st[q].droplet = NoDroplet /\ st[q].actual \in {"down", "failed"} /\ steady[q] = {}
<1>1. StepPart(pc[q], st[q], row, steady[q], faults) /\ StepOK(pc[q], st[q], in[q], steady[q])
  BY DEF PeopleInv, IInv, StepsOK
<1> QED BY <1>1 DEF StepPart, StepOK, RowOK

(* Any step of p that leaves the saved row and the joins: its new row and what
   it has met must be in order, and so must what the saved row names. *)
LEMMA Move ==
    ASSUME IInv, PeopleInv, NEW p \in Steppers, NEW l \in Labels, NEW r \in Rows,
           Goto(p, l), SetRow(p, r), UNCHANGED <<row, look>>,
           \A q \in Steppers : q # p => pc[q] = "idle" /\ steady'[q] \subseteq steady[q],
           people' => people /\ BoxAnswers',
           CloudAges,
           NamesAll(row, cloud'),
           RowPart(r, cloud', people', look),
           StepPart(l, r, row, steady'[p], faults')
    PROVE  PeopleInv'
<1>t. TypeOK
  BY DEF IInv
<1>1. /\ pc'[p] = l /\ st'[p] = r
      /\ \A q \in Steppers : q # p => pc'[q] = pc[q] /\ st'[q] = st[q]
  BY <1>t DEF Goto, SetRow, TypeOK
<1>2. RowPart(row, cloud', people', look)
  <2>1. RowOK(row) /\ row.droplet \in DropletOrNone /\ ~Unnamed(row.droplet) /\ RowPart(row, cloud, people, look)
    BY <1>t, Fields DEF IInv, TypeOK, Unnamed, PeopleInv
  <2>2. Started(row, cloud')
    BY <2>1, StartedStays DEF RowPart
  <2> QED BY <2>1, <2>2 DEF RowPart, Unserved
<1>3. ASSUME NEW q \in Steppers
      PROVE  RowPart(st'[q], cloud', people', look) /\ StepPart(pc'[q], st'[q], row, steady'[q], faults')
  <2>1. CASE q = p
    BY <1>1, <2>1
  <2>2. CASE q # p
    <3>1. st'[q].droplet = NoDroplet /\ st'[q].actual \in {"down", "failed"} /\ steady'[q] = {} /\ pc'[q] = "idle"
      BY <1>1, <2>2, IdleStep
    <3> QED BY <3>1 DEF RowPart, NamesAll, Started, Unserved, StepPart, Early
  <2> QED BY <2>1, <2>2
<1>4. ASSUME NEW n \in Joiners PROVE LookPart(look[n], cloud')
  <2>1. LookPart(look[n], cloud) /\ look[n].droplet \in DropletOrNone /\ ~Unnamed(look[n].droplet)
    BY <1>t DEF PeopleInv, TypeOK, Looks, Unnamed
  <2>2. Started(look[n], cloud')
    BY <2>1, StartedStays DEF LookPart
  <2> QED BY <2>1, <2>2 DEF LookPart, CloudAges
<1> QED BY <1>2, <1>3, <1>4 DEF PeopleInv

(* People and what they have needed, across a step: as they were, or cut off. *)
LEMMA Stay ==
    ASSUME IInv, PeopleInv, UNCHANGED <<cloud, ip, people, steady>> \/ CutOff
    PROVE  /\ people' => people /\ BoxAnswers'
           /\ \A q \in Steppers : steady'[q] \subseteq steady[q]
<1>1. CASE UNCHANGED <<cloud, ip, people, steady>>
  BY <1>1 DEF PeopleInv, BoxAnswers
<1>2. CASE CutOff
  BY <1>2 DEF CutOff
<1> QED BY <1>1, <1>2

(* People who have been there since the step began are there, on a box that
   answers and was not just created. *)
LEMMA Occupied ==
    ASSUME IInv, PeopleInv, NEW p \in Steppers, "people" \in steady[p]
    PROVE  people /\ BoxAnswers /\ st[p].actual # "creating" /\ Met(pc[p], st[p], faults)
<1>1. people
  BY Here DEF Current
<1> QED BY <1>1 DEF PeopleInv, RowPart, Unserved, StepPart

(* The box that answers is the one the step has a row for. *)
LEMMA Answering ==
    ASSUME IInv, PeopleInv, NEW p \in Steppers, BoxAnswers, st[p].actual \notin {"down", "failed"}
    PROVE  cloud[st[p].droplet] = "up"
<1>1. PICK d \in Droplets : cloud[d] = "up"
  BY DEF BoxAnswers
<1>2. st[p].droplet # NoDroplet /\ NamesAll(st[p], cloud)
  BY Here DEF StepOK, RowOK, PeopleInv, RowPart
<1> QED BY <1>1, <1>2 DEF NamesAll

(* Any step of p that leaves the cloud and keeps its droplet, when its row is
   not at an earlier stage than before. *)
LEMMA Calm ==
    ASSUME IInv, PeopleInv, NEW p \in Steppers, NEW l \in Labels, NEW r \in Rows,
           Goto(p, l), SetRow(p, r), UNCHANGED <<row, look, cloud>>,
           UNCHANGED <<cloud, ip, people, steady>> \/ CutOff,
           pc[p] # "idle", l # "idle",
           l \in Early => pc[p] \in Early,
           l \in {"find", "park", "volume", "create"} => r.actual \in {"down", "failed"},
           r.droplet = st[p].droplet,
           RowOK(r),
           r.actual = "creating" => st[p].actual = "creating",
           \/ r.actual \in {"down", "failed", st[p].actual}
           \/ st[p].actual \notin {"down", "failed", "creating"}
           \/ cloud[r.droplet] # "new",
           "people" \in steady[p] => Met(l, r, faults')
    PROVE  PeopleInv'
<1>1. /\ people' => people /\ BoxAnswers'
      /\ \A q \in Steppers : steady'[q] \subseteq steady[q]
  BY Stay
<1>2. \A q \in Steppers : q # p => pc[q] = "idle"
  BY DEF IInv, Lock
<1>3. CloudAges /\ NamesAll(row, cloud')
  BY DEF CloudAges, PeopleInv, RowPart
<1>4. RowPart(st[p], cloud, people, look) /\ StepPart(pc[p], st[p], row, steady[p], faults)
  BY DEF PeopleInv
<1>5. RowPart(r, cloud', people', look)
  BY <1>1, <1>4 DEF RowPart, NamesAll, Started, Unserved
<1>6. StepPart(l, r, row, steady'[p], faults')
  BY <1>1, <1>4 DEF StepPart, RowOK, Early
<1> QED BY <1>1, <1>2, <1>3, <1>5, <1>6, Move

LEMMA OneMore ==
    ASSUME IInv
    PROVE  /\ \A e : Fault(e) => e \in Events /\ faults' = faults + 1
           /\ NoFault => faults' = faults
           /\ faults \in Nat
  BY MaxFaultsAssumption DEF Fault, NoFault, IInv, TypeOK
-----------------------------------------------------------------------------
(* A step's reads and calls *)

LEMMA SessionsPeople ==
    ASSUME IInv, PeopleInv, NEW p \in Steppers, ReadSessions(p) \/ ReadFinalizing(p) \/ ReadClips(p)
    PROVE  PeopleInv'
<1>1. PICK l \in {"finalizing", "clips", "activity"} : Goto(p, l)
  BY DEF ReadSessions, ReadFinalizing, ReadClips
<1>2. UNCHANGED <<row, look, cloud, ip, people, steady>> /\ SetRow(p, st[p]) /\ pc[p] \in Early /\ pc[p] # "idle"
  BY Here DEF ReadSessions, ReadFinalizing, ReadClips, rowVars, cloudVars, demand, Early
<1>3. l \in Labels /\ Met(l, st[p], faults')
  BY DEF Labels, Met
<1> QED BY <1>1, <1>2, <1>3, Here, Calm DEF StepOK

LEMMA ActivityPeople == ASSUME IInv, PeopleInv, NEW p \in Steppers, ReadActivity(p) PROVE PeopleInv'
<1>1. PICK busy \in {"yes", "no", "unknown"} :
          /\ IF st[p].actual \in {"ready", "draining"} THEN Says(busy) ELSE busy = "no" /\ NoFault
          /\ SetInputs(p, [in[p] EXCEPT !.busy = busy])
          /\ SetRow(p, Resume(st[p], WantedUp(in'[p])))
          /\ Goto(p, FirstCall(st[p], WantedUp(in'[p]), busy))
  BY DEF ReadActivity
<1> DEFINE i == [in[p] EXCEPT !.busy = busy]
           w == WantedUp(i)
           r == Resume(st[p], w)
           l == FirstCall(st[p], w, busy)
<1>2. in[p] \in Inputs /\ st[p] \in Rows /\ in'[p] = i /\ RowOK(st[p])
  BY <1>1, Here DEF SetInputs, IInv, TypeOK, StepOK
<1>3. i \in Inputs
  BY <1>2, InputFields, Zenon
<1>4. busy = "yes" => w
  BY <1>2 DEF Inputs, WantedUp, NeededBySession
<1>5. SetRow(p, r) /\ Goto(p, l)
  BY <1>1, <1>2
<1> HIDE DEF i
<1>6. w \in BOOLEAN
  BY <1>3, InputFields
<1>7. /\ r \in Rows /\ r.droplet = st[p].droplet
      /\ \/ r.actual = st[p].actual
         \/ st[p].actual = "failed" /\ r.actual = "down"
         \/ st[p].actual = "draining" /\ r.actual = "ready"
  BY <1>2, <1>6, ResumedRow
<1>8. /\ l \in {"save", "find", "read", "probe", "check", "delete"}
      /\ l = "find" => st[p].actual \in {"down", "failed"}
      /\ l = "read" => st[p].actual # "booting"
      /\ l \in {"check", "delete"} => st[p].actual \in {"ready", "draining"} /\ ~w
      /\ l = "check" => busy = "unknown"
      /\ l = "delete" => busy # "unknown"
  BY <1>2, <1>6, Fields DEF FirstCall, Actuals
<1> HIDE DEF r, l, w
<1>9. ASSUME "people" \in steady[p] PROVE Met(l, r, faults')
  <2>1. people /\ BoxAnswers
    BY <1>9, Occupied
  <2>2. CASE l \in {"check", "delete"}
    <3>1. Says(busy)
      BY <1>1, <1>8, <2>2
    <3>2. busy = "yes" \/ (busy = "unknown" /\ Fault("activity"))
      BY <2>1, <3>1 DEF Says
    <3>3. l = "check" /\ Fault("activity")
      BY <1>4, <1>8, <2>2, <3>2
    <3> QED BY <3>3, OneMore DEF Met
  <2>3. CASE l \in {"save", "find", "read", "probe"}
    BY <1>7, <1>8, <2>3 DEF Met
  <2> QED BY <1>8, <2>2, <2>3
<1>10. l \in Labels /\ l # "idle" /\ (l \in Early => l = "find")
  BY <1>8 DEF Labels, Early
<1>11. pc[p] # "idle" /\ pc[p] \in Early /\ UNCHANGED <<row, look, cloud, ip, people, steady>>
  BY DEF ReadActivity, rowVars, cloudVars, demand, Early
<1>12. RowOK(r)
  BY <1>2, <1>7 DEF RowOK
<1>13. l \in {"find", "park", "volume", "create"} => r.actual \in {"down", "failed"}
  BY <1>7, <1>8
<1>14. /\ r.actual = "creating" => st[p].actual = "creating"
       /\ \/ r.actual \in {"down", "failed", st[p].actual}
          \/ st[p].actual \notin {"down", "failed", "creating"}
          \/ cloud[r.droplet] # "new"
  BY <1>7
<1>15. l \in Early => pc[p] \in Early
  BY <1>11
<1>16. UNCHANGED <<row, look, cloud>> /\ UNCHANGED <<cloud, ip, people, steady>>
  BY <1>11
<1> QED BY <1>5, <1>7, <1>9, <1>10, <1>11, <1>12, <1>13, <1>14, <1>15, <1>16, Calm

(* p goes to save a row with the same droplet and state, or one given up on. *)
LEMMA CalmSave ==
    ASSUME IInv, PeopleInv, NEW p \in Steppers, NEW r \in Rows,
           Goto(p, "save"), SetRow(p, r), UNCHANGED <<row, look, cloud>>,
           UNCHANGED <<cloud, ip, people, steady>> \/ CutOff,
           pc[p] # "idle",
           r.droplet = st[p].droplet, RowOK(r),
           r.actual = "creating" => st[p].actual = "creating",
           \/ r.actual \in {"down", "failed", st[p].actual}
           \/ st[p].actual \notin {"down", "failed", "creating"}
           \/ cloud[r.droplet] # "new"
    PROVE  PeopleInv'
<1>1. "save" \in Labels /\ "save" \notin Early /\ Met("save", r, faults')
  BY DEF Labels, Early, Met
<1> QED BY <1>1, Calm

(* p goes to l with its row as it is. *)
LEMMA CalmStay ==
    ASSUME IInv, PeopleInv, NEW p \in Steppers, NEW l \in Labels,
           Goto(p, l), UNCHANGED <<st, row, look, cloud>>,
           UNCHANGED <<cloud, ip, people, steady>> \/ CutOff,
           pc[p] # "idle", l # "idle",
           l \in Early => pc[p] \in Early,
           l \in {"find", "park", "volume", "create"} => st[p].actual \in {"down", "failed"},
           "people" \in steady[p] => Met(l, st[p], faults')
    PROVE  PeopleInv'
<1>1. st[p] \in Rows /\ RowOK(st[p]) /\ SetRow(p, st[p])
  BY Here DEF StepOK
<1> QED BY <1>1, Calm

(* While a step looks for a droplet, makes a volume or creates, no row has one. *)
LEMMA NoneNamed ==
    ASSUME IInv, PeopleInv, NEW p \in Steppers, pc[p] \in {"find", "park", "volume", "create"}
    PROVE  /\ row.droplet = NoDroplet /\ row.actual \in {"down", "failed"}
           /\ st[p].droplet = NoDroplet /\ st[p].actual \in {"down", "failed"}
           /\ pc[p] \in Early
<1>1. StepPart(pc[p], st[p], row, steady[p], faults) /\ RowOK(st[p]) /\ RowOK(row)
  BY Here DEF PeopleInv, StepOK, IInv
<1> QED BY <1>1 DEF StepPart, Early, RowOK

LEMMA FindPeople == ASSUME IInv, PeopleInv, NEW p \in Steppers, FindManaged(p) PROVE PeopleInv'
<1>1. UNCHANGED <<row, look, cloud, ip, people, steady>> /\ pc[p] = "find"
  BY DEF FindManaged, cloudVars, demand
<1>2. /\ row.droplet = NoDroplet /\ row.actual \in {"down", "failed"}
      /\ st[p].droplet = NoDroplet /\ st[p].actual \in {"down", "failed"}
      /\ pc[p] \in Early
  BY <1>1, NoneNamed
<1>3. ASSUME NEW d \in Exist,
             SetRow(p, [st[p] EXCEPT !.droplet = d, !.actual = IF cloud[d] = "new" THEN "creating" ELSE "booting"]),
             Goto(p, "save")
      PROVE  PeopleInv'
  <2> DEFINE a == IF cloud[d] = "new" THEN "creating" ELSE "booting"
             r == [st[p] EXCEPT !.droplet = d, !.actual = a]
  <2>1. a \in Actuals /\ d \in DropletOrNone /\ d \in Droplets /\ st[p] \in Rows
    BY Values, Here DEF Exist, DropletOrNone
  <2>2. (a = "booting" /\ cloud[d] # "new") \/ (a = "creating" /\ cloud[d] = "new")
    OBVIOUS
  <2>3. SetRow(p, r)
    BY <1>3
  <2> HIDE DEF a
  <2>4. r \in Rows
    BY <2>1, WithDroplet, Zenon
  <2>5. r.actual = a /\ r.droplet = d
    BY <2>1 DEF Rows
  <2> HIDE DEF r
  <2>6. NamesAll(r, cloud) /\ Started(r, cloud)
    BY <2>2, <2>5 DEF NamesAll, Started, IInv, OneDroplet, Exist
  <2>7. ASSUME a = "creating"
        PROVE  ~people /\ \A n \in Joiners : look[n].actual \in Serving => look[n].droplet # d
    <3>1. ~people
      BY <2>2, <2>7 DEF PeopleInv, BoxAnswers, IInv, OneDroplet, Exist
    <3>2. ASSUME NEW n \in Joiners, look[n].actual \in Serving PROVE look[n].droplet # d
      BY <2>2, <2>7, <3>2 DEF PeopleInv, LookPart, Started, Serving
    <3> QED BY <3>1, <3>2
  <2>8. RowPart(r, cloud', people', look)
    BY <1>1, <2>5, <2>6, <2>7 DEF RowPart, Unserved
  <2>9. StepPart("save", r, row, steady'[p], faults') /\ "save" \in Labels
    BY <1>2 DEF StepPart, Early, Met, Labels
  <2>10. /\ people' => people /\ BoxAnswers'
         /\ \A q \in Steppers : q # p => pc[q] = "idle" /\ steady'[q] \subseteq steady[q]
    <3>1. \A q \in Steppers : q # p => pc[q] = "idle"
      BY <1>1 DEF IInv, Lock
    <3> QED BY <1>1, <3>1, Stay
  <2>11. CloudAges /\ NamesAll(row, cloud')
    BY <1>1, <1>2 DEF CloudAges, NamesAll
  <2> QED BY <1>1, <1>3, <2>3, <2>4, <2>8, <2>9, <2>10, <2>11, Move
<1>4. ASSUME Goto(p, IF Wanted(p) THEN "volume" ELSE "park"), UNCHANGED st
      PROVE  PeopleInv'
  <2>1. PICK l \in {"volume", "park"} : Goto(p, l)
    BY <1>4
  <2>2. l \in Labels /\ Met(l, st[p], faults')
    BY DEF Labels, Met
  <2> QED BY <1>1, <1>2, <1>4, <2>1, <2>2, CalmStay
<1> QED BY <1>3, <1>4 DEF FindManaged

LEMMA ParkPeople == ASSUME IInv, PeopleInv, NEW p \in Steppers, ParkIP(p) PROVE PeopleInv'
<1>1. UNCHANGED <<row, look, cloud, st>> /\ CutOff /\ pc[p] # "idle" /\ Goto(p, "save")
  BY DEF ParkIP, rowVars
<1>2. "save" \in Labels /\ "save" \notin Early /\ Met("save", st[p], faults')
  BY DEF Labels, Early, Met
<1> QED BY <1>1, <1>2, CalmStay

LEMMA VolumePeople == ASSUME IInv, PeopleInv, NEW p \in Steppers, VolumeByName(p) PROVE PeopleInv'
<1>1. UNCHANGED <<row, look, cloud, ip, people, steady>> /\ pc[p] = "volume"
  BY DEF VolumeByName, rowVars, cloudVars, demand
<1>2. st[p].actual \in {"down", "failed"} /\ pc[p] \in Early
  BY <1>1, NoneNamed
<1>3. CASE Goto(p, "create") /\ UNCHANGED st
  <2>1. "create" \in Labels /\ Met("create", st[p], faults')
    BY DEF Labels, Met
  <2> QED BY <1>1, <1>2, <1>3, <2>1, CalmStay
<1>4. CASE SetRow(p, Failed(st[p])) /\ Goto(p, "save")
  <2> DEFINE r == Failed(st[p])
  <2>1. r \in Rows /\ r.droplet = st[p].droplet /\ r.actual \in {"down", "failed"}
    BY <1>2, FailedRow, Here
  <2>2. SetRow(p, r) /\ Goto(p, "save")
    BY <1>4
  <2> HIDE DEF r
  <2>3. RowOK(r)
    BY <1>2, <2>1, Here DEF StepOK, RowOK
  <2> QED BY <1>1, <2>1, <2>2, <2>3, CalmSave
<1> QED BY <1>3, <1>4 DEF VolumeByName

LEMMA CreatePeople == ASSUME IInv, PeopleInv, NEW p \in Steppers, CreateDroplet(p) PROVE PeopleInv'
<1>1. UNCHANGED <<row, look, ip, people, steady>> /\ pc[p] = "create" /\ Goto(p, "save")
  BY DEF CreateDroplet, demand
<1>2. /\ row.droplet = NoDroplet /\ row.actual \in {"down", "failed"}
      /\ st[p].droplet = NoDroplet /\ st[p].actual \in {"down", "failed"}
  BY <1>1, NoneNamed
<1>3. Exist = {} /\ ~people
  BY <1>1 DEF IInv, CreateOK, PeopleInv, BoxAnswers, Exist
<1>4. CloudAges
  BY DEF CreateDroplet, CloudAges, Creates, IInv, TypeOK
<1>5. NamesAll(row, cloud')
  BY <1>2 DEF NamesAll
<1>6. /\ people' => people /\ BoxAnswers'
      /\ \A q \in Steppers : q # p => pc[q] = "idle" /\ steady'[q] \subseteq steady[q]
  BY <1>1, <1>3 DEF IInv, Lock
<1>7. "save" \in Labels
  BY DEF Labels
<1>8. ASSUME NEW r \in Rows, SetRow(p, r), RowPart(r, cloud', people', look)
      PROVE  PeopleInv'
  <2>1. StepPart("save", r, row, steady'[p], faults')
    BY <1>2 DEF StepPart, Early, Met
  <2> QED BY <1>1, <1>4, <1>5, <1>6, <1>7, <1>8, <2>1, Move
<1>9. ASSUME NEW d \in Droplets, Creates(d), SetRow(p, [st[p] EXCEPT !.droplet = d, !.actual = "creating"])
      PROVE  PeopleInv'
  <2> DEFINE r == [st[p] EXCEPT !.droplet = d, !.actual = "creating"]
  <2>1. SetRow(p, r) /\ st[p] \in Rows /\ d \in DropletOrNone /\ "creating" \in Actuals
    BY <1>9, Here, Values DEF DropletOrNone
  <2>2. r \in Rows
    BY <2>1, WithDroplet, Zenon
  <2>3. r.actual = "creating" /\ r.droplet = d
    BY <2>1 DEF Rows
  <2> HIDE DEF r
  <2>4. NamesAll(r, cloud')
    BY <1>3, <1>9, <2>3 DEF NamesAll, Creates, Exist, IInv, TypeOK
  <2>5. Started(r, cloud') /\ Unserved(r, people', look)
    BY <1>1, <1>3, <1>9, <2>3 DEF Started, Unserved, Creates, Unnamed
  <2> QED BY <1>8, <2>1, <2>2, <2>4, <2>5 DEF RowPart
<1>10. ASSUME SetRow(p, Failed(st[p])) PROVE PeopleInv'
  <2> DEFINE r == Failed(st[p])
  <2>1. SetRow(p, r) /\ r \in Rows /\ r.droplet = NoDroplet /\ r.actual \in {"down", "failed"}
    BY <1>2, <1>10, FailedRow, Here
  <2> HIDE DEF r
  <2>2. RowPart(r, cloud', people', look)
    BY <2>1 DEF RowPart, NamesAll, Started, Unserved
  <2> QED BY <1>8, <2>1, <2>2
<1> QED BY <1>9, <1>10 DEF CreateDroplet

LEMMA ProbePeople == ASSUME IInv, PeopleInv, NEW p \in Steppers, Probe(p) PROVE PeopleInv'
<1>1. UNCHANGED <<row, look, cloud, ip, people, steady>> /\ pc[p] = "probe"
  BY DEF Probe, rowVars, cloudVars, demand
<1>2. st[p].actual \notin {"down", "failed"} /\ st[p] \in Rows /\ RowOK(st[p])
  BY <1>1, Here DEF StepOK, Calling
<1>3. CASE /\ BoxAnswers
           /\ SetRow(p, [st[p] EXCEPT !.actual = "ready", !.failures = 0, !.wait = FALSE, !.alerted = FALSE])
           /\ Goto(p, "save")
  <2> DEFINE r == [st[p] EXCEPT !.actual = "ready", !.failures = 0, !.wait = FALSE, !.alerted = FALSE]
  <2>1. r \in Rows /\ r.actual = "ready" /\ r.droplet = st[p].droplet
    BY <1>2, Readied
  <2>2. SetRow(p, r) /\ Goto(p, "save")
    BY <1>3
  <2> HIDE DEF r
  <2>3. RowOK(r)
    BY <1>2, <2>1 DEF RowOK
  <2>4. cloud[r.droplet] # "new"
    BY <1>2, <1>3, <2>1, Answering
  <2> QED BY <1>1, <2>1, <2>2, <2>3, <2>4, CalmSave
<1>4. ASSUME (~BoxAnswers /\ NoFault) \/ Fault("probe"), Goto(p, IF Wanted(p) THEN "read" ELSE "ask"), UNCHANGED st
      PROVE  PeopleInv'
  <2>1. PICK l \in {"read", "ask"} : Goto(p, l)
    BY <1>4
  <2>2. "people" \in steady[p] => Met(l, st[p], faults')
    BY <1>4, Occupied, OneMore DEF Met
  <2>3. l \in Labels /\ l \notin Early
    BY DEF Labels, Early
  <2> QED BY <1>1, <1>4, <2>1, <2>2, <2>3, CalmStay
<1> QED BY <1>3, <1>4 DEF Probe

LEMMA ReadPeople == ASSUME IInv, PeopleInv, NEW p \in Steppers, ReadDroplet(p) PROVE PeopleInv'
<1>1. UNCHANGED <<row, look, cloud, ip, people, steady>> /\ pc[p] = "read"
  BY DEF ReadDroplet, cloudVars, demand
<1>2. /\ people' => people /\ BoxAnswers'
      /\ \A q \in Steppers : q # p => pc[q] = "idle" /\ steady'[q] \subseteq steady[q]
  <2>1. \A q \in Steppers : q # p => pc[q] = "idle"
    BY <1>1 DEF IInv, Lock
  <2> QED BY <1>1, <2>1, Stay
<1>3. CloudAges /\ NamesAll(row, cloud')
  BY <1>1 DEF CloudAges, PeopleInv, RowPart
<1>4. CASE SetRow(p, Lost(st[p])) /\ Goto(p, "save")
  <2> DEFINE r == Lost(st[p])
  <2>1. r \in Rows /\ r.droplet = NoDroplet /\ r.actual \in {"down", "failed"}
    BY LostRow, Here
  <2>2. SetRow(p, r)
    BY <1>4
  <2> HIDE DEF r
  <2>3. RowPart(r, cloud', people', look) /\ StepPart("save", r, row, steady'[p], faults') /\ "save" \in Labels
    BY <2>1 DEF RowPart, NamesAll, Started, Unserved, StepPart, Early, Met, Labels
  <2> QED BY <1>1, <1>2, <1>3, <1>4, <2>1, <2>2, <2>3, Move
<1>5. ASSUME NEW l \in NextCalls(st[p], Wanted(p)), Goto(p, l), UNCHANGED st, faults' \in {faults, faults + 1}
      PROVE  PeopleInv'
  <2>1. /\ l \in {"delete", "save", "late", "assign"}
        /\ l = "delete" => st[p].actual \in {"creating", "deleting"}
        /\ l = "late" => st[p].actual = "creating"
    <3>1. WantedUp(in[p]) \in BOOLEAN
      BY Here, InputFields
    <3> QED BY <1>5, <3>1 DEF NextCalls, Wanted
  <2>2. l \in Labels /\ l \notin Early
    BY <2>1 DEF Labels, Early
  <2>3. ASSUME "people" \in steady[p] PROVE Met(l, st[p], faults')
    <3>1. st[p].actual # "creating" /\ (st[p].actual = "booting" => "probe" \in Events /\ 1 <= faults)
      BY <1>1, <2>3, Occupied DEF Met
    <3> QED BY <1>5, <2>1, <3>1, OneMore DEF Met
  <2> QED BY <1>1, <1>5, <2>1, <2>2, <2>3, CalmStay
<1>6. CASE Goto(p, "save") /\ UNCHANGED st
  <2>1. "save" \in Labels /\ "save" \notin Early /\ Met("save", st[p], faults')
    BY DEF Labels, Early, Met
  <2> QED BY <1>1, <1>6, <2>1, CalmStay
<1> QED BY <1>4, <1>5, <1>6, OneMore DEF ReadDroplet

LEMMA AssignPeople == ASSUME IInv, PeopleInv, NEW p \in Steppers, AssignIP(p) PROVE PeopleInv'
<1>1. UNCHANGED <<row, look, cloud>> /\ CutOff /\ pc[p] = "assign"
  BY DEF AssignIP, rowVars
<1>2. st[p].actual \notin {"down", "failed"} /\ st[p] \in Rows /\ RowOK(st[p])
  BY <1>1, Here DEF StepOK, Calling
<1>3. CASE /\ cloud[st[p].droplet] \in {"active", "up"}
           /\ SetRow(p, IF st[p].actual = "creating" THEN [st[p] EXCEPT !.actual = "booting"] ELSE st[p])
           /\ Goto(p, "save")
  <2> DEFINE b == [st[p] EXCEPT !.actual = "booting"]
             r == IF st[p].actual = "creating" THEN b ELSE st[p]
  <2>1. b \in Rows /\ b.actual = "booting" /\ b.droplet = st[p].droplet
    BY <1>2, ToState, Values
  <2>2. SetRow(p, r) /\ Goto(p, "save")
    BY <1>3
  <2> HIDE DEF b
  <2>3. r \in Rows /\ RowOK(r) /\ r.droplet = st[p].droplet /\ r.actual # "creating" /\ cloud[r.droplet] # "new"
    BY <1>2, <1>3, <2>1 DEF RowOK
  <2> HIDE DEF r
  <2> QED BY <1>1, <2>2, <2>3, CalmSave
<1>4. ASSUME NEW stuck \in BOOLEAN, Goto(p, "save"),
             SetRow(p, [st[p] EXCEPT !.alerted = @ \/ (st[p].actual = "creating" /\ stuck)])
      PROVE  PeopleInv'
  <2> DEFINE c == st[p].actual = "creating" /\ stuck
             r == [st[p] EXCEPT !.alerted = @ \/ c]
  <2>1. SetRow(p, r)
    BY <1>4
  <2>2. c \in BOOLEAN
    OBVIOUS
  <2> HIDE DEF c
  <2>3. r \in Rows /\ r.actual = st[p].actual /\ r.droplet = st[p].droplet
    BY <1>2, <2>2, Alerted
  <2> HIDE DEF r
  <2>4. RowOK(r)
    BY <1>2, <2>3 DEF RowOK
  <2> QED BY <1>1, <1>4, <2>1, <2>3, <2>4, CalmSave
<1>5. CASE st[p].actual = "booting" /\ Fault("slow") /\ Goto(p, "late") /\ UNCHANGED st
  <2>1. "late" \in Labels /\ "late" \notin Early
    BY DEF Labels, Early
  <2>2. "people" \in steady[p] => Met("late", st[p], faults')
    BY <1>1, <1>5, Occupied, OneMore DEF Met
  <2> QED BY <1>1, <1>5, <2>1, <2>2, CalmStay
<1> QED BY <1>3, <1>4, <1>5 DEF AssignIP

LEMMA CheckPeople == ASSUME IInv, PeopleInv, NEW p \in Steppers, DrainCheck(p) PROVE PeopleInv'
<1>1. UNCHANGED <<row, look, cloud, ip, people, steady>> /\ pc[p] = "check"
  BY DEF DrainCheck, rowVars, cloudVars, demand
<1>2. st[p].actual \notin {"down", "failed"} /\ st[p] \in Rows /\ RowOK(st[p])
  BY <1>1, Here DEF StepOK, Calling
<1>3. CASE BoxAnswers /\ SetRow(p, [st[p] EXCEPT !.actual = "draining"]) /\ Goto(p, "save")
  <2> DEFINE r == [st[p] EXCEPT !.actual = "draining"]
  <2>1. r \in Rows /\ r.actual = "draining" /\ r.droplet = st[p].droplet
    BY <1>2, ToState, Values
  <2>2. SetRow(p, r) /\ Goto(p, "save")
    BY <1>3
  <2> HIDE DEF r
  <2>3. RowOK(r)
    BY <1>2, <2>1 DEF RowOK
  <2>4. cloud[r.droplet] # "new"
    BY <1>2, <1>3, <2>1, Answering
  <2> QED BY <1>1, <2>1, <2>2, <2>3, <2>4, CalmSave
<1>4. ASSUME (~BoxAnswers /\ NoFault) \/ Fault("probe"), Goto(p, "delete"), UNCHANGED st
      PROVE  PeopleInv'
  <2>1. "delete" \in Labels /\ "delete" \notin Early
    BY DEF Labels, Early
  <2>2. ASSUME "people" \in steady[p] PROVE Met("delete", st[p], faults')
    <3>1. Fault("probe") /\ "activity" \in Events /\ 1 <= faults
      BY <1>1, <1>4, <2>2, Occupied DEF Met
    <3> QED BY <3>1, OneMore DEF Met
  <2> QED BY <1>1, <1>4, <2>1, <2>2, CalmStay
<1> QED BY <1>3, <1>4 DEF DrainCheck

LEMMA AskPeople == ASSUME IInv, PeopleInv, NEW p \in Steppers, AskFirst(p) PROVE PeopleInv'
<1>1. UNCHANGED <<row, look, cloud, ip, people, steady>> /\ pc[p] \in {"ask", "late"}
  BY DEF AskFirst, rowVars, cloudVars, demand
<1>2. st[p] \in Rows /\ RowOK(st[p])
  BY Here DEF StepOK
<1>3. CASE SetRow(p, [st[p] EXCEPT !.alerted = @ \/ pc[p] = "late"]) /\ Goto(p, "save")
  <2> DEFINE c == pc[p] = "late"
             r == [st[p] EXCEPT !.alerted = @ \/ c]
  <2>1. SetRow(p, r) /\ Goto(p, "save")
    BY <1>3
  <2>2. c \in BOOLEAN
    OBVIOUS
  <2> HIDE DEF c
  <2>3. r \in Rows /\ r.actual = st[p].actual /\ r.droplet = st[p].droplet
    BY <1>2, <2>2, Alerted
  <2> HIDE DEF r
  <2>4. RowOK(r)
    BY <1>2, <2>3 DEF RowOK
  <2> QED BY <1>1, <2>1, <2>3, <2>4, CalmSave
<1>4. ASSUME NEW busy \in {"no", "unknown"}, Says(busy), Goto(p, IF pc[p] = "ask" THEN "delete" ELSE "timeout"), UNCHANGED st
      PROVE  PeopleInv'
  <2>1. PICK l \in {"delete", "timeout"} : Goto(p, l)
    BY <1>4
  <2>2. l \in Labels /\ l \notin Early
    BY DEF Labels, Early
  <2>3. ASSUME "people" \in steady[p] PROVE Met(l, st[p], faults')
    <3>1. people /\ BoxAnswers /\ "probe" \in Events /\ 1 <= faults
      BY <1>1, <2>3, Occupied, OneMore DEF Met
    <3>2. Fault("activity")
      BY <1>4, <3>1 DEF Says
    <3> QED BY <3>1, <3>2, OneMore DEF Met
  <2> QED BY <1>1, <1>4, <2>1, <2>2, <2>3, CalmStay
<1>5. PICK busy \in {"yes", "no", "unknown"} :
          /\ Says(busy)
          /\ IF busy = "yes"
             THEN SetRow(p, [st[p] EXCEPT !.alerted = @ \/ pc[p] = "late"]) /\ Goto(p, "save")
             ELSE UNCHANGED st /\ Goto(p, IF pc[p] = "ask" THEN "delete" ELSE "timeout")
  BY DEF AskFirst
<1> QED BY <1>3, <1>4, <1>5

LEMMA BreaksPeople == ASSUME IInv, PeopleInv, NEW p \in Steppers, StepBreaks(p) PROVE PeopleInv'
<1>1. UNCHANGED <<row, look, cloud, ip, people, steady, st>> /\ pc[p] # "idle" /\ Goto(p, "release")
  BY DEF StepBreaks, rowVars, cloudVars, demand
<1>2. "release" \in Labels /\ "release" \notin Early /\ Met("release", st[p], faults')
  BY DEF Labels, Early, Met
<1> QED BY <1>1, <1>2, CalmStay

LEMMA DeletePeople == ASSUME IInv, PeopleInv, NEW p \in Steppers, DeleteDroplet(p) PROVE PeopleInv'
<1>1. UNCHANGED <<row, look, ip>> /\ CutOff /\ pc[p] \in {"delete", "timeout"} /\ Goto(p, "save")
  BY DEF DeleteDroplet, rowVars
<1>2. st[p].actual \notin {"down", "failed"} /\ st[p] \in Rows /\ RowOK(st[p])
  BY <1>1, Here DEF StepOK, Calling
<1>3. st[p].droplet \in Droplets
  BY <1>2, Fields DEF RowOK, DropletOrNone
<1>4. Dying(st[p].droplet) \/ UNCHANGED cloud
  BY DEF DeleteDroplet
<1>5. /\ CloudAges
      /\ \A d \in Droplets : cloud'[d] # "absent" <=> cloud[d] # "absent"
      /\ Dying(st[p].droplet) => cloud'[st[p].droplet] # "new"
      /\ cloud'[st[p].droplet] = "new" => cloud[st[p].droplet] = "new"
  BY <1>3, <1>4 DEF Dying, IInv, TypeOK, CloudAges
<1>6. /\ people' => people /\ BoxAnswers'
      /\ \A q \in Steppers : q # p => pc[q] = "idle" /\ steady'[q] \subseteq steady[q]
  <2>1. \A q \in Steppers : q # p => pc[q] = "idle"
    BY <1>1 DEF IInv, Lock
  <2> QED BY <1>1, <2>1, Stay
<1>7. RowPart(st[p], cloud, people, look) /\ RowPart(row, cloud, people, look) /\ StepPart(pc[p], st[p], row, steady[p], faults)
  BY DEF PeopleInv
<1>8. NamesAll(row, cloud')
  BY <1>5, <1>7 DEF RowPart, NamesAll
<1>9. ASSUME NEW r \in Rows, SetRow(p, r), r.droplet = st[p].droplet,
             r.actual = st[p].actual \/ (r.actual = "deleting" /\ Dying(st[p].droplet))
      PROVE  PeopleInv'
  <2>1. RowPart(r, cloud', people', look)
    <3>1. NamesAll(r, cloud')
      BY <1>5, <1>7, <1>9 DEF RowPart, NamesAll
    <3>2. Started(r, cloud')
      BY <1>5, <1>7, <1>9 DEF RowPart, Started
    <3>3. Unserved(r, people', look)
      BY <1>6, <1>7, <1>9 DEF RowPart, Unserved
    <3> QED BY <3>1, <3>2, <3>3 DEF RowPart
  <2>2. StepPart("save", r, row, steady'[p], faults') /\ "save" \in Labels
    BY <1>7, <1>9 DEF StepPart, Early, Met, Labels
  <2> QED BY <1>1, <1>5, <1>6, <1>8, <1>9, <2>1, <2>2, Move
<1>10. ASSUME NEW q \in Rows, q.actual \in {st[p].actual, "deleting"}, q.droplet = st[p].droplet
       PROVE  LET r == IF pc[p] = "timeout" THEN Failed(q) ELSE q
              IN  r \in Rows /\ r.actual = q.actual /\ r.droplet = q.droplet
  BY <1>2, <1>10, FailedRow
<1> DEFINE d == [st[p] EXCEPT !.actual = "deleting"]
           Counted(q) == IF pc[p] = "timeout" THEN Failed(q) ELSE q
<1>11. d \in Rows /\ d.actual = "deleting" /\ d.droplet = st[p].droplet
  BY <1>2, ToState, Values
<1>12. \/ Dying(st[p].droplet) /\ SetRow(p, Counted(d))
       \/ SetRow(p, Counted(st[p]))
  BY DEF DeleteDroplet
<1> HIDE DEF d
<1>13. CASE Dying(st[p].droplet) /\ SetRow(p, Counted(d))
  <2>1. Counted(d) \in Rows /\ Counted(d).actual = "deleting" /\ Counted(d).droplet = st[p].droplet
    BY <1>10, <1>11
  <2> HIDE DEF Counted
  <2> QED BY <1>9, <1>13, <2>1
<1>14. CASE SetRow(p, Counted(st[p]))
  <2>1. Counted(st[p]) \in Rows /\ Counted(st[p]).actual = st[p].actual /\ Counted(st[p]).droplet = st[p].droplet
    BY <1>2, <1>10
  <2> HIDE DEF Counted
  <2> QED BY <1>9, <1>14, <2>1
<1> QED BY <1>12, <1>13, <1>14

-----------------------------------------------------------------------------
(* A step's beginning, its save and its end *)

LEMMA TakePeople == ASSUME IInv, PeopleInv, NEW p \in Steppers, TakeSFUBoxLease(p) PROVE PeopleInv'
<1>1. UNCHANGED <<row, look, cloud, ip, people>> /\ Goto(p, "sessions") /\ SetRow(p, row)
  BY DEF TakeSFUBoxLease, Begin, cloudVars, demand
<1>2. \A q \in Steppers : q # p => pc[q] = "idle" /\ steady'[q] \subseteq steady[q]
  BY NobodyAssumption DEF TakeSFUBoxLease, Begin, IInv, TypeOK, Lock
<1>3. people' => people /\ BoxAnswers'
  BY <1>1 DEF PeopleInv, BoxAnswers
<1>4. CloudAges /\ NamesAll(row, cloud') /\ RowPart(row, cloud', people', look)
  BY <1>1 DEF CloudAges, PeopleInv, RowPart
<1>5. StepPart("sessions", row, row, steady'[p], faults') /\ "sessions" \in Labels /\ row \in Rows
  BY DEF StepPart, Early, Met, Labels, IInv, TypeOK
<1> QED BY <1>1, <1>2, <1>3, <1>4, <1>5, Move

LEMMA ForgetPeople ==
    ASSUME IInv, PeopleInv, NEW p \in Steppers, ReleaseSFUBoxLease(p) \/ Crash(p)
    PROVE  PeopleInv'
<1>1. UNCHANGED <<row, look, cloud, ip, people>> /\ Goto(p, "idle") /\ SetRow(p, NewRow) /\ pc[p] # "idle"
  BY DEF ReleaseSFUBoxLease, Crash, Forget, rowVars, cloudVars, demand
<1>2. \A q \in Steppers : q # p => pc[q] = "idle" /\ steady'[q] \subseteq steady[q]
  BY DEF ReleaseSFUBoxLease, Crash, Forget, IInv, TypeOK, Lock
<1>3. people' => people /\ BoxAnswers'
  BY <1>1 DEF PeopleInv, BoxAnswers
<1>4. CloudAges /\ NamesAll(row, cloud')
  BY <1>1 DEF CloudAges, PeopleInv, RowPart
<1>5. RowPart(NewRow, cloud', people', look)
  BY Fresh DEF RowPart, NamesAll, Started, Unserved
<1>6. StepPart("idle", NewRow, row, steady'[p], faults') /\ "idle" \in Labels
  BY Fresh DEF StepPart, Early, Met, Labels
<1> QED BY <1>1, <1>2, <1>3, <1>4, <1>5, <1>6, Fresh, Move

(* What p saves is its row. *)
LEMMA SavedRow ==
    ASSUME IInv, NEW p \in Steppers, SaveSFUBox(p)
    PROVE  row'.actual = st[p].actual /\ row'.droplet = st[p].droplet
<1> DEFINE b == Overdue(p)
           r == [st[p] EXCEPT !.alerted = @ \/ b]
<1>1. lease = p
  BY DEF SaveSFUBox, IInv, Lock
<1>2. row' = r
  BY <1>1 DEF SaveSFUBox
<1>3. b \in BOOLEAN
  BY DEF Overdue
<1> HIDE DEF b
<1>4. r.actual = st[p].actual /\ r.droplet = st[p].droplet
  BY <1>3, Here, Alerted
<1> QED BY <1>2, <1>4

LEMMA SavePeople == ASSUME IInv, PeopleInv, NEW p \in Steppers, SaveSFUBox(p) PROVE PeopleInv'
<1>1. UNCHANGED <<look, cloud, ip, people, st, steady, faults>> /\ pc[p] = "save" /\ Goto(p, "release")
  BY DEF SaveSFUBox, cloudVars, demand
<1>2. row'.actual = st[p].actual /\ row'.droplet = st[p].droplet
  BY SavedRow
<1>3. /\ pc'[p] = "release"
      /\ \A q \in Steppers : q # p => pc'[q] = "idle"
  BY <1>1 DEF Goto, IInv, TypeOK, Lock
<1>4. RowPart(row', cloud', people', look')
  BY <1>1, <1>2 DEF PeopleInv, RowPart, NamesAll, Started, Unserved
<1>5. ASSUME NEW q \in Steppers PROVE StepPart(pc'[q], st[q], row', steady[q], faults)
  <2>1. CASE q = p
    BY <1>2, <1>3, <2>1 DEF StepPart, Early, Met
  <2>2. CASE q # p
    <3>1. pc[q] = "idle" /\ pc'[q] = "idle"
      BY <1>1, <1>3, <2>2 DEF IInv, Lock
    <3>2. st[q].droplet = NoDroplet /\ st[q].actual \in {"down", "failed"} /\ steady[q] = {}
      BY <3>1, IdleStep
    <3> QED BY <3>1, <3>2 DEF StepPart, Early
  <2> QED BY <2>1, <2>2
<1>6. (people => BoxAnswers)'
  BY <1>1 DEF PeopleInv, BoxAnswers
<1> QED BY <1>1, <1>4, <1>5, <1>6 DEF PeopleInv

-----------------------------------------------------------------------------
(* Joins, users, the cloud *)

(* A step of anyone else, when nobody is put where the box does not answer or
   is being created, and the joins are in order. *)
LEMMA AroundPeople ==
    ASSUME IInv, PeopleInv, UNCHANGED pc, faults' \in {faults, faults + 1},
           \A q \in Steppers : st'[q].actual = st[q].actual /\ st'[q].droplet = st[q].droplet,
           row'.droplet = row.droplet,
           row'.actual = row.actual \/ (row.actual = "booting" /\ row'.actual = "ready"),
           \A q \in Steppers : steady'[q] \subseteq steady[q],
           \A d \in Droplets : /\ cloud'[d] = "new" => cloud[d] = "new"
                               /\ cloud[d] = "absent" => cloud'[d] = "absent",
           people' => BoxAnswers',
           Unserved(row, people', look'),
           \A q \in Steppers : Unserved(st[q], people', look'),
           \A n \in Joiners : LookPart(look'[n], cloud')
    PROVE  PeopleInv'
<1>1. ASSUME NEW r \in Rows, RowOK(r), NamesAll(r, cloud), Started(r, cloud)
      PROVE  NamesAll(r, cloud') /\ Started(r, cloud')
  <2>1. r.actual \notin {"down", "failed"} => r.droplet \in Droplets
    BY <1>1, Fields DEF RowOK, DropletOrNone
  <2> QED BY <1>1, <2>1 DEF NamesAll, Started
<1>2. RowPart(row', cloud', people', look')
  <2>1. row \in Rows /\ RowOK(row) /\ NamesAll(row, cloud) /\ Started(row, cloud)
    BY DEF IInv, TypeOK, PeopleInv, RowPart
  <2>2. NamesAll(row, cloud') /\ Started(row, cloud')
    BY <1>1, <2>1
  <2> QED BY <2>2 DEF RowPart, NamesAll, Started, Unserved
<1>3. ASSUME NEW q \in Steppers
      PROVE  RowPart(st'[q], cloud', people', look') /\ StepPart(pc[q], st'[q], row', steady'[q], faults')
  <2>1. /\ st[q] \in Rows /\ RowOK(st[q]) /\ NamesAll(st[q], cloud) /\ Started(st[q], cloud)
        /\ StepPart(pc[q], st[q], row, steady[q], faults)
    BY Here DEF StepOK, PeopleInv, RowPart
  <2>2. NamesAll(st[q], cloud') /\ Started(st[q], cloud')
    BY <1>1, <2>1
  <2>3. Met(pc[q], st[q], faults) => Met(pc[q], st'[q], faults')
    BY OneMore DEF Met
  <2>4. StepPart(pc[q], st'[q], row', steady'[q], faults')
    BY <2>1, <2>3 DEF StepPart
  <2>5. RowPart(st'[q], cloud', people', look')
    BY <2>2 DEF RowPart, NamesAll, Started, Unserved
  <2> QED BY <2>4, <2>5
<1> QED BY <1>2, <1>3 DEF PeopleInv

(* Of those, the ones that leave the joins alone too. *)
LEMMA ElsewherePeople ==
    ASSUME IInv, PeopleInv, UNCHANGED <<pc, look, faults>>,
           \A q \in Steppers : st'[q].actual = st[q].actual /\ st'[q].droplet = st[q].droplet,
           row'.droplet = row.droplet, row'.actual = row.actual,
           \A q \in Steppers : steady'[q] \subseteq steady[q],
           people' => people,
           UNCHANGED <<cloud, ip>>
    PROVE  PeopleInv'
<1>1. people' => BoxAnswers'
  BY DEF PeopleInv, BoxAnswers
<1>2. Unserved(row, people', look') /\ \A q \in Steppers : Unserved(st[q], people', look')
  BY DEF PeopleInv, RowPart, Unserved
<1>3. \A n \in Joiners : LookPart(look'[n], cloud')
  BY DEF PeopleInv
<1>4. \A d \in Droplets : /\ cloud'[d] = "new" => cloud[d] = "new"
                          /\ cloud[d] = "absent" => cloud'[d] = "absent"
  OBVIOUS
<1> QED BY <1>1, <1>2, <1>3, <1>4, AroundPeople

(* Of those, the ones that only end a wait leave every row's droplet and state. *)
LEMMA WorldRows ==
    ASSUME IInv,
           \/ LeaseRunsOut \/ BackoffRunsOut \/ GraceRunsOut \/ RequestRunsOut
           \/ SessionsBegin \/ SessionsEnd \/ ClipsBegin \/ ClipsEnd \/ PeopleLeave \/ RetrySFUBox
    PROVE  /\ row'.droplet = row.droplet /\ row'.actual = row.actual
           /\ \A q \in Steppers : st'[q].actual = st[q].actual /\ st'[q].droplet = st[q].droplet
<1> USE DEF rowVars, steps, cloudVars, demand
<1>1. /\ UNCHANGED row \/ row' = [row EXCEPT !.wait = FALSE]
      /\ UNCHANGED st \/ st' = [q \in Steppers |-> [st[q] EXCEPT !.wait = FALSE]]
  BY DEF LeaseRunsOut, BackoffRunsOut, GraceRunsOut, RequestRunsOut, SessionsBegin, SessionsEnd, ClipsBegin, ClipsEnd,
         PeopleLeave, RetrySFUBox
<1>2. \A r \in Rows : /\ [r EXCEPT !.wait = FALSE].actual = r.actual
                      /\ [r EXCEPT !.wait = FALSE].droplet = r.droplet
  BY Rested
<1>3. row'.droplet = row.droplet /\ row'.actual = row.actual
  BY <1>1, <1>2 DEF IInv, TypeOK
<1>4. \A q \in Steppers : st'[q].actual = st[q].actual /\ st'[q].droplet = st[q].droplet
  BY <1>1, <1>2 DEF IInv, TypeOK
<1> QED BY <1>3, <1>4

LEMMA WorldPeople ==
    ASSUME IInv, PeopleInv,
           \/ LeaseRunsOut \/ BackoffRunsOut \/ GraceRunsOut \/ RequestRunsOut
           \/ SessionsBegin \/ SessionsEnd \/ ClipsBegin \/ ClipsEnd \/ PeopleLeave \/ RetrySFUBox
    PROVE  PeopleInv'
<1> USE DEF rowVars, steps, cloudVars, demand
<1>1. UNCHANGED <<pc, look, faults, cloud, ip>> /\ (people' => people)
  <2>1. CASE LeaseRunsOut \/ BackoffRunsOut \/ GraceRunsOut \/ RequestRunsOut \/ RetrySFUBox
    BY <2>1 DEF LeaseRunsOut, BackoffRunsOut, GraceRunsOut, RequestRunsOut, RetrySFUBox
  <2>2. CASE SessionsBegin \/ SessionsEnd \/ ClipsBegin \/ ClipsEnd
    <3>1. UNCHANGED <<pc, look, faults, cloud, ip, people>>
      BY <2>2 DEF SessionsBegin, SessionsEnd, ClipsBegin, ClipsEnd
    <3> QED BY <3>1
  <2>3. CASE PeopleLeave
    BY <2>3 DEF PeopleLeave
  <2> QED BY <2>1, <2>2, <2>3
<1>2. \A q \in Steppers : steady'[q] \subseteq steady[q]
  BY DEF LeaseRunsOut, BackoffRunsOut, GraceRunsOut, RequestRunsOut, SessionsBegin, SessionsEnd, ClipsBegin, ClipsEnd,
         PeopleLeave, RetrySFUBox, Ends
<1> QED BY <1>1, <1>2, WorldRows, ElsewherePeople

LEMMA CloudPeople ==
    ASSUME IInv, PeopleInv, NEW d \in Droplets, ComesUp(d) \/ Vanishes(d)
    PROVE  PeopleInv'
<1>1. UNCHANGED <<row, pc, st, steady, look, people, faults>>
  BY DEF ComesUp, Vanishes, rowVars, steps, demand
<1>2. /\ cloud \in [Droplets -> {"absent", "new", "active", "up", "dying"}]
      /\ \A e \in Droplets : e # d => cloud'[e] = cloud[e]
      /\ cloud'[d] # "new"
      /\ cloud[d] # "absent"
      /\ cloud'[d] = "up" => \A n \in Joiners : look[n].droplet \in {d, NoDroplet}
  BY DEF ComesUp, Vanishes, IInv, TypeOK
<1>3. people' => BoxAnswers'
  BY DEF ComesUp, Vanishes, PeopleInv, BoxAnswers, demand, IInv, TypeOK
<1>4. Unserved(row, people', look') /\ \A q \in Steppers : Unserved(st[q], people', look')
  BY <1>1 DEF PeopleInv, RowPart
<1>5. ASSUME NEW n \in Joiners PROVE LookPart(look[n], cloud')
  <2>1. LookPart(look[n], cloud) /\ (look[n].droplet # NoDroplet => look[n].droplet \in Droplets)
    BY DEF PeopleInv, IInv, TypeOK, Looks, DropletOrNone
  <2>2. Started(look[n], cloud')
    BY <1>2, <2>1 DEF LookPart, Started, RowOK
  <2> QED BY <1>2, <2>1, <2>2 DEF LookPart
<1>6. \A e \in Droplets : /\ cloud'[e] = "new" => cloud[e] = "new"
                          /\ cloud[e] = "absent" => cloud'[e] = "absent"
  BY <1>2
<1> QED BY <1>1, <1>3, <1>4, <1>5, <1>6, AroundPeople

(* A join goes on, or is over; it lets nobody in. *)
LEMMA JoinGoesOn ==
    ASSUME IInv, PeopleInv, NEW n \in Joiners, NEW k \in Looks, look' = [look EXCEPT ![n] = k],
           (k.actual = look[n].actual /\ k.droplet = look[n].droplet) \/ k = NoLook,
           k.pc \in {"probe", "mark", "enter"} => k.actual \in Serving,
           UNCHANGED <<pc, st, steady, cloud, ip, people>>, faults' \in {faults, faults + 1},
           row'.droplet = row.droplet,
           row'.actual = row.actual \/ (row.actual = "booting" /\ row'.actual = "ready")
    PROVE  PeopleInv'
<1>1. /\ look'[n] = k
      /\ \A m \in Joiners : m # n => look'[m] = look[m]
  BY DEF IInv, TypeOK
<1>2. k.actual \in Serving => k.actual = look[n].actual /\ k.droplet = look[n].droplet
  BY DEF NoLook, Serving
<1>3. \A m \in Joiners : look'[m].actual \in Serving => look[m].actual = look'[m].actual /\ look[m].droplet = look'[m].droplet
  BY <1>1, <1>2
<1>4. Unserved(row, people', look') /\ \A q \in Steppers : Unserved(st[q], people', look')
  BY <1>3 DEF PeopleInv, RowPart, Unserved
<1>5. LookPart(k, cloud)
  <2>1. CASE k = NoLook
    BY <2>1 DEF LookPart, NoLook, RowOK, Started
  <2>2. CASE k.actual = look[n].actual /\ k.droplet = look[n].droplet
    <3>1. LookPart(look[n], cloud)
      BY DEF PeopleInv
    <3> QED BY <2>2, <3>1 DEF LookPart, RowOK, Started
  <2> QED BY <2>1, <2>2
<1>6. \A m \in Joiners : LookPart(look'[m], cloud')
  BY <1>1, <1>5 DEF PeopleInv
<1>7. people' => BoxAnswers'
  BY DEF PeopleInv, BoxAnswers
<1>8. /\ \A q \in Steppers : st'[q].actual = st[q].actual /\ st'[q].droplet = st[q].droplet
      /\ \A q \in Steppers : steady'[q] \subseteq steady[q]
      /\ \A d \in Droplets : /\ cloud'[d] = "new" => cloud[d] = "new"
                             /\ cloud[d] = "absent" => cloud'[d] = "absent"
  OBVIOUS
<1> QED BY <1>4, <1>6, <1>7, <1>8, AroundPeople

LEMMA JoinsPeople ==
    ASSUME IInv, PeopleInv, NEW n \in Joiners, JoinReads(n) \/ JoinOn(n)
    PROVE  PeopleInv'
<1> USE DEF rowVars, steps, cloudVars, demand
<1>t. TypeOK /\ look[n] \in Looks /\ LookPart(look[n], cloud)
  BY DEF IInv, TypeOK, PeopleInv
<1>k. ASSUME NEW l \in {"request", "probe", "mark", "enter"}, Looking(n, l)
      PROVE  \E k \in Looks : /\ look' = [look EXCEPT ![n] = k]
                              /\ k.pc = l /\ k.actual = look[n].actual /\ k.droplet = look[n].droplet
  <2> DEFINE k == [look[n] EXCEPT !.pc = l]
  <2>1. look' = [look EXCEPT ![n] = k]
    BY <1>k DEF Looking
  <2>2. k \in Looks /\ k.pc = l /\ k.actual = look[n].actual /\ k.droplet = look[n].droplet
    BY <1>t DEF Looks
  <2> HIDE DEF k
  <2> QED BY <2>1, <2>2
<1>n. NoLook \in Looks /\ NoLook.pc = "idle"
  BY Fresh DEF NoLook
<1>1. CASE JoinReads(n)
  <2>1. UNCHANGED <<row, pc, st, steady, cloud, ip, people, faults>>
    BY <1>1 DEF JoinReads
  <2> DEFINE k == [pc |-> "request", actual |-> row.actual, droplet |-> row.droplet]
  <2>2. look' = [look EXCEPT ![n] = k] /\ k.pc = "request" /\ k.actual = row.actual /\ k.droplet = row.droplet
    BY <1>1 DEF JoinReads
  <2> HIDE DEF k
  <2>3. look'[n] = k /\ \A m \in Joiners : m # n => look'[m] = look[m]
    BY <1>t, <2>2 DEF TypeOK
  <2>4. RowOK(row) /\ RowPart(row, cloud, people, look)
    BY DEF IInv, PeopleInv
  <2>5. LookPart(k, cloud)
    BY <2>2, <2>4 DEF LookPart, RowOK, RowPart, Started, NamesAll
  <2>6. \A m \in Joiners : LookPart(look'[m], cloud')
    BY <2>1, <2>3, <2>5 DEF PeopleInv
  <2>7. Unserved(row, people', look')
    BY <2>1, <2>2, <2>3, <2>4 DEF RowPart, Unserved, Serving
  <2>8. ASSUME NEW q \in Steppers PROVE Unserved(st[q], people', look')
    <3>1. StepPart(pc[q], st[q], row, steady[q], faults) /\ Unserved(st[q], people, look)
      BY DEF PeopleInv, RowPart
    <3> QED BY <2>1, <2>2, <2>3, <3>1 DEF StepPart, Unserved, Serving
  <2>9. people' => BoxAnswers'
    BY <2>1 DEF PeopleInv, BoxAnswers
  <2> QED BY <2>1, <2>6, <2>7, <2>8, <2>9, AroundPeople
<1>2. CASE JoinRequests(n)
  <2>1. UNCHANGED <<row, pc, st, steady, cloud, ip, people>> /\ faults' \in {faults, faults + 1}
    BY <1>2, OneMore DEF JoinRequests
  <2>2. \/ look[n].actual \in {"ready", "draining"} /\ Looking(n, "enter")
        \/ look[n].actual = "booting" /\ Looking(n, "probe")
        \/ look' = [look EXCEPT ![n] = NoLook]
    BY <1>2 DEF JoinRequests
  <2> QED BY <1>k, <1>n, <2>1, <2>2, JoinGoesOn DEF Serving
<1>3. CASE JoinProbes(n)
  <2>1. UNCHANGED <<row, pc, st, steady, cloud, ip, people, faults>> /\ look[n].pc = "probe"
    BY <1>3 DEF JoinProbes
  <2>2. Looking(n, "mark") \/ look' = [look EXCEPT ![n] = NoLook]
    BY <1>3 DEF JoinProbes
  <2>3. look[n].actual \in Serving
    BY <1>t, <2>1 DEF LookPart
  <2> QED BY <1>k, <1>n, <2>1, <2>2, <2>3, JoinGoesOn
<1>4. CASE MarkSFUBoxReady(n)
  <2>1. UNCHANGED <<pc, st, steady, cloud, ip, people>> /\ look[n].pc = "mark" /\ faults' \in {faults, faults + 1}
    BY <1>4, OneMore DEF MarkSFUBoxReady
  <2>2. Looking(n, "enter") \/ look' = [look EXCEPT ![n] = NoLook]
    BY <1>4 DEF MarkSFUBoxReady
  <2>3. look[n].actual \in Serving
    BY <1>t, <2>1 DEF LookPart
  <2>4. row'.droplet = row.droplet /\ (row'.actual = row.actual \/ (row.actual = "booting" /\ row'.actual = "ready"))
    <3> DEFINE m == [row EXCEPT !.actual = "ready", !.failures = 0, !.wait = FALSE]
    <3>1. row' = row \/ (row.actual = "booting" /\ row' = m)
      BY <1>4 DEF MarkSFUBoxReady
    <3>2. m.actual = "ready" /\ m.droplet = row.droplet
      BY <1>t, Readied DEF TypeOK
    <3> HIDE DEF m
    <3> QED BY <3>1, <3>2
  <2> QED BY <1>k, <1>n, <2>1, <2>2, <2>3, <2>4, JoinGoesOn
<1>5. CASE JoinEnters(n)
  <2>1. /\ UNCHANGED <<row, pc, st, steady, cloud, ip, faults>> /\ look[n].pc = "enter"
        /\ people' = (people \/ BoxAnswers) /\ look' = [look EXCEPT ![n] = NoLook]
    BY <1>5 DEF JoinEnters
  <2>2. people' => BoxAnswers /\ BoxAnswers'
    BY <2>1 DEF PeopleInv, BoxAnswers
  <2>3. /\ look'[n] = NoLook
        /\ \A m \in Joiners : m # n => look'[m] = look[m]
    BY <1>t, <2>1 DEF TypeOK
  <2>4. \A m \in Joiners : LookPart(look'[m], cloud')
    <3>1. LookPart(NoLook, cloud)
      BY DEF LookPart, NoLook, RowOK, Started
    <3> QED BY <2>1, <2>3, <3>1 DEF PeopleInv
  <2>5. ASSUME NEW r \in Rows, RowOK(r), RowPart(r, cloud, people, look) PROVE Unserved(r, people', look')
    <3>1. SUFFICES ASSUME r.actual = "creating"
                   PROVE  ~people' /\ \A m \in Joiners : look'[m].actual \in Serving => look'[m].droplet # r.droplet
      BY DEF Unserved
    <3>2. look[n].actual \in Serving /\ look[n].droplet # NoDroplet /\ r.droplet # NoDroplet /\ look[n].droplet # r.droplet
      BY <1>t, <2>1, <2>5, <3>1 DEF LookPart, RowOK, RowPart, Unserved, Serving
    <3>3. ~BoxAnswers
      BY <1>t, <2>5, <3>2 DEF BoxAnswers, LookPart, RowPart, NamesAll
    <3>4. \A m \in Joiners : look'[m].actual \in Serving => look'[m].droplet # r.droplet
      BY <2>3, <2>5, <3>1 DEF RowPart, Unserved, NoLook, Serving
    <3> QED BY <2>2, <3>3, <3>4
  <2>6. Unserved(row, people', look')
    BY <1>t, <2>5 DEF IInv, TypeOK, PeopleInv
  <2>7. \A q \in Steppers : Unserved(st[q], people', look')
    BY <2>5, Here DEF StepOK, PeopleInv
  <2> QED BY <2>1, <2>2, <2>4, <2>6, <2>7, AroundPeople
<1> QED BY <1>1, <1>2, <1>3, <1>4, <1>5 DEF JoinOn

-----------------------------------------------------------------------------
(* The theorem *)

LEMMA InitPeople == Init => PeopleInv
<1> SUFFICES ASSUME Init PROVE PeopleInv
  OBVIOUS
<1>1. /\ row = NewRow /\ \A q \in Steppers : st[q] = NewRow /\ pc[q] = "idle" /\ steady[q] = {}
      /\ \A n \in Joiners : look[n] = NoLook
      /\ people = FALSE
  BY DEF Init
<1>2. RowPart(NewRow, cloud, people, look) /\ StepPart("idle", NewRow, NewRow, {}, faults)
  BY Fresh DEF RowPart, NamesAll, Started, Unserved, StepPart, Early
<1>3. LookPart(NoLook, cloud)
  BY DEF LookPart, NoLook, RowOK, Started
<1> QED BY <1>1, <1>2, <1>3 DEF PeopleInv

LEMMA NextPeople == IInv /\ PeopleInv /\ [Next]_vars => PeopleInv'
<1> SUFFICES ASSUME IInv, PeopleInv, [Next]_vars PROVE PeopleInv'
  OBVIOUS
<1>1. ASSUME NEW p \in Steppers, TakeSFUBoxLease(p) \/ StepOn(p) \/ StepBreaks(p) \/ Crash(p)
      PROVE  PeopleInv'
  BY <1>1, TakePeople, SessionsPeople, ActivityPeople, FindPeople, ParkPeople, VolumePeople, CreatePeople, ProbePeople,
     ReadPeople, AssignPeople, CheckPeople, AskPeople, DeletePeople, SavePeople, ForgetPeople, BreaksPeople DEF StepOn
<1>2. CASE JoinStep
  BY <1>2, JoinsPeople, WorldPeople DEF JoinStep
<1>3. CASE WorldStep
  BY <1>3, WorldPeople, CloudPeople DEF WorldStep
<1>4. CASE UNCHANGED vars
  <2>1. UNCHANGED <<row, pc, st, steady, look, cloud, ip, people, faults>>
    BY <1>4 DEF vars, rowVars, steps, cloudVars, demand
  <2> QED BY <2>1, ElsewherePeople
<1> QED BY <1>1, <1>2, <1>3, <1>4 DEF Next

(* The server is not deleted under people who have been on it since the step
   began, unless LiveKit fails to answer and the health check fails as well:
   with one fault, or with either call always answered and any number of other
   faults (crashes, errors of the cloud and the database, lost saves), never. *)
THEOREM NeverDeletedUnderPeople ==
    ASSUME MaxFaults < 2 \/ "activity" \notin Events \/ "probe" \notin Events
    PROVE  Spec => DeletesUnoccupied
<1> DEFINE A == \A p \in Steppers : Deletes(p) => "people" \notin steady[p]
<1>1. IInv /\ PeopleInv /\ [Next]_vars => [A]_vars
  <2> SUFFICES ASSUME IInv, PeopleInv, Next, NEW p \in Steppers, Deletes(p), "people" \in steady[p]
               PROVE  FALSE
    OBVIOUS
  <2>1. st[p].actual # "deleting" /\ pc[p] \in {"delete", "timeout"}
    BY Deleting DEF Deletes
  <2>2. Met(pc[p], st[p], faults)
    BY Occupied
  <2>3. {"activity", "probe"} \subseteq Events /\ 2 <= faults
    BY <2>1, <2>2 DEF Met
  <2> QED BY <2>3, MaxFaultsAssumption DEF IInv, TypeOK
<1>2. Spec => []PeopleInv
  BY InitPeople, NextPeople, Invariant, PTL DEF Spec
<1> QED BY <1>1, <1>2, Invariant, PTL DEF Spec, DeletesUnoccupied

-----------------------------------------------------------------------------
(* A ready box stays ready, but for the joins *)

Rising == {"creating", "booting"}

(* No step has a copy of the row from before it was ready. *)
Behind == \A p \in Steppers : st[p].actual \in Rising => row.actual \notin {"ready", "draining"}

(* A step's row is at one of those stages only when it was before, or when it
   finds or creates a droplet. *)
LEMMA Rises ==
    ASSUME IInv, NEW p \in Steppers, StepOn(p) \/ StepBreaks(p), ~ReleaseSFUBoxLease(p)
    PROVE  /\ st'[p].actual \in Rising => st[p].actual \in Rising \/ pc[p] \in {"find", "create"}
           /\ \A q \in Steppers : q # p => st'[q] = st[q]
           /\ UNCHANGED row \/ SaveSFUBox(p)
<1>t. st \in [Steppers -> Rows] /\ st[p] \in Rows /\ in[p] \in Inputs
  BY DEF IInv, TypeOK
<1>r. ASSUME NEW r, SetRow(p, r), UNCHANGED row,
             r.actual \in Rising => st[p].actual \in Rising \/ pc[p] \in {"find", "create"}
      PROVE  /\ st'[p].actual \in Rising => st[p].actual \in Rising \/ pc[p] \in {"find", "create"}
             /\ \A q \in Steppers : q # p => st'[q] = st[q]
             /\ UNCHANGED row \/ SaveSFUBox(p)
  BY <1>t, <1>r DEF SetRow
<1>f. ASSUME NEW r \in Rows, r.actual = st[p].actual
      PROVE  Failed(r).actual \in Rising => st[p].actual \in Rising
  BY <1>f, FailedRow DEF Rising
<1>a. \A b \in BOOLEAN : [st[p] EXCEPT !.alerted = @ \/ b].actual = st[p].actual
  BY <1>t, Alerted
<1>1. CASE UNCHANGED st /\ (UNCHANGED row \/ SaveSFUBox(p))
  BY <1>1
<1>2. CASE ReadActivity(p)
  <2>1. UNCHANGED row
    BY <1>2 DEF ReadActivity, rowVars
  <2>2. PICK w \in BOOLEAN : SetRow(p, Resume(st[p], w))
    <3>1. WantedUp(in'[p]) \in BOOLEAN
      BY DEF WantedUp, NeededBySession
    <3> QED BY <1>2, <3>1 DEF ReadActivity
  <2>3. Resume(st[p], w).actual \in Rising => st[p].actual \in Rising
    BY <1>t, ResumedRow DEF Rising
  <2> QED BY <1>r, <2>1, <2>2, <2>3
<1>3. CASE FindManaged(p)
  <2>1. PICK r : SetRow(p, r)
    BY <1>t, <1>3 DEF FindManaged, SetRow
  <2> QED BY <1>3, <1>r, <2>1 DEF FindManaged
<1>4. CASE CreateDroplet(p)
  <2>1. PICK r : SetRow(p, r)
    BY <1>4 DEF CreateDroplet
  <2> QED BY <1>4, <1>r, <2>1 DEF CreateDroplet
<1>5. CASE VolumeByName(p)
  <2>1. UNCHANGED row /\ (UNCHANGED st \/ SetRow(p, Failed(st[p])))
    BY <1>5 DEF VolumeByName, rowVars
  <2> QED BY <1>1, <1>f, <1>r, <1>t, <2>1
<1>6. CASE Probe(p)
  <2> DEFINE r == [st[p] EXCEPT !.actual = "ready", !.failures = 0, !.wait = FALSE, !.alerted = FALSE]
  <2>1. UNCHANGED row /\ (UNCHANGED st \/ SetRow(p, r))
    BY <1>6 DEF Probe, rowVars
  <2>2. r.actual = "ready"
    BY <1>t, Readied
  <2> HIDE DEF r
  <2> QED BY <1>1, <1>r, <2>1, <2>2 DEF Rising
<1>7. CASE ReadDroplet(p)
  <2>1. UNCHANGED row /\ (UNCHANGED st \/ SetRow(p, Lost(st[p])))
    BY <1>7 DEF ReadDroplet
  <2>2. Lost(st[p]).actual \in {"down", "failed"}
    BY <1>t, LostRow
  <2> QED BY <1>1, <1>r, <2>1, <2>2 DEF Rising
<1>8. CASE AssignIP(p)
  <2>1. UNCHANGED row
    BY <1>8 DEF AssignIP, rowVars
  <2>2. \/ UNCHANGED st
        \/ st[p].actual = "creating" /\ SetRow(p, [st[p] EXCEPT !.actual = "booting"])
        \/ SetRow(p, st[p])
        \/ \E stuck \in BOOLEAN : SetRow(p, [st[p] EXCEPT !.alerted = @ \/ (st[p].actual = "creating" /\ stuck)])
    BY <1>8 DEF AssignIP
  <2>3. ASSUME NEW stuck \in BOOLEAN, SetRow(p, [st[p] EXCEPT !.alerted = @ \/ (st[p].actual = "creating" /\ stuck)])
        PROVE  \E r : SetRow(p, r) /\ r.actual = st[p].actual
    <3> DEFINE b == st[p].actual = "creating" /\ stuck
               r == [st[p] EXCEPT !.alerted = @ \/ b]
    <3>1. SetRow(p, r)
      BY <2>3
    <3>2. b \in BOOLEAN
      OBVIOUS
    <3> HIDE DEF b
    <3>3. r.actual = st[p].actual
      BY <1>a, <3>2
    <3> HIDE DEF r
    <3> QED BY <3>1, <3>3
  <2>4. CASE st[p].actual = "creating" /\ SetRow(p, [st[p] EXCEPT !.actual = "booting"])
    <3>1. st[p].actual \in Rising
      BY <2>4 DEF Rising
    <3> QED BY <1>r, <2>1, <2>4, <3>1
  <2>5. CASE \E r : SetRow(p, r) /\ r.actual = st[p].actual
    BY <1>r, <2>1, <2>5
  <2> QED BY <1>1, <2>1, <2>2, <2>3, <2>4, <2>5
<1>9. CASE DrainCheck(p)
  <2> DEFINE r == [st[p] EXCEPT !.actual = "draining"]
  <2>1. UNCHANGED row /\ (UNCHANGED st \/ SetRow(p, r))
    BY <1>9 DEF DrainCheck, rowVars
  <2>2. r.actual = "draining"
    BY <1>t, ToState, Values
  <2> HIDE DEF r
  <2> QED BY <1>1, <1>r, <2>1, <2>2 DEF Rising
<1>10. CASE AskFirst(p)
  <2> DEFINE b == pc[p] = "late"
             r == [st[p] EXCEPT !.alerted = @ \/ b]
  <2>1. UNCHANGED row /\ (UNCHANGED st \/ SetRow(p, r))
    BY <1>10 DEF AskFirst, rowVars
  <2>2. b \in BOOLEAN
    OBVIOUS
  <2> HIDE DEF b
  <2>3. r.actual = st[p].actual
    BY <1>a, <2>2
  <2> HIDE DEF r
  <2> QED BY <1>1, <1>r, <2>1, <2>3
<1>11. CASE DeleteDroplet(p)
  <2> DEFINE d == [st[p] EXCEPT !.actual = "deleting"]
  <2>1. UNCHANGED row /\ \E r \in {d, st[p]} : SetRow(p, r) \/ SetRow(p, Failed(r))
    BY <1>11 DEF DeleteDroplet, rowVars
  <2>2. d \in Rows /\ d.actual = "deleting"
    BY <1>t, ToState, Values
  <2> HIDE DEF d
  <2>3. ASSUME NEW r \in {d, st[p]}
        PROVE  (r.actual \in Rising => st[p].actual \in Rising) /\ (Failed(r).actual \in Rising => st[p].actual \in Rising)
    <3>1. r \in Rows
      BY <1>t, <2>2
    <3>2. Failed(r).actual = r.actual \/ Failed(r).actual = "failed"
      BY <3>1, FailedRow
    <3> QED BY <2>2, <3>2 DEF Rising
  <2> QED BY <1>r, <2>1, <2>3
<1>12. CASE ReadSessions(p) \/ ReadFinalizing(p) \/ ReadClips(p) \/ ParkIP(p) \/ SaveSFUBox(p) \/ StepBreaks(p)
  BY <1>1, <1>12 DEF ReadSessions, ReadFinalizing, ReadClips, ParkIP, SaveSFUBox, StepBreaks, rowVars
<1> QED BY <1>2, <1>3, <1>4, <1>5, <1>6, <1>7, <1>8, <1>9, <1>10, <1>11, <1>12 DEF StepOn

LEMMA BehindSteps ==
    ASSUME IInv, PeopleInv, Behind, NEW p \in Steppers, TakeSFUBoxLease(p) \/ StepOn(p) \/ StepBreaks(p) \/ Crash(p)
    PROVE  Behind'
<1>t. st \in [Steppers -> Rows]
  BY DEF IInv, TypeOK
<1>1. ASSUME NEW q \in Steppers, q # p PROVE st[q].actual \notin Rising
  <2>1. pc[q] = "idle"
    BY <1>1, NobodyAssumption
       DEF TakeSFUBoxLease, Begin, StepOn, StepBreaks, Crash, ReadSessions, ReadFinalizing, ReadClips, ReadActivity, FindManaged, ParkIP,
           VolumeByName, CreateDroplet, Probe, ReadDroplet, AssignIP, DrainCheck, AskFirst, DeleteDroplet, SaveSFUBox,
           ReleaseSFUBoxLease, IInv, Lock
  <2> QED BY <2>1, IdleStep DEF Rising
<1>2. ASSUME NEW r, SetRow(p, r), UNCHANGED row, r.actual \in Rising => row.actual \notin {"ready", "draining"}
      PROVE  Behind'
  BY <1>t, <1>1, <1>2 DEF SetRow, Behind
<1>3. CASE TakeSFUBoxLease(p)
  BY <1>2, <1>3 DEF TakeSFUBoxLease, Begin, Rising
<1>4. CASE ReleaseSFUBoxLease(p) \/ Crash(p)
  <2>1. SetRow(p, NewRow) /\ UNCHANGED row
    BY <1>4 DEF ReleaseSFUBoxLease, Crash, Forget, rowVars
  <2> QED BY <1>2, <2>1, Fresh DEF Rising
<1>5. CASE (StepOn(p) \/ StepBreaks(p)) /\ ~ReleaseSFUBoxLease(p)
  <2>1. /\ st'[p].actual \in Rising => st[p].actual \in Rising \/ pc[p] \in {"find", "create"}
        /\ \A q \in Steppers : q # p => st'[q] = st[q]
        /\ UNCHANGED row \/ SaveSFUBox(p)
    BY <1>5, Rises
  <2>2. CASE UNCHANGED row
    <3>1. st'[p].actual \in Rising => row.actual \notin {"ready", "draining"}
      BY <2>1, NoneNamed DEF Behind
    <3> QED BY <1>1, <2>1, <2>2, <3>1 DEF Behind
  <2>3. CASE SaveSFUBox(p)
    <3>1. UNCHANGED st /\ row'.actual = st[p].actual
      BY <2>3, SavedRow DEF SaveSFUBox
    <3> QED BY <1>1, <3>1 DEF Behind, Rising
  <2> QED BY <2>1, <2>2, <2>3
<1> QED BY <1>3, <1>4, <1>5

LEMMA BehindKeeps == ASSUME Joiners = {} PROVE IInv /\ PeopleInv /\ Behind /\ [Next]_vars => Behind'
<1> SUFFICES ASSUME IInv, PeopleInv, Behind, [Next]_vars PROVE Behind'
  OBVIOUS
<1>1. ASSUME NEW p \in Steppers, TakeSFUBoxLease(p) \/ StepOn(p) \/ StepBreaks(p) \/ Crash(p)
      PROVE  Behind'
  BY <1>1, BehindSteps
<1>2. ASSUME row'.actual = row.actual, \A q \in Steppers : st'[q].actual = st[q].actual
      PROVE  Behind'
  BY <1>2 DEF Behind
<1>3. CASE JoinStep
  BY <1>2, <1>3, WorldRows DEF JoinStep
<1>4. CASE WorldStep
  <2>1. ASSUME NEW d \in Droplets, ComesUp(d) \/ Vanishes(d) PROVE UNCHANGED <<row, st>>
    BY <2>1 DEF ComesUp, Vanishes, rowVars, steps
  <2> QED BY <1>2, <1>4, <2>1, WorldRows DEF WorldStep
<1>5. CASE UNCHANGED vars
  BY <1>2, <1>5 DEF vars, rowVars, steps
<1> QED BY <1>1, <1>3, <1>4, <1>5 DEF Next

(* The comment's "booting -> ready ... safe without the lease" fails by the
   joins alone: without them no step turns a ready row back to booting. *)
THEOREM OnlyJoinsUndoReady ==
    ASSUME Joiners = {}
    PROVE  Spec => ReadyIsNotUndone
<1> DEFINE A == row.actual = "ready" /\ row'.droplet = row.droplet => row'.actual # "booting"
<1>1. IInv /\ PeopleInv /\ Behind /\ [Next]_vars => [A]_vars
  <2> SUFFICES ASSUME IInv, PeopleInv, Behind, Next, row.actual = "ready" PROVE row'.actual # "booting"
    OBVIOUS
  <2>1. ASSUME NEW p \in Steppers, TakeSFUBoxLease(p) \/ StepOn(p) \/ StepBreaks(p) \/ Crash(p)
        PROVE  row'.actual # "booting"
    <3>1. UNCHANGED row \/ SaveSFUBox(p)
      <4>1. CASE TakeSFUBoxLease(p) \/ ReleaseSFUBoxLease(p) \/ Crash(p)
        BY <4>1 DEF TakeSFUBoxLease, Begin, ReleaseSFUBoxLease, Crash, rowVars
      <4> QED BY <2>1, <4>1, Rises
    <3>2. CASE SaveSFUBox(p)
      BY <3>2, SavedRow DEF Behind, Rising
    <3> QED BY <3>1, <3>2
  <2>2. CASE JoinStep
    BY <2>2, WorldRows DEF JoinStep
  <2>3. CASE WorldStep
    <3>1. ASSUME NEW d \in Droplets, ComesUp(d) \/ Vanishes(d) PROVE UNCHANGED row
      BY <3>1 DEF ComesUp, Vanishes, rowVars
    <3> QED BY <2>3, <3>1, WorldRows DEF WorldStep
  <2> QED BY <2>1, <2>2, <2>3 DEF Next
<1>2. Init => Behind
  BY Fresh DEF Init, Behind, Rising
<1>3. Spec => []PeopleInv
  BY InitPeople, NextPeople, Invariant, PTL DEF Spec
<1>4. Spec => []Behind
  BY <1>2, <1>3, BehindKeeps, Invariant, PTL DEF Spec
<1> QED BY <1>1, <1>3, <1>4, Invariant, PTL DEF Spec, ReadyIsNotUndone
=============================================================================
