--------------------------- MODULE SFUBox_proofs ---------------------------
(***************************************************************************)
(* Proofs about SFUBox, for any number of instances, joins and droplets:   *)
(* the types, that the row names a droplet exactly when there is one to    *)
(* look after, that there are never two droplets, and that none is deleted *)
(* while a session, clips or a request have needed it since the step began.*)
(***************************************************************************)
EXTENDS SFUBox, TLAPS

-----------------------------------------------------------------------------
(* Rows *)

(* The row names a droplet exactly while there is one to look after. *)
RowOK(r) == r.droplet = NoDroplet <=> r.actual \in {"down", "failed"}

LEMMA Fields ==
    ASSUME NEW r \in Rows
    PROVE  /\ r.actual \in Actuals
           /\ r.droplet \in DropletOrNone
           /\ r.failures \in 0 .. MaxFailures
           /\ r.wait \in BOOLEAN
           /\ r.alerted \in BOOLEAN
  BY DEF Rows

LEMMA Values ==
    /\ "down" \in Actuals /\ "creating" \in Actuals /\ "booting" \in Actuals /\ "ready" \in Actuals
    /\ "draining" \in Actuals /\ "deleting" \in Actuals /\ "failed" \in Actuals
    /\ NoDroplet \in DropletOrNone /\ 0 \in 0 .. MaxFailures
  BY MaxFailuresAssumption DEF Actuals, DropletOrNone

(* A row one of whose fields, or several, take values of their types is a row. *)
LEMMA WithActual ==
    ASSUME NEW r \in Rows, NEW a \in Actuals
    PROVE  [r EXCEPT !.actual = a] \in Rows
  BY DEF Rows

LEMMA WithDroplet ==
    ASSUME NEW r \in Rows, NEW a \in Actuals, NEW d \in DropletOrNone
    PROVE  [r EXCEPT !.droplet = d, !.actual = a] \in Rows /\ [r EXCEPT !.actual = a, !.droplet = d] \in Rows
  BY DEF Rows

LEMMA WithAlerted ==
    ASSUME NEW r \in Rows, NEW b \in BOOLEAN
    PROVE  [r EXCEPT !.alerted = b] \in Rows
  BY DEF Rows

LEMMA WithWait ==
    ASSUME NEW r \in Rows, NEW b \in BOOLEAN
    PROVE  [r EXCEPT !.wait = b] \in Rows
  BY DEF Rows

LEMMA WithCount ==
    ASSUME NEW r \in Rows, NEW a \in Actuals, NEW f \in 0 .. MaxFailures, NEW w \in BOOLEAN
    PROVE  [r EXCEPT !.actual = a, !.failures = f, !.wait = w] \in Rows
  BY DEF Rows

LEMMA WithAll ==
    ASSUME NEW r \in Rows, NEW a \in Actuals, NEW f \in 0 .. MaxFailures, NEW w \in BOOLEAN, NEW b \in BOOLEAN
    PROVE  [r EXCEPT !.actual = a, !.failures = f, !.wait = w, !.alerted = b] \in Rows
  BY DEF Rows

LEMMA WithFailure ==
    ASSUME NEW r \in Rows, NEW a \in Actuals, NEW f \in 0 .. MaxFailures, NEW w \in BOOLEAN, NEW b \in BOOLEAN
    PROVE  [r EXCEPT !.failures = f, !.wait = w, !.actual = a, !.alerted = b] \in Rows
  BY DEF Rows

(* r's state and droplet after each of the updates the actions make. *)
LEMMA ToState ==
    ASSUME NEW r \in Rows, NEW a \in Actuals
    PROVE  LET q == [r EXCEPT !.actual = a]
           IN  q \in Rows /\ q.actual = a /\ q.droplet = r.droplet
<1>1. [r EXCEPT !.actual = a].actual = a /\ [r EXCEPT !.actual = a].droplet = r.droplet
  BY DEF Rows
<1> QED BY <1>1, WithActual

LEMMA Alerted ==
    ASSUME NEW r \in Rows, NEW b \in BOOLEAN
    PROVE  LET q == [r EXCEPT !.alerted = @ \/ b]
           IN  q \in Rows /\ q.actual = r.actual /\ q.droplet = r.droplet
<1> DEFINE c == r.alerted \/ b
           q == [r EXCEPT !.alerted = c]
<1>1. c \in BOOLEAN
  OBVIOUS
<1>2. q.actual = r.actual /\ q.droplet = r.droplet
  BY DEF Rows
<1>3. q \in Rows
  <2> HIDE DEF c
  <2> QED BY <1>1, WithAlerted, Zenon
<1>4. q = [r EXCEPT !.alerted = @ \/ b]
  OBVIOUS
<1> HIDE DEF q
<1> QED BY <1>2, <1>3, <1>4

LEMMA Rested ==
    ASSUME NEW r \in Rows
    PROVE  LET q == [r EXCEPT !.wait = FALSE]
           IN  q \in Rows /\ q.actual = r.actual /\ q.droplet = r.droplet
<1>1. [r EXCEPT !.wait = FALSE].actual = r.actual /\ [r EXCEPT !.wait = FALSE].droplet = r.droplet
  BY DEF Rows
<1>2. [r EXCEPT !.wait = FALSE] \in Rows
  BY WithWait, Zenon
<1> QED BY <1>1, <1>2

LEMMA Readied ==
    ASSUME NEW r \in Rows
    PROVE  LET q == [r EXCEPT !.actual = "ready", !.failures = 0, !.wait = FALSE, !.alerted = FALSE]
               m == [r EXCEPT !.actual = "ready", !.failures = 0, !.wait = FALSE]
           IN  /\ q \in Rows /\ q.actual = "ready" /\ q.droplet = r.droplet
               /\ m \in Rows /\ m.actual = "ready" /\ m.droplet = r.droplet
<1> DEFINE q == [r EXCEPT !.actual = "ready", !.failures = 0, !.wait = FALSE, !.alerted = FALSE]
           m == [r EXCEPT !.actual = "ready", !.failures = 0, !.wait = FALSE]
<1>1. "ready" \in Actuals /\ 0 \in 0 .. MaxFailures
  BY Values
<1>2. q \in Rows
  BY <1>1, WithAll, Zenon
<1>3. m \in Rows
  BY <1>1, WithCount, Zenon
<1>4. q.actual = "ready" /\ q.droplet = r.droplet /\ m.actual = "ready" /\ m.droplet = r.droplet
  BY DEF Rows
<1> HIDE DEF q, m
<1> QED BY <1>2, <1>3, <1>4 DEF q, m

(* A failure keeps the droplet, and the state unless it gives up. *)
LEMMA FailedRow ==
    ASSUME NEW r \in Rows
    PROVE  /\ Failed(r) \in Rows
           /\ Failed(r).droplet = r.droplet
           /\ Failed(r).actual = r.actual \/ (r.actual = "down" /\ Failed(r).actual = "failed")
<1> DEFINE n == IF r.failures < MaxFailures THEN r.failures + 1 ELSE MaxFailures
           a == IF n = MaxFailures /\ r.actual = "down" THEN "failed" ELSE r.actual
           b == r.alerted \/ n = MaxFailures
           q == [r EXCEPT !.failures = n, !.wait = TRUE, !.actual = a, !.alerted = b]
<1>1. n \in 0 .. MaxFailures
  BY Fields, MaxFailuresAssumption
<1>2. a \in Actuals /\ (a = r.actual \/ (r.actual = "down" /\ a = "failed"))
  BY Fields DEF Actuals
<1>3. b \in BOOLEAN
  OBVIOUS
<1>4. Failed(r) = q
  BY DEF Failed
<1> HIDE DEF n, a, b
<1>5. q \in Rows
  BY <1>1, <1>2, <1>3, WithFailure, Zenon
<1>6. q.actual = a /\ q.droplet = r.droplet
  BY DEF Rows
<1> HIDE DEF q
<1> QED BY <1>2, <1>4, <1>5, <1>6

LEMMA GoneRow ==
    ASSUME NEW r \in Rows
    PROVE  /\ WithoutDroplet(r) \in Rows
           /\ WithoutDroplet(r).actual = "down"
           /\ WithoutDroplet(r).droplet = NoDroplet
<1> DEFINE q == [r EXCEPT !.actual = "down", !.droplet = NoDroplet]
<1>1. q \in Rows
  BY Values, WithDroplet
<1>2. q.actual = "down" /\ q.droplet = NoDroplet
  BY DEF Rows
<1> HIDE DEF q
<1> QED BY <1>1, <1>2 DEF WithoutDroplet, q

(* A droplet found to be gone leaves a row that is down or given up on. *)
LEMMA LostRow ==
    ASSUME NEW r \in Rows
    PROVE  /\ Lost(r) \in Rows
           /\ Lost(r).droplet = NoDroplet
           /\ Lost(r).actual \in {"down", "failed"}
<1> DEFINE g == WithoutDroplet(r)
<1>g. g \in Rows /\ g.actual = "down" /\ g.droplet = NoDroplet
  BY GoneRow
<1>1. CASE r.actual \in {"creating", "booting"}
  <2>1. Lost(r) = Failed(g)
    BY <1>1 DEF Lost
  <2> HIDE DEF g
  <2> QED BY <1>g, <2>1, FailedRow
<1>2. CASE r.actual = "ready"
  <2> DEFINE q == [g EXCEPT !.alerted = TRUE]
  <2>1. Lost(r) = q
    BY <1>2 DEF Lost
  <2> HIDE DEF g
  <2>2. q \in Rows
    BY <1>g, WithAlerted, Zenon
  <2>3. q.actual = g.actual /\ q.droplet = g.droplet
    BY <1>g DEF Rows
  <2> HIDE DEF q
  <2> QED BY <1>g, <2>1, <2>2, <2>3
<1>3. CASE r.actual \notin {"creating", "booting", "ready"}
  BY <1>3, GoneRow DEF Lost
<1> QED BY <1>1, <1>2, <1>3

(* What boxAct does before its first call keeps the droplet, and whether there is one. *)
LEMMA ResumedRow ==
    ASSUME NEW r \in Rows, NEW wanted \in BOOLEAN
    PROVE  /\ Resume(r, wanted) \in Rows
           /\ Resume(r, wanted).droplet = r.droplet
           /\ \/ Resume(r, wanted).actual = r.actual
              \/ r.actual = "failed" /\ Resume(r, wanted).actual = "down"
              \/ r.actual = "draining" /\ Resume(r, wanted).actual = "ready"
<1>1. CASE r.actual = "failed" /\ ~wanted
  <2> DEFINE q == [r EXCEPT !.actual = "down", !.failures = 0, !.wait = FALSE, !.alerted = FALSE]
  <2>1. Resume(r, wanted) = q
    BY <1>1 DEF Resume
  <2>2. "down" \in Actuals /\ 0 \in 0 .. MaxFailures
    BY Values
  <2>3. q \in Rows
    BY <2>2, WithAll, Zenon
  <2>4. q.actual = "down" /\ q.droplet = r.droplet
    BY DEF Rows
  <2> HIDE DEF q
  <2> QED BY <1>1, <2>1, <2>3, <2>4
<1>2. CASE ~(r.actual = "failed" /\ ~wanted) /\ r.actual = "draining" /\ wanted
  <2> DEFINE q == [r EXCEPT !.actual = "ready"]
  <2>1. Resume(r, wanted) = q
    BY <1>2 DEF Resume
  <2>2. q \in Rows /\ q.actual = "ready" /\ q.droplet = r.droplet
    BY ToState, Values
  <2> HIDE DEF q
  <2> QED BY <1>2, <2>1, <2>2
<1>3. CASE ~(r.actual = "failed" /\ ~wanted) /\ ~(r.actual = "draining" /\ wanted)
  BY <1>3 DEF Resume
<1> QED BY <1>1, <1>2, <1>3

-----------------------------------------------------------------------------
(* The invariant *)

(* A row whose box is being deleted: the cloud has the delete. *)
Doomed(r, c) == r.actual = "deleting" => c[r.droplet] \in {"dying", "absent"}

(* Where a step has a droplet to call about. *)
Calling == {"probe", "read", "assign", "check", "ask", "late", "delete", "timeout"}

(* What holds of one step that is at l with row r, having read i, when s has
   needed the box since it began: its row is in order, it has read what of s
   there was to read by now, and it goes for a delete only with a row that
   was being deleted already, or with nothing read that wants the box. *)
StepOK(l, r, i, s) ==
    /\ RowOK(r)
    /\ l \in Calling => r.actual \notin {"down", "failed"}
    /\ l = "idle" => s = {}
    /\ "requested" \in s => i.requested
    /\ "sessions" \in s /\ l \notin {"sessions", "finalizing", "release"} => i.sessions
    /\ "clips" \in s /\ l \notin {"sessions", "finalizing", "clips", "release"} => i.clips
    /\ l \in {"check", "ask"} => ~WantedUp(i)
    /\ l = "delete" /\ r.actual # "deleting" => ~WantedUp(i)

Lock      == \A p \in Steppers : pc[p] # "idle" => lease = p
StepsOK   == \A p \in Steppers : StepOK(pc[p], st[p], in[p], steady[p])
SteadyNow == \A p \in Steppers : steady[p] \subseteq Current
DoomedAll == Doomed(row, cloud) /\ \A p \in Steppers : Doomed(st[p], cloud)
CreateOK  == \A p \in Steppers : pc[p] = "create" => Exist = {}

IInv == TypeOK /\ Lock /\ StepsOK /\ SteadyNow /\ RowOK(row) /\ DoomedAll /\ OneDroplet /\ CreateOK

(* Sessions that have needed the box since the step began, and that the first
   read did not find, are finalizing, for the second to find. *)
HandedOver ==
    \A p \in Steppers :
        pc[p] = "finalizing" /\ "sessions" \in steady[p] => in[p].sessions \/ sessions = "after"

(* What happens to a droplet that is being deleted, or is gone: nothing, or
   its id is given to a new one. *)
CloudKeeps ==
    \A d \in Droplets : cloud[d] \in {"dying", "absent"} => cloud'[d] \in {"dying", "absent"} \/ Unnamed(d)

(* The variables of the steps themselves, when p goes to l with r and i. *)
LEMMA Advance ==
    ASSUME IInv, NEW p \in Steppers,
           NEW l \in Labels, NEW r \in Rows, NEW i \in Inputs,
           Goto(p, l), SetRow(p, r), SetInputs(p, i),
           \A q \in Steppers : q # p => steady'[q] \subseteq steady[q],
           StepOK(l, r, i, steady'[p]),
           Doomed(r, cloud'),
           CloudKeeps
    PROVE  /\ pc' \in [Steppers -> Labels] /\ st' \in [Steppers -> Rows] /\ in' \in [Steppers -> Inputs]
           /\ StepsOK'
           /\ \A q \in Steppers : Doomed(st'[q], cloud')
           /\ pc'[p] = l
           /\ \A q \in Steppers : q # p => pc'[q] = pc[q]
<1> USE DEF Goto, SetRow, SetInputs
<1>1. pc \in [Steppers -> Labels] /\ st \in [Steppers -> Rows] /\ in \in [Steppers -> Inputs]
  BY DEF IInv, TypeOK
<1>2. pc' \in [Steppers -> Labels] /\ st' \in [Steppers -> Rows] /\ in' \in [Steppers -> Inputs]
  BY <1>1
<1>3. pc'[p] = l /\ st'[p] = r /\ in'[p] = i
  BY <1>1
<1>4. \A q \in Steppers : q # p => pc'[q] = pc[q] /\ st'[q] = st[q] /\ in'[q] = in[q]
  BY <1>1
<1>5. ASSUME NEW q \in Steppers PROVE StepOK(pc'[q], st'[q], in'[q], steady'[q])
  <2>1. CASE q = p
    BY <1>3, <2>1
  <2>2. CASE q # p
    <3>1. StepOK(pc[q], st[q], in[q], steady[q]) /\ steady'[q] \subseteq steady[q]
      BY <2>2 DEF IInv, StepsOK
    <3>2. pc'[q] = pc[q] /\ st'[q] = st[q] /\ in'[q] = in[q]
      BY <1>4, <2>2
    <3> QED BY <3>1, <3>2 DEF StepOK
  <2> QED BY <2>1, <2>2
<1>6. ASSUME NEW q \in Steppers PROVE Doomed(st'[q], cloud')
  <2>1. CASE q = p
    BY <1>3, <2>1 DEF Doomed
  <2>2. CASE q # p
    <3>1. st'[q] = st[q] /\ Doomed(st[q], cloud) /\ st[q] \in Rows /\ RowOK(st[q])
      BY <1>1, <1>4, <2>2 DEF IInv, DoomedAll, StepsOK, StepOK
    <3>2. CASE st[q].actual = "deleting"
      <4>1. st[q].droplet \in Droplets
        BY <3>1, <3>2, Fields DEF RowOK, DropletOrNone
      <4>2. ~Unnamed(st[q].droplet)
        BY DEF Unnamed
      <4> QED BY <3>1, <3>2, <4>1, <4>2 DEF Doomed, CloudKeeps
    <3> QED BY <3>1, <3>2 DEF Doomed
  <2> QED BY <2>1, <2>2
<1> QED BY <1>2, <1>3, <1>4, <1>5, <1>6 DEF StepsOK

(* A row that stays stays in order as far as the cloud is concerned. *)
LEMMA RowDoomed ==
    ASSUME IInv, CloudKeeps, UNCHANGED row
    PROVE  Doomed(row', cloud')
<1>1. Doomed(row, cloud) /\ row \in Rows /\ RowOK(row)
  BY DEF IInv, TypeOK, DoomedAll
<1>2. CASE row.actual = "deleting"
  <2>1. row.droplet \in Droplets
    BY <1>1, <1>2, Fields DEF RowOK, DropletOrNone
  <2>2. ~Unnamed(row.droplet)
    BY DEF Unnamed
  <2> QED BY <1>1, <1>2, <2>1, <2>2 DEF Doomed, CloudKeeps
<1> QED BY <1>1, <1>2 DEF Doomed

(* Most steps leave the cloud alone. *)
LEMMA CloudSame == UNCHANGED cloud => CloudKeeps /\ (OneDroplet => OneDroplet') /\ Exist' = Exist
  BY DEF CloudKeeps, OneDroplet, Exist

(* What has needed the box without a break goes on doing so, or is dropped. *)
Lasting ==
    /\ steady' \in [Steppers -> SUBSET Demands]
    /\ \A q \in Steppers : steady'[q] \subseteq steady[q]
    /\ SteadyNow'
    /\ people' \in BOOLEAN

LEMMA LastingSame ==
    ASSUME IInv, UNCHANGED <<requested, sessions, clips, people, steady>>
    PROVE  Lasting
  BY DEF Lasting, IInv, TypeOK, SteadyNow, Current

LEMMA LastingCutOff ==
    ASSUME IInv, UNCHANGED <<requested, sessions, clips>>, CutOff
    PROVE  Lasting
<1>1. people' \in BOOLEAN /\ (people' => people)
  BY DEF CutOff, IInv, TypeOK
<1>2. \A q \in Steppers : steady'[q] = IF people' THEN steady[q] ELSE steady[q] \ {"people"}
  BY DEF CutOff
<1>3. steady' \in [Steppers -> SUBSET Demands]
  BY DEF CutOff, IInv, TypeOK
<1>4. \A q \in Steppers : steady'[q] \subseteq steady[q]
  BY <1>2
<1>5. SteadyNow'
  <2>1. SUFFICES ASSUME NEW q \in Steppers PROVE steady'[q] \subseteq Current'
    BY DEF SteadyNow
  <2>2. steady[q] \subseteq Current
    BY DEF IInv, SteadyNow
  <2>3. CASE people'
    BY <1>1, <1>2, <2>2, <2>3 DEF Current
  <2>4. CASE ~people'
    BY <1>2, <2>2, <2>4 DEF Current
  <2> QED BY <2>3, <2>4
<1> QED BY <1>1, <1>3, <1>4, <1>5 DEF Lasting

(* Any step of p that changes nothing that is shared but the runs and the
   reserved IP, and makes no create possible with a droplet there. *)
LEMMA Quiet ==
    ASSUME IInv, NEW p \in Steppers,
           NEW l \in Labels, NEW r \in Rows, NEW i \in Inputs,
           Goto(p, l), SetRow(p, r), SetInputs(p, i),
           pc[p] # "idle",
           StepOK(l, r, i, steady[p]),
           Doomed(r, cloud),
           l = "create" => Exist = {},
           UNCHANGED <<row, requested, grace, lease, look, cloud, sessions, clips>>,
           Lasting, runs' \subseteq Droplets, ip' \in DropletOrNone, faults' \in 0 .. MaxFaults
    PROVE  IInv'
<1>1. CloudKeeps /\ OneDroplet' /\ Exist' = Exist
  BY CloudSame DEF IInv
<1>2. Doomed(r, cloud')
  BY DEF Doomed
<1>3. \A q \in Steppers : steady'[q] \subseteq steady[q]
  BY DEF Lasting
<1>4. StepOK(l, r, i, steady'[p])
  BY <1>3 DEF StepOK
<1>5. /\ pc' \in [Steppers -> Labels] /\ st' \in [Steppers -> Rows] /\ in' \in [Steppers -> Inputs]
      /\ StepsOK'
      /\ \A q \in Steppers : Doomed(st'[q], cloud')
      /\ pc'[p] = l
      /\ \A q \in Steppers : q # p => pc'[q] = pc[q]
  BY <1>1, <1>2, <1>3, <1>4, Advance
<1>6. TypeOK'
  BY <1>5 DEF IInv, TypeOK, Lasting
<1>7. Lock'
  BY <1>5 DEF IInv, Lock
<1>8. RowOK(row)'
  BY DEF IInv, RowOK
<1>9. DoomedAll'
  BY <1>1, <1>5, RowDoomed DEF DoomedAll
<1>10. CreateOK'
  BY <1>1, <1>5 DEF IInv, CreateOK
<1>11. SteadyNow'
  BY DEF Lasting
<1> QED BY <1>1, <1>5, <1>6, <1>7, <1>8, <1>9, <1>10, <1>11 DEF IInv

LEMMA FaultTypes ==
    ASSUME TypeOK
    PROVE  /\ \A e : Fault(e) => faults' \in 0 .. MaxFaults
           /\ NoFault => faults' \in 0 .. MaxFaults
           /\ UNCHANGED faults => faults' \in 0 .. MaxFaults
  BY MaxFaultsAssumption DEF TypeOK, Fault, NoFault

(* What the invariant says of p. *)
LEMMA Here ==
    ASSUME IInv, NEW p \in Steppers
    PROVE  /\ st[p] \in Rows /\ in[p] \in Inputs /\ pc[p] \in Labels
           /\ StepOK(pc[p], st[p], in[p], steady[p])
           /\ Doomed(st[p], cloud) /\ steady[p] \subseteq Current
           /\ SetRow(p, st[p]) <=> UNCHANGED st
           /\ SetInputs(p, in[p]) <=> UNCHANGED in
<1>1. st \in [Steppers -> Rows] /\ in \in [Steppers -> Inputs]
  BY DEF IInv, TypeOK
<1>2. (SetRow(p, st[p]) <=> UNCHANGED st) /\ (SetInputs(p, in[p]) <=> UNCHANGED in)
  BY <1>1 DEF SetRow, SetInputs
<1> QED BY <1>2 DEF IInv, TypeOK, StepsOK, DoomedAll, SteadyNow

-----------------------------------------------------------------------------
(* A step's reads and decisions *)

LEMMA InputFields ==
    ASSUME NEW i \in Inputs, NEW b \in BOOLEAN, NEW c \in BOOLEAN, NEW g \in BOOLEAN,
           NEW busy \in {"yes", "no", "unknown"}
    PROVE  /\ [i EXCEPT !.sessions = b, !.due = c, !.grace = g] \in Inputs
           /\ [i EXCEPT !.sessions = b] \in Inputs
           /\ [i EXCEPT !.clips = b] \in Inputs
           /\ [i EXCEPT !.busy = busy] \in Inputs
           /\ WantedUp(i) \in BOOLEAN
  BY DEF Inputs, WantedUp, NeededBySession

LEMMA SessionsKeeps == ASSUME IInv, NEW p \in Steppers, ReadSessions(p) PROVE IInv'
<1> DEFINE now == sessions = "now"
<1>1. PICK due \in {FALSE, now} :
          SetInputs(p, [in[p] EXCEPT !.sessions = now, !.due = due, !.grace = grace])
  BY DEF ReadSessions
<1> DEFINE i == [in[p] EXCEPT !.sessions = now, !.due = due, !.grace = grace]
<1>2. now \in BOOLEAN /\ due \in BOOLEAN /\ grace \in BOOLEAN /\ in[p] \in Inputs
  BY DEF IInv, TypeOK
<1>3. i \in Inputs
  BY <1>2, InputFields, Zenon
<1>4. i.requested = in[p].requested
  BY <1>2 DEF Inputs
<1>5. SetInputs(p, i)
  BY <1>1
<1> HIDE DEF i
<1>6. StepOK("finalizing", st[p], i, steady[p])
  BY <1>4, Here DEF ReadSessions, StepOK, Calling, Current
<1>7. Lasting /\ faults' \in 0 .. MaxFaults
  BY LastingSame, FaultTypes DEF ReadSessions, rowVars, demand, IInv
<1>8. "finalizing" \in Labels
  BY DEF Labels
<1>9. runs' \subseteq Droplets /\ ip' \in DropletOrNone /\ SetRow(p, st[p])
  BY Here DEF ReadSessions, rowVars, cloudVars, IInv, TypeOK
<1> QED BY <1>3, <1>5, <1>6, <1>7, <1>8, <1>9, Here, Quiet DEF ReadSessions, rowVars, cloudVars, demand

LEMMA FinalizingKeeps == ASSUME IInv, HandedOver, NEW p \in Steppers, ReadFinalizing(p) PROVE IInv'
<1>1. PICK f \in BOOLEAN :
          /\ sessions = "after" => f
          /\ SetInputs(p, [in[p] EXCEPT !.sessions = @ \/ f])
  BY DEF ReadFinalizing
<1> DEFINE b == in[p].sessions \/ f
           i == [in[p] EXCEPT !.sessions = b]
<1>2. b \in BOOLEAN /\ in[p] \in Inputs
  BY DEF IInv, TypeOK
<1>3. i \in Inputs
  BY <1>2, InputFields, Zenon
<1>4. i.requested = in[p].requested /\ (i.sessions <=> b)
  BY <1>2 DEF Inputs
<1>5. SetInputs(p, i)
  BY <1>1, Zenon
<1>6. "sessions" \in steady[p] => b
  BY <1>1 DEF ReadFinalizing, HandedOver
<1> HIDE DEF i, b
<1>7. StepOK("clips", st[p], i, steady[p])
  BY <1>4, <1>6, Here DEF ReadFinalizing, StepOK, Calling
<1>8. Lasting /\ faults' \in 0 .. MaxFaults
  BY LastingSame, FaultTypes DEF ReadFinalizing, rowVars, demand, IInv
<1>9. "clips" \in Labels
  BY DEF Labels
<1>10. runs' \subseteq Droplets /\ ip' \in DropletOrNone /\ SetRow(p, st[p])
  BY Here DEF ReadFinalizing, rowVars, cloudVars, IInv, TypeOK
<1> QED BY <1>3, <1>5, <1>7, <1>8, <1>9, <1>10, Here, Quiet DEF ReadFinalizing, rowVars, cloudVars, demand

LEMMA ClipsKeeps == ASSUME IInv, NEW p \in Steppers, ReadClips(p) PROVE IInv'
<1> DEFINE i == [in[p] EXCEPT !.clips = clips]
<1>2. clips \in BOOLEAN /\ in[p] \in Inputs
  BY DEF IInv, TypeOK
<1>3. i \in Inputs
  BY <1>2, InputFields, Zenon
<1>4. i.clips = clips /\ i.requested = in[p].requested /\ i.sessions = in[p].sessions
  BY <1>2 DEF Inputs
<1> HIDE DEF i
<1>5. StepOK("activity", st[p], i, steady[p])
  BY <1>4, Here DEF ReadClips, StepOK, Calling, Current
<1>6. Lasting /\ faults' \in 0 .. MaxFaults
  BY LastingSame, FaultTypes DEF ReadClips, rowVars, demand, IInv
<1>7. "activity" \in Labels
  BY DEF Labels
<1>8. runs' \subseteq Droplets /\ ip' \in DropletOrNone /\ SetRow(p, st[p])
  BY Here DEF ReadClips, rowVars, cloudVars, IInv, TypeOK
<1>9. SetInputs(p, i)
  BY DEF ReadClips, i
<1> QED BY <1>3, <1>5, <1>6, <1>7, <1>8, <1>9, Here, Quiet DEF ReadClips, rowVars, cloudVars, demand

LEMMA ActivityKeeps == ASSUME IInv, NEW p \in Steppers, ReadActivity(p) PROVE IInv'
<1>1. PICK busy \in {"yes", "no", "unknown"} :
          /\ IF st[p].actual \in {"ready", "draining"} THEN Says(busy) ELSE busy = "no" /\ NoFault
          /\ SetInputs(p, [in[p] EXCEPT !.busy = busy])
          /\ SetRow(p, Resume(st[p], WantedUp(in'[p])))
          /\ Goto(p, FirstCall(st[p], WantedUp(in'[p]), busy))
  BY DEF ReadActivity
<1> DEFINE i == [in[p] EXCEPT !.busy = busy]
           w == WantedUp(i)
           r == Resume(st[p], w)
           l == FirstCall(st[p], w, busy)
<1>2. in[p] \in Inputs /\ st[p] \in Rows /\ in'[p] = i
  BY <1>1, Here DEF SetInputs, IInv, TypeOK
<1>3. i \in Inputs
  BY <1>2, InputFields, Zenon
<1>4. i.clips = in[p].clips /\ i.requested = in[p].requested /\ i.sessions = in[p].sessions
  BY <1>2 DEF Inputs
<1>5. SetInputs(p, i) /\ SetRow(p, r) /\ Goto(p, l)
  BY <1>1, <1>2
<1> HIDE DEF i
<1>6. w \in BOOLEAN
  BY <1>3, InputFields
<1>7. /\ r \in Rows /\ r.droplet = st[p].droplet
      /\ \/ r.actual = st[p].actual
         \/ st[p].actual = "failed" /\ r.actual = "down"
         \/ st[p].actual = "draining" /\ r.actual = "ready"
  BY <1>2, <1>6, ResumedRow
<1>8. /\ l \in {"save", "find", "read", "probe", "check", "delete"}
      /\ l \in {"probe", "read", "check", "delete"} => st[p].actual \notin {"down", "failed"}
      /\ l \in {"check", "delete"} => ~w
  BY <1>2, Fields DEF FirstCall
<1> HIDE DEF r, l
<1>9. RowOK(st[p]) /\ StepOK("activity", st[p], in[p], steady[p]) /\ Doomed(st[p], cloud)
  BY Here DEF StepOK, ReadActivity
<1>10. RowOK(r) /\ Doomed(r, cloud)
  BY <1>7, <1>9 DEF RowOK, Doomed
<1>11. StepOK(l, r, i, steady[p])
  BY <1>4, <1>7, <1>8, <1>9, <1>10 DEF StepOK, Calling
<1>12. Lasting /\ faults' \in 0 .. MaxFaults
  BY <1>1, LastingSame, FaultTypes DEF ReadActivity, rowVars, demand, IInv, Says
<1>13. l \in Labels /\ l # "create"
  BY <1>8 DEF Labels
<1>14. runs' \subseteq Droplets /\ ip' \in DropletOrNone
  BY DEF ReadActivity, rowVars, cloudVars, IInv, TypeOK
<1>15. pc[p] # "idle" /\ UNCHANGED <<row, requested, grace, lease, look, cloud, sessions, clips>>
  BY DEF ReadActivity, rowVars, cloudVars, demand
<1> QED BY <1>3, <1>5, <1>7, <1>10, <1>11, <1>12, <1>13, <1>14, <1>15, Quiet

-----------------------------------------------------------------------------
(* A step's calls *)

(* p goes to l with its row and its inputs as they are. *)
LEMMA Stays ==
    ASSUME IInv, NEW p \in Steppers, NEW l \in Labels, Goto(p, l), l \notin {"idle", "sessions", "finalizing", "clips"},
           pc[p] \notin {"idle", "sessions", "finalizing", "clips", "release"},
           l = "create" => Exist = {},
           l \in Calling => st[p].actual \notin {"down", "failed"},
           l \in {"check", "ask"} \/ (l = "delete" /\ st[p].actual # "deleting") => ~Wanted(p),
           UNCHANGED <<st, in>>,
           UNCHANGED <<row, requested, grace, lease, look, cloud, sessions, clips>>,
           Lasting, runs' \subseteq Droplets, ip' \in DropletOrNone, faults' \in 0 .. MaxFaults
    PROVE  IInv'
<1>1. StepOK(l, st[p], in[p], steady[p])
  BY Here DEF StepOK, Wanted
<1> QED BY <1>1, Here, Quiet

(* p goes to save the row r. *)
LEMMA GoesToSave ==
    ASSUME IInv, NEW p \in Steppers, NEW r \in Rows, Goto(p, "save"), SetRow(p, r),
           pc[p] \notin {"idle", "sessions", "finalizing", "clips", "release"},
           RowOK(r), Doomed(r, cloud),
           UNCHANGED in,
           UNCHANGED <<row, requested, grace, lease, look, cloud, sessions, clips>>,
           Lasting, runs' \subseteq Droplets, ip' \in DropletOrNone, faults' \in 0 .. MaxFaults
    PROVE  IInv'
<1>1. StepOK("save", r, in[p], steady[p])
  BY Here DEF StepOK, Calling
<1>2. "save" \in Labels
  BY DEF Labels
<1>3. pc[p] # "idle" /\ ("save" = "create" => Exist = {})
  OBVIOUS
<1> QED BY <1>1, <1>2, <1>3, Here, Quiet

LEMMA FindKeeps == ASSUME IInv, NEW p \in Steppers, FindManaged(p) PROVE IInv'
<1>1. UNCHANGED <<row, requested, grace, lease, look, cloud, ip, sessions, clips, people, in, steady>>
  BY DEF FindManaged, cloudVars, demand
<1>2. Lasting /\ ip' \in DropletOrNone /\ pc[p] = "find"
  BY <1>1, LastingSame DEF IInv, TypeOK, FindManaged
<1>3. faults' \in 0 .. MaxFaults
  BY FaultTypes DEF FindManaged, IInv
<1>4. ASSUME NEW d \in Exist,
             SetRow(p, [st[p] EXCEPT !.droplet = d, !.actual = IF cloud[d] = "new" THEN "creating" ELSE "booting"]),
             runs' = runs \cup {d}, Goto(p, "save")
      PROVE  IInv'
  <2> DEFINE a == IF cloud[d] = "new" THEN "creating" ELSE "booting"
             r == [st[p] EXCEPT !.droplet = d, !.actual = a]
  <2>1. a \in Actuals /\ a \in {"creating", "booting"} /\ d \in DropletOrNone /\ d # NoDroplet /\ st[p] \in Rows
    BY Values, NoDropletAssumption, Here DEF Exist, DropletOrNone
  <2>2. SetRow(p, r)
    BY <1>4
  <2> HIDE DEF a
  <2>3. r \in Rows
    BY <2>1, WithDroplet, Zenon
  <2>4. r.actual = a /\ r.droplet = d
    BY <2>1 DEF Rows
  <2> HIDE DEF r
  <2>5. RowOK(r) /\ Doomed(r, cloud)
    BY <2>1, <2>4 DEF RowOK, Doomed
  <2>6. runs' \subseteq Droplets
    BY <1>4 DEF IInv, TypeOK, Exist
  <2> QED BY <1>1, <1>2, <1>3, <1>4, <2>2, <2>3, <2>5, <2>6, GoesToSave
<1>5. ASSUME Goto(p, IF Wanted(p) THEN "volume" ELSE "park"), UNCHANGED <<st, runs>>
      PROVE  IInv'
  <2> DEFINE l == IF Wanted(p) THEN "volume" ELSE "park"
  <2>1. l \in Labels /\ l \notin {"idle", "sessions", "finalizing", "clips", "create", "check", "ask", "delete"} /\ l \notin Calling
    BY DEF Labels, Calling
  <2>2. Goto(p, l) /\ runs' \subseteq Droplets
    BY <1>5 DEF IInv, TypeOK
  <2> HIDE DEF l
  <2> QED BY <1>1, <1>2, <1>3, <1>5, <2>1, <2>2, Stays
<1> QED BY <1>4, <1>5 DEF FindManaged

LEMMA ParkKeeps == ASSUME IInv, NEW p \in Steppers, ParkIP(p) PROVE IInv'
<1>1. UNCHANGED <<row, requested, grace, lease, runs, look, cloud, sessions, clips, st, in, faults>>
  BY DEF ParkIP, rowVars
<1>2. Lasting /\ pc[p] = "park" /\ Goto(p, "save")
  BY <1>1, LastingCutOff DEF ParkIP
<1>3. runs' \subseteq Droplets /\ ip' \in DropletOrNone /\ faults' \in 0 .. MaxFaults
  BY <1>1 DEF ParkIP, IInv, TypeOK, DropletOrNone
<1>4. "save" \in Labels /\ "save" \notin Calling
  BY DEF Labels, Calling
<1> QED BY <1>1, <1>2, <1>3, <1>4, Stays

(* A step that leaves everything but its own variables and the faults. *)
LEMMA Alone ==
    ASSUME IInv, UNCHANGED <<rowVars, in, steady, look, cloudVars, demand>>
    PROVE  /\ UNCHANGED <<row, requested, grace, lease, look, cloud, sessions, clips, in, runs>>
           /\ Lasting /\ runs' \subseteq Droplets /\ ip' \in DropletOrNone
<1>1. UNCHANGED <<row, requested, grace, lease, runs, look, cloud, ip, sessions, clips, people, in, steady>>
  BY DEF rowVars, cloudVars, demand
<1> QED BY <1>1, LastingSame DEF IInv, TypeOK

LEMMA VolumeKeeps == ASSUME IInv, NEW p \in Steppers, VolumeByName(p) PROVE IInv'
<1>1. UNCHANGED <<rowVars, in, steady, look, cloudVars, demand>> /\ pc[p] = "volume"
  BY DEF VolumeByName
<1>2. faults' \in 0 .. MaxFaults
  BY FaultTypes DEF VolumeByName, IInv
<1>3. CASE Exist = {} /\ Goto(p, "create") /\ UNCHANGED st
  <2>1. "create" \in Labels /\ "create" \notin Calling
    BY DEF Labels, Calling
  <2> QED BY <1>1, <1>2, <1>3, <2>1, Alone, Stays
<1>4. CASE SetRow(p, Failed(st[p])) /\ Goto(p, "save")
  <2> DEFINE r == Failed(st[p])
  <2>1. /\ r \in Rows /\ r.droplet = st[p].droplet
        /\ r.actual = st[p].actual \/ (st[p].actual = "down" /\ r.actual = "failed")
    BY FailedRow, Here
  <2>2. SetRow(p, r) /\ Goto(p, "save")
    BY <1>4
  <2> HIDE DEF r
  <2>3. RowOK(r) /\ Doomed(r, cloud)
    BY <2>1, Here DEF StepOK, RowOK, Doomed
  <2> QED BY <1>1, <1>2, <2>1, <2>2, <2>3, Alone, GoesToSave
<1> QED BY <1>3, <1>4 DEF VolumeByName

LEMMA ProbeKeeps == ASSUME IInv, NEW p \in Steppers, Probe(p) PROVE IInv'
<1>1. UNCHANGED <<rowVars, in, steady, look, cloudVars, demand>> /\ pc[p] = "probe"
  BY DEF Probe
<1>2. faults' \in 0 .. MaxFaults
  BY FaultTypes DEF Probe, IInv
<1>3. st[p].actual \notin {"down", "failed"}
  BY <1>1, Here DEF StepOK, Calling
<1>4. CASE /\ SetRow(p, [st[p] EXCEPT !.actual = "ready", !.failures = 0, !.wait = FALSE, !.alerted = FALSE])
           /\ Goto(p, "save")
  <2> DEFINE r == [st[p] EXCEPT !.actual = "ready", !.failures = 0, !.wait = FALSE, !.alerted = FALSE]
  <2>1. r \in Rows /\ r.actual = "ready" /\ r.droplet = st[p].droplet
    BY Readied, Here
  <2>2. SetRow(p, r) /\ Goto(p, "save")
    BY <1>4
  <2> HIDE DEF r
  <2>3. RowOK(r) /\ Doomed(r, cloud)
    BY <1>3, <2>1, Here DEF StepOK, RowOK, Doomed
  <2> QED BY <1>1, <1>2, <2>1, <2>2, <2>3, Alone, GoesToSave
<1>5. CASE Goto(p, IF Wanted(p) THEN "read" ELSE "ask") /\ UNCHANGED st
  <2> DEFINE l == IF Wanted(p) THEN "read" ELSE "ask"
  <2>1. /\ l \in Labels /\ l \notin {"idle", "sessions", "finalizing", "clips", "create", "check", "delete"}
        /\ l = "ask" => ~Wanted(p)
    BY DEF Labels
  <2>2. Goto(p, l) /\ UNCHANGED st
    BY <1>5
  <2> HIDE DEF l
  <2> QED BY <1>1, <1>2, <1>3, <2>1, <2>2, Alone, Stays
<1> QED BY <1>4, <1>5 DEF Probe

LEMMA ReadKeeps == ASSUME IInv, NEW p \in Steppers, ReadDroplet(p) PROVE IInv'
<1>1. UNCHANGED <<row, requested, grace, lease, look, cloud, ip, sessions, clips, people, in, steady>> /\ pc[p] = "read"
  BY DEF ReadDroplet, cloudVars, demand
<1>2. Lasting /\ ip' \in DropletOrNone /\ runs' \subseteq Droplets
  BY <1>1, LastingSame DEF IInv, TypeOK, ReadDroplet
<1>3. faults' \in 0 .. MaxFaults
  BY FaultTypes DEF ReadDroplet, IInv
<1>4. st[p].actual \notin {"down", "failed"}
  BY <1>1, Here DEF StepOK, Calling
<1>5. CASE SetRow(p, Lost(st[p])) /\ Goto(p, "save")
  <2> DEFINE r == Lost(st[p])
  <2>1. r \in Rows /\ r.droplet = NoDroplet /\ r.actual \in {"down", "failed"}
    BY LostRow, Here
  <2>2. SetRow(p, r) /\ Goto(p, "save")
    BY <1>5
  <2> HIDE DEF r
  <2>3. RowOK(r) /\ Doomed(r, cloud)
    BY <2>1 DEF RowOK, Doomed
  <2> QED BY <1>1, <1>2, <1>3, <2>1, <2>2, <2>3, GoesToSave
<1>6. ASSUME NEW l \in NextCalls(st[p], Wanted(p)), Goto(p, l), UNCHANGED st
      PROVE  IInv'
  <2>1. /\ l \in {"delete", "save", "late", "assign"}
        /\ l = "delete" /\ st[p].actual # "deleting" => ~Wanted(p)
    <3>1. WantedUp(in[p]) \in BOOLEAN
      BY Here, InputFields
    <3> QED BY <1>6, <3>1 DEF NextCalls, Wanted
  <2>2. l \in Labels
    BY <2>1 DEF Labels
  <2> QED BY <1>1, <1>2, <1>3, <1>4, <1>6, <2>1, <2>2, Stays
<1>7. CASE Goto(p, "save") /\ UNCHANGED st
  <2>1. "save" \in Labels /\ "save" \notin Calling
    BY DEF Labels, Calling
  <2> QED BY <1>1, <1>2, <1>3, <1>7, <2>1, Stays
<1> QED BY <1>5, <1>6, <1>7 DEF ReadDroplet

LEMMA AssignKeeps == ASSUME IInv, NEW p \in Steppers, AssignIP(p) PROVE IInv'
<1>1. UNCHANGED <<row, requested, grace, lease, runs, look, cloud, sessions, clips, in>> /\ pc[p] = "assign"
  BY DEF AssignIP, rowVars
<1>2. Lasting
  BY <1>1, LastingCutOff DEF AssignIP
<1>3. faults' \in 0 .. MaxFaults
  BY FaultTypes DEF AssignIP, IInv
<1>4. st[p].actual \notin {"down", "failed"} /\ st[p] \in Rows /\ RowOK(st[p]) /\ Doomed(st[p], cloud)
  BY <1>1, Here DEF StepOK, Calling
<1>5. runs' \subseteq Droplets /\ ip' \in DropletOrNone
  <2>1. st[p].droplet \in DropletOrNone /\ ip \in DropletOrNone /\ runs \subseteq Droplets
    BY <1>4, Fields DEF IInv, TypeOK
  <2> QED BY <1>1, <2>1 DEF AssignIP
<1>6. CASE /\ SetRow(p, IF st[p].actual = "creating" THEN [st[p] EXCEPT !.actual = "booting"] ELSE st[p])
           /\ Goto(p, "save")
  <2> DEFINE b == [st[p] EXCEPT !.actual = "booting"]
             r == IF st[p].actual = "creating" THEN b ELSE st[p]
  <2>1. b \in Rows /\ b.actual = "booting" /\ b.droplet = st[p].droplet
    BY <1>4, ToState, Values
  <2>2. SetRow(p, r) /\ Goto(p, "save")
    BY <1>6
  <2> HIDE DEF b
  <2>3. r \in Rows /\ RowOK(r) /\ Doomed(r, cloud)
    BY <1>4, <2>1 DEF RowOK, Doomed
  <2> HIDE DEF r
  <2> QED BY <1>1, <1>2, <1>3, <1>5, <2>2, <2>3, GoesToSave
<1>7. ASSUME NEW stuck \in BOOLEAN, Goto(p, "save"),
             SetRow(p, [st[p] EXCEPT !.alerted = @ \/ (st[p].actual = "creating" /\ stuck)])
      PROVE  IInv'
  <2> DEFINE c == st[p].actual = "creating" /\ stuck
             r == [st[p] EXCEPT !.alerted = @ \/ c]
  <2>1. SetRow(p, r)
    BY <1>7
  <2>2. c \in BOOLEAN
    OBVIOUS
  <2> HIDE DEF c
  <2>3. r \in Rows /\ r.actual = st[p].actual /\ r.droplet = st[p].droplet
    BY <1>4, <2>2, Alerted
  <2> HIDE DEF r
  <2>4. RowOK(r) /\ Doomed(r, cloud)
    BY <1>4, <2>3 DEF RowOK, Doomed
  <2> QED BY <1>1, <1>2, <1>3, <1>5, <1>7, <2>1, <2>3, <2>4, GoesToSave
<1>8. CASE Goto(p, "late") /\ UNCHANGED st
  <2>1. "late" \in Labels
    BY DEF Labels
  <2> QED BY <1>1, <1>2, <1>3, <1>4, <1>5, <1>8, <2>1, Stays
<1> QED BY <1>6, <1>7, <1>8 DEF AssignIP

LEMMA CheckKeeps == ASSUME IInv, NEW p \in Steppers, DrainCheck(p) PROVE IInv'
<1>1. UNCHANGED <<rowVars, in, steady, look, cloudVars, demand>> /\ pc[p] = "check"
  BY DEF DrainCheck
<1>2. faults' \in 0 .. MaxFaults
  BY FaultTypes DEF DrainCheck, IInv
<1>3. st[p].actual \notin {"down", "failed"} /\ ~Wanted(p) /\ st[p] \in Rows /\ RowOK(st[p])
  BY <1>1, Here DEF StepOK, Calling, Wanted
<1>4. CASE SetRow(p, [st[p] EXCEPT !.actual = "draining"]) /\ Goto(p, "save")
  <2> DEFINE r == [st[p] EXCEPT !.actual = "draining"]
  <2>1. r \in Rows /\ r.actual = "draining" /\ r.droplet = st[p].droplet
    BY <1>3, ToState, Values
  <2>2. SetRow(p, r) /\ Goto(p, "save")
    BY <1>4
  <2> HIDE DEF r
  <2>3. RowOK(r) /\ Doomed(r, cloud)
    BY <1>3, <2>1 DEF RowOK, Doomed
  <2> QED BY <1>1, <1>2, <2>1, <2>2, <2>3, Alone, GoesToSave
<1>5. CASE Goto(p, "delete") /\ UNCHANGED st
  <2>1. "delete" \in Labels
    BY DEF Labels
  <2> QED BY <1>1, <1>2, <1>3, <1>5, <2>1, Alone, Stays
<1> QED BY <1>4, <1>5 DEF DrainCheck

LEMMA AskKeeps == ASSUME IInv, NEW p \in Steppers, AskFirst(p) PROVE IInv'
<1>1. UNCHANGED <<rowVars, in, steady, look, cloudVars, demand>> /\ pc[p] \in {"ask", "late"}
  BY DEF AskFirst
<1>2. faults' \in 0 .. MaxFaults
  BY FaultTypes DEF AskFirst, IInv, Says
<1>3. /\ st[p].actual \notin {"down", "failed"} /\ st[p] \in Rows /\ RowOK(st[p]) /\ Doomed(st[p], cloud)
      /\ pc[p] = "ask" => ~Wanted(p)
  BY <1>1, Here DEF StepOK, Calling, Wanted
<1>4. CASE SetRow(p, [st[p] EXCEPT !.alerted = @ \/ pc[p] = "late"]) /\ Goto(p, "save")
  <2> DEFINE c == pc[p] = "late"
             r == [st[p] EXCEPT !.alerted = @ \/ c]
  <2>1. SetRow(p, r) /\ Goto(p, "save")
    BY <1>4
  <2>2. c \in BOOLEAN
    OBVIOUS
  <2> HIDE DEF c
  <2>3. r \in Rows /\ r.actual = st[p].actual /\ r.droplet = st[p].droplet
    BY <1>3, <2>2, Alerted
  <2> HIDE DEF r
  <2>4. RowOK(r) /\ Doomed(r, cloud)
    BY <1>3, <2>3 DEF RowOK, Doomed
  <2> QED BY <1>1, <1>2, <2>1, <2>3, <2>4, Alone, GoesToSave
<1>5. CASE Goto(p, IF pc[p] = "ask" THEN "delete" ELSE "timeout") /\ UNCHANGED st
  <2> DEFINE l == IF pc[p] = "ask" THEN "delete" ELSE "timeout"
  <2>1. l \in {"delete", "timeout"} /\ (l = "delete" => pc[p] = "ask") /\ Goto(p, l)
    BY <1>5
  <2> HIDE DEF l
  <2>2. l \in Labels
    BY <2>1 DEF Labels
  <2> QED BY <1>1, <1>2, <1>3, <1>5, <2>1, <2>2, Alone, Stays
<1> QED BY <1>4, <1>5 DEF AskFirst

LEMMA BreaksKeeps == ASSUME IInv, NEW p \in Steppers, StepBreaks(p) PROVE IInv'
<1>1. UNCHANGED <<rowVars, in, steady, look, cloudVars, demand, st>> /\ pc[p] # "idle" /\ Goto(p, "release")
  BY DEF StepBreaks
<1>2. faults' \in 0 .. MaxFaults
  BY FaultTypes DEF StepBreaks, IInv
<1>3. "release" \in Labels
  BY DEF Labels
<1>4. StepOK("release", st[p], in[p], steady[p]) /\ Doomed(st[p], cloud)
  BY <1>1, Here DEF StepOK, Calling
<1> QED BY <1>1, <1>2, <1>3, <1>4, Alone, Here, Quiet

-----------------------------------------------------------------------------
(* Steps that change the cloud, the row or the lease *)

LEMMA CreateKeeps == ASSUME IInv, NEW p \in Steppers, CreateDroplet(p) PROVE IInv'
<1>1. UNCHANGED <<row, requested, grace, lease, look, ip, sessions, clips, people, in, steady>> /\ pc[p] = "create"
  BY DEF CreateDroplet, demand
<1>2. Lasting
  BY <1>1, LastingSame
<1>3. faults' \in 0 .. MaxFaults
  BY FaultTypes DEF CreateDroplet, IInv
<1>4. Exist = {} /\ st[p] \in Rows /\ RowOK(st[p]) /\ Doomed(st[p], cloud)
  BY <1>1, Here DEF StepOK, IInv, CreateOK
<1>5. /\ UNCHANGED cloud \/ \E d \in Droplets : Creates(d)
      /\ Goto(p, "save")
  BY DEF CreateDroplet
<1>6. /\ cloud' \in [Droplets -> {"absent", "new", "active", "up", "dying"}]
      /\ OneDroplet' /\ CloudKeeps
  <2>1. CASE UNCHANGED cloud
    BY <2>1, CloudSame DEF IInv, TypeOK
  <2>2. ASSUME NEW d \in Droplets, Creates(d) PROVE <1>6!1 /\ <1>6!2
    <3>1. cloud' = [cloud EXCEPT ![d] = "new"] /\ Unnamed(d) /\ cloud \in [Droplets -> {"absent", "new", "active", "up", "dying"}]
      BY <2>2 DEF Creates, IInv, TypeOK
    <3>2. Exist' \subseteq {d}
      BY <1>4, <3>1 DEF Exist
    <3>3. OneDroplet'
      BY <3>2 DEF OneDroplet
    <3>4. CloudKeeps
      BY <3>1 DEF CloudKeeps
    <3> QED BY <3>1, <3>3, <3>4
  <2> QED BY <1>5, <2>1, <2>2
<1>7. PICK r \in Rows : SetRow(p, r) /\ RowOK(r) /\ Doomed(r, cloud')
  <2>1. ASSUME NEW d \in Droplets, SetRow(p, [st[p] EXCEPT !.droplet = d, !.actual = "creating"])
        PROVE  \E r \in Rows : SetRow(p, r) /\ RowOK(r) /\ Doomed(r, cloud')
    <3> DEFINE r == [st[p] EXCEPT !.droplet = d, !.actual = "creating"]
    <3>1. SetRow(p, r)
      BY <2>1
    <3>2. d \in DropletOrNone /\ d # NoDroplet /\ "creating" \in Actuals
      BY NoDropletAssumption, Values DEF DropletOrNone
    <3>3. r \in Rows
      BY <1>4, <3>2, WithDroplet, Zenon
    <3>4. r.actual = "creating" /\ r.droplet = d
      BY <1>4 DEF Rows
    <3> HIDE DEF r
    <3>5. RowOK(r) /\ Doomed(r, cloud')
      BY <3>2, <3>4 DEF RowOK, Doomed
    <3> QED BY <3>1, <3>3, <3>5
  <2>2. ASSUME SetRow(p, Failed(st[p]))
        PROVE  \E r \in Rows : SetRow(p, r) /\ RowOK(r) /\ Doomed(r, cloud')
    <3> DEFINE r == Failed(st[p])
    <3>1. /\ r \in Rows /\ r.droplet = st[p].droplet
          /\ r.actual = st[p].actual \/ (st[p].actual = "down" /\ r.actual = "failed")
      BY <1>4, FailedRow
    <3>2. SetRow(p, r)
      BY <2>2
    <3> HIDE DEF r
    <3>3. RowOK(r) /\ Doomed(r, cloud)
      BY <1>4, <3>1 DEF RowOK, Doomed
    <3>4. Doomed(r, cloud')
      <4>1. CASE r.actual = "deleting"
        <5>1. r.droplet \in Droplets /\ r.droplet = st[p].droplet
          BY <3>1, <3>3, <4>1, Fields DEF RowOK, DropletOrNone
        <5>2. ~Unnamed(r.droplet)
          BY <5>1 DEF Unnamed
        <5> QED BY <1>6, <3>3, <4>1, <5>1, <5>2 DEF Doomed, CloudKeeps
      <4> QED BY <4>1 DEF Doomed
    <3> QED BY <3>1, <3>2, <3>3, <3>4
  <2> QED BY <2>1, <2>2 DEF CreateDroplet
<1>8. StepOK("save", r, in[p], steady'[p])
  BY <1>1, <1>7, Here DEF StepOK, Calling
<1>9. "save" \in Labels
  BY DEF Labels
<1>10. \A q \in Steppers : q # p => steady'[q] \subseteq steady[q]
  BY <1>1
<1>11. /\ pc' \in [Steppers -> Labels] /\ st' \in [Steppers -> Rows] /\ in' \in [Steppers -> Inputs]
       /\ StepsOK'
       /\ \A q \in Steppers : Doomed(st'[q], cloud')
       /\ pc'[p] = "save"
       /\ \A q \in Steppers : q # p => pc'[q] = pc[q]
  BY <1>1, <1>5, <1>6, <1>7, <1>8, <1>9, <1>10, Here, Advance
<1>12. TypeOK'
  <2>1. runs' \subseteq Droplets
    BY DEF CreateDroplet, IInv, TypeOK
  <2> QED BY <1>1, <1>2, <1>3, <1>6, <1>11, <2>1 DEF IInv, TypeOK, Lasting
<1>13. Lock'
  BY <1>1, <1>11 DEF IInv, Lock
<1>14. RowOK(row)' /\ DoomedAll'
  BY <1>1, <1>6, <1>11, RowDoomed DEF IInv, RowOK, DoomedAll
<1>15. CreateOK'
  <2>1. \A q \in Steppers : pc'[q] # "create"
    BY <1>1, <1>11 DEF IInv, Lock
  <2> QED BY <2>1 DEF CreateOK
<1> QED BY <1>2, <1>6, <1>11, <1>12, <1>13, <1>14, <1>15 DEF IInv, Lasting

LEMMA DeleteKeeps == ASSUME IInv, NEW p \in Steppers, DeleteDroplet(p) PROVE IInv'
<1>1. UNCHANGED <<row, requested, grace, lease, runs, look, ip, sessions, clips, in>> /\ pc[p] \in {"delete", "timeout"}
  BY DEF DeleteDroplet, rowVars
<1>2. Lasting
  BY <1>1, LastingCutOff DEF DeleteDroplet
<1>3. faults' \in 0 .. MaxFaults
  BY FaultTypes DEF DeleteDroplet, IInv
<1>4. st[p].actual \notin {"down", "failed"} /\ st[p] \in Rows /\ RowOK(st[p]) /\ Doomed(st[p], cloud)
  BY <1>1, Here DEF StepOK, Calling
<1>5. st[p].droplet \in Droplets
  BY <1>4, Fields DEF RowOK, DropletOrNone
<1>6. Dying(st[p].droplet) \/ UNCHANGED cloud
  BY DEF DeleteDroplet
<1>7. /\ cloud' \in [Droplets -> {"absent", "new", "active", "up", "dying"}]
      /\ Exist' = Exist /\ OneDroplet' /\ CloudKeeps
      /\ Dying(st[p].droplet) => cloud'[st[p].droplet] \in {"dying", "absent"}
  BY <1>5, <1>6 DEF Dying, IInv, TypeOK, Exist, OneDroplet, CloudKeeps
<1>8. Doomed(st[p], cloud')
  BY <1>4, <1>5, <1>6, <1>7 DEF Doomed, Dying
<1>9. ASSUME NEW q \in Rows, q.actual = st[p].actual \/ (q.actual = "deleting" /\ Dying(st[p].droplet)),
             q.droplet = st[p].droplet
      PROVE  RowOK(q) /\ Doomed(q, cloud')
  BY <1>4, <1>7, <1>8, <1>9 DEF RowOK, Doomed
<1>10. ASSUME NEW q \in Rows, q.actual \in {st[p].actual, "deleting"}, q.droplet = st[p].droplet
       PROVE  LET r == IF pc[p] = "timeout" THEN Failed(q) ELSE q
              IN  r \in Rows /\ r.actual = q.actual /\ r.droplet = q.droplet
  BY <1>4, <1>10, FailedRow
<1>11. PICK r \in Rows : SetRow(p, r) /\ RowOK(r) /\ Doomed(r, cloud')
  <2> DEFINE d == [st[p] EXCEPT !.actual = "deleting"]
             Counted(q) == IF pc[p] = "timeout" THEN Failed(q) ELSE q
  <2>1. d \in Rows /\ d.actual = "deleting" /\ d.droplet = st[p].droplet
    BY <1>4, ToState, Values
  <2>2. \/ Dying(st[p].droplet) /\ SetRow(p, Counted(d))
        \/ SetRow(p, Counted(st[p]))
    BY DEF DeleteDroplet
  <2> HIDE DEF d
  <2>3. CASE Dying(st[p].droplet) /\ SetRow(p, Counted(d))
    <3>1. Counted(d) \in Rows /\ Counted(d).actual = "deleting" /\ Counted(d).droplet = st[p].droplet
      BY <1>10, <2>1
    <3> HIDE DEF Counted
    <3> QED BY <1>9, <2>3, <3>1
  <2>4. CASE SetRow(p, Counted(st[p]))
    <3>1. Counted(st[p]) \in Rows /\ Counted(st[p]).actual = st[p].actual /\ Counted(st[p]).droplet = st[p].droplet
      BY <1>4, <1>10
    <3> HIDE DEF Counted
    <3> QED BY <1>9, <2>4, <3>1
  <2> QED BY <2>2, <2>3, <2>4
<1>12. \A q \in Steppers : q # p => steady'[q] \subseteq steady[q]
  BY <1>2 DEF Lasting
<1>13. StepOK("save", r, in[p], steady'[p])
  BY <1>1, <1>2, <1>11, Here DEF StepOK, Calling, Lasting
<1>14. "save" \in Labels /\ Goto(p, "save")
  BY DEF Labels, DeleteDroplet
<1>15. /\ pc' \in [Steppers -> Labels] /\ st' \in [Steppers -> Rows] /\ in' \in [Steppers -> Inputs]
       /\ StepsOK'
       /\ \A q \in Steppers : Doomed(st'[q], cloud')
       /\ pc'[p] = "save"
       /\ \A q \in Steppers : q # p => pc'[q] = pc[q]
  BY <1>1, <1>7, <1>11, <1>12, <1>13, <1>14, Here, Advance
<1>16. TypeOK'
  BY <1>1, <1>2, <1>3, <1>7, <1>15 DEF IInv, TypeOK, Lasting
<1>17. Lock'
  BY <1>1, <1>15 DEF IInv, Lock
<1>18. RowOK(row)' /\ DoomedAll'
  BY <1>1, <1>7, <1>15, RowDoomed DEF IInv, RowOK, DoomedAll
<1>19. CreateOK'
  BY <1>7, <1>15 DEF IInv, CreateOK
<1> QED BY <1>2, <1>7, <1>15, <1>16, <1>17, <1>18, <1>19 DEF IInv, Lasting

LEMMA SaveKeeps == ASSUME IInv, NEW p \in Steppers, SaveSFUBox(p) PROVE IInv'
<1>1. UNCHANGED <<requested, lease, runs, look, cloud, ip, sessions, clips, people, st, in, steady, faults>>
      /\ pc[p] = "save" /\ Goto(p, "release")
  BY DEF SaveSFUBox, cloudVars, demand
<1>2. Lasting
  BY <1>1, LastingSame
<1>3. st[p] \in Rows /\ RowOK(st[p]) /\ Doomed(st[p], cloud) /\ in[p] \in Inputs
  BY Here DEF StepOK
<1>4. row' \in Rows /\ RowOK(row') /\ Doomed(row', cloud')
  <2> DEFINE b == Overdue(p)
             r == [st[p] EXCEPT !.alerted = @ \/ b]
  <2>1. row' = r \/ row' = row
    BY DEF SaveSFUBox
  <2>2. b \in BOOLEAN
    BY DEF Overdue
  <2> HIDE DEF b
  <2>3. r \in Rows /\ r.actual = st[p].actual /\ r.droplet = st[p].droplet
    BY <1>3, <2>2, Alerted
  <2> HIDE DEF r
  <2>4. row \in Rows /\ RowOK(row) /\ Doomed(row, cloud)
    BY DEF IInv, TypeOK, DoomedAll
  <2> QED BY <1>1, <1>3, <2>1, <2>3, <2>4 DEF RowOK, Doomed
<1>5. grace' \in BOOLEAN
  BY DEF SaveSFUBox, IInv, TypeOK
<1>6. StepOK("release", st[p], in[p], steady'[p])
  BY <1>1, Here DEF StepOK, Calling
<1>7. "release" \in Labels
  BY DEF Labels
<1>8. CloudKeeps /\ OneDroplet' /\ Exist' = Exist /\ Doomed(st[p], cloud')
  BY <1>1, <1>3, CloudSame DEF IInv, Doomed
<1>9. /\ pc' \in [Steppers -> Labels] /\ st' \in [Steppers -> Rows] /\ in' \in [Steppers -> Inputs]
      /\ StepsOK'
      /\ \A q \in Steppers : Doomed(st'[q], cloud')
      /\ pc'[p] = "release"
      /\ \A q \in Steppers : q # p => pc'[q] = pc[q]
  BY <1>1, <1>6, <1>7, <1>8, Here, Advance
<1>10. TypeOK'
  BY <1>1, <1>2, <1>4, <1>5, <1>9 DEF IInv, TypeOK
<1>11. Lock' /\ CreateOK'
  BY <1>1, <1>8, <1>9 DEF IInv, Lock, CreateOK
<1>12. RowOK(row)' /\ DoomedAll'
  BY <1>4, <1>9 DEF RowOK, DoomedAll
<1> QED BY <1>2, <1>8, <1>9, <1>10, <1>11, <1>12 DEF IInv, Lasting

LEMMA Fresh == /\ NewRow \in Rows /\ NoInputs \in Inputs /\ NoLook \in Looks
               /\ NewRow.actual = "down" /\ NewRow.droplet = NoDroplet
  BY MaxFailuresAssumption DEF NewRow, Rows, Actuals, DropletOrNone, NoInputs, Inputs, NoLook, Looks

(* A step that is over, or dies: it has nothing any more. *)
LEMMA ForgetKeeps ==
    ASSUME IInv, NEW p \in Steppers, Forget(p), pc[p] # "idle",
           UNCHANGED <<row, requested, grace, runs, look, cloudVars, demand>>,
           UNCHANGED lease \/ lease' = IF lease = p THEN Nobody ELSE lease,
           faults' \in 0 .. MaxFaults
    PROVE  IInv'
<1>1. UNCHANGED <<row, requested, grace, runs, look, cloud, ip, sessions, clips, people>>
  BY DEF cloudVars, demand
<1>2. /\ Goto(p, "idle") /\ SetRow(p, NewRow) /\ SetInputs(p, NoInputs)
      /\ steady' = [steady EXCEPT ![p] = {}]
  BY DEF Forget
<1>3. steady \in [Steppers -> SUBSET Demands]
  BY DEF IInv, TypeOK
<1>4. steady' \in [Steppers -> SUBSET Demands] /\ steady'[p] = {} /\ \A q \in Steppers : q # p => steady'[q] = steady[q]
  BY <1>2, <1>3
<1>5. StepOK("idle", NewRow, NoInputs, steady'[p]) /\ Doomed(NewRow, cloud')
  BY <1>4, Fresh DEF StepOK, RowOK, Doomed, Calling
<1>6. "idle" \in Labels
  BY DEF Labels
<1>7. CloudKeeps /\ OneDroplet' /\ Exist' = Exist
  BY <1>1, CloudSame DEF IInv
<1>8. /\ pc' \in [Steppers -> Labels] /\ st' \in [Steppers -> Rows] /\ in' \in [Steppers -> Inputs]
      /\ StepsOK'
      /\ \A q \in Steppers : Doomed(st'[q], cloud')
      /\ pc'[p] = "idle"
      /\ \A q \in Steppers : q # p => pc'[q] = pc[q]
  BY <1>2, <1>4, <1>5, <1>6, <1>7, Fresh, Advance
<1>9. lease = p
  BY DEF IInv, Lock
<1>10. lease' \in Steppers \cup {Nobody}
  BY DEF IInv, TypeOK
<1>11. TypeOK'
  BY <1>1, <1>4, <1>8, <1>10 DEF IInv, TypeOK
<1>12. Lock' /\ CreateOK'
  BY <1>7, <1>8, <1>9 DEF IInv, Lock, CreateOK
<1>13. RowOK(row)' /\ DoomedAll'
  BY <1>1, <1>7, <1>8, RowDoomed DEF IInv, RowOK, DoomedAll
<1>14. SteadyNow'
  <2>1. Current' = Current
    BY <1>1 DEF Current
  <2> QED BY <1>4, <2>1 DEF IInv, SteadyNow
<1> QED BY <1>7, <1>8, <1>11, <1>12, <1>13, <1>14 DEF IInv

LEMMA ReleaseKeeps == ASSUME IInv, NEW p \in Steppers, ReleaseSFUBoxLease(p) PROVE IInv'
<1>1. faults' \in 0 .. MaxFaults
  BY FaultTypes DEF ReleaseSFUBoxLease, IInv
<1> QED BY <1>1, ForgetKeeps DEF ReleaseSFUBoxLease

LEMMA CrashKeeps == ASSUME IInv, NEW p \in Steppers, Crash(p) PROVE IInv'
<1>1. faults' \in 0 .. MaxFaults
  BY FaultTypes DEF Crash, IInv
<1>2. UNCHANGED <<row, requested, grace, runs, look, cloudVars, demand>> /\ UNCHANGED lease
  BY DEF Crash, rowVars
<1> QED BY <1>1, <1>2, ForgetKeeps DEF Crash

LEMMA TakeKeeps == ASSUME IInv, NEW p \in Steppers, TakeSFUBoxLease(p) PROVE IInv'
<1>1. UNCHANGED <<row, requested, grace, runs, look, cloud, ip, sessions, clips, people, faults>>
  BY DEF TakeSFUBoxLease, Begin, cloudVars, demand
<1>2. lease = Nobody /\ lease' = p /\ pc[p] = "idle"
  BY DEF TakeSFUBoxLease, Begin
<1> DEFINE i == [NoInputs EXCEPT !.requested = requested]
<1>3. /\ Goto(p, "sessions") /\ SetRow(p, row) /\ SetInputs(p, i)
      /\ steady' = [steady EXCEPT ![p] = Current]
  BY DEF TakeSFUBoxLease, Begin
<1>4. row \in Rows /\ RowOK(row) /\ Doomed(row, cloud) /\ requested \in BOOLEAN /\ steady \in [Steppers -> SUBSET Demands]
  BY DEF IInv, TypeOK, DoomedAll
<1>5. i \in Inputs /\ i.requested = requested
  BY <1>4 DEF NoInputs, Inputs
<1> HIDE DEF i
<1>6. steady' \in [Steppers -> SUBSET Demands] /\ steady'[p] = Current /\ \A q \in Steppers : q # p => steady'[q] = steady[q]
  BY <1>3, <1>4 DEF Current
<1>7. StepOK("sessions", row, i, steady'[p]) /\ Doomed(row, cloud')
  BY <1>1, <1>4, <1>5, <1>6 DEF StepOK, Calling, Current, Doomed
<1>8. "sessions" \in Labels
  BY DEF Labels
<1>9. CloudKeeps /\ OneDroplet' /\ Exist' = Exist
  BY <1>1, CloudSame DEF IInv
<1>10. /\ pc' \in [Steppers -> Labels] /\ st' \in [Steppers -> Rows] /\ in' \in [Steppers -> Inputs]
       /\ StepsOK'
       /\ \A q \in Steppers : Doomed(st'[q], cloud')
       /\ pc'[p] = "sessions"
       /\ \A q \in Steppers : q # p => pc'[q] = pc[q]
  BY <1>3, <1>4, <1>5, <1>6, <1>7, <1>8, <1>9, Advance
<1>11. TypeOK'
  BY <1>1, <1>2, <1>6, <1>10 DEF IInv, TypeOK
<1>12. Lock'
  <2>1. \A q \in Steppers : pc[q] = "idle"
    BY <1>2, NobodyAssumption DEF IInv, Lock
  <2> QED BY <1>2, <1>10, <2>1 DEF Lock
<1>13. CreateOK'
  BY <1>9, <1>10 DEF IInv, CreateOK
<1>14. RowOK(row)' /\ DoomedAll'
  BY <1>1, <1>4, <1>7, <1>10 DEF RowOK, DoomedAll
<1>15. SteadyNow'
  <2>1. Current' = Current
    BY <1>1 DEF Current
  <2> QED BY <1>6, <2>1 DEF IInv, SteadyNow
<1> QED BY <1>9, <1>10, <1>11, <1>12, <1>13, <1>14, <1>15 DEF IInv

-----------------------------------------------------------------------------
(* Joins, users, the cloud *)

(* A step of anyone else: the rows of the steps keep their droplet and state. *)
LEMMA Around ==
    ASSUME IInv, UNCHANGED <<pc, in, runs>>, faults' \in 0 .. MaxFaults,
           st' \in [Steppers -> Rows],
           \A q \in Steppers : st'[q].actual = st[q].actual /\ st'[q].droplet = st[q].droplet,
           row' \in Rows, row'.droplet = row.droplet,
           row'.actual = row.actual \/ (row.actual = "booting" /\ row'.actual = "ready"),
           requested' \in BOOLEAN, grace' \in BOOLEAN, lease' \in Steppers \cup {Nobody},
           look' \in [Joiners -> Looks], ip' \in DropletOrNone, sessions' \in {"no", "now", "after"}, clips' \in BOOLEAN,
           cloud' \in [Droplets -> {"absent", "new", "active", "up", "dying"}],
           Lasting, CloudKeeps, Exist' \subseteq Exist,
           UNCHANGED lease \/ \A q \in Steppers : pc[q] = "idle"
    PROVE  IInv'
<1>1. TypeOK'
  BY DEF IInv, TypeOK, Lasting
<1>2. Lock'
  BY DEF IInv, Lock
<1>3. StepsOK'
  <2>1. SUFFICES ASSUME NEW q \in Steppers PROVE StepOK(pc[q], st'[q], in[q], steady'[q])
    BY DEF StepsOK
  <2>2. StepOK(pc[q], st[q], in[q], steady[q]) /\ steady'[q] \subseteq steady[q]
    BY DEF IInv, StepsOK, Lasting
  <2> QED BY <2>2 DEF StepOK, RowOK
<1>4. RowOK(row)'
  BY DEF IInv, RowOK
<1>5. ASSUME NEW r \in Rows, NEW q \in Rows, RowOK(r), Doomed(r, cloud), q.droplet = r.droplet,
             q.actual = "deleting" => r.actual = "deleting",
             ~Unnamed(r.droplet)
      PROVE  Doomed(q, cloud')
  <2>1. CASE q.actual = "deleting"
    <3>1. r.droplet \in Droplets
      BY <1>5, <2>1, Fields DEF RowOK, DropletOrNone
    <3> QED BY <1>5, <2>1, <3>1 DEF Doomed, CloudKeeps
  <2> QED BY <2>1 DEF Doomed
<1>6. Doomed(row', cloud')
  <2>1. row \in Rows /\ RowOK(row) /\ Doomed(row, cloud) /\ ~Unnamed(row.droplet)
    BY DEF IInv, TypeOK, DoomedAll, Unnamed
  <2> QED BY <1>5, <2>1
<1>7. ASSUME NEW q \in Steppers PROVE Doomed(st'[q], cloud')
  <2>1. st[q] \in Rows /\ RowOK(st[q]) /\ Doomed(st[q], cloud) /\ ~Unnamed(st[q].droplet)
    BY Here DEF StepOK, Unnamed
  <2> QED BY <1>5, <2>1
<1>8. OneDroplet' /\ CreateOK'
  BY DEF IInv, OneDroplet, CreateOK
<1> QED BY <1>1, <1>2, <1>3, <1>4, <1>6, <1>7, <1>8 DEF IInv, DoomedAll, Lasting

(* Of those, the ones that leave the rows, the lease and the cloud alone. *)
LEMMA Elsewhere ==
    ASSUME IInv, UNCHANGED <<row, lease, runs, pc, st, in, cloud, ip>>, Lasting, faults' \in 0 .. MaxFaults,
           requested' \in BOOLEAN, grace' \in BOOLEAN, look' \in [Joiners -> Looks],
           sessions' \in {"no", "now", "after"}, clips' \in BOOLEAN
    PROVE  IInv'
<1>1. CloudKeeps /\ Exist' \subseteq Exist
  BY CloudSame
<1>2. /\ st' \in [Steppers -> Rows] /\ row' \in Rows /\ lease' \in Steppers \cup {Nobody} /\ ip' \in DropletOrNone
      /\ cloud' \in [Droplets -> {"absent", "new", "active", "up", "dying"}]
  BY DEF IInv, TypeOK
<1>3. \A q \in Steppers : st'[q].actual = st[q].actual /\ st'[q].droplet = st[q].droplet
  OBVIOUS
<1>4. row'.droplet = row.droplet /\ row'.actual = row.actual
  OBVIOUS
<1> QED BY <1>1, <1>2, <1>3, <1>4, Around

(* Demand that begins lasts through no step; demand that ends, neither. *)
LEMMA LastingMore ==
    ASSUME IInv, UNCHANGED steady, Current \subseteq Current', people' \in BOOLEAN
    PROVE  Lasting
  BY DEF Lasting, IInv, TypeOK, SteadyNow

LEMMA LastingLess ==
    ASSUME IInv, NEW k \in Demands, Ends(k), Current \ {k} \subseteq Current', people' \in BOOLEAN
    PROVE  Lasting
<1>1. \A q \in Steppers : steady'[q] = steady[q] \ {k}
  BY DEF Ends
<1>2. steady' \in [Steppers -> SUBSET Demands]
  BY DEF Ends, IInv, TypeOK
<1>3. SteadyNow'
  <2>1. SUFFICES ASSUME NEW q \in Steppers PROVE steady'[q] \subseteq Current'
    BY DEF SteadyNow
  <2>2. steady[q] \subseteq Current
    BY DEF IInv, SteadyNow
  <2> QED BY <1>1, <2>2
<1> QED BY <1>1, <1>2, <1>3 DEF Lasting

LEMMA Lookups ==
    ASSUME IInv, NEW n \in Joiners, NEW l \in {"idle", "request", "probe", "mark", "enter"}
    PROVE  /\ Looking(n, l) => look' \in [Joiners -> Looks]
           /\ look' = [look EXCEPT ![n] = NoLook] => look' \in [Joiners -> Looks]
<1>1. look \in [Joiners -> Looks] /\ look[n] \in Looks
  BY DEF IInv, TypeOK
<1>2. [look[n] EXCEPT !.pc = l] \in Looks
  BY <1>1 DEF Looks
<1>3. Looking(n, l) => look' = [look EXCEPT ![n] = [look[n] EXCEPT !.pc = l]]
  BY DEF Looking
<1> QED BY <1>1, <1>2, <1>3, Fresh

LEMMA JoinsKeep ==
    ASSUME IInv, NEW n \in Joiners, JoinReads(n) \/ JoinRequests(n) \/ JoinProbes(n) \/ MarkSFUBoxReady(n) \/ JoinEnters(n)
    PROVE  IInv'
<1> USE DEF rowVars, steps, cloudVars, demand
<1>t. TypeOK
  BY DEF IInv
<1>1. CASE JoinReads(n)
  <2>1. UNCHANGED <<rowVars, steps, cloudVars, demand, faults>>
    BY <1>1 DEF JoinReads
  <2>2. look' \in [Joiners -> Looks]
    <3>1. row.actual \in Actuals /\ row.droplet \in DropletOrNone
      BY <1>t, Fields DEF TypeOK
    <3>2. [pc |-> "request", actual |-> row.actual, droplet |-> row.droplet] \in Looks
      BY <3>1 DEF Looks
    <3> QED BY <1>1, <1>t, <3>2 DEF JoinReads, TypeOK
  <2> QED BY <1>t, <2>1, <2>2, LastingSame, Elsewhere DEF TypeOK
<1>2. CASE JoinRequests(n)
  <2>1. /\ requested' = TRUE \/ UNCHANGED requested
        /\ UNCHANGED <<row, grace, lease, runs, steps, cloudVars, demand>>
        /\ faults' \in 0 .. MaxFaults
    BY <1>2, <1>t, FaultTypes DEF JoinRequests
  <2>2. look' \in [Joiners -> Looks]
    BY <1>2, Lookups DEF JoinRequests
  <2>3. Lasting
    <3>1. Current \subseteq Current'
      BY <2>1 DEF Current
    <3> QED BY <1>t, <2>1, <3>1, LastingMore DEF TypeOK
  <2> QED BY <1>t, <2>1, <2>2, <2>3, Elsewhere DEF TypeOK
<1>3. CASE JoinProbes(n)
  <2>1. UNCHANGED <<rowVars, steps, cloudVars, demand, faults>>
    BY <1>3 DEF JoinProbes
  <2>2. look' \in [Joiners -> Looks]
    BY <1>3, Lookups DEF JoinProbes
  <2> QED BY <1>t, <2>1, <2>2, LastingSame, Elsewhere DEF TypeOK
<1>4. CASE MarkSFUBoxReady(n)
  <2>1. UNCHANGED <<requested, grace, lease, runs, steps, cloudVars, demand>> /\ faults' \in 0 .. MaxFaults
    BY <1>4, <1>t, FaultTypes DEF MarkSFUBoxReady
  <2>2. look' \in [Joiners -> Looks]
    BY <1>4, Lookups DEF MarkSFUBoxReady
  <2> DEFINE m == [row EXCEPT !.actual = "ready", !.failures = 0, !.wait = FALSE]
  <2>3. row' = row \/ (row.actual = "booting" /\ row' = m)
    BY <1>4 DEF MarkSFUBoxReady
  <2>4. row \in Rows
    BY <1>t DEF TypeOK
  <2>5. m \in Rows /\ m.actual = "ready" /\ m.droplet = row.droplet
    BY <2>4, Readied
  <2> HIDE DEF m
  <2>6. row' \in Rows /\ row'.droplet = row.droplet /\ (row'.actual = row.actual \/ (row.actual = "booting" /\ row'.actual = "ready"))
    BY <2>3, <2>4, <2>5
  <2>7. CloudKeeps /\ Exist' \subseteq Exist
    BY <2>1, CloudSame
  <2>8. \A q \in Steppers : st'[q].actual = st[q].actual /\ st'[q].droplet = st[q].droplet
    BY <2>1
  <2> QED BY <1>t, <2>1, <2>2, <2>6, <2>7, <2>8, LastingSame, Around DEF TypeOK
<1>5. CASE JoinEnters(n)
  <2>1. UNCHANGED <<rowVars, steps, cloudVars, sessions, clips, faults>> /\ people' = (people \/ BoxAnswers)
    BY <1>5 DEF JoinEnters
  <2>2. look' \in [Joiners -> Looks]
    BY <1>5, Lookups DEF JoinEnters
  <2>3. Lasting
    <3>1. Current \subseteq Current'
      BY <2>1 DEF Current
    <3>2. people' \in BOOLEAN
      BY <2>1 DEF BoxAnswers
    <3> QED BY <2>1, <3>1, <3>2, LastingMore
  <2> QED BY <1>t, <2>1, <2>2, <2>3, Elsewhere DEF TypeOK
<1> QED BY <1>1, <1>2, <1>3, <1>4, <1>5

LEMMA DemandKeeps ==
    ASSUME IInv, GraceRunsOut \/ RequestRunsOut \/ SessionsBegin \/ SessionsEnd \/ ClipsBegin \/ ClipsEnd \/ PeopleLeave
    PROVE  IInv'
<1> USE DEF rowVars, steps, cloudVars, demand
<1>t. TypeOK
  BY DEF IInv
<1>1. UNCHANGED <<row, lease, runs, pc, st, in, cloud, ip, faults, look>>
  BY DEF GraceRunsOut, RequestRunsOut, SessionsBegin, SessionsEnd, ClipsBegin, ClipsEnd, PeopleLeave
<1>2. requested' \in BOOLEAN /\ grace' \in BOOLEAN /\ sessions' \in {"no", "now", "after"} /\ clips' \in BOOLEAN /\ people' \in BOOLEAN
  BY <1>t DEF GraceRunsOut, RequestRunsOut, SessionsBegin, SessionsEnd, ClipsBegin, ClipsEnd, PeopleLeave, TypeOK
<1>3. Lasting
  <2>1. CASE GraceRunsOut
    BY <2>1, LastingSame DEF GraceRunsOut
  <2>2. CASE ClipsBegin
    <3>1. UNCHANGED steady /\ Current \subseteq Current'
      BY <2>2 DEF ClipsBegin, Current
    <3> QED BY <1>2, <3>1, LastingMore
  <2>3. CASE RequestRunsOut
    <3>1. Ends("requested") /\ Current \ {"requested"} \subseteq Current' /\ "requested" \in Demands
      BY <2>3 DEF RequestRunsOut, Current, Demands
    <3> QED BY <1>2, <3>1, LastingLess
  <2>4. CASE SessionsBegin \/ SessionsEnd
    <3>1. UNCHANGED <<requested, clips, people>>
      BY <2>4 DEF SessionsBegin, SessionsEnd
    <3>2. CASE Ends("sessions")
      <4>1. Current \ {"sessions"} \subseteq Current' /\ "sessions" \in Demands
        BY <3>1 DEF Current, Demands
      <4> QED BY <1>2, <3>2, <4>1, LastingLess
    <3>3. CASE UNCHANGED steady /\ sessions' = "after"
      <4>1. Current \subseteq Current'
        BY <3>1, <3>3 DEF Current
      <4> QED BY <1>2, <3>3, <4>1, LastingMore
    <3> QED BY <2>4, <3>2, <3>3 DEF SessionsBegin, SessionsEnd
  <2>5. CASE ClipsEnd
    <3>1. Ends("clips") /\ Current \ {"clips"} \subseteq Current' /\ "clips" \in Demands
      BY <2>5 DEF ClipsEnd, Current, Demands
    <3> QED BY <1>2, <3>1, LastingLess
  <2>6. CASE PeopleLeave
    <3>1. Ends("people") /\ Current \ {"people"} \subseteq Current' /\ "people" \in Demands
      BY <2>6 DEF PeopleLeave, Current, Demands
    <3> QED BY <1>2, <3>1, LastingLess
  <2> QED BY <2>1, <2>2, <2>3, <2>4, <2>5, <2>6
<1>4. look' \in [Joiners -> Looks]
  BY <1>1, <1>t DEF TypeOK
<1>5. faults' \in 0 .. MaxFaults
  BY <1>1, <1>t DEF TypeOK
<1> QED BY <1>1, <1>2, <1>3, <1>4, <1>5, Elsewhere

LEMMA RowsKeep ==
    ASSUME IInv, RetrySFUBox \/ LeaseRunsOut \/ BackoffRunsOut
    PROVE  IInv'
<1> USE DEF rowVars, steps, cloudVars, demand
<1>t. TypeOK
  BY DEF IInv
<1>1. UNCHANGED <<pc, in, runs, faults, requested, grace, look, cloud, ip, sessions, clips, people, steady>>
  BY DEF RetrySFUBox, LeaseRunsOut, BackoffRunsOut
<1>2. \A r \in Rows : /\ [r EXCEPT !.wait = FALSE] \in Rows
                      /\ [r EXCEPT !.wait = FALSE].actual = r.actual
                      /\ [r EXCEPT !.wait = FALSE].droplet = r.droplet
  BY Rested
<1>3. row' \in Rows /\ row'.droplet = row.droplet /\ row'.actual = row.actual
  <2>1. row' = row \/ row' = [row EXCEPT !.wait = FALSE]
    BY DEF RetrySFUBox, LeaseRunsOut, BackoffRunsOut
  <2>2. row \in Rows
    BY <1>t DEF TypeOK
  <2> QED BY <1>2, <2>1, <2>2
<1>4. /\ st' \in [Steppers -> Rows]
      /\ \A q \in Steppers : st'[q].actual = st[q].actual /\ st'[q].droplet = st[q].droplet
  <2>1. UNCHANGED st \/ st' = [q \in Steppers |-> [st[q] EXCEPT !.wait = FALSE]]
    BY DEF RetrySFUBox, LeaseRunsOut, BackoffRunsOut
  <2>2. st \in [Steppers -> Rows]
    BY <1>t DEF TypeOK
  <2>3. CASE UNCHANGED st
    BY <2>2, <2>3
  <2>4. CASE st' = [q \in Steppers |-> [st[q] EXCEPT !.wait = FALSE]]
    BY <1>2, <2>2, <2>4
  <2> QED BY <2>1, <2>3, <2>4
<1>5. lease' \in Steppers \cup {Nobody} /\ (UNCHANGED lease \/ \A q \in Steppers : pc[q] = "idle")
  BY <1>t DEF RetrySFUBox, LeaseRunsOut, BackoffRunsOut, TypeOK, IInv, Lock
<1>6. CloudKeeps /\ Exist' \subseteq Exist
  BY <1>1, CloudSame
<1>7. /\ requested' \in BOOLEAN /\ grace' \in BOOLEAN /\ look' \in [Joiners -> Looks] /\ ip' \in DropletOrNone
      /\ faults' \in 0 .. MaxFaults
      /\ sessions' \in {"no", "now", "after"} /\ clips' \in BOOLEAN
      /\ cloud' \in [Droplets -> {"absent", "new", "active", "up", "dying"}]
  BY <1>1, <1>t DEF TypeOK
<1> QED BY <1>1, <1>3, <1>4, <1>5, <1>6, <1>7, LastingSame, Around

LEMMA CloudStepsKeep ==
    ASSUME IInv, NEW d \in Droplets, ComesUp(d) \/ Vanishes(d)
    PROVE  IInv'
<1> USE DEF rowVars, steps, cloudVars, demand
<1>t. TypeOK
  BY DEF IInv
<1>1. UNCHANGED <<row, requested, grace, lease, runs, pc, st, in, steady, look, sessions, clips, people, faults>>
  BY DEF ComesUp, Vanishes
<1>2. /\ cloud' \in [Droplets -> {"absent", "new", "active", "up", "dying"}]
      /\ CloudKeeps /\ Exist' \subseteq Exist
  BY <1>t DEF ComesUp, Vanishes, TypeOK, CloudKeeps, Exist
<1>3. ip' \in DropletOrNone
  BY <1>t DEF ComesUp, Vanishes, TypeOK, DropletOrNone
<1>4. \A q \in Steppers : st'[q].actual = st[q].actual /\ st'[q].droplet = st[q].droplet
  BY <1>1
<1>5. row'.droplet = row.droplet /\ row'.actual = row.actual
  BY <1>1
<1> QED BY <1>1, <1>2, <1>3, <1>4, <1>5, <1>t, LastingSame, Around DEF TypeOK

-----------------------------------------------------------------------------
(* Theorems *)

LEMMA InitInv == Init => IInv
<1> SUFFICES ASSUME Init PROVE IInv
  OBVIOUS
<1> USE MaxFaultsAssumption, Fresh DEF Init
<1>1. TypeOK
  <2>1. pc \in [Steppers -> Labels] /\ st \in [Steppers -> Rows] /\ in \in [Steppers -> Inputs] /\ look \in [Joiners -> Looks]
    BY DEF Labels
  <2>2. cloud \in [Droplets -> {"absent", "new", "active", "up", "dying"}] /\ steady \in [Steppers -> SUBSET Demands]
    OBVIOUS
  <2>3. row \in Rows /\ runs \subseteq Droplets /\ ip \in DropletOrNone /\ faults \in 0 .. MaxFaults
    BY DEF DropletOrNone
  <2> QED BY <2>1, <2>2, <2>3 DEF TypeOK
<1>2. Lock /\ CreateOK
  BY DEF Lock, CreateOK
<1>3. StepsOK
  BY DEF StepsOK, StepOK, RowOK, Calling
<1>4. SteadyNow
  BY DEF SteadyNow
<1>5. RowOK(row) /\ DoomedAll
  BY DEF RowOK, DoomedAll, Doomed
<1>6. OneDroplet
  BY DEF OneDroplet, Exist
<1> QED BY <1>1, <1>2, <1>3, <1>4, <1>5, <1>6 DEF IInv

LEMMA NextInv == IInv /\ HandedOver /\ [Next]_vars => IInv'
<1> SUFFICES ASSUME IInv, HandedOver, [Next]_vars PROVE IInv'
  OBVIOUS
<1>1. ASSUME NEW p \in Steppers, TakeSFUBoxLease(p) \/ StepOn(p) \/ StepBreaks(p) \/ Crash(p)
      PROVE  IInv'
  BY <1>1, TakeKeeps, SessionsKeeps, FinalizingKeeps, ClipsKeeps, ActivityKeeps, FindKeeps, ParkKeeps, VolumeKeeps, CreateKeeps,
     ProbeKeeps, ReadKeeps, AssignKeeps, CheckKeeps, AskKeeps, DeleteKeeps, SaveKeeps, ReleaseKeeps,
     BreaksKeeps, CrashKeeps DEF StepOn
<1>2. CASE JoinStep
  BY <1>2, JoinsKeep, RowsKeep DEF JoinStep, JoinOn
<1>3. CASE WorldStep
  BY <1>3, DemandKeeps, RowsKeep, CloudStepsKeep DEF WorldStep
<1>4. CASE UNCHANGED vars
  <2>1. UNCHANGED <<row, requested, grace, lease, runs, pc, st, in, steady, look, cloud, ip, sessions, clips, people, faults>>
    BY <1>4 DEF vars, rowVars, steps, cloudVars, demand
  <2>2. TypeOK
    BY DEF IInv
  <2> QED BY <2>1, <2>2, LastingSame, Elsewhere DEF TypeOK
<1> QED BY <1>1, <1>2, <1>3, <1>4 DEF Next

(* A step of p that gives the others none of its needs keeps HandedOver if it
   keeps p's part. *)
LEMMA HandedOverKept ==
    ASSUME HandedOver, NEW p \in Steppers, UNCHANGED sessions,
           \A q \in Steppers : q # p => /\ pc'[q] = pc[q] /\ in'[q] = in[q]
                                       /\ steady'[q] \subseteq steady[q],
           pc'[p] # "finalizing"
    PROVE  HandedOver'
  BY DEF HandedOver

LEMMA HandedSteps ==
    ASSUME IInv, HandedOver, NEW p \in Steppers,
           TakeSFUBoxLease(p) \/ StepOn(p) \/ StepBreaks(p) \/ Crash(p)
    PROVE  HandedOver'
<1>t. /\ pc \in [Steppers -> Labels] /\ in \in [Steppers -> Inputs]
      /\ steady \in [Steppers -> SUBSET Demands] /\ sessions \in {"no", "now", "after"}
  BY DEF IInv, TypeOK
<1> USE DEF Goto, SetInputs, Forget, rowVars, steps, cloudVars, demand
<1>1. CASE ReadSessions(p)
  <2>1. UNCHANGED <<sessions, steady>> /\ in'[p].sessions = (sessions = "now")
    BY <1>t, <1>1 DEF ReadSessions, Inputs
  <2>2. \A q \in Steppers : q # p => pc'[q] = pc[q] /\ in'[q] = in[q]
    BY <1>t, <1>1 DEF ReadSessions
  <2>3. "sessions" \in steady[p] => sessions # "no"
    BY DEF IInv, SteadyNow, Current
  <2> QED BY <1>t, <2>1, <2>2, <2>3 DEF HandedOver
<1>2. CASE TakeSFUBoxLease(p) \/ ReadFinalizing(p) \/ ReadClips(p) \/ ReadActivity(p)
  <2>1. UNCHANGED sessions /\ \A q \in Steppers : q # p => /\ pc'[q] = pc[q] /\ in'[q] = in[q]
                                                        /\ steady'[q] \subseteq steady[q]
    BY <1>t, <1>2 DEF TakeSFUBoxLease, Begin, ReadFinalizing, ReadClips, ReadActivity
  <2>2. pc'[p] # "finalizing"
    BY <1>t, <1>2 DEF TakeSFUBoxLease, Begin, ReadFinalizing, ReadClips, ReadActivity, FirstCall
  <2> QED BY <2>1, <2>2, HandedOverKept
<1>3. CASE \/ FindManaged(p) \/ VolumeByName(p) \/ CreateDroplet(p) \/ Probe(p) \/ ReadDroplet(p) \/ DrainCheck(p)
           \/ AskFirst(p) \/ SaveSFUBox(p) \/ ReleaseSFUBoxLease(p) \/ StepBreaks(p) \/ Crash(p)
  <2>1. UNCHANGED sessions /\ \A q \in Steppers : q # p => /\ pc'[q] = pc[q] /\ in'[q] = in[q]
                                                        /\ steady'[q] \subseteq steady[q]
    BY <1>t, <1>3 DEF FindManaged, VolumeByName, CreateDroplet, Probe, ReadDroplet, DrainCheck, AskFirst, SaveSFUBox,
                      ReleaseSFUBoxLease, StepBreaks, Crash
  <2>2. pc'[p] # "finalizing"
    BY <1>t, <1>3 DEF FindManaged, VolumeByName, CreateDroplet, Probe, ReadDroplet, NextCalls, DrainCheck, AskFirst,
                      SaveSFUBox, ReleaseSFUBoxLease, StepBreaks, Crash
  <2> QED BY <2>1, <2>2, HandedOverKept
<1>4. CASE ParkIP(p) \/ AssignIP(p) \/ DeleteDroplet(p)
  <2>1. UNCHANGED <<in, sessions>> /\ CutOff
    BY <1>4 DEF ParkIP, AssignIP, DeleteDroplet
  <2>2. \A q \in Steppers : steady'[q] \subseteq steady[q]
    BY <2>1 DEF CutOff
  <2>3. pc'[p] # "finalizing" /\ \A q \in Steppers : q # p => pc'[q] = pc[q]
    BY <1>t, <1>4 DEF ParkIP, AssignIP, DeleteDroplet
  <2> QED BY <2>1, <2>2, <2>3, HandedOverKept
<1> QED BY <1>1, <1>2, <1>3, <1>4 DEF StepOn

LEMMA HandedNext == IInv /\ HandedOver /\ [Next]_vars => HandedOver'
<1> SUFFICES ASSUME IInv, HandedOver, [Next]_vars PROVE HandedOver'
  OBVIOUS
<1> USE DEF rowVars, steps, cloudVars, demand
<1>1. ASSUME NEW p \in Steppers, TakeSFUBoxLease(p) \/ StepOn(p) \/ StepBreaks(p) \/ Crash(p)
      PROVE  HandedOver'
  BY <1>1, HandedSteps
<1>2. ASSUME UNCHANGED <<pc, in, sessions>>, \A q \in Steppers : steady'[q] \subseteq steady[q]
      PROVE  HandedOver'
  BY <1>2 DEF HandedOver
<1>3. CASE JoinStep \/ UNCHANGED vars
  BY <1>2, <1>3 DEF JoinStep, JoinReads, JoinOn, JoinRequests, JoinProbes, MarkSFUBoxReady, JoinEnters, RetrySFUBox, vars
<1>4. CASE SessionsBegin \/ SessionsEnd
  <2>1. UNCHANGED <<pc, in>>
    BY <1>4 DEF SessionsBegin, SessionsEnd
  <2>2. CASE Ends("sessions")
    BY <2>1, <2>2 DEF HandedOver, Ends
  <2>3. CASE UNCHANGED steady /\ sessions' = "after"
    BY <2>1, <2>3 DEF HandedOver
  <2> QED BY <1>4, <2>2, <2>3 DEF SessionsBegin, SessionsEnd
<1>5. CASE WorldStep /\ ~SessionsBegin /\ ~SessionsEnd
  <2>1. UNCHANGED <<pc, in, sessions>> /\ \A q \in Steppers : steady'[q] \subseteq steady[q]
    BY <1>5 DEF WorldStep, LeaseRunsOut, BackoffRunsOut, GraceRunsOut, RequestRunsOut, ClipsBegin, ClipsEnd,
                PeopleLeave, ComesUp, Vanishes, Ends
  <2> QED BY <1>2, <2>1
<1> QED BY <1>1, <1>3, <1>4, <1>5 DEF Next

LEMMA Invariant == Spec => []IInv
<1>1. Init => HandedOver
  BY DEF Init, HandedOver
<1> QED BY <1>1, InitInv, NextInv, HandedNext, PTL DEF Spec

(* Every variable keeps its type. *)
THEOREM BoxTypes == Spec => []TypeOK
<1>1. IInv => TypeOK
  BY DEF IInv
<1> QED BY <1>1, Invariant, PTL

(* The row names a droplet exactly while there is one to look after. *)
THEOREM RowsNameTheirDroplet == Spec => []RowNamesDroplet
<1>1. IInv => RowNamesDroplet
  BY DEF IInv, RowOK, RowNamesDroplet
<1> QED BY <1>1, Invariant, PTL

(* However many instances step and whatever fails, there is one droplet at most. *)
THEOREM NeverTwoDroplets == Spec => []OneDroplet
<1>1. IInv => OneDroplet
  BY DEF IInv
<1> QED BY <1>1, Invariant, PTL

(* A delete that is sent is p's own, for a row that was not being deleted. *)
LEMMA Deleting ==
    ASSUME IInv, Next, NEW p \in Steppers, Deletes(p)
    PROVE  DeleteDroplet(p) /\ st[p].actual # "deleting"
<1>1. PICK d \in Exist : cloud[d] # "dying" /\ cloud'[d] = "dying"
  BY DEF Deletes
<1>2. DeleteDroplet(p)
  <2>1. pc[p] \in {"delete", "timeout"} /\ \A q \in Steppers : q # p => pc[q] = "idle"
    BY DEF Deletes, IInv, Lock
  <2>2. ASSUME NEW q \in Steppers, TakeSFUBoxLease(q) \/ StepOn(q) \/ StepBreaks(q) \/ Crash(q)
        PROVE  DeleteDroplet(p)
    <3>1. UNCHANGED cloud \/ CreateDroplet(q) \/ DeleteDroplet(q)
      BY <2>2 DEF TakeSFUBoxLease, Begin, StepOn, StepBreaks, Crash, ReadSessions, ReadFinalizing, ReadClips, ReadActivity, FindManaged,
                  ParkIP, VolumeByName, Probe, ReadDroplet, AssignIP, DrainCheck, AskFirst, SaveSFUBox, ReleaseSFUBoxLease,
                  cloudVars
    <3>2. DeleteDroplet(q)
      BY <1>1, <2>1, <3>1 DEF CreateDroplet
    <3> QED BY <2>1, <3>2 DEF DeleteDroplet
  <2>3. CASE JoinStep
    <3>1. UNCHANGED cloud
      BY <2>3 DEF JoinStep, JoinReads, JoinOn, JoinRequests, JoinProbes, MarkSFUBoxReady, JoinEnters, RetrySFUBox, cloudVars
    <3> QED BY <1>1, <3>1
  <2>4. CASE WorldStep
    <3>1. UNCHANGED cloud \/ \E e \in Droplets : ComesUp(e) \/ Vanishes(e)
      BY <2>4 DEF WorldStep, LeaseRunsOut, BackoffRunsOut, GraceRunsOut, RequestRunsOut, SessionsBegin, SessionsEnd,
                  ClipsBegin, ClipsEnd, PeopleLeave, cloudVars
    <3>2. cloud'[d] # "dying"
      BY <1>1, <3>1 DEF ComesUp, Vanishes, Exist, IInv, TypeOK
    <3> QED BY <1>1, <3>2
  <2> QED BY <2>2, <2>3, <2>4 DEF Next
<1>3. d = st[p].droplet
  BY <1>1, <1>2 DEF DeleteDroplet, Dying, Exist, IInv, TypeOK
<1>4. st[p].actual # "deleting"
  BY <1>1, <1>3, Here DEF Doomed, Exist
<1> QED BY <1>2, <1>4

(* No step deletes a droplet that a session, clips or a request have needed
   ever since the step began, but past its boot deadline. *)
THEOREM NeverDeletedWhileNeeded == Spec => DeletesUnneeded
<1> DEFINE A == \A p \in Steppers : Deletes(p) /\ pc[p] = "delete" => steady[p] \subseteq {"people"}
<1>1. IInv /\ [Next]_vars => [A]_vars
  <2> SUFFICES ASSUME IInv, Next, NEW p \in Steppers, Deletes(p), pc[p] = "delete"
               PROVE  steady[p] \subseteq {"people"}
    OBVIOUS
  <2>1. st[p].actual # "deleting"
    BY Deleting
  <2>2. ~WantedUp(in[p]) /\ StepOK("delete", st[p], in[p], steady[p])
    BY <2>1, Here DEF StepOK
  <2> QED BY <2>2 DEF StepOK, WantedUp, NeededBySession, IInv, TypeOK, Demands
<1> QED BY <1>1, Invariant, PTL DEF Spec, DeletesUnneeded
=============================================================================
