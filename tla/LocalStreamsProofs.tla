------------------------- MODULE LocalStreamsProofs -------------------------
(***************************************************************************)
(* The allocator file and what the pipeline does with its slots, proved    *)
(* for any camera, any pools and any number of admin threads, faults and   *)
(* boots.  The argument is that a mountpoint id and a port are handed out  *)
(* in step: the lowest free id of the pool and the lowest free port pair   *)
(* always have the same offset, so an id determines its port for good,     *)
(* across resets of the file, and what Janus remembers stays usable.       *)
(***************************************************************************)
EXTENDS LocalStreams, FiniteSetTheorems, WellFoundedInduction, NaturalsInduction, TLAPS

-----------------------------------------------------------------------------
(* The inductive invariant.                                                *)

\* A pool id goes with the port pair of the same offset.
InStep(mp, port) == mp \in MpIdMin .. MpIdMax /\ port = PortMin + 2 * (mp - MpIdMin)

SlotFor(k, r) ==
    IF SensorOf(k) = "color" THEN r.mp = ColorMp /\ r.port = ColorPort ELSE InStep(r.mp, r.port)

RowFields == {"mp", "port", "desired"}

FileInv(rows) ==
    /\ DOMAIN rows \subseteq Keys
    /\ \A k \in DOMAIN rows : DOMAIN rows[k] = RowFields /\ SlotFor(k, rows[k])
    /\ \A j, k \in DOMAIN rows : j # k => rows[j].mp # rows[k].mp

\* What the pipeline itself has created.
JanusInv == \A m \in DOMAIN janus \ foreign : InStep(m, janus[m])

\* Some step of S is due, and a is not due before it.
DueBefore(rest, S, a) ==
    \E i \in 1 .. Len(rest) : rest[i] \in S /\ \A j \in 1 .. i - 1 : rest[j] # a

\* The row a call works with is the one of the file, unless that was reset.
Settled(k, r) ==
    /\ InStep(r.mp, r.port)
    /\ ~damaged => k \in DOMAIN alloc /\ alloc[k].mp = r.mp /\ alloc[k].port = r.port

StepNames == {"lock", "migrate", "ensure", "allocate", "mux", "contract", "create", "start",
              "check", "desire", "undesire", "halt", "destroy"}

JobFields == {"key", "rest", "row"}

JobInv(p) ==
    LET k == job[p].key
        rest == job[p].rest
    IN
    /\ DOMAIN job[p] = JobFields /\ rest \in Seq(StepNames)
    /\ rest # <<>> => k \in Keys
    /\ SensorOf(k) = "color" => \A i \in 1 .. Len(rest) : rest[i] \notin {"allocate", "create"}
    /\ SensorOf(k) # "color" => \A i \in 1 .. Len(rest) : rest[i] \notin {"ensure", "migrate"}
    /\ SensorOf(k) # "color" /\ DueBefore(rest, {"contract", "create"}, "allocate")
         => Settled(k, job[p].row)

\* A port that is configured or in use is that of the sensor's row.
PortInv(s, port) ==
    port # 0 => IF s = "color"
                THEN port = ColorPort
                ELSE ~damaged => /\ <<Serial, s>> \in DOMAIN alloc
                                 /\ alloc[<<Serial, s>>].port = port

WorldInv ==
    /\ DOMAIN contract = AllSensors /\ DOMAIN unit = AllSensors
    /\ \A s \in AllSensors : PortInv(s, contract[s]) /\ PortInv(s, unit[s])
    /\ JanusInv

LocalInv ==
    /\ ~damaged => ~corrupt
    /\ corrupt \in BOOLEAN /\ damaged \in BOOLEAN
    /\ FileInv(alloc)
    /\ WorldInv
    /\ DOMAIN job = Procs /\ \A p \in Procs : JobInv(p)
    /\ todo \in Seq(Keys)

(* The boot, as long as nothing disturbs it.                               *)

Past(rest, a) == \A i \in 1 .. Len(rest) : rest[i] # a

\* What is prepared before the unit starts, and what is never part of a start.
Preparing == {"lock", "allocate", "contract", "create"}
Ending == {"check", "desire"}

\* A start that is under way: everything is prepared before the unit starts.
Starting(rest) ==
    /\ rest[Len(rest)] \in Ending /\ \A i \in 2 .. Len(rest) : rest[i] # "lock"
    /\ \A i \in 1 .. Len(rest) : rest[i] \notin {"undesire", "halt", "destroy"}
    /\ \A i, j \in 1 .. Len(rest) : rest[i] = "start" /\ rest[j] \in Preparing => j < i
    /\ \A i, j \in 1 .. Len(rest) :
         rest[i] = "allocate" /\ rest[j] \in {"contract", "create"} => i < j
    /\ \A i, j \in 1 .. Len(rest) : rest[i] = "start" /\ rest[j] = "check" => i < j

Up(k) ==
    /\ unit[SensorOf(k)] = alloc[k].port
    /\ SensorOf(k) # "color" => alloc[k].mp \in DOMAIN janus

\* What the reconciler's call about key k has done so far.
Progress(k, rest, row) ==
    /\ k \in DOMAIN alloc /\ Starting(rest)
    /\ Past(rest, "lock") \/ \A j \in Keys : lock[j] = "none"
    /\ SensorOf(k) # "color" /\ Past(rest, "allocate") =>
          row.mp = alloc[k].mp /\ row.port = alloc[k].port
    /\ Past(rest, "contract") => contract[SensorOf(k)] = alloc[k].port
    /\ SensorOf(k) # "color" /\ Past(rest, "create") => alloc[k].mp \in DOMAIN janus
    /\ Past(rest, "start") => Up(k)

LoopInv ==
    /\ ~corrupt /\ \A k \in Keys : lock[k] \in {"none", Reconciler}
    /\ \A i \in 1 .. Len(todo) : todo[i] \in DOMAIN alloc
    /\ \A k \in DOMAIN alloc : unit[SensorOf(k)] # Down => Up(k)
    /\ job[Reconciler].rest # <<>> =>
          Progress(job[Reconciler].key, job[Reconciler].rest, job[Reconciler].row)
    /\ job[Reconciler].rest = <<>> => job[Reconciler] = Idle /\ \A k \in Keys : lock[k] = "none"
    /\ \A k \in DOMAIN alloc : alloc[k].desired =>
          \/ \E i \in 1 .. Len(todo) : todo[i] = k
          \/ job[Reconciler].rest # <<>> /\ job[Reconciler].key = k
          \/ Up(k)

BeforeLoop ==
    /\ \A s \in AllSensors : unit[s] = Down
    /\ job[Reconciler] = Idle /\ \A k \in Keys : lock[k] = "none"
    /\ stage = "ensure" => DOMAIN LoadForWrite = {}
    /\ stage = "desire" => ~corrupt /\ LegacyColor \in DOMAIN alloc
    /\ stage = "plan" => ~corrupt

BootInv ==
    /\ DOMAIN lock = Keys /\ stage \in {"seed", "ensure", "desire", "plan", "loop", "done", "died"}
    /\ ~disturbed =>
         /\ \A p \in Procs \ {Reconciler} : job[p] = Idle
         /\ stage \in {"seed", "ensure", "desire", "plan"} => BeforeLoop
         /\ stage = "loop" => LoopInv
         /\ stage = "done" => /\ job[Reconciler] = Idle
                              /\ \A k \in DOMAIN alloc : alloc[k].desired => Up(k)
         /\ stage # "died"

-----------------------------------------------------------------------------
(* Slots.                                                                  *)

\* Rows of different mountpoints have different port pairs.
LEMMA PairsApart ==
    ASSUME NEW rows, FileInv(rows)
    PROVE  \A j, k \in DOMAIN rows : j # k =>
             /\ rows[j].mp # rows[k].mp
             /\ {rows[j].port, rows[j].port + 1} \cap {rows[k].port, rows[k].port + 1} = {}
<1> SUFFICES ASSUME NEW j \in DOMAIN rows, NEW k \in DOMAIN rows, j # k
             PROVE  /\ rows[j].mp # rows[k].mp
                    /\ {rows[j].port, rows[j].port + 1}
                         \cap {rows[k].port, rows[k].port + 1} = {}
  OBVIOUS
<1>1. SlotFor(j, rows[j]) /\ SlotFor(k, rows[k]) /\ rows[j].mp # rows[k].mp
  BY DEF FileInv
<1> QED
  BY <1>1, LocalAssumption DEF SlotFor, InStep, MpIdMin, PortMin, ColorMp, ColorPort

LEMMA LeastElement ==
    ASSUME NEW S \in SUBSET Nat, S # {}
    PROVE  Min(S) \in S /\ \A m \in S : Min(S) =< m
<1> DEFINE R == {ss \in Nat \X Nat : ss[1] < ss[2]}
<1>1. OpToRel(<, Nat) = R
  BY Zenon DEF OpToRel
<1>2. PICK n \in S : \A m \in S : ~(<<m, n>> \in R)
  BY <1>1, WFMin, NatLessThanWellFounded
<1>3. ASSUME NEW m \in S PROVE n =< m
  <2>1. <<m, n>> \notin R
    BY <1>2
  <2>2. <<m, n>> \in Nat \X Nat
    OBVIOUS
  <2> QED
    BY <2>1, <2>2
<1> QED
  BY <1>3, Zenon DEF Min

\* The lowest free id and the lowest free port pair have the same offset:
\* neither pool has a gap that the other does not have.
LEMMA PicksInStep ==
    ASSUME NEW rows, FileInv(rows), FreeMps(rows) # {}, FreePorts(rows) # {}
    PROVE  /\ InStep(PickFree(rows).mp, PickFree(rows).port)
           /\ DOMAIN PickFree(rows) = RowFields
           /\ \A k \in DOMAIN rows : rows[k].mp # PickFree(rows).mp
<1> DEFINE m == Min(FreeMps(rows))
           q == Min(FreePorts(rows))
<1>1. FreeMps(rows) \subseteq Nat /\ FreePorts(rows) \subseteq Nat
  BY LocalAssumption DEF FreeMps, FreePorts, MpIdMin, PortMin
<1>2. m \in FreeMps(rows) /\ \A x \in FreeMps(rows) : m =< x
  BY <1>1, LeastElement
<1>3. q \in FreePorts(rows) /\ \A x \in FreePorts(rows) : q =< x
  BY <1>1, LeastElement
<1> HIDE DEF m, q
<1>4. /\ m \in MpIdMin .. MpIdMax /\ \A k \in DOMAIN rows : rows[k].mp # m
      /\ q \in PortMin .. PortMax - 1 /\ (q - PortMin) % 2 = 0
      /\ \A k \in DOMAIN rows : {q, q + 1} \cap {rows[k].port, rows[k].port + 1} = {}
  BY <1>2, <1>3 DEF FreeMps, FreePorts, UsedPorts
<1>5. PICK j \in Nat : q = PortMin + 2 * j
  <2>1. /\ q - PortMin \in Nat
        /\ q - PortMin = 2 * ((q - PortMin) \div 2) + ((q - PortMin) % 2)
        /\ (q - PortMin) \div 2 \in Nat
    BY <1>4, LocalAssumption DEF PortMin
  <2>2. q = PortMin + 2 * ((q - PortMin) \div 2)
    BY <1>4, <2>1, LocalAssumption DEF PortMin
  <2> QED
    BY <2>1, <2>2
<1>6. PICK i \in Nat : m = MpIdMin + i
  <2>1. m - MpIdMin \in Nat /\ m = MpIdMin + (m - MpIdMin)
    BY <1>4, LocalAssumption DEF MpIdMin
  <2> QED
    BY <2>1
<1>7. ~(j < i)
  <2> SUFFICES ASSUME j < i PROVE FALSE
    OBVIOUS
  <2>1. MpIdMin + j \in MpIdMin .. MpIdMax
    BY <1>4, <1>6, LocalAssumption DEF MpIdMin
  <2>2. MpIdMin + j \notin FreeMps(rows)
    BY <1>2, <1>6 DEF MpIdMin
  <2>3. PICK k \in DOMAIN rows : rows[k].mp = MpIdMin + j
    BY <2>1, <2>2 DEF FreeMps
  <2>4. rows[k].port = q
    BY <2>3, <1>5 DEF FileInv, SlotFor, InStep, MpIdMin, PortMin, ColorMp
  <2> QED
    BY <1>4, <2>4
<1>8. ~(i < j)
  <2> SUFFICES ASSUME i < j PROVE FALSE
    OBVIOUS
  <2> DEFINE pp == PortMin + 2 * i
  <2>1. pp \in PortMin .. PortMax - 1 /\ (pp - PortMin) % 2 = 0 /\ pp < q
    <3>1. pp - PortMin = 2 * i /\ (2 * i) % 2 = 0
      BY DEF PortMin
    <3> QED
      BY <1>4, <1>5, <3>1, LocalAssumption DEF PortMin
  <2>2. pp \notin FreePorts(rows)
    BY <1>3, <2>1, <1>1 DEF PortMin
  <2>3. PICK k \in DOMAIN rows : {pp, pp + 1} \cap {rows[k].port, rows[k].port + 1} # {}
    <3>1. {pp, pp + 1} \cap UsedPorts(rows) # {}
      BY <2>1, <2>2 DEF FreePorts
    <3> HIDE DEF pp
    <3>2. PICK x \in {pp, pp + 1} : x \in UsedPorts(rows)
      BY <3>1
    <3>3. PICK k \in DOMAIN rows : x \in {rows[k].port, rows[k].port + 1}
      BY <3>2 DEF UsedPorts
    <3> QED
      BY <3>2, <3>3
  <2>4. rows[k].mp = m
    <3>1. SlotFor(k, rows[k])
      BY DEF FileInv
    <3>2. rows[k].port = ColorPort \/ \E n \in Nat : rows[k].port = PortMin + 2 * n /\ rows[k].mp = MpIdMin + n
      BY <3>1, LocalAssumption DEF SlotFor, InStep, MpIdMin, PortMin
    <3> QED
      BY <2>3, <3>2, <1>6 DEF PortMin, ColorPort, MpIdMin
  <2> QED
    BY <1>4, <2>4
<1>9. i = j
  BY <1>7, <1>8
<1>10. InStep(m, q)
  BY <1>4, <1>5, <1>6, <1>9 DEF InStep, MpIdMin
<1>11. PickFree(rows).mp = m /\ PickFree(rows).port = q /\ DOMAIN PickFree(rows) = RowFields
  BY DEF PickFree, m, q, RowFields
<1> QED
  BY <1>4, <1>10, <1>11

-----------------------------------------------------------------------------
(* Writes of the file.                                                     *)

\* What a write leaves of the rows of the dynamic sensors.
Kept(rows, new) ==
    \A k \in DOMAIN rows : SensorOf(k) # "color" =>
        k \in DOMAIN new /\ new[k].mp = rows[k].mp /\ new[k].port = rows[k].port

LEMMA EmptyFile == FileInv([k \in {} |-> NoRow])
  BY DEF FileInv

\* A new row, in a slot that no other row has.
LEMMA NewRowKeeps ==
    ASSUME NEW rows, FileInv(rows), NEW k \in Keys, k \notin DOMAIN rows, NEW r,
           DOMAIN r = RowFields, SlotFor(k, r), \A j \in DOMAIN rows : rows[j].mp # r.mp
    PROVE  FileInv(WithRow(rows, k, r)) /\ Kept(rows, WithRow(rows, k, r))
<1> DEFINE new == WithRow(rows, k, r)
<1>1. /\ DOMAIN new = DOMAIN rows \cup {k} /\ new[k] = r
      /\ \A j \in DOMAIN rows : new[j] = rows[j]
  BY DEF WithRow
<1> HIDE DEF new
<1>2. FileInv(new) /\ Kept(rows, new)
  BY <1>1 DEF FileInv, Kept
<1> QED
  BY <1>2 DEF new

\* The static slot of color, once no row is in its way.
LEMMA ColorRowKeeps ==
    ASSUME NEW rows, FileInv(rows), NEW k \in Keys, k \notin DOMAIN rows,
           SensorOf(k) = "color", ~Clobbers(rows, ColorRow)
    PROVE  FileInv(WithRow(rows, k, ColorRow)) /\ Kept(rows, WithRow(rows, k, ColorRow))
<1>1. /\ DOMAIN ColorRow = RowFields /\ SlotFor(k, ColorRow)
      /\ \A j \in DOMAIN rows : rows[j].mp # ColorRow.mp
  BY DEF ColorRow, RowFields, SlotFor, Clobbers
<1> QED
  BY <1>1, NewRowKeeps

\* local:color becomes <serial>:color.
LEMMA MigrationKeeps ==
    ASSUME NEW rows, FileInv(rows), LegacyColor \in DOMAIN rows, ColorKey \notin DOMAIN rows
    PROVE  LET new == WithRow(Restrict(rows, DOMAIN rows \ {LegacyColor}),
                              ColorKey, rows[LegacyColor])
           IN  FileInv(new) /\ Kept(rows, new)
<1> DEFINE rest == Restrict(rows, DOMAIN rows \ {LegacyColor})
<1>1. DOMAIN rest = DOMAIN rows \ {LegacyColor} /\ \A j \in DOMAIN rest : rest[j] = rows[j]
  BY DEF Restrict
<1> HIDE DEF rest
<1>2. /\ FileInv(rest) /\ Kept(rows, rest) /\ ColorKey \notin DOMAIN rest /\ ColorKey \in Keys
      /\ \A j \in DOMAIN rest : rest[j].mp # rows[LegacyColor].mp
  BY <1>1 DEF FileInv, Kept, LegacyColor, SensorOf, Keys
<1>3. SlotFor(ColorKey, rows[LegacyColor]) /\ DOMAIN rows[LegacyColor] = RowFields
  BY DEF FileInv, SlotFor, SensorOf, LegacyColor, ColorKey
<1>4. /\ FileInv(WithRow(rest, ColorKey, rows[LegacyColor]))
      /\ Kept(rest, WithRow(rest, ColorKey, rows[LegacyColor]))
  BY <1>2, <1>3, NewRowKeeps
<1>5. Kept(rows, WithRow(rest, ColorKey, rows[LegacyColor]))
  BY <1>2, <1>4 DEF Kept
<1> QED
  BY <1>4, <1>5 DEF rest

\* set_desired.
LEMMA DesireKeeps ==
    ASSUME NEW rows, FileInv(rows), NEW k \in DOMAIN rows, NEW b
    PROVE  FileInv([rows EXCEPT ![k].desired = b]) /\ Kept(rows, [rows EXCEPT ![k].desired = b])
<1> DEFINE new == [rows EXCEPT ![k].desired = b]
<1>1. /\ DOMAIN new = DOMAIN rows
      /\ \A j \in DOMAIN rows : /\ DOMAIN new[j] = RowFields /\ new[j].mp = rows[j].mp
                                /\ new[j].port = rows[j].port
  BY DEF FileInv, RowFields
<1> HIDE DEF new
<1>2. FileInv(new) /\ Kept(rows, new)
  BY <1>1 DEF FileInv, Kept, SlotFor
<1> QED
  BY <1>2 DEF new

\* A key other than the two of color is that of a dynamic sensor.
LEMMA KeyOfSensor ==
    ASSUME NEW k \in Keys
    PROVE  /\ SensorOf(k) \in AllSensors
           /\ SensorOf(k) # "color" => SensorOf(k) \in Sensors /\ k = <<Serial, SensorOf(k)>>
  BY DEF Keys, SensorOf, AllSensors, LegacyColor, ColorKey

\* What every step does to the file.
FileGoal ==
    /\ FileInv(alloc)' /\ corrupt' \in BOOLEAN /\ damaged' \in BOOLEAN
    /\ ~damaged' => ~corrupt' /\ ~damaged /\ Kept(alloc, alloc')

LEMMA LoadIsFile ==
    ASSUME LocalInv
    PROVE  /\ FileInv(LoadForWrite) /\ LoadForRead = LoadForWrite
           /\ ~damaged => LoadForWrite = alloc
           /\ ~corrupt => LoadForWrite = alloc
  BY EmptyFile DEF LocalInv, LoadForWrite, LoadForRead

LEMMA FileStep ==
    ASSUME LocalInv, LocalNext PROVE FileGoal
<1>r. /\ FileInv(LoadForWrite) /\ (~damaged => LoadForWrite = alloc)
      /\ FileInv(alloc) /\ corrupt \in BOOLEAN /\ damaged \in BOOLEAN /\ (~damaged => ~corrupt)
  BY LoadIsFile DEF LocalInv
<1>k. \A rows : Kept(rows, rows)
  BY DEF Kept
<1>u. ASSUME UNCHANGED store, UNCHANGED damaged PROVE FileGoal
  BY <1>r, <1>u, <1>k DEF FileGoal, store
<1>w. ASSUME NEW new, Persist(new), FileInv(new), Kept(LoadForWrite, new), UNCHANGED damaged
      PROVE  FileGoal
  <2>1. alloc' = new /\ corrupt' = FALSE /\ damaged' = damaged
    BY <1>w DEF Persist
  <2>2. FileInv(alloc)'
    BY <1>w, <2>1 DEF FileInv
  <2>3. ASSUME ~damaged' PROVE Kept(alloc, alloc')
    BY <1>r, <1>w, <2>1, <2>3 DEF Kept
  <2>4. damaged' \in BOOLEAN /\ corrupt' \in BOOLEAN /\ ~corrupt'
    BY <1>r, <2>1
  <2>5. ~damaged' => ~damaged
    BY <2>1
  <2> QED
    BY <2>2, <2>3, <2>4, <2>5, Zenon DEF FileGoal
<1>s. ASSUME Persist(LoadForWrite), UNCHANGED damaged PROVE FileGoal
  BY <1>s, <1>r, <1>k, <1>w
<1>1. ASSUME NEW p \in Procs, PipelineStep(p) PROVE FileGoal
  <2>0. JobInv(p) /\ Key(p) = job[p].key
    BY DEF LocalInv, Key
  <2>k. ASSUME NEW st, Doing(p, st)
        PROVE  /\ Key(p) \in Keys
               /\ (st = "ensure" => SensorOf(Key(p)) = "color")
               /\ (st = "allocate" => SensorOf(Key(p)) # "color")
    <3>1. job[p].rest # <<>> /\ Head(job[p].rest) = st /\ job[p].rest \in Seq(StepNames)
      BY <2>0, <2>k DEF Doing, JobInv
    <3>2. 1 \in 1 .. Len(job[p].rest) /\ job[p].rest[1] = st
      BY <3>1
    <3> QED
      BY <2>0, <3>1, <3>2 DEF JobInv
  <2>1. CASE TakeLock(p) \/ WriteContract(p) \/ StartMux(p) \/ CreateMountpoint(p)
             \/ StartUnit(p) \/ CheckUnit(p) \/ StopUnit(p) \/ DestroyMountpoint(p)
    BY <2>1, <1>u DEF TakeLock, WriteContract, StartMux, CreateMountpoint, StartUnit, CheckUnit,
       StopUnit, DestroyMountpoint, others, store
  <2>2. CASE MigrateColorKey(p)
    <3>1. UNCHANGED damaged
      BY <2>2 DEF MigrateColorKey, others
    <3>2. \/ UNCHANGED store
          \/ Persist(LoadForWrite)
          \/ /\ LegacyColor \in DOMAIN LoadForWrite /\ ColorKey \notin DOMAIN LoadForWrite
             /\ Persist(WithRow(Restrict(LoadForWrite, DOMAIN LoadForWrite \ {LegacyColor}),
                                ColorKey, LoadForWrite[LegacyColor]))
      BY <2>2 DEF MigrateColorKey
    <3> QED
      BY <1>u, <1>s, <1>w, <1>r, <3>1, <3>2, MigrationKeeps
  <2>3. CASE EnsureColor(p)
    <3>1. UNCHANGED damaged /\ Key(p) \in Keys /\ SensorOf(Key(p)) = "color"
      BY <2>3, <2>k DEF EnsureColor, others
    <3>2. \/ UNCHANGED store
          \/ Persist(LoadForWrite)
          \/ /\ Key(p) \notin DOMAIN LoadForWrite /\ ~Clobbers(LoadForWrite, ColorRow)
             /\ Persist(WithRow(LoadForWrite, Key(p), ColorRow))
      BY <2>3 DEF EnsureColor
    <3> QED
      BY <1>u, <1>s, <1>w, <1>r, <3>1, <3>2, ColorRowKeeps
  <2>4. CASE Allocate(p)
    <3>1. UNCHANGED damaged /\ Key(p) \in Keys /\ SensorOf(Key(p)) # "color"
      BY <2>4, <2>k DEF Allocate, others
    <3>2. \/ UNCHANGED store
          \/ Persist(LoadForWrite)
          \/ /\ Key(p) \notin DOMAIN LoadForWrite
             /\ FreeMps(LoadForWrite) # {} /\ FreePorts(LoadForWrite) # {}
             /\ Persist(WithRow(LoadForWrite, Key(p), PickFree(LoadForWrite)))
      BY <2>4 DEF Allocate
    <3>3. ASSUME Key(p) \notin DOMAIN LoadForWrite,
                 FreeMps(LoadForWrite) # {}, FreePorts(LoadForWrite) # {}
          PROVE  /\ FileInv(WithRow(LoadForWrite, Key(p), PickFree(LoadForWrite)))
                 /\ Kept(LoadForWrite, WithRow(LoadForWrite, Key(p), PickFree(LoadForWrite)))
      <4>1. /\ DOMAIN PickFree(LoadForWrite) = RowFields
            /\ SlotFor(Key(p), PickFree(LoadForWrite))
            /\ \A j \in DOMAIN LoadForWrite : LoadForWrite[j].mp # PickFree(LoadForWrite).mp
        BY <1>r, <3>1, <3>3, PicksInStep DEF SlotFor
      <4> QED
        BY <1>r, <3>1, <3>3, <4>1, NewRowKeeps
    <3> QED
      BY <1>u, <1>s, <1>w, <3>1, <3>2, <3>3
  <2>5. CASE SetDesired(p) \/ ClearDesired(p)
    <3>1. UNCHANGED damaged
      BY <2>5 DEF SetDesired, ClearDesired, others
    <3>2. \/ UNCHANGED store
          \/ /\ Key(p) \in DOMAIN LoadForWrite
             /\ \E b \in BOOLEAN : Persist([LoadForWrite EXCEPT ![Key(p)].desired = b])
      BY <2>5 DEF SetDesired, ClearDesired
    <3> QED
      BY <1>u, <1>w, <1>r, <3>1, <3>2, DesireKeeps
  <2> QED
    BY <1>1, <2>1, <2>2, <2>3, <2>4, <2>5 DEF PipelineStep
<1>2. CASE \E p \in Admins : ActivateLocal(p) \/ InitializeSensor(p) \/ StopLocal(p)
  BY <1>2, <1>u DEF ActivateLocal, InitializeSensor, StopLocal, Calls
<1>3. CASE SeedIfEmpty \/ Plan \/ ReconcileStream \/ DashboardCreates \/ DashboardDestroys
  BY <1>3, <1>u DEF SeedIfEmpty, Plan, ReconcileStream, DashboardCreates, DashboardDestroys,
     DashboardCall, bounds, others
<1>4. CASE SeedColor
  <2>1. UNCHANGED damaged /\ LegacyColor \in Keys /\ SensorOf(LegacyColor) = "color"
    BY <1>4 DEF SeedColor, bounds, Keys, LegacyColor, SensorOf
  <2>2. \/ UNCHANGED store
        \/ Persist(LoadForWrite)
        \/ /\ LegacyColor \notin DOMAIN LoadForWrite /\ ~Clobbers(LoadForWrite, ColorRow)
           /\ Persist(WithRow(LoadForWrite, LegacyColor, ColorRow))
        \/ /\ LegacyColor \in DOMAIN LoadForWrite
           /\ Persist([LoadForWrite EXCEPT ![LegacyColor].desired = TRUE])
    BY <1>4 DEF SeedColor
  <2> QED
    BY <1>u, <1>s, <1>w, <1>r, <2>1, <2>2, ColorRowKeeps, DesireKeeps
<1>5. CASE Environment
  <2>1. CASE FileCorrupted
    BY <2>1, <1>r DEF FileCorrupted, FileGoal, FileInv
  <2> QED
    BY <1>5, <2>1, <1>u DEF Environment, JanusRestarts, EncoderDies, ControlPlaneDies, NodeBoots,
       others
<1> QED
  BY <1>1, <1>2, <1>3, <1>4, <1>5 DEF LocalNext

-----------------------------------------------------------------------------
(* Calls in flight.                                                        *)

LEMMA TailOf ==
    ASSUME NEW rest \in Seq(StepNames), rest # <<>>
    PROVE  /\ Tail(rest) \in Seq(StepNames) /\ Len(Tail(rest)) = Len(rest) - 1 /\ Len(rest) \in Nat
           /\ \A i \in 1 .. Len(rest) - 1 : Tail(rest)[i] = rest[i + 1]
           /\ rest[1] = Head(rest) /\ Len(rest) > 0
  OBVIOUS

LEMMA DueLater ==
    ASSUME NEW rest \in Seq(StepNames), rest # <<>>, NEW S, NEW a, Head(rest) # a,
           DueBefore(Tail(rest), S, a)
    PROVE  DueBefore(rest, S, a)
<1> DEFINE t == Tail(rest)
<1>1. PICK i \in 1 .. Len(t) : t[i] \in S /\ \A j \in 1 .. i - 1 : t[j] # a
  BY DEF DueBefore
<1>2. /\ Len(t) = Len(rest) - 1 /\ Len(rest) \in Nat /\ rest[1] = Head(rest)
      /\ \A n \in 1 .. Len(rest) - 1 : t[n] = rest[n + 1]
  BY TailOf
<1> HIDE DEF t
<1>3. i + 1 \in 1 .. Len(rest) /\ rest[i + 1] \in S
  BY <1>1, <1>2
<1>4. ASSUME NEW j \in 1 .. (i + 1) - 1 PROVE rest[j] # a
  <2>1. CASE j = 1
    BY <1>2, <2>1
  <2>2. CASE j # 1
    <3>1. j - 1 \in 1 .. i - 1 /\ j - 1 \in 1 .. Len(rest) - 1 /\ (j - 1) + 1 = j
      BY <1>1, <1>2, <2>2
    <3> QED
      BY <1>1, <1>2, <3>1
  <2> QED
    BY <2>1, <2>2
<1> QED
  BY <1>3, <1>4 DEF DueBefore

LEMMA IdleFits ==
    ASSUME NEW p, job'[p] = Idle PROVE JobInv(p)'
  BY DEF JobInv, Idle, DueBefore, JobFields, NoKey, SensorOf

\* A call that another process's step leaves alone.
LEMMA WaitingFits ==
    ASSUME NEW p, JobInv(p), job'[p] = job[p],
           ~damaged' => ~damaged /\ Kept(alloc, alloc')
    PROVE  JobInv(p)'
<1>1. PICK k, r, rest : k = job[p].key /\ r = job[p].row /\ rest = job[p].rest
  OBVIOUS
<1>2. ASSUME Settled(k, r), SensorOf(k) # "color" PROVE Settled(k, r)'
  BY <1>2 DEF Settled, Kept
<1>3. k = job'[p].key /\ r = job'[p].row /\ rest = job'[p].rest /\ DOMAIN job'[p] = DOMAIN job[p]
  BY <1>1
<1>4. /\ DOMAIN job[p] = JobFields /\ rest \in Seq(StepNames)
      /\ rest # <<>> => k \in Keys
      /\ SensorOf(k) = "color" => \A i \in 1 .. Len(rest) : rest[i] \notin {"allocate", "create"}
      /\ SensorOf(k) # "color" => \A i \in 1 .. Len(rest) : rest[i] \notin {"ensure", "migrate"}
      /\ SensorOf(k) # "color" /\ DueBefore(rest, {"contract", "create"}, "allocate")
           => Settled(k, r)
  BY <1>1 DEF JobInv
<1> QED
  BY <1>2, <1>3, <1>4 DEF JobInv

\* A step of a call.
LEMMA StepFits ==
    ASSUME NEW p, JobInv(p), job[p].rest # <<>>, NEW r, NEW k, k = job[p].key,
           DOMAIN job'[p] = JobFields, job'[p].key = k, job'[p].rest = Tail(job[p].rest),
           job'[p].row = r, ~damaged' => ~damaged /\ Kept(alloc, alloc'),
           \/ SensorOf(k) = "color"
           \/ r = job[p].row /\ Head(job[p].rest) # "allocate"
           \/ Settled(k, r)'
    PROVE  JobInv(p)'
<1> DEFINE rest == job[p].rest
<1>1. rest \in Seq(StepNames) /\ rest # <<>> /\ k \in Keys
  BY DEF JobInv
<1>2. PICK t : t = Tail(rest)
  OBVIOUS
<1>3. /\ t \in Seq(StepNames) /\ Len(t) = Len(rest) - 1 /\ Len(rest) \in Nat
      /\ \A i \in 1 .. Len(rest) - 1 : t[i] = rest[i + 1]
  BY <1>1, <1>2, TailOf
<1>4. \A i \in 1 .. Len(t) : i + 1 \in 1 .. Len(rest) /\ t[i] = rest[i + 1]
  BY <1>3
<1>5. /\ SensorOf(k) = "color" => \A i \in 1 .. Len(t) : t[i] \notin {"allocate", "create"}
      /\ SensorOf(k) # "color" => \A i \in 1 .. Len(t) : t[i] \notin {"ensure", "migrate"}
  BY <1>4 DEF JobInv
<1>6. ASSUME SensorOf(k) # "color", DueBefore(t, {"contract", "create"}, "allocate")
      PROVE  Settled(k, r)'
  <2>1. CASE r = job[p].row /\ Head(rest) # "allocate"
    <3>1. Settled(k, r)
      BY <1>1, <1>2, <1>6, <2>1, DueLater DEF JobInv
    <3> QED
      BY <3>1, <1>6 DEF Settled, Kept
  <2> QED
    BY <1>6, <2>1
<1> QED
  BY <1>1, <1>2, <1>3, <1>5, <1>6 DEF JobInv

\* What a step of the pipeline does to the calls.
LEMMA CallMoves ==
    ASSUME LocalInv, FileGoal, NEW p \in Procs, job[p].rest # <<>>, NEW k, k = job[p].key,
           NEW r,
           \/ job' = [job EXCEPT ![p] = Idle]
           \/ /\ job' = [job EXCEPT ![p].rest = Tail(@)]
              /\ r = job[p].row /\ Head(job[p].rest) # "allocate"
           \/ /\ job' = [job EXCEPT ![p].rest = Tail(@), ![p].row = r]
              /\ \/ SensorOf(k) = "color"
                 \/ r = job[p].row /\ Head(job[p].rest) # "allocate"
                 \/ Settled(k, r)'
    PROVE  DOMAIN job' = Procs /\ \A q \in Procs : JobInv(q)'
<1>0. /\ DOMAIN job = Procs /\ \A q \in Procs : JobInv(q)
      /\ (~damaged' => ~damaged /\ Kept(alloc, alloc'))
  BY DEF LocalInv, FileGoal
<1>1. DOMAIN job' = Procs /\ \A q \in Procs \ {p} : job'[q] = job[q]
  BY <1>0
<1>2. \A q \in Procs \ {p} : JobInv(q)'
  BY <1>0, <1>1, WaitingFits
<1>3. CASE job' = [job EXCEPT ![p] = Idle]
  <2>1. job'[p] = Idle
    BY <1>0, <1>3
  <2> QED
    BY <1>1, <1>2, <2>1, IdleFits
<1>4. ASSUME \/ job' = [job EXCEPT ![p].rest = Tail(@)] /\ r = job[p].row
             \/ job' = [job EXCEPT ![p].rest = Tail(@), ![p].row = r],
             \/ SensorOf(k) = "color"
             \/ r = job[p].row /\ Head(job[p].rest) # "allocate"
             \/ Settled(k, r)'
      PROVE  JobInv(p)'
  <2>1. DOMAIN job[p] = JobFields
    BY <1>0 DEF JobInv
  <2>2. DOMAIN job'[p] = JobFields /\ job'[p].key = k /\ job'[p].rest = Tail(job[p].rest)
        /\ job'[p].row = r
    BY <1>0, <1>4, <2>1 DEF JobFields
  <2> QED
    BY <1>0, <1>4, <2>2, StepFits
<1> QED
  BY <1>1, <1>2, <1>3, <1>4

\* The programs, position by position.
LEMMA FourSteps ==
    ASSUME NEW X, NEW a \in X, NEW b \in X, NEW c \in X, NEW d \in X,
           NEW steps, steps = <<a, b, c, d>>
    PROVE  /\ steps \in Seq(X) /\ Len(steps) = 4
           /\ steps[1] = a /\ steps[2] = b /\ steps[3] = c /\ steps[4] = d
           /\ \A i \in 1 .. Len(steps) : i = 1 \/ i = 2 \/ i = 3 \/ i = 4
<1>1. <<a, b, c, d>> \in Seq(X) /\ Len(<<a, b, c, d>>) = 4
  OBVIOUS
<1>2. steps[1] = a /\ steps[2] = b /\ steps[3] = c /\ steps[4] = d
  OBVIOUS
<1>3. \A i \in 1 .. 4 : i = 1 \/ i = 2 \/ i = 3 \/ i = 4
  OBVIOUS
<1> QED
  BY <1>1, <1>2, <1>3

LEMMA EightSteps ==
    ASSUME NEW X, NEW a \in X, NEW b \in X, NEW c \in X, NEW d \in X,
           NEW e \in X, NEW f \in X, NEW g \in X, NEW h \in X,
           NEW steps, steps = <<a, b, c, d, e, f, g, h>>
    PROVE  /\ steps \in Seq(X) /\ Len(steps) = 8
           /\ steps[1] = a /\ steps[2] = b /\ steps[3] = c /\ steps[4] = d
           /\ steps[5] = e /\ steps[6] = f /\ steps[7] = g /\ steps[8] = h
           /\ \A i \in 1 .. Len(steps) :
                i = 1 \/ i = 2 \/ i = 3 \/ i = 4 \/ i = 5 \/ i = 6 \/ i = 7 \/ i = 8
<1>1. <<a, b, c, d, e, f, g, h>> \in Seq(X) /\ Len(<<a, b, c, d, e, f, g, h>>) = 8
  OBVIOUS
<1>2. /\ steps[1] = a /\ steps[2] = b /\ steps[3] = c /\ steps[4] = d
      /\ steps[5] = e /\ steps[6] = f /\ steps[7] = g /\ steps[8] = h
  OBVIOUS
<1>3. \A i \in 1 .. 8 : i = 1 \/ i = 2 \/ i = 3 \/ i = 4 \/ i = 5 \/ i = 6 \/ i = 7 \/ i = 8
  OBVIOUS
<1> QED
  BY <1>1, <1>2, <1>3

\* A call that starts.
LEMMA NewCallFits ==
    ASSUME NEW p, NEW k \in Keys, NEW steps, steps \in {InitializeSteps(k), StopSteps(k)},
           job'[p] = [key |-> k, rest |-> steps, row |-> NoRow]
    PROVE  JobInv(p)'
<1>1. job'[p].key = k /\ job'[p].rest = steps /\ DOMAIN job'[p] = JobFields
  BY DEF JobFields
<1>2. CASE SensorOf(k) = "color"
  <2>1. /\ steps \in Seq(StepNames)
        /\ \A i \in 1 .. Len(steps) : steps[i] \notin {"allocate", "create"}
    <3>1. CASE steps = <<"lock", "migrate", "ensure", "contract", "desire", "mux", "start", "check">>
      <4>1. /\ steps \in Seq(StepNames)
            /\ steps[1] = "lock" /\ steps[2] = "migrate" /\ steps[3] = "ensure"
            /\ steps[4] = "contract" /\ steps[5] = "desire" /\ steps[6] = "mux"
            /\ steps[7] = "start" /\ steps[8] = "check"
            /\ \A i \in 1 .. Len(steps) :
                 i = 1 \/ i = 2 \/ i = 3 \/ i = 4 \/ i = 5 \/ i = 6 \/ i = 7 \/ i = 8
        BY <3>1, EightSteps DEF StepNames
      <4> QED
        BY <4>1
    <3>2. CASE steps = <<"lock", "migrate", "undesire", "halt">>
      <4>1. /\ steps \in Seq(StepNames)
            /\ steps[1] = "lock" /\ steps[2] = "migrate" /\ steps[3] = "undesire"
            /\ steps[4] = "halt" /\ \A i \in 1 .. Len(steps) : i = 1 \/ i = 2 \/ i = 3 \/ i = 4
        BY <3>2, FourSteps DEF StepNames
      <4> QED
        BY <4>1
    <3> QED
      BY <1>2, <3>1, <3>2 DEF InitializeSteps, StopSteps
  <2> QED
    BY <1>1, <1>2, <2>1 DEF JobInv
<1>3. CASE SensorOf(k) # "color"
  <2>1. /\ steps \in Seq(StepNames)
        /\ \A i \in 1 .. Len(steps) : steps[i] \notin {"ensure", "migrate"}
        /\ ~DueBefore(steps, {"contract", "create"}, "allocate")
    <3>1. CASE steps = <<"lock", "allocate", "mux", "contract", "create", "start", "check", "desire">>
      <4>1. /\ steps \in Seq(StepNames) /\ Len(steps) = 8
            /\ \A i \in 1 .. Len(steps) : steps[i] \notin {"ensure", "migrate"}
            /\ steps[2] = "allocate"
            /\ \A i \in 1 .. Len(steps) : steps[i] \in {"contract", "create"} => i > 2
        <5>1. /\ steps \in Seq(StepNames) /\ Len(steps) = 8
              /\ steps[1] = "lock" /\ steps[2] = "allocate" /\ steps[3] = "mux"
              /\ steps[4] = "contract" /\ steps[5] = "create" /\ steps[6] = "start"
              /\ steps[7] = "check" /\ steps[8] = "desire"
              /\ \A i \in 1 .. Len(steps) :
                   i = 1 \/ i = 2 \/ i = 3 \/ i = 4 \/ i = 5 \/ i = 6 \/ i = 7 \/ i = 8
          BY <3>1, EightSteps DEF StepNames
        <5> QED
          BY <5>1
      <4>2. ASSUME NEW i \in 1 .. Len(steps), steps[i] \in {"contract", "create"}
            PROVE  \E j \in 1 .. i - 1 : steps[j] = "allocate"
        <5>1. 2 \in 1 .. i - 1
          BY <4>1, <4>2
        <5> QED
          BY <4>1, <5>1
      <4> QED
        BY <4>1, <4>2 DEF DueBefore
    <3>2. CASE steps = <<"lock", "undesire", "halt", "destroy">>
      <4>1. /\ steps \in Seq(StepNames)
            /\ steps[1] = "lock" /\ steps[2] = "undesire" /\ steps[3] = "halt"
            /\ steps[4] = "destroy" /\ \A i \in 1 .. Len(steps) : i = 1 \/ i = 2 \/ i = 3 \/ i = 4
        BY <3>2, FourSteps DEF StepNames
      <4> QED
        BY <4>1 DEF DueBefore
    <3> QED
      BY <1>3, <3>1, <3>2 DEF InitializeSteps, StopSteps
  <2> QED
    BY <1>1, <1>3, <2>1 DEF JobInv
<1> QED
  BY <1>2, <1>3

\* The row that allocate returns is the one in the file.
LEMMA AllocateSettles ==
    ASSUME LocalInv, NEW p \in Procs, Allocate(p), NEW k, k = job[p].key
    PROVE  \/ Ends(p)
           \/ \E r : Advance(p, r) /\ Settled(k, r)'
<1>1. /\ FileInv(LoadForWrite) /\ JobInv(p) /\ Doing(p, "allocate") /\ damaged' = damaged
      /\ Key(p) = k
  BY LoadIsFile DEF LocalInv, Allocate, others, Key
<1>2. SensorOf(k) # "color"
  <2>1. job[p].rest # <<>> /\ Head(job[p].rest) = "allocate" /\ job[p].rest \in Seq(StepNames)
    BY <1>1 DEF Doing, JobInv
  <2>2. 1 \in 1 .. Len(job[p].rest) /\ job[p].rest[1] = "allocate"
    BY <2>1
  <2> QED
    BY <1>1, <2>1, <2>2 DEF JobInv
<1>3. CASE k \in DOMAIN LoadForWrite /\ Persist(LoadForWrite) /\ Advance(p, LoadForWrite[k])
  <2>1. PICK r : r = LoadForWrite[k]
    OBVIOUS
  <2>2. InStep(r.mp, r.port)
    BY <1>1, <1>2, <1>3, <2>1 DEF FileInv, SlotFor
  <2>3. k \in DOMAIN alloc' /\ alloc'[k] = r
    BY <1>3, <2>1 DEF Persist
  <2> QED
    BY <1>3, <2>1, <2>2, <2>3 DEF Settled
<1>4. CASE /\ k \notin DOMAIN LoadForWrite
           /\ FreeMps(LoadForWrite) # {} /\ FreePorts(LoadForWrite) # {}
           /\ Persist(WithRow(LoadForWrite, k, PickFree(LoadForWrite)))
           /\ Advance(p, PickFree(LoadForWrite))
  <2>1. PICK r : r = PickFree(LoadForWrite)
    OBVIOUS
  <2>2. InStep(r.mp, r.port)
    BY <1>1, <1>4, <2>1, PicksInStep
  <2>3. k \in DOMAIN alloc' /\ alloc'[k] = r
    BY <1>4, <2>1 DEF Persist, WithRow
  <2> QED
    BY <1>4, <2>1, <2>2, <2>3 DEF Settled
<1>5. CASE Raises(p)
  BY <1>5 DEF Raises
<1> QED
  BY <1>1, <1>3, <1>4, <1>5 DEF Allocate

JobsGoal == DOMAIN job' = Procs /\ \A q \in Procs : JobInv(q)'

LEMMA PipelineKeepsJobs ==
    ASSUME LocalInv, FileGoal, NEW p \in Procs, PipelineStep(p)
    PROVE  JobsGoal
<1> DEFINE k == job[p].key
<1>0. DOMAIN job = Procs /\ Key(p) = k
  BY DEF LocalInv, Key
<1>e. ASSUME Ends(p), job[p].rest # <<>> PROVE JobsGoal
  BY <1>e, CallMoves DEF Ends, JobsGoal
<1>g. ASSUME NEW st, Doing(p, st), st # "allocate", Advance(p, job[p].row) PROVE JobsGoal
  <2>1. job[p].rest # <<>> /\ Head(job[p].rest) # "allocate"
    BY <1>g DEF Doing
  <2>2. CASE Ends(p)
    BY <1>e, <2>1, <2>2
  <2>3. CASE job' = [job EXCEPT ![p].rest = Tail(@), ![p].row = job[p].row]
    BY <2>1, <2>3, CallMoves DEF JobsGoal
  <2> QED
    BY <1>g, <2>2, <2>3 DEF Advance
<1>1. CASE TakeLock(p)
  <2>1. Doing(p, "lock") /\ job[p].rest # <<>> /\ Head(job[p].rest) # "allocate"
    BY <1>1 DEF TakeLock, Doing
  <2>2. job' = [job EXCEPT ![p] = Idle] \/ job' = [job EXCEPT ![p].rest = Tail(@)]
    BY <1>1 DEF TakeLock
  <2>3. PICK r : r = job[p].row
    OBVIOUS
  <2> QED
    BY <2>1, <2>2, <2>3, CallMoves DEF JobsGoal
<1>2. CASE EnsureColor(p)
  <2>1. Doing(p, "ensure") /\ job[p].rest # <<>> /\ Head(job[p].rest) = "ensure"
    BY <1>2 DEF EnsureColor, Doing
  <2>2. JobInv(p) /\ job[p].rest \in Seq(StepNames)
    BY DEF LocalInv, JobInv
  <2>3. SensorOf(k) = "color"
    <3>1. 1 \in 1 .. Len(job[p].rest) /\ job[p].rest[1] = "ensure"
      BY <2>1, <2>2
    <3> QED
      BY <2>2, <3>1 DEF JobInv
  <2>4. Ends(p) \/ \E r : Advance(p, r)
    BY <1>2 DEF EnsureColor, Raises
  <2>5. Ends(p) \/ \E r : job' = [job EXCEPT ![p].rest = Tail(@), ![p].row = r]
    BY <2>4 DEF Advance
  <2> QED
    BY <1>e, <2>1, <2>3, <2>5, CallMoves DEF JobsGoal
<1>3. CASE Allocate(p)
  <2>1. job[p].rest # <<>>
    BY <1>3 DEF Allocate, Doing
  <2>2. PICK kk : kk = job[p].key
    OBVIOUS
  <2>3. Ends(p) \/ \E r : Advance(p, r) /\ Settled(kk, r)'
    BY <1>3, <2>2, AllocateSettles
  <2>4. ASSUME NEW r, Advance(p, r), Settled(kk, r)' PROVE JobsGoal
    <3>1. CASE Ends(p)
      BY <1>e, <2>1, <3>1
    <3>2. CASE job' = [job EXCEPT ![p].rest = Tail(@), ![p].row = r]
      BY <2>1, <2>2, <2>4, <3>2, CallMoves DEF JobsGoal
    <3> QED
      BY <2>4, <3>1, <3>2 DEF Advance
  <2> QED
    BY <1>e, <2>1, <2>3, <2>4
<1>4. CASE MigrateColorKey(p) \/ ClearDesired(p) \/ WriteContract(p) \/ DestroyMountpoint(p)
  BY <1>4, <1>g DEF MigrateColorKey, ClearDesired, WriteContract, DestroyMountpoint, Goes
<1>5. CASE SetDesired(p)
  BY <1>5, <1>g, <1>e DEF SetDesired, Goes, Raises, Doing
<1>6. CASE StartMux(p) \/ CreateMountpoint(p) \/ StartUnit(p) \/ CheckUnit(p) \/ StopUnit(p)
  BY <1>6, <1>g, <1>e DEF StartMux, CreateMountpoint, StartUnit, CheckUnit, StopUnit, Goes, Fails,
     Raises, CommandFails, Doing
<1> QED
  BY <1>1, <1>2, <1>3, <1>4, <1>5, <1>6 DEF PipelineStep

LEMMA FiniteKeys ==
    ASSUME NEW S \in SUBSET Keys PROVE IsFiniteSet(S) /\ Cardinality(S) \in Nat
<1>1. IsFiniteSet({Serial} \X Sensors)
  BY LocalAssumption, FS_Singleton, FS_Product
<1>2. IsFiniteSet({LegacyColor, ColorKey})
  <2>1. IsFiniteSet({LegacyColor}) /\ {LegacyColor} \cup {ColorKey} = {LegacyColor, ColorKey}
    BY FS_Singleton
  <2> QED
    BY <2>1, FS_AddElement
<1>3. IsFiniteSet(Keys)
  BY <1>1, <1>2, FS_Union DEF Keys
<1> QED
  BY <1>3, FS_Subset, FS_CardinalityType

\* The plan of a boot.
LEMMA PlanIsOrder ==
    ASSUME LocalInv, Plan
    PROVE  LET desired == {k \in DOMAIN LoadForRead : LoadForRead[k].desired}
           IN  /\ todo' \in [1 .. Cardinality(desired) -> desired] /\ IsInjective(todo')
               /\ Cardinality(desired) \in Nat /\ IsFiniteSet(desired) /\ desired \subseteq Keys
<1> DEFINE desired == {k \in DOMAIN LoadForRead : LoadForRead[k].desired}
<1>1. desired \subseteq Keys
  BY LoadIsFile DEF FileInv
<1>2. todo' \in [1 .. Cardinality(desired) -> desired] /\ IsInjective(todo')
  BY DEF Plan
<1> HIDE DEF desired
<1>3. Cardinality(desired) \in Nat /\ IsFiniteSet(desired)
  BY <1>1, FiniteKeys
<1> QED
  BY <1>1, <1>2, <1>3 DEF desired

LEMMA JobsStep ==
    ASSUME LocalInv, LocalNext, FileGoal
    PROVE  JobsGoal /\ todo' \in Seq(Keys)
<1>0. /\ DOMAIN job = Procs /\ \A q \in Procs : JobInv(q)
      /\ todo \in Seq(Keys)
      /\ (~damaged' => ~damaged /\ Kept(alloc, alloc'))
  BY DEF LocalInv, FileGoal
<1>u. ASSUME UNCHANGED job PROVE JobsGoal
  BY <1>0, <1>u, WaitingFits DEF JobsGoal
<1>t. UNCHANGED todo => todo' \in Seq(Keys)
  BY <1>0
<1>n. ASSUME NEW p \in Procs, NEW k \in Keys, NEW steps,
             steps \in {InitializeSteps(k), StopSteps(k)},
             job' = [job EXCEPT ![p] = [key |-> k, rest |-> steps, row |-> NoRow]]
      PROVE  JobsGoal
  <2>1. /\ DOMAIN job' = Procs /\ \A q \in Procs \ {p} : job'[q] = job[q]
        /\ job'[p] = [key |-> k, rest |-> steps, row |-> NoRow]
    BY <1>0, <1>n
  <2>2. JobInv(p)'
    BY <1>n, <2>1, NewCallFits
  <2>3. \A q \in Procs \ {p} : JobInv(q)'
    BY <1>0, <2>1, WaitingFits
  <2> QED
    BY <2>1, <2>2, <2>3 DEF JobsGoal
<1>1. ASSUME NEW p \in Procs, PipelineStep(p) PROVE JobsGoal /\ todo' \in Seq(Keys)
  <2>1. UNCHANGED todo
    BY <1>1 DEF PipelineStep, TakeLock, MigrateColorKey, EnsureColor, Allocate, SetDesired,
       ClearDesired, WriteContract, StartMux, CreateMountpoint, StartUnit, CheckUnit, StopUnit,
       DestroyMountpoint
  <2> QED
    BY <1>1, <1>t, <2>1, PipelineKeepsJobs
<1>2. ASSUME NEW p \in Admins, ActivateLocal(p) \/ InitializeSensor(p) \/ StopLocal(p)
      PROVE  JobsGoal /\ todo' \in Seq(Keys)
  <2>1. PICK k \in Keys : \E steps \in {InitializeSteps(k), StopSteps(k)} : Calls(p, k, steps)
    BY <1>2 DEF ActivateLocal, InitializeSensor, StopLocal
  <2>2. p \in Procs
    BY DEF Procs
  <2> QED
    BY <1>n, <1>t, <2>1, <2>2 DEF Calls
<1>3. CASE SeedIfEmpty \/ SeedColor \/ DashboardCreates \/ DashboardDestroys
  BY <1>3, <1>u, <1>t DEF SeedIfEmpty, SeedColor, DashboardCreates, DashboardDestroys, DashboardCall
<1>4. CASE Plan
  <2>1. JobsGoal
    BY <1>4, <1>u DEF Plan
  <2>2. todo' \in Seq(Keys)
    BY <1>4, PlanIsOrder
  <2> QED
    BY <2>1, <2>2
<1>5. CASE ReconcileStream
  <2>1. CASE UNCHANGED job /\ (UNCHANGED todo \/ (todo # <<>> /\ todo' = Tail(todo)))
    <3>1. CASE todo # <<>> /\ todo' = Tail(todo)
      BY <1>0, <1>u, <2>1, <3>1
    <3> QED
      BY <1>u, <1>t, <2>1, <3>1
  <2>2. CASE /\ todo # <<>> /\ todo' = Tail(todo)
             /\ job' = [job EXCEPT ![Reconciler] =
                   [key |-> Head(todo), rest |-> InitializeSteps(Head(todo)), row |-> NoRow]]
    <3>1. Head(todo) \in Keys /\ todo' \in Seq(Keys) /\ Reconciler \in Procs
      BY <1>0, <2>2 DEF Procs
    <3> QED
      BY <1>n, <2>2, <3>1
  <2> QED
    BY <1>5, <2>1, <2>2 DEF ReconcileStream
<1>6. CASE FileCorrupted \/ JanusRestarts \/ EncoderDies
  BY <1>6, <1>u, <1>t DEF FileCorrupted, JanusRestarts, EncoderDies
<1>7. CASE ControlPlaneDies \/ NodeBoots
  <2>1. DOMAIN job' = Procs /\ \A q \in Procs : job'[q] = job[q] \/ job'[q] = Idle
    BY <1>7 DEF ControlPlaneDies, NodeBoots
  <2>2. JobsGoal
    BY <1>0, <2>1, WaitingFits, IdleFits DEF JobsGoal
  <2>3. todo' \in Seq(Keys)
    <3>1. <<>> \in Seq(Keys)
      OBVIOUS
    <3> QED
      BY <1>7, <1>t, <3>1 DEF ControlPlaneDies, NodeBoots
  <2> QED
    BY <2>2, <2>3
<1> QED
  BY <1>1, <1>2, <1>3, <1>4, <1>5, <1>6, <1>7 DEF LocalNext, Environment

-----------------------------------------------------------------------------
(* Contracts, units and mountpoints.                                       *)

LEMMA PortKept ==
    ASSUME NEW s \in AllSensors, NEW port, PortInv(s, port),
           ~damaged' => ~damaged /\ Kept(alloc, alloc')
    PROVE  PortInv(s, port)'
  BY DEF PortInv, Kept, SensorOf

\* A call that writes a contract or creates a mountpoint uses the file's row.
LEMMA DueNow ==
    ASSUME NEW p, JobInv(p), NEW st \in {"contract", "create"}, Doing(p, st)
    PROVE  /\ job[p].key \in Keys /\ (st = "create" => SensorOf(job[p].key) # "color")
           /\ SensorOf(job[p].key) # "color" => Settled(job[p].key, job[p].row)
<1>1. job[p].rest # <<>> /\ Head(job[p].rest) = st /\ job[p].rest \in Seq(StepNames)
  BY DEF Doing, JobInv
<1>2. 1 \in 1 .. Len(job[p].rest) /\ job[p].rest[1] = st
  BY <1>1
<1>3. DueBefore(job[p].rest, {"contract", "create"}, "allocate")
  BY <1>2 DEF DueBefore
<1> QED
  BY <1>1, <1>2, <1>3 DEF JobInv

LEMMA WorldStep ==
    ASSUME LocalInv, LocalNext, FileGoal
    PROVE  WorldInv'
<1>0. /\ DOMAIN contract = AllSensors /\ DOMAIN unit = AllSensors /\ JanusInv
      /\ \A s \in AllSensors : PortInv(s, contract[s]) /\ PortInv(s, unit[s])
      /\ \A q \in Procs : JobInv(q)
      /\ (~damaged' => ~damaged /\ Kept(alloc, alloc'))
  BY DEF LocalInv, FileGoal, WorldInv
<1>z. \A s : PortInv(s, 0)'
  BY DEF PortInv
<1>k. \A s \in AllSensors : \A port : PortInv(s, port) => PortInv(s, port)'
  BY <1>0, PortKept
<1>c. ASSUME DOMAIN contract' = AllSensors, DOMAIN unit' = AllSensors,
             \A s \in AllSensors : contract'[s] = contract[s],
             \A s \in AllSensors : unit'[s] \in {0, unit[s], contract[s]}
      PROVE  \A s \in AllSensors : PortInv(s, contract[s])' /\ PortInv(s, unit[s])'
  <2> SUFFICES ASSUME NEW s \in AllSensors PROVE PortInv(s, contract[s])' /\ PortInv(s, unit[s])'
    OBVIOUS
  <2>1. PICK c, u : c = contract[s] /\ u = unit[s]
    OBVIOUS
  <2>2. PortInv(s, c)' /\ PortInv(s, u)' /\ PortInv(s, 0)'
    BY <1>0, <1>k, <1>z, <2>1
  <2>3. contract'[s] = c /\ (unit'[s] = 0 \/ unit'[s] = u \/ unit'[s] = c)
    BY <1>c, <2>1
  <2> QED
    BY <2>2, <2>3 DEF PortInv
<1>j. ASSUME \A m \in DOMAIN janus' \ foreign' :
               m \in DOMAIN janus \ foreign /\ janus'[m] = janus[m]
      PROVE  JanusInv'
  BY <1>0, <1>j DEF JanusInv
<1>w. ASSUME UNCHANGED world PROVE WorldInv'
  BY <1>0, <1>c, <1>j, <1>w DEF WorldInv, world
<1>1. ASSUME NEW p \in Procs, WriteContract(p) PROVE WorldInv'
  <2>1. PICK k, row : k = job[p].key /\ row = job[p].row
    OBVIOUS
  <2>2. PICK s, new : s = SensorOf(k) /\ new = IF s = "color" THEN ColorPort ELSE row.port
    OBVIOUS
  <2>3. /\ contract' = [contract EXCEPT ![s] = new] /\ UNCHANGED <<unit, janus, foreign>>
        /\ alloc' = alloc /\ damaged' = damaged /\ Doing(p, "contract")
    BY <1>1, <2>1, <2>2 DEF WriteContract, Key, store, others
  <2>4. k \in Keys /\ (s # "color" => Settled(k, row))
    BY <1>0, <2>1, <2>2, <2>3, DueNow
  <2>5. s \in AllSensors /\ (s # "color" => s \in Sensors /\ k = <<Serial, s>>)
    BY <2>2, <2>4, KeyOfSensor
  <2>6. PortInv(s, new)'
    BY <2>2, <2>3, <2>4, <2>5 DEF PortInv, Settled
  <2>7. DOMAIN contract' = AllSensors /\ DOMAIN unit' = AllSensors
    BY <1>0, <2>3
  <2>8. ASSUME NEW t \in AllSensors PROVE PortInv(t, contract[t])' /\ PortInv(t, unit[t])'
    <3>1. PICK c, u : c = contract[t] /\ u = unit[t]
      OBVIOUS
    <3>2. PortInv(t, c)' /\ PortInv(t, u)' /\ unit'[t] = u
      BY <1>0, <1>k, <2>3, <3>1
    <3>3. (t = s /\ contract'[t] = new) \/ contract'[t] = c
      BY <1>0, <2>3, <3>1
    <3> QED
      BY <2>6, <3>2, <3>3 DEF PortInv
  <2>9. JanusInv'
    BY <1>j, <2>3
  <2> QED
    BY <2>7, <2>8, <2>9 DEF WorldInv
<1>2. ASSUME NEW p \in Procs, CreateMountpoint(p) PROVE WorldInv'
  <2>1. UNCHANGED <<contract, unit, foreign>> /\ Doing(p, "create")
    BY <1>2 DEF CreateMountpoint
  <2>2. JanusInv'
    <3>1. CASE UNCHANGED janus
      BY <1>j, <2>1, <3>1
    <3>2. CASE janus' = [m \in DOMAIN janus \cup {job[p].row.mp} |->
                            IF m \in DOMAIN janus THEN janus[m] ELSE job[p].row.port]
      <4>1. InStep(job[p].row.mp, job[p].row.port)
        BY <1>0, <2>1, DueNow DEF Settled
      <4> QED
        BY <1>0, <2>1, <3>2, <4>1 DEF JanusInv
    <3> QED
      BY <1>2, <3>1, <3>2 DEF CreateMountpoint
  <2> QED
    BY <1>0, <1>c, <2>1, <2>2 DEF WorldInv
<1>3. ASSUME NEW p \in Procs, StartUnit(p) \/ StopUnit(p) PROVE WorldInv'
  <2>1. UNCHANGED <<contract, janus, foreign>>
    BY <1>3 DEF StartUnit, StopUnit
  <2>2. DOMAIN unit' = AllSensors /\ \A s \in AllSensors : unit'[s] \in {0, unit[s], contract[s]}
    BY <1>0, <1>3 DEF StartUnit, StopUnit, Down
  <2> QED
    BY <1>0, <1>c, <1>j, <2>1, <2>2 DEF WorldInv
<1>4. ASSUME NEW p \in Procs, DestroyMountpoint(p) PROVE WorldInv'
  <2>1. UNCHANGED <<contract, unit>>
    BY <1>4 DEF DestroyMountpoint
  <2>2. JanusInv'
    BY <1>4, <1>j DEF DestroyMountpoint, Forget, Restrict
  <2> QED
    BY <1>0, <1>c, <2>1, <2>2 DEF WorldInv
<1>5. ASSUME NEW p \in Procs, PipelineStep(p) PROVE WorldInv'
  <2>1. CASE TakeLock(p) \/ MigrateColorKey(p) \/ EnsureColor(p) \/ Allocate(p)
             \/ SetDesired(p) \/ ClearDesired(p) \/ StartMux(p) \/ CheckUnit(p)
    BY <1>w, <2>1 DEF TakeLock, MigrateColorKey, EnsureColor, Allocate, SetDesired, ClearDesired,
       StartMux, CheckUnit
  <2> QED
    BY <1>1, <1>2, <1>3, <1>4, <1>5, <2>1 DEF PipelineStep
<1>6. CASE \E p \in Admins : ActivateLocal(p) \/ InitializeSensor(p) \/ StopLocal(p)
  BY <1>6, <1>w DEF ActivateLocal, InitializeSensor, StopLocal, Calls
<1>7. CASE SeedIfEmpty \/ SeedColor \/ Plan \/ ReconcileStream \/ FileCorrupted \/ ControlPlaneDies
  BY <1>7, <1>w DEF SeedIfEmpty, SeedColor, Plan, ReconcileStream, FileCorrupted, ControlPlaneDies
<1>8. CASE JanusRestarts \/ NodeBoots
  <2>1. /\ UNCHANGED contract /\ DOMAIN unit' = AllSensors
        /\ \A s \in AllSensors : unit'[s] \in {0, unit[s], contract[s]}
        /\ DOMAIN janus' = {}
    BY <1>0, <1>8 DEF JanusRestarts, NodeBoots, Down
  <2> QED
    BY <1>0, <1>c, <1>j, <2>1 DEF WorldInv
<1>9. CASE EncoderDies
  <2>1. UNCHANGED <<contract, janus, foreign>>
    BY <1>9 DEF EncoderDies
  <2>2. DOMAIN unit' = AllSensors /\ \A s \in AllSensors : unit'[s] \in {0, unit[s], contract[s]}
    BY <1>0, <1>9 DEF EncoderDies, Down
  <2> QED
    BY <1>0, <1>c, <1>j, <2>1, <2>2 DEF WorldInv
<1>10. CASE DashboardCreates \/ DashboardDestroys
  <2>1. UNCHANGED <<contract, unit>>
    BY <1>10 DEF DashboardCreates, DashboardDestroys, DashboardCall
  <2>2. CASE DashboardCreates
    <3>1. PICK m, port :
            /\ janus' = [x \in DOMAIN janus \cup {m} |-> IF x = m THEN port ELSE janus[x]]
            /\ foreign' = foreign \cup {m}
      BY <2>2 DEF DashboardCreates
    <3> QED
      BY <1>0, <1>c, <1>j, <2>1, <3>1 DEF WorldInv
  <2>3. CASE DashboardDestroys
    <3>1. PICK m : /\ janus' = Restrict(janus, DOMAIN janus \ {m})
                   /\ foreign' = foreign \ {m}
      BY <2>3 DEF DashboardDestroys, Forget
    <3>2. JanusInv'
      BY <1>j, <3>1 DEF Restrict
    <3> QED
      BY <1>0, <1>c, <2>1, <3>2 DEF WorldInv
  <2> QED
    BY <1>10, <2>2, <2>3
<1> QED
  BY <1>5, <1>6, <1>7, <1>8, <1>9, <1>10 DEF LocalNext, Environment

LEMMA InitLocal == LocalInit => LocalInv
<1> SUFFICES ASSUME LocalInit PROVE LocalInv
  OBVIOUS
<1>1. FileInv(alloc) /\ corrupt = FALSE /\ damaged = FALSE
  BY EmptyFile DEF LocalInit, JustBooted
<1>2. WorldInv
  BY DEF LocalInit, JustBooted, WorldInv, PortInv, JanusInv, Down
<1>3. DOMAIN job = Procs /\ \A p \in Procs : JobInv(p)
  <2>1. DOMAIN job = Procs /\ \A p \in Procs : job[p] = Idle
    BY DEF LocalInit, JustBooted
  <2>2. ASSUME NEW p \in Procs, job[p] = Idle PROVE JobInv(p)
    BY <2>2 DEF JobInv, Idle, DueBefore, JobFields, NoKey, SensorOf
  <2> QED
    BY <2>1, <2>2
<1>4. todo \in Seq(Keys)
  <2>1. <<>> \in Seq(Keys)
    OBVIOUS
  <2> QED
    BY <2>1 DEF LocalInit, JustBooted
<1> QED
  BY <1>1, <1>2, <1>3, <1>4 DEF LocalInv

LEMMA StepKeepsLocal == LocalInv /\ [LocalNext]_localVars => LocalInv'
<1> SUFFICES ASSUME LocalInv, [LocalNext]_localVars PROVE LocalInv'
  OBVIOUS
<1>1. CASE LocalNext
  <2>1. FileGoal
    BY <1>1, FileStep
  <2>2. JobsGoal /\ todo' \in Seq(Keys) /\ WorldInv'
    BY <1>1, <2>1, JobsStep, WorldStep
  <2> QED
    BY <2>1, <2>2 DEF LocalInv, FileGoal, JobsGoal
<1>2. CASE UNCHANGED localVars
  <2>1. FileInv(alloc)'
    BY <1>2 DEF localVars, LocalInv, FileInv
  <2>2. WorldInv'
    BY <1>2 DEF localVars, LocalInv, WorldInv, PortInv, JanusInv
  <2>3. DOMAIN job' = Procs /\ \A p \in Procs : JobInv(p)'
    BY <1>2 DEF localVars, LocalInv, JobInv, Settled
  <2>4. /\ (~damaged' => ~corrupt') /\ corrupt' \in BOOLEAN /\ damaged' \in BOOLEAN
        /\ todo' \in Seq(Keys)
    BY <1>2 DEF localVars, LocalInv
  <2> QED
    BY <2>1, <2>2, <2>3, <2>4, Zenon DEF LocalInv
<1> QED
  BY <1>1, <1>2

-----------------------------------------------------------------------------
(* A boot that nothing disturbs.                                           *)

LEMMA PastTail ==
    ASSUME NEW rest \in Seq(StepNames), rest # <<>>, NEW a, Head(rest) # a,
           Past(Tail(rest), a)
    PROVE  Past(rest, a)
<1> DEFINE t == Tail(rest)
<1>1. /\ Len(t) = Len(rest) - 1 /\ Len(rest) \in Nat /\ rest[1] = Head(rest)
      /\ \A n \in 1 .. Len(rest) - 1 : t[n] = rest[n + 1]
  BY TailOf
<1>2. \A i \in 1 .. Len(t) : t[i] # a
  BY DEF Past
<1> HIDE DEF t
<1>3. ASSUME NEW i \in 1 .. Len(rest) PROVE rest[i] # a
  <2>1. CASE i = 1
    BY <1>1, <2>1
  <2>2. CASE i # 1
    <3>1. i - 1 \in 1 .. Len(t) /\ (i - 1) + 1 = i
      BY <1>1, <2>2
    <3> QED
      BY <1>1, <1>2, <3>1
  <2> QED
    BY <2>1, <2>2
<1> QED
  BY <1>3 DEF Past

LEMMA PastStays ==
    ASSUME NEW rest \in Seq(StepNames), rest # <<>>, NEW a, Past(rest, a)
    PROVE  Past(Tail(rest), a)
<1>1. PICK t : t = Tail(rest)
  OBVIOUS
<1>2. /\ Len(t) = Len(rest) - 1 /\ Len(rest) \in Nat
      /\ \A n \in 1 .. Len(rest) - 1 : t[n] = rest[n + 1]
  BY <1>1, TailOf
<1>3. \A i \in 1 .. Len(t) : i + 1 \in 1 .. Len(rest) /\ t[i] = rest[i + 1]
  BY <1>2
<1> QED
  BY <1>1, <1>3 DEF Past

LEMMA MoreThanOne == \A n \in Nat : n > 0 /\ n # 1 => n > 1
  OBVIOUS

LEMMA StartingTail ==
    ASSUME NEW rest \in Seq(StepNames), rest # <<>>, Len(rest) # 1, Starting(rest)
    PROVE  Starting(Tail(rest)) /\ Tail(rest) # <<>>
<1>1. PICK t : t = Tail(rest)
  OBVIOUS
<1>2. /\ t \in Seq(StepNames) /\ Len(t) = Len(rest) - 1 /\ Len(rest) \in Nat /\ Len(rest) > 1
      /\ \A n \in 1 .. Len(rest) - 1 : t[n] = rest[n + 1]
  <2>1. Len(rest) \in Nat /\ Len(rest) > 0
    BY TailOf
  <2>2. Len(rest) > 1
    BY <2>1, MoreThanOne, Zenon
  <2> QED
    BY <1>1, <2>2, TailOf
<1>3. \A n \in 1 .. Len(t) : n + 1 \in 1 .. Len(rest) /\ t[n] = rest[n + 1] /\ n \in Nat
  BY <1>2
<1>4. t[Len(t)] \in Ending
  <2>1. Len(t) \in 1 .. Len(t) /\ Len(t) + 1 = Len(rest)
    BY <1>2
  <2> QED
    BY <1>3, <2>1 DEF Starting
<1>5. /\ \A i \in 1 .. Len(t) : t[i] \notin {"undesire", "halt", "destroy"}
      /\ \A i \in 2 .. Len(t) : t[i] # "lock"
  <2>1. \A i \in 2 .. Len(t) : i \in 1 .. Len(t) /\ i + 1 \in 2 .. Len(rest)
    BY <1>2
  <2> QED
    BY <1>3, <2>1 DEF Starting
<1>6. ASSUME NEW i \in 1 .. Len(t), NEW j \in 1 .. Len(t)
      PROVE  /\ t[i] = "start" /\ t[j] \in Preparing => j < i
             /\ t[i] = "allocate" /\ t[j] \in {"contract", "create"} => i < j
             /\ t[i] = "start" /\ t[j] = "check" => i < j
  <2>1. /\ i \in Nat /\ j \in Nat /\ i + 1 \in 1 .. Len(rest) /\ j + 1 \in 1 .. Len(rest)
        /\ t[i] = rest[i + 1] /\ t[j] = rest[j + 1]
    BY <1>3
  <2>2. /\ rest[i + 1] = "start" /\ rest[j + 1] \in Preparing => j + 1 < i + 1
        /\ rest[i + 1] = "allocate" /\ rest[j + 1] \in {"contract", "create"} => i + 1 < j + 1
        /\ rest[i + 1] = "start" /\ rest[j + 1] = "check" => i + 1 < j + 1
    BY <2>1 DEF Starting
  <2> QED
    BY <2>1, <2>2
<1>7. t # <<>>
  BY <1>2
<1> QED
  BY <1>1, <1>4, <1>5, <1>6, <1>7 DEF Starting

\* What the head of a start tells about the steps behind it.
LEMMA HeadOfStart ==
    ASSUME NEW rest \in Seq(StepNames), rest # <<>>, Starting(rest)
    PROVE  /\ Head(rest) = "start" => \A a \in Preparing : Past(rest, a)
           /\ Head(rest) \in {"contract", "create"} => Past(rest, "allocate")
           /\ Head(rest) = "check" => Past(rest, "start")
           /\ Len(rest) = 1 => Past(rest, "start") /\ Head(rest) \in Ending
           /\ Head(rest) \notin {"undesire", "halt", "destroy"}
           /\ \A a : Head(rest) = a => ~Past(rest, a)
           /\ Past(Tail(rest), "lock")
<1>1. /\ 1 \in 1 .. Len(rest) /\ rest[1] = Head(rest) /\ Len(rest) \in Nat
      /\ \A i \in 1 .. Len(rest) : i >= 1 /\ i \in Nat
  BY TailOf
<1>2. Head(rest) = "start" => \A a \in Preparing : Past(rest, a)
  BY <1>1 DEF Past, Starting, Preparing
<1>3. Head(rest) \in {"contract", "create"} => Past(rest, "allocate")
  BY <1>1 DEF Past, Starting
<1>4. Head(rest) = "check" => Past(rest, "start")
  BY <1>1 DEF Past, Starting
<1>5. Len(rest) = 1 => Past(rest, "start") /\ Head(rest) \in Ending
  BY <1>1 DEF Past, Starting, Ending
<1>6. Past(Tail(rest), "lock")
  <2>1. /\ Len(Tail(rest)) = Len(rest) - 1
        /\ \A i \in 1 .. Len(rest) - 1 : Tail(rest)[i] = rest[i + 1]
    BY TailOf
  <2>2. \A i \in 1 .. Len(rest) - 1 : i + 1 \in 2 .. Len(rest)
    BY <1>1
  <2> QED
    BY <2>1, <2>2 DEF Past, Starting
<1> QED
  BY <1>1, <1>2, <1>3, <1>4, <1>5, <1>6 DEF Past, Starting

\* No row changes its slot; the reconciler's own key may become desired.
SameSlots(k) ==
    /\ DOMAIN alloc' = DOMAIN alloc
    /\ \A j \in DOMAIN alloc : /\ alloc'[j].mp = alloc[j].mp /\ alloc'[j].port = alloc[j].port
                               /\ j = k \/ alloc'[j].desired = alloc[j].desired

\* One step of the reconciler's call about k, the row it has afterwards being r.
CallGoes(k, rest, row, r) ==
    /\ SameSlots(k) /\ ~corrupt' /\ UNCHANGED <<todo, stage>>
    /\ DOMAIN janus \subseteq DOMAIN janus'
    /\ \A j \in DOMAIN alloc : Up(j) => Up(j)'
    /\ \A j \in DOMAIN alloc : unit'[SensorOf(j)] # Down => Up(j)'
    /\ SensorOf(k) # "color" =>
         IF Head(rest) = "allocate" THEN r.mp = alloc[k].mp /\ r.port = alloc[k].port ELSE r = row
    /\ IF Head(rest) = "contract" THEN contract'[SensorOf(k)] = alloc[k].port
                                  ELSE contract' = contract
    /\ Head(rest) = "create" => alloc[k].mp \in DOMAIN janus'
    /\ Head(rest) = "start" => Up(k)'

LEMMA ProgressGoes ==
    ASSUME NEW k, NEW rest \in Seq(StepNames), NEW row, NEW r, rest # <<>>, Len(rest) # 1,
           Progress(k, rest, row), CallGoes(k, rest, row, r),
           IF Head(rest) = "lock" THEN Past(Tail(rest), "lock") ELSE lock' = lock
    PROVE  Progress(k, Tail(rest), r)'
<1>1. PICK t : t = Tail(rest)
  OBVIOUS
<1>2. Starting(t) /\ k \in DOMAIN alloc'
  BY <1>1, StartingTail DEF Progress, CallGoes, SameSlots
<1>3. \A a : Past(t, a) /\ Head(rest) # a => Past(rest, a)
  BY <1>1, PastTail
<1>4. Past(t, "lock") \/ \A j \in Keys : lock'[j] = "none"
  <2>1. CASE Past(rest, "lock") \/ Head(rest) = "lock"
    BY <1>1, <2>1, PastStays
  <2>2. CASE ~Past(rest, "lock") /\ Head(rest) # "lock"
    BY <2>2 DEF Progress
  <2> QED
    BY <2>1, <2>2
<1>5. ASSUME SensorOf(k) # "color", Past(t, "allocate")
      PROVE  r.mp = alloc'[k].mp /\ r.port = alloc'[k].port
  BY <1>3, <1>5 DEF Progress, CallGoes, SameSlots
<1>6. ASSUME Past(t, "contract") PROVE contract'[SensorOf(k)] = alloc'[k].port
  BY <1>3, <1>6 DEF Progress, CallGoes, SameSlots
<1>7. ASSUME SensorOf(k) # "color", Past(t, "create") PROVE alloc'[k].mp \in DOMAIN janus'
  BY <1>3, <1>7 DEF Progress, CallGoes, SameSlots
<1>8. ASSUME Past(t, "start") PROVE Up(k)'
  BY <1>3, <1>8 DEF Progress, CallGoes, SameSlots
<1> QED
  BY <1>1, <1>2, <1>4, <1>5, <1>6, <1>7, <1>8 DEF Progress

LEMMA LoopGoes ==
    ASSUME LocalInv, LoopInv, DOMAIN lock = Keys, NEW k, NEW rest, NEW row, NEW r,
           k = job[Reconciler].key, rest = job[Reconciler].rest, row = job[Reconciler].row,
           rest # <<>>, CallGoes(k, rest, row, r),
           \/ /\ Advance(Reconciler, r) /\ Head(rest) # "lock"
           \/ /\ Head(rest) = "lock" /\ r = row /\ Past(Tail(rest), "lock") /\ Len(rest) # 1
              /\ lock' = [lock EXCEPT ![k] = Reconciler]
              /\ job' = [job EXCEPT ![Reconciler].rest = Tail(@)]
    PROVE  LoopInv'
<1>1. /\ Reconciler \in Procs /\ DOMAIN job = Procs /\ DOMAIN job[Reconciler] = JobFields
      /\ rest \in Seq(StepNames) /\ k \in Keys
  BY DEF LocalInv, JobInv, Procs
<1>2. Progress(k, rest, row) /\ Starting(rest) /\ k \in DOMAIN alloc
  BY DEF LoopInv, Progress
<1>3. /\ ~corrupt' /\ todo' = todo
      /\ \A i \in 1 .. Len(todo') : todo'[i] \in DOMAIN alloc'
      /\ \A j \in DOMAIN alloc' : unit'[SensorOf(j)] # Down => Up(j)'
  BY DEF LoopInv, CallGoes, SameSlots
<1>4. ASSUME NEW j \in DOMAIN alloc', alloc'[j].desired, j # k
      PROVE  (\E i \in 1 .. Len(todo') : todo'[i] = j) \/ Up(j)'
  <2>1. j \in DOMAIN alloc /\ alloc[j].desired /\ todo' = todo
    BY <1>4 DEF CallGoes, SameSlots
  <2>2. (\E i \in 1 .. Len(todo) : todo[i] = j) \/ Up(j)
    BY <1>4, <2>1 DEF LoopInv
  <2> QED
    BY <2>1, <2>2 DEF CallGoes
<1>5. CASE Len(rest) = 1
  <2>1. Past(rest, "start") /\ Head(rest) \in Ending
    BY <1>1, <1>2, <1>5, HeadOfStart
  <2>2. Ends(Reconciler)
    BY <1>5, <2>1 DEF Advance, Ending
  <2>3. job'[Reconciler] = Idle /\ Idle.rest = <<>>
    BY <1>1, <2>2 DEF Ends, Idle
  <2>4. \A j \in Keys : lock'[j] = "none"
    BY <2>2 DEF Ends, LoopInv
  <2>5. Up(k)'
    BY <1>2, <2>1 DEF Progress, CallGoes
  <2> QED
    BY <1>3, <1>4, <2>3, <2>4, <2>5 DEF LoopInv
<1>6. CASE Len(rest) # 1
  <2>1. /\ job'[Reconciler].key = k /\ job'[Reconciler].rest = Tail(rest)
        /\ job'[Reconciler].row = r
    BY <1>1, <1>6 DEF Advance, JobFields
  <2>2. Tail(rest) # <<>>
    BY <1>1, <1>2, <1>6, StartingTail
  <2>3. IF Head(rest) = "lock" THEN Past(Tail(rest), "lock") ELSE lock' = lock
    BY <1>6 DEF Advance
  <2>4. Progress(k, Tail(rest), r)'
    BY <1>1, <1>2, <1>6, <2>3, ProgressGoes
  <2>5. \A j \in Keys : lock'[j] \in {"none", Reconciler}
    BY <1>1, <1>6, <2>3 DEF LoopInv, Advance
  <2>6. PICK t : t = Tail(rest)
    OBVIOUS
  <2> QED
    BY <1>3, <1>4, <2>1, <2>2, <2>4, <2>5, <2>6 DEF LoopInv
<1> QED
  BY <1>5, <1>6

\* A step that starts no unit.
LEMMA QuietGoes ==
    ASSUME LoopInv, NEW k, NEW rest, NEW row, NEW r, SameSlots(k), ~corrupt',
           UNCHANGED <<todo, stage, unit>>, DOMAIN janus \subseteq DOMAIN janus',
           SensorOf(k) # "color" =>
             IF Head(rest) = "allocate" THEN r.mp = alloc[k].mp /\ r.port = alloc[k].port
                                        ELSE r = row,
           IF Head(rest) = "contract" THEN contract'[SensorOf(k)] = alloc[k].port
                                      ELSE contract' = contract,
           Head(rest) = "create" => alloc[k].mp \in DOMAIN janus',
           Head(rest) # "start"
    PROVE  CallGoes(k, rest, row, r)
<1>1. \A j \in DOMAIN alloc : Up(j) => Up(j)'
  BY DEF SameSlots, Up
<1>2. \A j \in DOMAIN alloc : unit'[SensorOf(j)] # Down => Up(j)'
  BY <1>1 DEF LoopInv
<1> QED
  BY <1>1, <1>2 DEF CallGoes

LEMMA UnchangedSlots ==
    ASSUME UNCHANGED alloc PROVE \A k : SameSlots(k)
  BY DEF SameSlots

\* In an undisturbed loop every step of the reconciler's call succeeds.
LEMMA LoopPipeline ==
    ASSUME LocalInv, LoopInv, DOMAIN lock = Keys, PipelineStep(Reconciler), ~disturbed, ~disturbed'
    PROVE  LoopInv' /\ UNCHANGED stage
<1>1. PICK k, rest, row : k = job[Reconciler].key /\ rest = job[Reconciler].rest
                          /\ row = job[Reconciler].row
  OBVIOUS
<1>2. rest # <<>>
  BY <1>1 DEF PipelineStep, TakeLock, MigrateColorKey, EnsureColor, Allocate, SetDesired,
     ClearDesired, WriteContract, StartMux, CreateMountpoint, StartUnit, CheckUnit, StopUnit,
     DestroyMountpoint, Doing
<1>3. /\ JobInv(Reconciler) /\ rest \in Seq(StepNames) /\ k \in Keys /\ Key(Reconciler) = k
      /\ WorldInv /\ FileInv(alloc)
  BY <1>1, <1>2 DEF LocalInv, JobInv, Procs, Key
<1>4. Progress(k, rest, row) /\ Starting(rest) /\ k \in DOMAIN alloc /\ ~corrupt
  BY <1>1, <1>2 DEF LoopInv, Progress
<1>5. LoadForWrite = alloc
  BY <1>4 DEF LoadForWrite
<1>6. ~Fault
  BY DEF Fault
<1>h. \A st : Doing(Reconciler, st) => Head(rest) = st
  BY <1>1 DEF Doing
<1>c. /\ SensorOf(k) = "color" => Head(rest) \notin {"allocate", "create"}
      /\ SensorOf(k) # "color" => Head(rest) \notin {"ensure", "migrate"}
  <2>1. 1 \in 1 .. Len(rest) /\ rest[1] = Head(rest)
    BY <1>2, <1>3
  <2> QED
    BY <1>1, <1>3, <2>1 DEF JobInv
<1>g. ASSUME NEW r, CallGoes(k, rest, row, r), Advance(Reconciler, r), Head(rest) # "lock"
      PROVE  LoopInv' /\ UNCHANGED stage
  <2>1. UNCHANGED stage
    BY <1>g DEF CallGoes
  <2> QED
    BY <1>1, <1>2, <1>g, <2>1, LoopGoes
<1>s. ASSUME UNCHANGED alloc PROVE SameSlots(k)
  BY <1>s, UnchangedSlots
<1>7. CASE TakeLock(Reconciler)
  <2>1. Head(rest) = "lock" /\ lock[k] = "none"
    <3>1. Head(rest) = "lock"
      BY <1>7, <1>h DEF TakeLock
    <3>2. ~Past(rest, "lock")
      BY <1>2, <1>3, <1>4, <3>1, HeadOfStart
    <3> QED
      BY <1>3, <1>4, <3>1, <3>2 DEF Progress
  <2>2. /\ lock' = [lock EXCEPT ![k] = Reconciler]
        /\ job' = [job EXCEPT ![Reconciler].rest = Tail(@)]
        /\ UNCHANGED <<corrupt, alloc, contract, unit, janus, todo, stage>>
    BY <1>3, <1>6, <1>7, <2>1 DEF TakeLock, store, world
  <2>3. Past(Tail(rest), "lock") /\ Len(rest) # 1
    BY <1>2, <1>3, <1>4, <2>1, HeadOfStart DEF Ending
  <2>4. CallGoes(k, rest, row, row)
    BY <1>4, <1>s, <2>1, <2>2, QuietGoes
  <2>5. LoopInv'
    BY <1>1, <1>2, <2>1, <2>2, <2>3, <2>4, LoopGoes
  <2> QED
    BY <2>2, <2>5
<1>8. CASE MigrateColorKey(Reconciler)
  <2>1. Head(rest) = "migrate" /\ SensorOf(k) = "color"
    BY <1>8, <1>h, <1>c DEF MigrateColorKey
  <2>2. k = LegacyColor \/ k = ColorKey
    BY <1>3, <2>1, LocalAssumption DEF Keys, SensorOf
  <2>3. alloc' = alloc /\ ~corrupt'
    BY <1>3, <1>4, <1>5, <1>8, <2>2 DEF MigrateColorKey, Persist, store
  <2>4. UNCHANGED <<contract, unit, janus, todo, stage>> /\ Advance(Reconciler, row)
    BY <1>1, <1>8 DEF MigrateColorKey, world, Goes
  <2>5. CallGoes(k, rest, row, row)
    BY <1>s, <2>1, <2>3, <2>4, QuietGoes
  <2> QED
    BY <1>g, <2>1, <2>4, <2>5
<1>9. CASE EnsureColor(Reconciler) \/ Allocate(Reconciler)
  <2>1. Head(rest) = "allocate" \/ (Head(rest) = "ensure" /\ SensorOf(k) = "color")
    BY <1>9, <1>h, <1>c DEF EnsureColor, Allocate
  <2>2. /\ alloc' = alloc /\ ~corrupt' /\ Advance(Reconciler, alloc[k])
        /\ UNCHANGED <<contract, unit, janus, todo, stage>>
    BY <1>3, <1>4, <1>5, <1>9 DEF EnsureColor, Allocate, Persist, world
  <2>3. PICK r : r = alloc[k]
    OBVIOUS
  <2>4. CallGoes(k, rest, row, r)
    BY <1>s, <2>1, <2>2, <2>3, QuietGoes
  <2> QED
    BY <1>g, <2>1, <2>2, <2>3, <2>4
<1>10. CASE SetDesired(Reconciler)
  <2>1. Head(rest) = "desire"
    BY <1>10, <1>h DEF SetDesired
  <2>2. /\ alloc' = [alloc EXCEPT ![k].desired = TRUE] /\ ~corrupt' /\ Advance(Reconciler, row)
        /\ UNCHANGED <<contract, unit, janus, todo, stage>>
    BY <1>1, <1>3, <1>4, <1>5, <1>10 DEF SetDesired, Persist, world, Goes
  <2>3. SameSlots(k)
    BY <1>3, <1>4, <2>2 DEF SameSlots, FileInv, RowFields
  <2>4. CallGoes(k, rest, row, row)
    BY <2>1, <2>2, <2>3, QuietGoes
  <2> QED
    BY <1>g, <2>1, <2>2, <2>4
<1>11. CASE ClearDesired(Reconciler) \/ StopUnit(Reconciler) \/ DestroyMountpoint(Reconciler)
  BY <1>2, <1>3, <1>4, <1>11, <1>h, HeadOfStart DEF ClearDesired, StopUnit, DestroyMountpoint
<1>12. CASE WriteContract(Reconciler)
  <2>1. Head(rest) = "contract"
    BY <1>12, <1>h DEF WriteContract
  <2>2. /\ contract' = [contract EXCEPT ![SensorOf(k)] =
                           IF SensorOf(k) = "color" THEN ColorPort ELSE row.port]
        /\ UNCHANGED <<corrupt, alloc, unit, janus, todo, stage>> /\ Advance(Reconciler, row)
    BY <1>1, <1>3, <1>12 DEF WriteContract, store, Goes
  <2>3. Past(rest, "allocate")
    BY <1>2, <1>3, <1>4, <2>1, HeadOfStart
  <2>4. contract'[SensorOf(k)] = alloc[k].port
    <3>1. SlotFor(k, alloc[k]) /\ SensorOf(k) \in AllSensors /\ DOMAIN contract = AllSensors
      BY <1>3, <1>4, KeyOfSensor DEF FileInv, WorldInv
    <3> QED
      BY <1>4, <2>2, <2>3, <3>1 DEF SlotFor, Progress
  <2>5. CallGoes(k, rest, row, row)
    BY <1>4, <1>s, <2>1, <2>2, <2>4, QuietGoes
  <2> QED
    BY <1>g, <2>1, <2>2, <2>5
<1>13. CASE StartMux(Reconciler) \/ CheckUnit(Reconciler)
  <2>1. Head(rest) = "mux" \/ Head(rest) = "check"
    BY <1>13, <1>h DEF StartMux, CheckUnit
  <2>2. /\ UNCHANGED <<corrupt, alloc, contract, unit, janus, todo>>
        /\ Goes(Reconciler)
    <3>1. CASE StartMux(Reconciler)
      BY <1>6, <3>1 DEF StartMux, CommandFails, store, world
    <3>2. CASE CheckUnit(Reconciler)
      <4>1. Head(rest) = "check"
        BY <3>2, <1>h DEF CheckUnit
      <4>2. Up(k)
        BY <1>2, <1>3, <1>4, <4>1, HeadOfStart DEF Progress
      <4>3. SlotFor(k, alloc[k])
        BY <1>3, <1>4 DEF FileInv
      <4>4. unit[SensorOf(k)] # Down
        BY <4>2, <4>3 DEF Up, SlotFor, InStep, PortMin, ColorPort, Down, MpIdMin
      <4> QED
        BY <1>3, <1>6, <3>2, <4>4 DEF CheckUnit, store, world
    <3> QED
      BY <1>13, <3>1, <3>2
  <2>3. UNCHANGED stage /\ Advance(Reconciler, row)
    BY <1>1, <2>2 DEF Goes
  <2>4. CallGoes(k, rest, row, row)
    BY <1>4, <1>s, <2>1, <2>2, <2>3, QuietGoes
  <2> QED
    BY <1>g, <2>1, <2>3, <2>4
<1>14. CASE CreateMountpoint(Reconciler)
  <2>1. Head(rest) = "create" /\ SensorOf(k) # "color"
    BY <1>14, <1>h, <1>c DEF CreateMountpoint
  <2>2. /\ janus' = [m \in DOMAIN janus \cup {row.mp} |->
                        IF m \in DOMAIN janus THEN janus[m] ELSE row.port]
        /\ UNCHANGED <<corrupt, alloc, contract, unit, todo, stage>> /\ Advance(Reconciler, row)
    BY <1>1, <1>6, <1>14 DEF CreateMountpoint, store, Goes
  <2>3. row.mp = alloc[k].mp
    BY <1>2, <1>3, <1>4, <2>1, HeadOfStart DEF Progress
  <2>4. DOMAIN janus \subseteq DOMAIN janus' /\ alloc[k].mp \in DOMAIN janus'
    BY <2>2, <2>3
  <2>5. CallGoes(k, rest, row, row)
    BY <1>4, <1>s, <2>1, <2>2, <2>4, QuietGoes
  <2> QED
    BY <1>g, <2>1, <2>2, <2>5
<1>15. CASE StartUnit(Reconciler)
  <2>1. Head(rest) = "start"
    BY <1>15, <1>h DEF StartUnit
  <2>2. /\ unit' = [unit EXCEPT ![SensorOf(k)] = IF @ = Down THEN contract[SensorOf(k)] ELSE @]
        /\ UNCHANGED <<corrupt, alloc, contract, janus, todo, stage>> /\ Advance(Reconciler, row)
    BY <1>1, <1>3, <1>6, <1>15 DEF StartUnit, CommandFails, store, Goes
  <2>3. /\ contract[SensorOf(k)] = alloc[k].port
        /\ SensorOf(k) # "color" => alloc[k].mp \in DOMAIN janus
    BY <1>2, <1>3, <1>4, <2>1, HeadOfStart DEF Progress, Preparing
  <2>4. ASSUME NEW j \in DOMAIN alloc PROVE (Up(j) => Up(j)')
                                            /\ (unit'[SensorOf(j)] # Down => Up(j)')
    <3>1. /\ SensorOf(j) \in AllSensors /\ DOMAIN unit = AllSensors
          /\ SlotFor(j, alloc[j]) /\ SlotFor(k, alloc[k]) /\ j \in Keys
      BY <1>3, <1>4, KeyOfSensor DEF FileInv, WorldInv
    <3>2. alloc[j].port # Down
      BY <3>1 DEF SlotFor, InStep, PortMin, ColorPort, Down, MpIdMin
    <3>3. CASE SensorOf(j) = SensorOf(k)
      <4>1. alloc[j].port = alloc[k].port /\ alloc[j].mp = alloc[k].mp
        <5>1. CASE SensorOf(k) = "color"
          BY <3>1, <3>3, <5>1 DEF SlotFor
        <5>2. CASE SensorOf(k) # "color"
          BY <1>3, <3>1, <3>3, <5>2, KeyOfSensor
        <5> QED
          BY <5>1, <5>2
      <4>2. /\ unit'[SensorOf(j)] = IF unit[SensorOf(j)] = Down THEN alloc[j].port
                                                               ELSE unit[SensorOf(j)]
        BY <2>2, <2>3, <3>1, <3>3, <4>1
      <4>3. unit[SensorOf(j)] # Down => Up(j)
        BY DEF LoopInv
      <4> QED
        BY <2>2, <2>3, <3>2, <3>3, <4>1, <4>2, <4>3 DEF Up
    <3>4. CASE SensorOf(j) # SensorOf(k)
      <4>1. unit'[SensorOf(j)] = unit[SensorOf(j)]
        BY <2>2, <3>1, <3>4
      <4>2. unit[SensorOf(j)] # Down => Up(j)
        BY DEF LoopInv
      <4> QED
        BY <2>2, <4>1, <4>2 DEF Up
    <3> QED
      BY <3>3, <3>4
  <2>5. Up(k)'
    <3>1. /\ SensorOf(k) \in AllSensors /\ DOMAIN unit = AllSensors /\ SlotFor(k, alloc[k])
      BY <1>3, <1>4, KeyOfSensor DEF FileInv, WorldInv
    <3>2. alloc[k].port # Down
      BY <3>1 DEF SlotFor, InStep, PortMin, ColorPort, Down, MpIdMin
    <3>3. unit'[SensorOf(k)] # Down
      BY <2>2, <2>3, <3>1, <3>2
    <3> QED
      BY <1>4, <2>4, <3>3
  <2>6. CallGoes(k, rest, row, row)
    BY <1>4, <1>s, <2>1, <2>2, <2>4, <2>5 DEF CallGoes
  <2> QED
    BY <1>g, <2>1, <2>2, <2>6
<1> QED
  BY <1>7, <1>8, <1>9, <1>10, <1>11, <1>12, <1>13, <1>14, <1>15 DEF PipelineStep

\* Everything desired is in the plan.
LEMMA PlanIsComplete ==
    ASSUME LocalInv, Plan, NEW k \in DOMAIN LoadForRead, LoadForRead[k].desired
    PROVE  \E i \in 1 .. Len(todo') : todo'[i] = k
<1>1. PICK desired : desired = {j \in DOMAIN LoadForRead : LoadForRead[j].desired}
  OBVIOUS
<1>2. /\ todo' \in [1 .. Cardinality(desired) -> desired] /\ IsInjective(todo')
      /\ Cardinality(desired) \in Nat /\ IsFiniteSet(desired) /\ k \in desired
  BY <1>1, PlanIsOrder
<1>3. PICK n \in Nat : n = Cardinality(desired)
  BY <1>2
<1>4. PICK q : q = todo'
  OBVIOUS
<1>5. q \in Injection(1 .. n, desired)
  BY <1>2, <1>3, <1>4 DEF Injection
<1>6. Cardinality(1 .. n) = n
  BY <1>3, FS_Interval
<1>7. q \in Surjection(1 .. n, desired)
  BY <1>2, <1>3, <1>5, <1>6, FS_Injection
<1>8. PICK i \in 1 .. n : q[i] = k
  BY <1>2, <1>7 DEF Surjection
<1>9. Len(q) = n
  BY <1>2, <1>3, <1>4
<1> QED
  BY <1>4, <1>8, <1>9

LEMMA StartFits ==
    ASSUME NEW k \in Keys
    PROVE  /\ Starting(InitializeSteps(k)) /\ InitializeSteps(k) # <<>>
           /\ ~Past(InitializeSteps(k), "contract") /\ ~Past(InitializeSteps(k), "start")
           /\ SensorOf(k) # "color" => /\ ~Past(InitializeSteps(k), "allocate")
                                       /\ ~Past(InitializeSteps(k), "create")
<1>1. PICK steps : steps = InitializeSteps(k)
  OBVIOUS
<1>2. CASE SensorOf(k) = "color"
  <2>1. /\ Len(steps) = 8
        /\ steps[1] = "lock" /\ steps[2] = "migrate" /\ steps[3] = "ensure"
        /\ steps[4] = "contract" /\ steps[5] = "desire" /\ steps[6] = "mux"
        /\ steps[7] = "start" /\ steps[8] = "check"
        /\ \A i \in 1 .. Len(steps) :
             i = 1 \/ i = 2 \/ i = 3 \/ i = 4 \/ i = 5 \/ i = 6 \/ i = 7 \/ i = 8
    <3>1. steps = <<"lock", "migrate", "ensure", "contract", "desire", "mux", "start", "check">>
      BY <1>1, <1>2 DEF InitializeSteps
    <3> QED
      BY <3>1, EightSteps DEF StepNames
  <2>2. ~Past(steps, "contract") /\ ~Past(steps, "start") /\ steps # <<>>
    BY <2>1 DEF Past
  <2>3. Starting(steps)
    BY <2>1 DEF Starting, Ending, Preparing
  <2> QED
    BY <1>1, <1>2, <2>2, <2>3
<1>3. CASE SensorOf(k) # "color"
  <2>1. /\ Len(steps) = 8
        /\ steps[1] = "lock" /\ steps[2] = "allocate" /\ steps[3] = "mux"
        /\ steps[4] = "contract" /\ steps[5] = "create" /\ steps[6] = "start"
        /\ steps[7] = "check" /\ steps[8] = "desire"
        /\ \A i \in 1 .. Len(steps) :
             i = 1 \/ i = 2 \/ i = 3 \/ i = 4 \/ i = 5 \/ i = 6 \/ i = 7 \/ i = 8
    <3>1. steps = <<"lock", "allocate", "mux", "contract", "create", "start", "check", "desire">>
      BY <1>1, <1>3 DEF InitializeSteps
    <3> QED
      BY <3>1, EightSteps DEF StepNames
  <2>n. /\ steps # <<>> /\ 2 \in 1 .. Len(steps) /\ 4 \in 1 .. Len(steps)
        /\ 5 \in 1 .. Len(steps) /\ 6 \in 1 .. Len(steps)
    <3>1. Len(steps) = 8
      BY <2>1
    <3> QED
      BY <3>1
  <2>2. /\ ~Past(steps, "contract") /\ ~Past(steps, "start") /\ steps # <<>>
        /\ ~Past(steps, "allocate") /\ ~Past(steps, "create")
    <3>1. ~Past(steps, "contract") /\ ~Past(steps, "start")
      BY <2>1, <2>n DEF Past
    <3>2. ~Past(steps, "allocate") /\ ~Past(steps, "create")
      BY <2>1, <2>n DEF Past
    <3> QED
      BY <2>n, <3>1, <3>2
  <2>3. Starting(steps)
    BY <2>1 DEF Starting, Ending, Preparing
  <2> QED
    BY <1>1, <2>2, <2>3
<1> QED
  BY <1>2, <1>3

\* The loop goes to the next stream of its plan, or ends.
LEMMA LoopReconciles ==
    ASSUME LocalInv, LoopInv, stage = "loop", ReconcileStream, ~disturbed'
    PROVE  \/ stage' = "loop" /\ LoopInv'
           \/ /\ stage' = "done" /\ job'[Reconciler] = Idle
              /\ \A k \in DOMAIN alloc' : alloc'[k].desired => Up(k)'
<1>1. /\ job[Reconciler] = Idle /\ Idle.rest = <<>> /\ todo \in Seq(Keys)
      /\ UNCHANGED <<corrupt, alloc, contract, unit, janus, lock>>
      /\ Reconciler \in Procs /\ DOMAIN job = Procs /\ DOMAIN alloc \subseteq Keys
  BY DEF ReconcileStream, Idle, LocalInv, store, world, Procs, FileInv
<1>2. \A k \in DOMAIN alloc : Up(k) <=> Up(k)'
  BY <1>1 DEF Up
<1>3. \A k \in Keys : lock[k] = "none"
  BY <1>1 DEF LoopInv
<1>4. CASE todo = <<>> /\ stage' = "done" /\ UNCHANGED <<job, todo>>
  <2>1. \A k \in DOMAIN alloc : alloc[k].desired => Up(k)
    BY <1>1, <1>4 DEF LoopInv
  <2> QED
    BY <1>1, <1>2, <1>4, <2>1
<1>5. ASSUME todo # <<>>
      PROVE  /\ \A i \in 1 .. Len(Tail(todo)) : Tail(todo)[i] \in DOMAIN alloc
             /\ Head(todo) \in DOMAIN alloc
             /\ \A k : (\E i \in 1 .. Len(todo) : todo[i] = k) =>
                   k = Head(todo) \/ \E i \in 1 .. Len(Tail(todo)) : Tail(todo)[i] = k
  <2>1. PICK t : t = Tail(todo)
    OBVIOUS
  <2>2. /\ Len(t) = Len(todo) - 1 /\ Len(todo) \in Nat /\ Len(todo) > 0
        /\ \A i \in 1 .. Len(todo) - 1 : t[i] = todo[i + 1]
        /\ Head(todo) = todo[1]
    BY <1>1, <1>5, <2>1
  <2>3. /\ \A i \in 1 .. Len(t) : i + 1 \in 1 .. Len(todo) /\ t[i] = todo[i + 1]
        /\ 1 \in 1 .. Len(todo)
    BY <2>2
  <2>4. (\A i \in 1 .. Len(t) : t[i] \in DOMAIN alloc) /\ Head(todo) \in DOMAIN alloc
    BY <2>2, <2>3 DEF LoopInv
  <2>5. ASSUME NEW i \in 1 .. Len(todo), i # 1 PROVE i - 1 \in 1 .. Len(t) /\ t[i - 1] = todo[i]
    <3>1. i - 1 \in 1 .. Len(todo) - 1 /\ (i - 1) + 1 = i
      BY <2>2, <2>5
    <3> QED
      BY <2>2, <3>1
  <2> QED
    BY <2>1, <2>2, <2>4, <2>5
<1>6. CASE /\ todo # <<>> /\ unit[SensorOf(Head(todo))] # Down
           /\ todo' = Tail(todo) /\ UNCHANGED <<job, stage>>
  <2>1. Up(Head(todo))
    BY <1>5, <1>6 DEF LoopInv
  <2>2. \A k \in DOMAIN alloc : alloc[k].desired =>
           (\E i \in 1 .. Len(todo') : todo'[i] = k) \/ Up(k)
    BY <1>1, <1>5, <1>6, <2>1 DEF LoopInv
  <2>3. \A i \in 1 .. Len(todo') : todo'[i] \in DOMAIN alloc
    BY <1>5, <1>6
  <2>4. job'[Reconciler] = Idle /\ stage' = "loop"
    BY <1>1, <1>6
  <2>5. ~corrupt' /\ \A k \in DOMAIN alloc' : unit'[SensorOf(k)] # Down => Up(k)'
    BY <1>1, <1>2 DEF LoopInv
  <2> QED
    BY <1>1, <1>2, <1>3, <2>2, <2>3, <2>4, <2>5 DEF LoopInv
<1>7. CASE /\ todo # <<>> /\ unit[SensorOf(Head(todo))] = Down
           /\ job' = [job EXCEPT ![Reconciler] =
                   [key |-> Head(todo), rest |-> InitializeSteps(Head(todo)), row |-> NoRow]]
           /\ todo' = Tail(todo) /\ UNCHANGED stage
  <2>1. PICK k \in DOMAIN alloc : k = Head(todo)
    BY <1>5, <1>7
  <2>2. PICK rest : rest = InitializeSteps(k)
    OBVIOUS
  <2>3. /\ job'[Reconciler].key = k /\ job'[Reconciler].rest = rest
        /\ job'[Reconciler].row = NoRow /\ stage' = "loop"
    BY <1>1, <1>7, <2>1, <2>2
  <2>4. /\ Starting(rest) /\ rest # <<>> /\ ~Past(rest, "contract") /\ ~Past(rest, "start")
        /\ SensorOf(k) # "color" => ~Past(rest, "allocate") /\ ~Past(rest, "create")
    BY <1>1, <2>2, StartFits
  <2>5. Progress(k, rest, NoRow)'
    BY <1>1, <1>3, <2>4 DEF Progress
  <2>6. \A j \in DOMAIN alloc : alloc[j].desired =>
           (\E i \in 1 .. Len(todo') : todo'[i] = j) \/ j = k \/ Up(j)
    BY <1>1, <1>5, <1>7, <2>1 DEF LoopInv
  <2>7. \A i \in 1 .. Len(todo') : todo'[i] \in DOMAIN alloc
    BY <1>5, <1>7
  <2>8. ~corrupt' /\ \A j \in DOMAIN alloc' : unit'[SensorOf(j)] # Down => Up(j)'
    BY <1>1, <1>2 DEF LoopInv
  <2> QED
    BY <1>1, <1>2, <1>3, <2>3, <2>4, <2>5, <2>6, <2>7, <2>8 DEF LoopInv
<1> QED
  BY <1>4, <1>5, <1>6, <1>7 DEF ReconcileStream, Fault

Stages == {"seed", "ensure", "desire", "plan", "loop", "done", "died"}

LEMMA StagesStep ==
    ASSUME LocalNext, DOMAIN lock = Keys, stage \in Stages
    PROVE  DOMAIN lock' = Keys /\ stage' \in Stages
<1>a. ASSUME NEW p, NEW r, Advance(p, r) PROVE DOMAIN lock' = Keys
  BY <1>a DEF Advance, Ends
<1>e. ASSUME NEW p, Ends(p) PROVE DOMAIN lock' = Keys
  BY <1>e DEF Ends
<1>1. ASSUME NEW p \in Procs, PipelineStep(p) PROVE DOMAIN lock' = Keys /\ stage' \in Stages
  <2>1. CASE TakeLock(p)
    BY <2>1 DEF TakeLock
  <2>2. CASE MigrateColorKey(p) \/ ClearDesired(p) \/ WriteContract(p) \/ DestroyMountpoint(p)
    BY <1>a, <2>2 DEF MigrateColorKey, ClearDesired, WriteContract, DestroyMountpoint, Goes
  <2>3. CASE EnsureColor(p) \/ Allocate(p) \/ SetDesired(p)
    BY <1>a, <1>e, <2>3 DEF EnsureColor, Allocate, SetDesired, Goes, Raises, Stages
  <2>4. CASE StartMux(p) \/ CreateMountpoint(p) \/ StartUnit(p) \/ CheckUnit(p) \/ StopUnit(p)
    BY <1>a, <1>e, <2>4 DEF StartMux, CreateMountpoint, StartUnit, CheckUnit, StopUnit, Goes, Fails,
       Raises, CommandFails, Stages
  <2> QED
    BY <1>1, <2>1, <2>2, <2>3, <2>4 DEF PipelineStep
<1>2. CASE \/ \E p \in Admins : ActivateLocal(p) \/ InitializeSensor(p) \/ StopLocal(p)
           \/ DashboardCreates \/ DashboardDestroys
  BY <1>2 DEF ActivateLocal, InitializeSensor, StopLocal, Calls, DashboardCreates,
     DashboardDestroys, DashboardCall
<1>3. CASE SeedIfEmpty \/ SeedColor \/ Plan \/ ReconcileStream
  BY <1>3 DEF SeedIfEmpty, SeedColor, Plan, ReconcileStream, Stages
<1>4. CASE Environment
  BY <1>4 DEF Environment, FileCorrupted, JanusRestarts, EncoderDies, ControlPlaneDies, NodeBoots,
     Stages
<1> QED
  BY <1>1, <1>2, <1>3, <1>4 DEF LocalNext

\* A step of the pipeline leaves the other processes' calls alone.
LEMMA OthersWait ==
    ASSUME DOMAIN job = Procs, NEW p \in Procs, PipelineStep(p)
    PROVE  \A q \in Procs \ {p} : job'[q] = job[q]
<1> DEFINE Goal == \A q \in Procs \ {p} : job'[q] = job[q]
<1>a. ASSUME NEW r, Advance(p, r) PROVE Goal
  BY <1>a DEF Advance, Ends
<1>e. ASSUME Ends(p) PROVE Goal
  BY <1>e DEF Ends
<1>1. CASE TakeLock(p)
  BY <1>1 DEF TakeLock
<1> HIDE DEF Goal
<1>2. CASE MigrateColorKey(p) \/ ClearDesired(p) \/ WriteContract(p) \/ DestroyMountpoint(p)
  <2>1. Goal
    BY <1>a, <1>2 DEF MigrateColorKey, ClearDesired, WriteContract, DestroyMountpoint, Goes
  <2> QED
    BY <2>1 DEF Goal
<1>3. CASE EnsureColor(p) \/ Allocate(p) \/ SetDesired(p)
  <2>1. Goal
    BY <1>a, <1>e, <1>3 DEF EnsureColor, Allocate, SetDesired, Goes, Raises
  <2> QED
    BY <2>1 DEF Goal
<1>4. CASE StartMux(p) \/ CreateMountpoint(p) \/ StartUnit(p) \/ CheckUnit(p) \/ StopUnit(p)
  <2>1. Goal
    BY <1>a, <1>e, <1>4 DEF StartMux, CreateMountpoint, StartUnit, CheckUnit, StopUnit, Goes, Fails,
       Raises, CommandFails
  <2> QED
    BY <2>1 DEF Goal
<1> QED
  BY <1>1, <1>2, <1>3, <1>4 DEF PipelineStep

\* What is to be shown of a step after which the boot is undisturbed.
BootGoal ==
    /\ \A p \in Procs \ {Reconciler} : job'[p] = Idle
    /\ stage' \in {"seed", "ensure", "desire", "plan"} => BeforeLoop'
    /\ stage' = "loop" => LoopInv'
    /\ stage' = "done" => /\ job'[Reconciler] = Idle
                          /\ \A k \in DOMAIN alloc' : alloc'[k].desired => Up(k)'
    /\ stage' # "died"

LEMMA BootGoes ==
    ASSUME LocalInv, BootInv, LocalNext, ~disturbed' PROVE BootGoal
<1>0. DOMAIN lock = Keys /\ DOMAIN job = Procs /\ Reconciler \in Procs /\ Idle.rest = <<>>
  BY DEF BootInv, LocalInv, Procs, Idle
<1>1. CASE NodeBoots
  <2>1. /\ stage' = "seed" /\ \A p \in Procs : job'[p] = Idle
        /\ \A s \in AllSensors : unit'[s] = Down
        /\ \A k \in Keys : lock'[k] = "none"
    BY <1>1, <1>0 DEF NodeBoots
  <2> QED
    BY <1>0, <2>1 DEF BootGoal, BeforeLoop
<1>2. ASSUME ~disturbed PROVE /\ \A p \in Procs \ {Reconciler} : job[p] = Idle
                              /\ stage \in {"seed", "ensure", "desire", "plan"} => BeforeLoop
                              /\ stage = "loop" => LoopInv
                              /\ stage \in {"seed", "ensure", "desire", "plan", "loop", "done"}
                              /\ stage = "done" => job[Reconciler] = Idle
  BY <1>2 DEF BootInv
<1>3. ASSUME NEW p \in Procs, PipelineStep(p), ~disturbed PROVE BootGoal
  <2>1. job[p].rest # <<>>
    BY <1>3 DEF PipelineStep, TakeLock, MigrateColorKey, EnsureColor, Allocate, SetDesired,
       ClearDesired, WriteContract, StartMux, CreateMountpoint, StartUnit, CheckUnit, StopUnit,
       DestroyMountpoint, Doing
  <2>2. p = Reconciler /\ stage = "loop" /\ LoopInv
    BY <1>0, <1>2, <1>3, <2>1 DEF BeforeLoop
  <2>3. LoopInv' /\ stage' = "loop"
    BY <1>0, <1>3, <2>2, LoopPipeline
  <2>4. \A q \in Procs \ {Reconciler} : job'[q] = job[q]
    BY <1>0, <1>3, <2>2, OthersWait
  <2> QED
    BY <1>2, <1>3, <2>3, <2>4 DEF BootGoal
<1>4. CASE \/ \E p \in Admins : ActivateLocal(p) \/ InitializeSensor(p) \/ StopLocal(p)
           \/ DashboardCreates \/ DashboardDestroys
  BY <1>4 DEF ActivateLocal, InitializeSensor, StopLocal, Calls, DashboardCreates,
     DashboardDestroys, DashboardCall
<1>5. CASE SeedIfEmpty
  <2>1. /\ stage = "seed" /\ ~disturbed /\ UNCHANGED <<corrupt, alloc, unit, lock, job>>
        /\ stage' = IF DOMAIN LoadForRead = {} THEN "ensure" ELSE "plan"
    BY <1>5 DEF SeedIfEmpty, store, world
  <2>2. stage' = "ensure" => DOMAIN LoadForWrite' = {}
    BY <2>1 DEF LoadForRead, LoadForWrite
  <2>3. stage' = "plan" => ~corrupt'
    BY <2>1 DEF LoadForRead
  <2>4. stage' \in {"ensure", "plan"}
    BY <2>1
  <2>5. BeforeLoop
    BY <1>2, <2>1
  <2>6. BeforeLoop'
    BY <2>1, <2>2, <2>3, <2>4, <2>5 DEF BeforeLoop
  <2> QED
    BY <1>2, <2>1, <2>4, <2>6 DEF BootGoal
<1>6. CASE SeedColor
  <2>1. ~disturbed /\ UNCHANGED <<unit, lock, job>> /\ stage \in {"ensure", "desire"}
    BY <1>6 DEF SeedColor, world
  <2>2. BeforeLoop
    BY <1>2, <2>1
  <2>3. /\ stage' \in {"desire", "plan"} /\ ~corrupt'
        /\ stage' = "desire" => LegacyColor \in DOMAIN alloc'
    <3>1. CASE stage = "ensure"
      <4>1. DOMAIN LoadForWrite = {}
        BY <2>2, <3>1 DEF BeforeLoop
      <4>2. ~Clobbers(LoadForWrite, ColorRow)
        BY <4>1 DEF Clobbers
      <4> QED
        BY <1>6, <3>1, <4>1, <4>2 DEF SeedColor, Persist, WithRow
    <3>2. CASE stage = "desire"
      <4>1. LegacyColor \in DOMAIN LoadForWrite
        BY <2>2, <3>2 DEF BeforeLoop, LoadForWrite
      <4> QED
        BY <1>6, <3>2, <4>1 DEF SeedColor, Persist
    <3> QED
      BY <2>1, <3>1, <3>2
  <2>4. BeforeLoop'
    BY <2>1, <2>2, <2>3 DEF BeforeLoop
  <2> QED
    BY <1>2, <2>1, <2>3, <2>4 DEF BootGoal
<1>7. CASE Plan
  <2>1. /\ ~disturbed /\ stage = "plan" /\ stage' = "loop"
        /\ UNCHANGED <<corrupt, alloc, contract, unit, janus, lock, job>>
    BY <1>7 DEF Plan, store, world
  <2>2. BeforeLoop /\ ~corrupt
    BY <1>2, <2>1 DEF BeforeLoop
  <2>3. LoadForRead = alloc /\ DOMAIN alloc \subseteq Keys
    BY <2>2 DEF LoadForRead, LocalInv, FileInv
  <2>4. \A i \in 1 .. Len(todo') : todo'[i] \in DOMAIN alloc
    <3>1. PICK desired : desired = {j \in DOMAIN LoadForRead : LoadForRead[j].desired}
      OBVIOUS
    <3>2. todo' \in [1 .. Cardinality(desired) -> desired] /\ Cardinality(desired) \in Nat
      BY <1>7, <3>1, PlanIsOrder
    <3>3. Len(todo') = Cardinality(desired)
      BY <3>2
    <3> QED
      BY <2>3, <3>1, <3>2, <3>3
  <2>5. \A k \in DOMAIN alloc : alloc[k].desired => \E i \in 1 .. Len(todo') : todo'[i] = k
    BY <1>7, <2>3, PlanIsComplete
  <2>6. \A k \in DOMAIN alloc : unit[SensorOf(k)] = Down
    BY <2>2, <2>3, KeyOfSensor DEF BeforeLoop
  <2>7. job'[Reconciler] = Idle /\ ~corrupt' /\ \A k \in Keys : lock'[k] = "none"
    BY <2>1, <2>2 DEF BeforeLoop
  <2>8. LoopInv'
    BY <1>0, <2>1, <2>4, <2>5, <2>6, <2>7 DEF LoopInv
  <2> QED
    BY <1>2, <2>1, <2>8 DEF BootGoal
<1>8. CASE ReconcileStream
  <2>1. ~disturbed /\ stage = "loop"
    BY <1>8 DEF ReconcileStream, NoFault, Fault
  <2>2. \/ stage' = "loop" /\ LoopInv'
        \/ /\ stage' = "done" /\ job'[Reconciler] = Idle
           /\ \A k \in DOMAIN alloc' : alloc'[k].desired => Up(k)'
    BY <1>2, <1>8, <2>1, LoopReconciles
  <2>3. \A q \in Procs \ {Reconciler} : job'[q] = job[q]
    BY <1>0, <1>8 DEF ReconcileStream
  <2> QED
    BY <1>2, <2>1, <2>2, <2>3 DEF BootGoal
<1>9. ~(FileCorrupted \/ JanusRestarts \/ EncoderDies \/ ControlPlaneDies)
  BY DEF FileCorrupted, JanusRestarts, EncoderDies, ControlPlaneDies, Fault
<1>10. ASSUME NEW p \in Procs, PipelineStep(p) PROVE ~disturbed
  BY <1>10 DEF PipelineStep, TakeLock, MigrateColorKey, EnsureColor, Allocate, SetDesired,
     ClearDesired, WriteContract, StartMux, CreateMountpoint, StartUnit, CheckUnit, StopUnit,
     DestroyMountpoint, CommandFails, NoFault, Fault
<1> QED
  BY <1>1, <1>3, <1>4, <1>5, <1>6, <1>7, <1>8, <1>9, <1>10 DEF LocalNext, Environment

LEMMA InitBoot == LocalInit => BootInv
<1> SUFFICES ASSUME LocalInit PROVE BootInv
  OBVIOUS
<1>1. /\ DOMAIN lock = Keys /\ \A k \in Keys : lock[k] = "none"
      /\ \A p \in Procs : job[p] = Idle
      /\ \A s \in AllSensors : unit[s] = Down
      /\ stage = "seed" /\ Reconciler \in Procs
  BY DEF LocalInit, JustBooted, Procs
<1> QED
  BY <1>1 DEF BootInv, BeforeLoop

LEMMA StepKeepsBoot == LocalInv /\ BootInv /\ [LocalNext]_localVars => BootInv'
<1> SUFFICES ASSUME LocalInv, BootInv, [LocalNext]_localVars PROVE BootInv'
  OBVIOUS
<1>1. CASE LocalNext
  <2>1. DOMAIN lock' = Keys /\ stage' \in Stages
    BY <1>1, StagesStep DEF BootInv, Stages
  <2>2. ~disturbed' => BootGoal
    BY <1>1, BootGoes
  <2> QED
    BY <2>1, <2>2 DEF BootInv, BootGoal, Stages
<1>2. CASE UNCHANGED localVars
  BY <1>2 DEF localVars, BootInv, BeforeLoop, LoopInv, Progress, Up, LoadForWrite
<1> QED
  BY <1>1, <1>2

-----------------------------------------------------------------------------
(* The theorems.                                                           *)

\* The file, the units, Janus and the calls in flight stay consistent with
\* each other, whatever interleaves, fails or restarts.
THEOREM LocalInvariant == LocalSpec => []LocalInv
  BY InitLocal, StepKeepsLocal, PTL DEF LocalSpec

\* Two streams never share a mountpoint, an RTP port or an RTCP port
\* (mountpoint_allocator: allocate, ensure and migrate_color_key each check
\* or move a slot under the file's lock), for any pools and any interleaving.
THEOREM SlotsAreDisjoint == LocalSpec => []SlotsDisjoint
<1>1. LocalInv => SlotsDisjoint
  BY PairsApart DEF LocalInv, SlotsDisjoint
<1> QED
  BY <1>1, LocalInvariant, PTL

\* A mountpoint that the pipeline has created and Janus still has listens on
\* the port of whichever row has its id now, also after the file was reset:
\* the pools are walked in step, so create_mountpoint may take "already
\* exists" for success, unless the dashboard created what exists.
THEOREM ExistingMountpointsFit == LocalSpec => []ReusedMountpointFits
<1>1. ASSUME LocalInv PROVE ReusedMountpointFits
  <2> SUFFICES ASSUME NEW k \in DOMAIN alloc, alloc[k].mp \in DOMAIN janus \ foreign
               PROVE  janus[alloc[k].mp] = alloc[k].port
    BY DEF ReusedMountpointFits
  <2>1. SlotFor(k, alloc[k]) /\ InStep(alloc[k].mp, janus[alloc[k].mp])
    BY <1>1 DEF LocalInv, FileInv, WorldInv, JanusInv
  <2> QED
    BY <2>1 DEF SlotFor, InStep, ColorMp, MpIdMin
<1> QED
  BY <1>1, LocalInvariant, PTL

\* As long as the file was never damaged, a running encoder sends to the port
\* of its row, across crashes in the middle of a call, restarts and boots.
THEOREM EncodersSendToTheirRows == LocalSpec => []EncoderSendsToItsRow
<1>1. ASSUME LocalInv PROVE EncoderSendsToItsRow
  <2> SUFFICES ASSUME ~damaged, NEW k \in DOMAIN alloc, unit[SensorOf(k)] # Down
               PROVE  unit[SensorOf(k)] = alloc[k].port
    BY DEF EncoderSendsToItsRow
  <2>1. k \in Keys /\ SlotFor(k, alloc[k])
    BY <1>1 DEF LocalInv, FileInv
  <2>2. /\ SensorOf(k) \in AllSensors
        /\ SensorOf(k) # "color" => k = <<Serial, SensorOf(k)>>
    BY <2>1, KeyOfSensor
  <2>3. PortInv(SensorOf(k), unit[SensorOf(k)])
    BY <1>1, <2>2 DEF LocalInv, WorldInv
  <2> QED
    BY <2>1, <2>2, <2>3 DEF PortInv, SlotFor, Down
<1> QED
  BY <1>1, LocalInvariant, PTL

\* A boot that no administrator and no fault disturbs ends with every stream
\* that the file marks as desired running on its port, its mountpoint in
\* Janus, whatever the file, the contracts and an interrupted call of the
\* last boot had left behind (sensor_reconcile: seed, plan, reconcile_stream).
THEOREM BootsBringUp == LocalSpec => []BootBringsUp
<1>1. BootInv => BootBringsUp
  BY DEF BootInv, BootBringsUp, Up
<1>2. LocalSpec => []BootInv
  BY InitBoot, StepKeepsBoot, LocalInvariant, PTL DEF LocalSpec
<1> QED
  BY <1>1, <1>2, PTL
=============================================================================
