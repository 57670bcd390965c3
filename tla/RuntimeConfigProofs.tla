------------------------- MODULE RuntimeConfigProofs -------------------------
(***************************************************************************)
(* Runtime configuration, proved for any threads, readers, patches, edits, *)
(* journal sizes and faults.                                               *)
(*                                                                         *)
(* A revision in progress is the work of the thread with the lock, or is   *)
(* still before boot recovery.  While nobody has edited the file, it holds *)
(* the base of the revision until it is written and the target from then   *)
(* to the rollback: so the hash of the file tells recovery how far a dead  *)
(* apply had come.                                                         *)
(***************************************************************************)
EXTENDS RuntimeConfig, SequenceTheorems, TLAPS

-----------------------------------------------------------------------------
(* The invariant                                                           *)

IsRev(r) == r = [patch |-> r.patch, base |-> r.base, impact |-> r.impact, status |-> r.status]

JournalInv ==
    /\ \E S : journal \in Seq(S)
    /\ \A i \in DOMAIN journal : IsRev(journal[i]) /\ journal[i].patch \in Patches

IsThread(x) == DOMAIN x = {"pc", "rid", "prior", "priorEnv", "todo"}

ThreadShape ==
    /\ DOMAIN thread = Threads /\ \A t \in Threads : IsThread(thread[t])
    /\ phase \in {"up", "down", "recovering"}

\* A thread inside an apply holds the lock.
LockInv ==
    \A t \in Threads : thread[t].pc # "idle" =>
        lock = t /\ phase = "up" /\ thread[t].rid \in DOMAIN journal

\* The stages before the journal says "applying".
Preparing == {"idle", "check", "rebuilt", "capture", "mark"}

OwnedInv ==
    ~blemish => \A i \in DOMAIN journal : journal[i].status \in InProgress =>
        /\ phase = "up" => lock \in Threads /\ thread[lock].rid = i /\ thread[lock].pc \notin Preparing
        /\ phase = "recovering" => i \in todo

\* The file holds the target of a patch.
DiskHas(p) == \A k \in Fields(p) : disk.env[k] = p[k]

\* What the stage of thread t says of its revision r and the file.
StageOf(t, r) ==
    /\ thread[t].pc \in {"check", "rebuilt", "capture", "mark", "write", "revert", "activate", "verify", "build",
                        "commit", "rollback", "rolling", "undo", "restore", "restored", "unrestored"}
    /\ thread[t].pc = "rebuilt" => r.status # "applying" /\ r.base # {}
    /\ thread[t].pc = "commit" /\ r.status = "applying" /\ ~edited => DiskHas(r.patch)
    /\ thread[t].pc \in {"capture", "mark", "write", "revert"} /\ ~edited => r.base = {disk}
    /\ thread[t].pc \in {"activate", "verify", "build", "rollback"} /\ ~edited => DiskHas(r.patch)
    /\ thread[t].pc \in {"rolling", "undo", "restore", "restored", "unrestored"} => r.status # "applying"

StageInv == \A t \in Threads : thread[t].pc # "idle" => StageOf(t, journal[thread[t].rid])

\* What is left of an apply that died.
CrashInv ==
    phase # "up" /\ interrupted # 0 =>
        /\ phase = "recovering" => cache = SettingsOf(disk.env)
        /\ \A i \in DOMAIN journal : i = interrupted /\ journal[i].status = "applying" =>
              journal[i].base = {disk} \/ DiskHas(journal[i].patch)

RuntimeInv == JournalInv /\ ThreadShape /\ LockInv /\ OwnedInv /\ StageInv /\ CrashInv

-----------------------------------------------------------------------------
(* Settings                                                                *)

\* Settings built from an environment that holds the target show it: the
\* clamps of the reader and of the effective view agree.
LEMMA HeldIsServed ==
    ASSUME NEW p \in Patches, NEW e, \A k \in Fields(p) : e[k] = p[k]
    PROVE  Verify(p, SettingsOf(e))
<1>1. p.ttl \in Nat
  BY RuntimeAssumption
<1> SUFFICES ASSUME NEW k \in Fields(p)
             PROVE  BuildEffective(SettingsOf(e))[k] = ExpectedEffective(p)[k]
  BY DEF Verify
<1>2. e[k] = p[k] /\ p[k] # Unset[k]
  BY DEF Fields
<1>3. CASE k = "ice"
  BY <1>2, <1>3 DEF BuildEffective, ExpectedEffective, SettingsOf
<1>4. CASE k = "ttl"
  <2>1. e.ttl = p.ttl /\ p.ttl # 0
    BY <1>2, <1>4 DEF Unset
  <2>2. ClampTtl(IntEnv(e.ttl)) = ClampTtl(p.ttl)
    BY <1>1, <2>1 DEF IntEnv, ClampTtl
  <2> QED
    BY <1>4, <2>2 DEF BuildEffective, ExpectedEffective, SettingsOf
<1> QED
  BY <1>3, <1>4 DEF Fields, Keys

\* Settings that were built are not the empty cache.
LEMMA BuiltIsCached == \A e : SettingsOf(e) # NoCache
<1> SUFFICES ASSUME NEW e PROVE SettingsOf(e) # NoCache
  OBVIOUS
<1>1. SettingsOf(e).ice \in {"all", "relay"}
  BY DEF SettingsOf, StrEnv
<1>2. NoCache.ice = "none"
  BY DEF NoCache
<1> QED
  BY <1>1, <1>2

LEMMA StoredIsCached == \A e : Stored(e) # NoCache /\ (cache # NoCache => Stored(e) = cache)
  BY BuiltIsCached DEF Stored

-----------------------------------------------------------------------------
(* The journal                                                             *)

LEMMA AppendFacts ==
    ASSUME NEW S, NEW j \in Seq(S), NEW x
    PROVE  /\ Append(j, x) \in Seq(S \cup {x})
           /\ Len(j) + 1 \notin DOMAIN j
           /\ DOMAIN Append(j, x) = DOMAIN j \cup {Len(j) + 1}
           /\ \A i \in DOMAIN j : Append(j, x)[i] = j[i]
           /\ Append(j, x)[Len(j) + 1] = x
<1>1. j \in Seq(S \cup {x})
  OBVIOUS
<1> QED
  BY <1>1

\* A record with another status.
LEMMA WithStatus ==
    ASSUME NEW r, IsRev(r), NEW st
    PROVE  /\ IsRev([r EXCEPT !.status = st])
           /\ [r EXCEPT !.status = st].patch = r.patch /\ [r EXCEPT !.status = st].base = r.base
           /\ [r EXCEPT !.status = st].status = st
<1>1. PICK p, b, i, s : r = [patch |-> p, base |-> b, impact |-> i, status |-> s]
  BY DEF IsRev
<1>2. [r EXCEPT !.status = st] = [patch |-> p, base |-> b, impact |-> i, status |-> st]
  BY <1>1
<1> QED
  BY <1>1, <1>2 DEF IsRev

\* Pruning keeps the numbers and changes nothing but a status to "gone".
LEMMA KeptFacts ==
    ASSUME NEW S, NEW j \in Seq(S)
    PROVE  /\ \E T : Kept(j) \in Seq(T)
           /\ DOMAIN Kept(j) = DOMAIN j
           /\ \A i \in DOMAIN j : Kept(j)[i] = j[i] \/ Kept(j)[i] = [j[i] EXCEPT !.status = "gone"]
<1> DEFINE T == S \cup {[r EXCEPT !.status = "gone"] : r \in S}
<1>1. DOMAIN Kept(j) = DOMAIN j
  BY DEF Kept
<1>2. \A i \in DOMAIN j : Kept(j)[i] = j[i] \/ Kept(j)[i] = [j[i] EXCEPT !.status = "gone"]
  BY DEF Kept
<1>3. \A i \in DOMAIN j : j[i] \in S
  OBVIOUS
<1>4. \A i \in DOMAIN j : Kept(j)[i] \in T
  BY <1>2, <1>3
<1>5. DOMAIN j = 1..Len(j) /\ Len(j) \in Nat
  OBVIOUS
<1>6. Kept(j) \in [DOMAIN j -> T]
  <2> HIDE DEF T
  <2>1. Kept(j) = [i \in DOMAIN j |-> Kept(j)[i]]
    BY DEF Kept
  <2> QED
    BY <1>4, <2>1
<1>7. Kept(j) \in Seq(T)
  BY <1>5, <1>6, SeqDef
<1> QED
  BY <1>1, <1>2, <1>7

\* One record is written.
LEMMA RecordFacts ==
    ASSUME JournalInv, NEW i \in DOMAIN journal, NEW st, journal' = [journal EXCEPT ![i].status = st]
    PROVE  /\ JournalInv' /\ DOMAIN journal' = DOMAIN journal
           /\ journal'[i].status = st /\ journal'[i].patch = journal[i].patch
           /\ journal'[i].base = journal[i].base
           /\ \A k \in DOMAIN journal \ {i} : journal'[k] = journal[k]
<1>1. PICK r : r = journal[i]
  OBVIOUS
<1>2. IsRev(r) /\ r.patch \in Patches
  BY <1>1 DEF JournalInv
<1>3. DOMAIN journal' = DOMAIN journal /\ \A k \in DOMAIN journal \ {i} : journal'[k] = journal[k]
  OBVIOUS
<1>4. journal'[i] = [r EXCEPT !.status = st]
  BY <1>1
<1>5. PICK S : journal \in Seq(S)
  BY DEF JournalInv
<1>6. journal' \in Seq(S \cup {[r EXCEPT !.status = st]})
  <2>1. journal' \in [1..Len(journal) -> S \cup {[r EXCEPT !.status = st]}]
    BY <1>1, <1>5
  <2> QED
    BY <1>5, <2>1, SeqDef
<1>7. IsRev(journal'[i]) /\ journal'[i].patch \in Patches
  <2>1. PICK q : q = [r EXCEPT !.status = st]
    OBVIOUS
  <2>2. IsRev(q) /\ q.patch = r.patch
    BY <1>2, <2>1, WithStatus
  <2> QED
    BY <1>2, <1>4, <2>1, <2>2 DEF IsRev
<1>8. \A k \in DOMAIN journal' : IsRev(journal'[k]) /\ journal'[k].patch \in Patches
  <2> SUFFICES ASSUME NEW k \in DOMAIN journal PROVE IsRev(journal'[k]) /\ journal'[k].patch \in Patches
    BY <1>3
  <2>1. CASE k = i
    BY <1>7, <2>1
  <2>2. CASE k # i
    <3>1. journal'[k] = journal[k]
      BY <1>3, <2>2
    <3> QED
      BY <3>1 DEF JournalInv, IsRev
  <2> QED
    BY <2>1, <2>2
<1>9. JournalInv'
  BY <1>6, <1>8 DEF JournalInv, IsRev
<1> QED
  BY <1>1, <1>2, <1>3, <1>4, <1>9, WithStatus

-----------------------------------------------------------------------------
(* The thread with the lock                                                *)

\* Thread t goes on at x, or leaves and frees the lock; the others stay.
Moves(t, x) ==
    /\ DOMAIN thread' = Threads /\ \A u \in Threads \ {t} : thread'[u] = thread[u]
    /\ IsThread(thread'[t]) /\ thread'[t].pc = x
    /\ \/ x = "idle" /\ lock' = "free"
       \/ x # "idle" /\ lock' = lock /\ thread'[t].rid = thread[t].rid

LEMMA GoMoves ==
    ASSUME ThreadShape, NEW t \in Threads, NEW x, x # "idle", Go(t, x), lock' = lock
    PROVE  Moves(t, x)
<1>1. DOMAIN thread = Threads /\ IsThread(thread[t])
  BY DEF ThreadShape
<1>2. thread'[t].pc = x /\ thread'[t].rid = thread[t].rid /\ IsThread(thread'[t])
  BY <1>1 DEF Go, IsThread
<1>3. DOMAIN thread' = Threads /\ \A u \in Threads \ {t} : thread'[u] = thread[u]
  BY <1>1 DEF Go
<1> QED
  BY <1>2, <1>3 DEF Moves

LEMMA LeaveMoves ==
    ASSUME ThreadShape, NEW t \in Threads, Leave(t)
    PROVE  Moves(t, "idle")
<1>1. DOMAIN thread' = Threads /\ (\A u \in Threads \ {t} : thread'[u] = thread[u]) /\ thread'[t] = Idle
  BY DEF ThreadShape, Leave
<1> QED
  BY <1>1 DEF Moves, IsThread, Idle, Leave

\* A step of the thread with the lock keeps the invariant if it leaves no
\* revision in progress behind and its next stage says the truth.
LEMMA ThreadKeeps ==
    ASSUME RuntimeInv, NEW t \in Threads, thread[t].pc # "idle", NEW x, Moves(t, x), phase' = phase,
           JournalInv', DOMAIN journal' = DOMAIN journal,
           \A i \in DOMAIN journal \ {thread[t].rid} : journal'[i] = journal[i],
           ~blemish' => ~blemish /\ (journal'[thread[t].rid].status \in InProgress => x \notin Preparing),
           x # "idle" => StageOf(t, journal[thread[t].rid])'
    PROVE  RuntimeInv'
<1>1. lock = t /\ phase = "up" /\ thread[t].rid \in DOMAIN journal
  BY DEF RuntimeInv, LockInv
<1>2. \A u \in Threads \ {t} : thread'[u].pc = "idle" /\ thread'[u] = thread[u]
  BY <1>1 DEF RuntimeInv, LockInv, Moves
<1>3. ThreadShape'
  <2>1. \A u \in Threads : IsThread(thread'[u])
    <3> SUFFICES ASSUME NEW u \in Threads PROVE IsThread(thread'[u])
      OBVIOUS
    <3>1. CASE u = t
      BY <3>1 DEF Moves, IsThread
    <3>2. CASE u # t
      BY <1>2, <3>2 DEF RuntimeInv, ThreadShape, IsThread
    <3> QED
      BY <3>1, <3>2
  <2> QED
    BY <1>1, <2>1 DEF ThreadShape, Moves, IsThread
<1>4. LockInv'
  BY <1>1, <1>2 DEF LockInv, Moves
<1>5. OwnedInv'
  <2> SUFFICES ASSUME ~blemish', NEW i \in DOMAIN journal', journal'[i].status \in InProgress
               PROVE  lock' \in Threads /\ thread'[lock'].rid = i /\ thread'[lock'].pc \notin Preparing
    BY <1>1 DEF OwnedInv
  <2>1. i = thread[t].rid
    BY <1>1 DEF RuntimeInv, OwnedInv
  <2>2. x \notin Preparing
    BY <2>1
  <2>3. x # "idle"
    BY <2>2 DEF Preparing
  <2> QED
    BY <1>1, <2>1, <2>2, <2>3 DEF Moves
<1>6. StageInv'
  <2> SUFFICES ASSUME NEW u \in Threads, thread'[u].pc # "idle"
               PROVE  StageOf(u, journal[thread[u].rid])'
    BY DEF StageInv
  <2>1. u = t /\ x # "idle"
    BY <1>2 DEF Moves
  <2> QED
    BY <2>1
<1>7. CrashInv'
  BY <1>1 DEF CrashInv
<1> QED
  BY <1>3, <1>4, <1>5, <1>6, <1>7 DEF RuntimeInv

\* The same when the journal is left alone.
LEMMA QuietKeeps ==
    ASSUME RuntimeInv, NEW t \in Threads, thread[t].pc # "idle", NEW x, Moves(t, x), phase' = phase,
           journal' = journal, blemish' = blemish, thread[t].pc \in Preparing \/ x \notin Preparing,
           x # "idle" => StageOf(t, journal[thread[t].rid])'
    PROVE  RuntimeInv'
<1>1. JournalInv'
  BY DEF RuntimeInv, JournalInv, IsRev
<1>2. lock = t /\ phase = "up" /\ thread[t].rid \in DOMAIN journal
  BY DEF RuntimeInv, LockInv
<1>3. ~blemish' => ~blemish /\ (journal'[thread[t].rid].status \in InProgress => x \notin Preparing)
  BY <1>2 DEF RuntimeInv, OwnedInv
<1> QED
  BY <1>1, <1>3, ThreadKeeps

\* set_status by thread t: the record is written or is gone, and the thread
\* goes on at x; or the call raises.
Recorded(t, st, x) ==
    /\ JournalInv' /\ DOMAIN journal' = DOMAIN journal
    /\ \A i \in DOMAIN journal \ {thread[t].rid} : journal'[i] = journal[i]
    /\ journal'[thread[t].rid].patch = journal[thread[t].rid].patch
    /\ journal'[thread[t].rid].base = journal[thread[t].rid].base
    /\ journal'[thread[t].rid].status \in {st, "gone"}
    /\ blemish' = blemish /\ Moves(t, x)
Raised(t, x) == journal' = journal /\ JournalInv' /\ blemish' = TRUE /\ Moves(t, x)
After(n) == IF n = "end" THEN "idle" ELSE n

LEMMA SetStatusFacts ==
    ASSUME RuntimeInv, NEW t \in Threads, thread[t].pc # "idle", NEW st, NEW next, NEW raised,
           SetStatus(t, st, next, raised), next # "idle", raised # "idle"
    PROVE  Recorded(t, st, After(next)) \/ Raised(t, After(raised))
<1>0. thread[t].rid \in DOMAIN journal /\ JournalInv /\ ThreadShape
  BY DEF RuntimeInv, LockInv
<1>1. PICK i : i = thread[t].rid
  OBVIOUS
<1>2. journal' = journal => JournalInv'
  BY <1>0 DEF JournalInv, IsRev
<1>3. ASSUME NEW n, n # "idle", IF n = "end" THEN Leave(t) ELSE Go(t, n) /\ UNCHANGED lock
      PROVE  Moves(t, After(n))
  <2>1. CASE n = "end"
    <3>1. Leave(t)
      BY <1>3, <2>1
    <3>2. Moves(t, "idle")
      BY <1>0, <3>1, LeaveMoves
    <3> QED
      BY <2>1, <3>2 DEF After
  <2>2. CASE n # "end"
    <3>1. Go(t, n) /\ lock' = lock
      BY <1>3, <2>2
    <3>2. Moves(t, n)
      BY <1>0, <1>3, <3>1, GoMoves
    <3> QED
      BY <2>2, <3>2 DEF After
  <2> QED
    BY <2>1, <2>2
<1>4. CASE /\ journal' = IF journal[i].status = "gone" THEN journal ELSE [journal EXCEPT ![i].status = st]
           /\ IF next = "end" THEN Leave(t) ELSE Go(t, next) /\ UNCHANGED lock
           /\ blemish' = blemish
  <2>1. Moves(t, After(next))
    BY <1>3, <1>4
  <2>2. CASE journal[i].status = "gone"
    BY <1>0, <1>1, <1>2, <1>4, <2>1, <2>2 DEF Recorded
  <2>3. CASE journal[i].status # "gone"
    <3>1. journal' = [journal EXCEPT ![i].status = st]
      BY <1>4, <2>3
    <3>2. /\ JournalInv' /\ DOMAIN journal' = DOMAIN journal
          /\ journal'[i].status = st /\ journal'[i].patch = journal[i].patch
          /\ journal'[i].base = journal[i].base
          /\ \A k \in DOMAIN journal \ {i} : journal'[k] = journal[k]
      BY <1>0, <1>1, <3>1, RecordFacts
    <3> QED
      BY <1>1, <1>4, <2>1, <3>2 DEF Recorded
  <2> QED
    BY <2>2, <2>3
<1>5. CASE /\ journal' = journal /\ blemish' = TRUE
           /\ IF raised = "end" THEN Leave(t) ELSE Go(t, raised) /\ UNCHANGED lock
  <2>1. Moves(t, After(raised))
    BY <1>3, <1>5
  <2> QED
    BY <1>2, <1>5, <2>1 DEF Raised
<1> QED
  BY <1>1, <1>4, <1>5 DEF SetStatus, Rid

LEMMA RecordedKeeps ==
    ASSUME RuntimeInv, NEW t \in Threads, thread[t].pc # "idle", NEW st, NEW x, Recorded(t, st, x),
           phase' = phase, st \in InProgress => x \notin Preparing,
           x # "idle" => StageOf(t, journal[thread[t].rid])'
    PROVE  RuntimeInv'
<1>1. /\ JournalInv' /\ DOMAIN journal' = DOMAIN journal /\ Moves(t, x) /\ blemish' = blemish
      /\ \A i \in DOMAIN journal \ {thread[t].rid} : journal'[i] = journal[i]
      /\ journal'[thread[t].rid].status \in {st, "gone"}
  BY DEF Recorded
<1>2. journal'[thread[t].rid].status \in InProgress => x \notin Preparing
  BY <1>1 DEF InProgress
<1> QED
  BY <1>1, <1>2, ThreadKeeps

LEMMA RaisedKeeps ==
    ASSUME RuntimeInv, NEW t \in Threads, thread[t].pc # "idle", NEW x, Raised(t, x),
           phase' = phase, x # "idle" => StageOf(t, journal[thread[t].rid])'
    PROVE  RuntimeInv'
<1>1. JournalInv' /\ journal' = journal /\ Moves(t, x) /\ blemish' = TRUE
  BY DEF Raised
<1> QED
  BY <1>1, ThreadKeeps

-----------------------------------------------------------------------------
(* The stages of an apply                                                  *)

\* The decision at the end of the checks.
LEMMA DecideKeeps ==
    ASSUME RuntimeInv, NEW t \in Threads, NEW s, thread[t].pc \in {"check", "rebuilt"}, Decide(t, s),
           Applyable(t) \/ thread[t].pc = "rebuilt", phase' = phase, journal' = journal, blemish' = blemish,
           disk' = disk, edited' = edited
    PROVE  RuntimeInv'
<1>1. thread[t].pc # "idle" /\ thread[t].pc \in Preparing /\ ThreadShape
  BY DEF Preparing, RuntimeInv
<1>2. CASE Leave(t)
  <2>1. Moves(t, "idle")
    BY <1>1, <1>2, LeaveMoves
  <2> QED
    BY <1>1, <2>1, QuietKeeps
<1>3. CASE Accepted(t, s) /\ Go(t, "commit") /\ lock' = lock
  <2>1. Moves(t, "commit")
    BY <1>1, <1>3, GoMoves
  <2>2. thread'[t].pc = "commit" /\ thread'[t].rid = thread[t].rid
    BY <2>1 DEF Moves
  <2>3. journal[thread[t].rid].status # "applying"
    BY DEF RuntimeInv, StageInv, StageOf, Applyable, IsApplyable, Rid
  <2>4. StageOf(t, journal[thread[t].rid])'
    BY <2>2, <2>3 DEF StageOf
  <2> QED
    BY <1>1, <2>1, <2>4, QuietKeeps
<1>4. CASE Accepted(t, s) /\ Go(t, "capture") /\ lock' = lock
  <2>1. Moves(t, "capture")
    BY <1>1, <1>4, GoMoves
  <2>2. thread'[t].pc = "capture" /\ thread'[t].rid = thread[t].rid
    BY <2>1 DEF Moves
  <2>3. journal[thread[t].rid].base = {disk}
    <3>1. journal[thread[t].rid].base # {}
      BY DEF RuntimeInv, StageInv, StageOf, Applyable, IsApplyable, Rid
    <3> QED
      BY <1>4, <3>1 DEF Accepted, FileHashesBefore, Rid
  <2>4. StageOf(t, journal[thread[t].rid])'
    BY <2>2, <2>3 DEF StageOf
  <2> QED
    BY <1>1, <2>1, <2>4, QuietKeeps
<1> QED
  BY <1>2, <1>3, <1>4 DEF Decide

LEMMA CheckKeeps ==
    ASSUME RuntimeInv, NEW t \in Threads, Check(t)
    PROVE  RuntimeInv'
<1>1. /\ thread[t].pc = "check" /\ phase' = phase /\ journal' = journal /\ blemish' = blemish
      /\ disk' = disk /\ edited' = edited
  BY DEF Check, At, others
<1>2. thread[t].pc # "idle" /\ thread[t].pc \in Preparing /\ ThreadShape
  BY <1>1 DEF Preparing, RuntimeInv
<1>3. CASE Leave(t)
  <2>1. Moves(t, "idle")
    BY <1>2, <1>3, LeaveMoves
  <2> QED
    BY <1>1, <1>2, <2>1, QuietKeeps
<1>4. CASE Applyable(t) /\ Decide(t, cache)
  BY <1>1, <1>4, DecideKeeps
<1>5. CASE Applyable(t) /\ Go(t, "rebuilt") /\ lock' = lock
  <2>1. Moves(t, "rebuilt")
    BY <1>2, <1>5, GoMoves
  <2>2. journal[thread[t].rid].status = "validated" /\ journal[thread[t].rid].base # {}
    BY <1>5 DEF Applyable, IsApplyable, Rid
  <2>3. thread'[t].pc = "rebuilt" /\ thread'[t].rid = thread[t].rid
    BY <2>1 DEF Moves
  <2>4. StageOf(t, journal[thread[t].rid])'
    BY <1>1, <2>2, <2>3 DEF StageOf
  <2> QED
    BY <1>1, <1>2, <2>1, <2>4, QuietKeeps
<1> QED
  BY <1>3, <1>4, <1>5 DEF Check

LEMMA CheckRebuiltKeeps ==
    ASSUME RuntimeInv, NEW t \in Threads, CheckRebuilt(t)
    PROVE  RuntimeInv'
<1>1. /\ thread[t].pc = "rebuilt" /\ phase' = phase /\ journal' = journal /\ blemish' = blemish
      /\ disk' = disk /\ edited' = edited
  BY DEF CheckRebuilt, At, others
<1> QED
  BY <1>1, DecideKeeps DEF CheckRebuilt

LEMMA CaptureKeeps ==
    ASSUME RuntimeInv, NEW t \in Threads, Capture(t)
    PROVE  RuntimeInv'
<1>1. /\ thread[t].pc = "capture" /\ phase' = phase /\ journal' = journal /\ blemish' = blemish
      /\ disk' = disk /\ edited' = edited /\ lock' = lock
  BY DEF Capture, At, others, files
<1>2. DOMAIN thread = Threads /\ IsThread(thread[t])
  BY DEF RuntimeInv, ThreadShape
<1>3. thread'[t].pc = "mark" /\ thread'[t].rid = thread[t].rid /\ IsThread(thread'[t])
  BY <1>2 DEF Capture, IsThread
<1>4. DOMAIN thread' = Threads /\ \A u \in Threads \ {t} : thread'[u] = thread[u]
  BY <1>2 DEF Capture
<1>5. Moves(t, "mark")
  BY <1>1, <1>3, <1>4 DEF Moves
<1>6. StageOf(t, journal[thread[t].rid])'
  <2>1. thread'[t].pc = "mark" /\ thread'[t].rid = thread[t].rid
    BY <1>5 DEF Moves
  <2>2. ~edited => journal[thread[t].rid].base = {disk}
    BY <1>1 DEF RuntimeInv, StageInv, StageOf
  <2> QED
    BY <1>1, <2>1, <2>2 DEF StageOf
<1>7. thread[t].pc # "idle" /\ thread[t].pc \in Preparing
  BY <1>1 DEF Preparing
<1> QED
  BY <1>1, <1>5, <1>6, <1>7, QuietKeeps

LEMMA MarkApplyingKeeps ==
    ASSUME RuntimeInv, NEW t \in Threads, MarkApplying(t)
    PROVE  RuntimeInv'
<1>1. /\ thread[t].pc = "mark" /\ phase' = phase /\ disk' = disk /\ edited' = edited
      /\ SetStatus(t, "applying", "write", "end")
  BY DEF MarkApplying, At, others, files
<1>2. thread[t].pc # "idle"
  BY <1>1
<1>3. Recorded(t, "applying", After("write")) \/ Raised(t, After("end"))
  BY <1>1, <1>2, SetStatusFacts
<1>4. CASE Recorded(t, "applying", "write")
  <2>1. ~edited => journal[thread[t].rid].base = {disk}
    BY <1>1 DEF RuntimeInv, StageInv, StageOf
  <2>2. StageOf(t, journal[thread[t].rid])'
    BY <1>1, <1>4, <2>1 DEF StageOf, Moves, Recorded
  <2>3. "write" \notin Preparing
    BY DEF Preparing
  <2> QED
    BY <1>1, <1>2, <1>4, <2>2, <2>3, RecordedKeeps
<1>5. CASE Raised(t, "idle")
  BY <1>1, <1>2, <1>5, RaisedKeeps
<1> QED
  BY <1>3, <1>4, <1>5 DEF After

LEMMA WriteLockedKeeps ==
    ASSUME RuntimeInv, NEW t \in Threads, WriteLocked(t)
    PROVE  RuntimeInv'
<1>1. /\ thread[t].pc = "write" /\ phase' = phase /\ edited' = edited /\ journal' = journal
      /\ blemish' = blemish /\ lock' = lock
  BY DEF WriteLocked, At, others
<1>2. thread[t].pc # "idle" /\ ThreadShape
  BY <1>1 DEF RuntimeInv
<1>3. CASE Go(t, "revert") /\ disk' = disk
  <2>1. Moves(t, "revert")
    BY <1>1, <1>2, <1>3, GoMoves
  <2>2. ~edited => journal[thread[t].rid].base = {disk}
    BY <1>1 DEF RuntimeInv, StageInv, StageOf
  <2>3. StageOf(t, journal[thread[t].rid])'
    BY <1>1, <1>3, <2>1, <2>2 DEF StageOf, Moves
  <2>4. "revert" \notin Preparing
    BY DEF Preparing
  <2> QED
    BY <1>1, <1>2, <2>1, <2>3, <2>4, QuietKeeps
<1>4. CASE /\ disk' = [present |-> TRUE, foreign |-> FALSE, canon |-> TRUE,
                       env |-> [k \in Keys |-> IF k \in Fields(Patch(t)) THEN Patch(t)[k] ELSE disk.env[k]]]
           /\ thread' = [thread EXCEPT ![t].pc = "activate", ![t].todo = Fields(Patch(t))]
  <2>1. DOMAIN thread = Threads /\ IsThread(thread[t])
    BY <1>2 DEF ThreadShape
  <2>2. thread'[t].pc = "activate" /\ thread'[t].rid = thread[t].rid /\ IsThread(thread'[t])
    BY <1>4, <2>1 DEF IsThread
  <2>3. DOMAIN thread' = Threads /\ \A u \in Threads \ {t} : thread'[u] = thread[u]
    BY <1>4, <2>1
  <2>4. Moves(t, "activate")
    BY <1>1, <2>2, <2>3 DEF Moves
  <2>5. \A k \in Fields(Patch(t)) : disk'.env[k] = Patch(t)[k]
    BY <1>4 DEF Fields
  <2>6. PICK p : p = journal[thread[t].rid].patch
    OBVIOUS
  <2>7. \A k \in Fields(p) : disk'.env[k] = p[k]
    BY <2>5, <2>6 DEF Patch, Rid
  <2>8. journal'[thread'[t].rid].patch = p
    BY <1>1, <2>2, <2>6
  <2>9. StageOf(t, journal[thread[t].rid])'
    BY <2>2, <2>7, <2>8 DEF StageOf, DiskHas
  <2>10. "activate" \notin Preparing
    BY DEF Preparing
  <2> QED
    BY <1>1, <1>2, <2>4, <2>9, <2>10, QuietKeeps
<1> QED
  BY <1>3, <1>4 DEF WriteLocked

LEMMA RevertKeeps ==
    ASSUME RuntimeInv, NEW t \in Threads, Revert(t)
    PROVE  RuntimeInv'
<1>1. thread[t].pc = "revert" /\ phase' = phase /\ SetStatus(t, "validated", "end", "end")
  BY DEF Revert, At, others
<1>2. thread[t].pc # "idle"
  BY <1>1
<1>3. Recorded(t, "validated", After("end")) \/ Raised(t, After("end"))
  BY <1>1, <1>2, SetStatusFacts
<1>4. CASE Recorded(t, "validated", "idle")
  <2>1. "validated" \notin InProgress
    BY DEF InProgress
  <2> QED
    BY <1>1, <1>2, <1>4, <2>1, RecordedKeeps
<1>5. CASE Raised(t, "idle")
  BY <1>1, <1>2, <1>5, RaisedKeeps
<1> QED
  BY <1>3, <1>4, <1>5 DEF After

\* A step inside "activate" or "undo".
LEMMA EnvironKeeps ==
    ASSUME RuntimeInv, NEW t \in Threads, NEW k \in Keys, Activate(t, k) \/ Undo(t, k)
    PROVE  RuntimeInv'
<1>1. /\ thread[t].pc \in {"activate", "undo"} /\ phase' = phase /\ edited' = edited /\ journal' = journal
      /\ blemish' = blemish /\ lock' = lock /\ disk' = disk
      /\ thread' = [thread EXCEPT ![t].todo = @ \ {k}]
  BY DEF Activate, Undo, At, others
<1>2. PICK x : x = thread[t].pc
  OBVIOUS
<1>3. DOMAIN thread = Threads /\ IsThread(thread[t])
  BY DEF RuntimeInv, ThreadShape
<1>4. thread'[t].pc = x /\ thread'[t].rid = thread[t].rid /\ IsThread(thread'[t])
  BY <1>1, <1>2, <1>3 DEF IsThread
<1>5. DOMAIN thread' = Threads /\ \A u \in Threads \ {t} : thread'[u] = thread[u]
  BY <1>1, <1>3
<1>6. Moves(t, x)
  BY <1>1, <1>2, <1>4, <1>5 DEF Moves
<1>7. StageOf(t, journal[thread[t].rid])
  BY <1>1 DEF RuntimeInv, StageInv
<1>8. StageOf(t, journal[thread[t].rid])'
  BY <1>1, <1>2, <1>4, <1>7 DEF StageOf, DiskHas
<1>9. thread[t].pc # "idle" /\ x \notin Preparing
  BY <1>1, <1>2 DEF Preparing
<1> QED
  BY <1>1, <1>6, <1>8, <1>9, QuietKeeps

LEMMA CacheClearKeeps ==
    ASSUME RuntimeInv, NEW t \in Threads, CacheClear(t)
    PROVE  RuntimeInv'
<1>1. /\ phase' = phase /\ edited' = edited /\ journal' = journal
      /\ blemish' = blemish /\ lock' = lock /\ disk' = disk
  BY DEF CacheClear, others
<1>2. ThreadShape
  BY DEF RuntimeInv
<1>3. CASE thread[t].pc = "activate" /\ Go(t, "verify")
  <2>1. Moves(t, "verify")
    BY <1>1, <1>2, <1>3, GoMoves
  <2>2. StageOf(t, journal[thread[t].rid])
    BY <1>3 DEF RuntimeInv, StageInv
  <2>3. StageOf(t, journal[thread[t].rid])'
    BY <1>1, <1>3, <2>1, <2>2 DEF StageOf, DiskHas, Moves
  <2>4. thread[t].pc # "idle" /\ "verify" \notin Preparing
    BY <1>3 DEF Preparing
  <2> QED
    BY <1>1, <2>1, <2>3, <2>4, QuietKeeps
<1>4. CASE thread[t].pc = "undo" /\ Go(t, "restore")
  <2>1. Moves(t, "restore")
    BY <1>1, <1>2, <1>4, GoMoves
  <2>2. StageOf(t, journal[thread[t].rid])
    BY <1>4 DEF RuntimeInv, StageInv
  <2>3. StageOf(t, journal[thread[t].rid])'
    BY <1>1, <1>4, <2>1, <2>2 DEF StageOf, Moves
  <2>4. thread[t].pc # "idle" /\ "restore" \notin Preparing
    BY <1>4 DEF Preparing
  <2> QED
    BY <1>1, <2>1, <2>3, <2>4, QuietKeeps
<1> QED
  BY <1>3, <1>4 DEF CacheClear, At

\* A look at the settings: the file still holds the target.
LEMMA VerifyTargetKeeps ==
    ASSUME RuntimeInv, NEW t \in Threads, VerifyTarget(t) \/ VerifyBuilt(t)
    PROVE  RuntimeInv'
<1>1. /\ thread[t].pc \in {"verify", "build"} /\ phase' = phase /\ edited' = edited /\ journal' = journal
      /\ blemish' = blemish /\ lock' = lock /\ disk' = disk
  BY DEF VerifyTarget, VerifyBuilt, At, others, files
<1>2. thread[t].pc # "idle" /\ ThreadShape
  BY <1>1 DEF RuntimeInv
<1>3. PICK p : p = journal[thread[t].rid].patch
  OBVIOUS
<1>4. ~edited => \A k \in Fields(p) : disk.env[k] = p[k]
  BY <1>1, <1>3 DEF RuntimeInv, StageInv, StageOf, DiskHas
<1>5. PICK x \in {"build", "commit", "rollback"} : Go(t, x)
  BY DEF VerifyTarget, VerifyBuilt
<1>6. x # "idle" /\ x \notin Preparing
  BY DEF Preparing
<1>7. Moves(t, x)
  BY <1>1, <1>2, <1>5, <1>6, GoMoves
<1>8. thread'[t].pc = x /\ thread'[t].rid = thread[t].rid
  BY <1>6, <1>7 DEF Moves
<1>9. StageOf(t, journal[thread[t].rid])'
  BY <1>1, <1>3, <1>4, <1>8 DEF StageOf, DiskHas
<1> QED
  BY <1>1, <1>2, <1>6, <1>7, <1>9, QuietKeeps

LEMMA CommitKeeps ==
    ASSUME RuntimeInv, NEW t \in Threads, Commit(t)
    PROVE  RuntimeInv'
<1>1. thread[t].pc = "commit" /\ phase' = phase /\ SetStatus(t, "applied", "end", "end")
  BY DEF Commit, At, others
<1>2. thread[t].pc # "idle"
  BY <1>1
<1>3. Recorded(t, "applied", After("end")) \/ Raised(t, After("end"))
  BY <1>1, <1>2, SetStatusFacts
<1>4. CASE Recorded(t, "applied", "idle")
  <2>1. "applied" \notin InProgress
    BY DEF InProgress
  <2> QED
    BY <1>1, <1>2, <1>4, <2>1, RecordedKeeps
<1>5. CASE Raised(t, "idle")
  BY <1>1, <1>2, <1>5, RaisedKeeps
<1> QED
  BY <1>3, <1>4, <1>5 DEF After

LEMMA MarkRollingBackKeeps ==
    ASSUME RuntimeInv, NEW t \in Threads, MarkRollingBack(t)
    PROVE  RuntimeInv'
<1>1. thread[t].pc = "rollback" /\ phase' = phase /\ SetStatus(t, "rolling_back", "rolling", "end")
  BY DEF MarkRollingBack, At, others
<1>2. thread[t].pc # "idle"
  BY <1>1
<1>3. Recorded(t, "rolling_back", After("rolling")) \/ Raised(t, After("end"))
  BY <1>1, <1>2, SetStatusFacts
<1>4. CASE Recorded(t, "rolling_back", "rolling")
  <2>1. StageOf(t, journal[thread[t].rid])'
    BY <1>4 DEF StageOf, Moves, Recorded
  <2>2. "rolling" \notin Preparing
    BY DEF Preparing
  <2> QED
    BY <1>1, <1>2, <1>4, <2>1, <2>2, RecordedKeeps
<1>5. CASE Raised(t, "idle")
  BY <1>1, <1>2, <1>5, RaisedKeeps
<1> QED
  BY <1>3, <1>4, <1>5 DEF After

LEMMA BeginUndoKeeps ==
    ASSUME RuntimeInv, NEW t \in Threads, BeginUndo(t)
    PROVE  RuntimeInv'
<1>1. /\ thread[t].pc = "rolling" /\ phase' = phase /\ journal' = journal /\ blemish' = blemish /\ lock' = lock
      /\ thread' = [thread EXCEPT ![t].pc = "undo", ![t].todo = Fields(Patch(t))]
  BY DEF BeginUndo, At, others
<1>2. DOMAIN thread = Threads /\ IsThread(thread[t])
  BY DEF RuntimeInv, ThreadShape
<1>3. thread'[t].pc = "undo" /\ thread'[t].rid = thread[t].rid /\ IsThread(thread'[t])
  BY <1>1, <1>2 DEF IsThread
<1>4. DOMAIN thread' = Threads /\ \A u \in Threads \ {t} : thread'[u] = thread[u]
  BY <1>1, <1>2
<1>5. Moves(t, "undo")
  BY <1>1, <1>3, <1>4 DEF Moves
<1>6. StageOf(t, journal[thread[t].rid])
  BY <1>1 DEF RuntimeInv, StageInv
<1>7. StageOf(t, journal[thread[t].rid])'
  BY <1>1, <1>3, <1>6 DEF StageOf
<1>8. thread[t].pc # "idle" /\ "undo" \notin Preparing
  BY <1>1 DEF Preparing
<1> QED
  BY <1>1, <1>5, <1>7, <1>8, QuietKeeps

LEMMA RestoreLockedKeeps ==
    ASSUME RuntimeInv, NEW t \in Threads, RestoreLocked(t)
    PROVE  RuntimeInv'
<1>1. /\ thread[t].pc = "restore" /\ phase' = phase /\ journal' = journal /\ blemish' = blemish /\ lock' = lock
      /\ Go(t, "restored") \/ Go(t, "unrestored")
  BY DEF RestoreLocked, At, others
<1>2. PICK x \in {"restored", "unrestored"} : Go(t, x)
  BY <1>1
<1>3. thread[t].pc # "idle" /\ ThreadShape
  BY <1>1 DEF RuntimeInv
<1>4. x # "idle" /\ x \notin Preparing
  BY DEF Preparing
<1>5. Moves(t, x)
  BY <1>1, <1>2, <1>3, <1>4, GoMoves
<1>6. StageOf(t, journal[thread[t].rid])
  BY <1>1 DEF RuntimeInv, StageInv
<1>7. StageOf(t, journal[thread[t].rid])'
  BY <1>1, <1>5, <1>6 DEF StageOf, Moves
<1> QED
  BY <1>1, <1>3, <1>4, <1>5, <1>7, QuietKeeps

LEMMA EndRollbackKeeps ==
    ASSUME RuntimeInv, NEW t \in Threads, EndRollback(t)
    PROVE  RuntimeInv'
<1>1. thread[t].pc \in {"restored", "unrestored"} /\ phase' = phase
  BY DEF EndRollback, At, others
<1>2. thread[t].pc # "idle"
  BY <1>1
<1>3. "rolled_back" \notin InProgress /\ "rollback_failed" \notin InProgress
  BY DEF InProgress
<1>4. CASE SetStatus(t, "rolled_back", "end", "unrestored")
  <2>1. Recorded(t, "rolled_back", After("end")) \/ Raised(t, After("unrestored"))
    BY <1>2, <1>4, SetStatusFacts
  <2>2. CASE Recorded(t, "rolled_back", "idle")
    BY <1>1, <1>2, <1>3, <2>2, RecordedKeeps
  <2>3. CASE Raised(t, "unrestored")
    <3>1. StageOf(t, journal[thread[t].rid])
      BY <1>2 DEF RuntimeInv, StageInv
    <3>2. StageOf(t, journal[thread[t].rid])'
      BY <1>1, <2>3, <3>1 DEF StageOf, Moves, Raised
    <3> QED
      BY <1>1, <1>2, <2>3, <3>2, RaisedKeeps
  <2> QED
    BY <2>1, <2>2, <2>3 DEF After
<1>5. CASE SetStatus(t, "rollback_failed", "end", "end")
  <2>1. Recorded(t, "rollback_failed", After("end")) \/ Raised(t, After("end"))
    BY <1>2, <1>5, SetStatusFacts
  <2>2. CASE Recorded(t, "rollback_failed", "idle")
    BY <1>1, <1>2, <1>3, <2>2, RecordedKeeps
  <2>3. CASE Raised(t, "idle")
    BY <1>1, <1>2, <2>3, RaisedKeeps
  <2> QED
    BY <2>1, <2>2, <2>3 DEF After
<1> QED
  BY <1>4, <1>5 DEF EndRollback

LEMMA ApplyRevisionKeeps ==
    ASSUME RuntimeInv, NEW t \in Threads, NEW r \in DOMAIN journal, ApplyRevision(t, r)
    PROVE  RuntimeInv'
<1>1. /\ phase = "up" /\ lock = "free" /\ lock' = t /\ phase' = phase /\ journal' = journal /\ blemish' = blemish
      /\ thread' = [thread EXCEPT ![t].pc = "check", ![t].rid = r]
  BY DEF ApplyRevision, At, others
<1>2. DOMAIN thread = Threads /\ \A u \in Threads : IsThread(thread[u])
  BY DEF RuntimeInv, ThreadShape
<1>3. \A u \in Threads : thread[u].pc = "idle"
  BY <1>1, RuntimeAssumption DEF RuntimeInv, LockInv
<1>4. thread'[t].pc = "check" /\ thread'[t].rid = r /\ IsThread(thread'[t])
  BY <1>1, <1>2 DEF IsThread
<1>5. DOMAIN thread' = Threads /\ \A u \in Threads \ {t} : thread'[u] = thread[u]
  BY <1>1, <1>2
<1>6. JournalInv'
  BY <1>1 DEF RuntimeInv, JournalInv, IsRev
<1>7. ThreadShape'
  BY <1>1, <1>2, <1>4, <1>5 DEF ThreadShape, IsThread
<1>8. LockInv'
  BY <1>1, <1>3, <1>4, <1>5 DEF LockInv
<1>9. OwnedInv'
  BY <1>1, RuntimeAssumption DEF RuntimeInv, OwnedInv
<1>10. StageInv'
  <2> SUFFICES ASSUME NEW u \in Threads, thread'[u].pc # "idle" PROVE StageOf(u, journal[thread[u].rid])'
    BY DEF StageInv
  <2>1. thread'[u].pc = "check"
    BY <1>3, <1>4, <1>5
  <2> QED
    BY <2>1 DEF StageOf
<1>11. CrashInv'
  BY <1>1 DEF CrashInv
<1> QED
  BY <1>6, <1>7, <1>8, <1>9, <1>10, <1>11 DEF RuntimeInv

-----------------------------------------------------------------------------
(* The other requests, the operator and the disk                           *)

\* A step of somebody else keeps the invariant: it starts no revision, fills
\* no cache that is filled, and changes the file only as an edit.
LEMMA OutsideKeeps ==
    ASSUME RuntimeInv, thread' = thread, lock' = lock, phase' = phase, depth' = depth, todo' = todo,
           blemish' = blemish, JournalInv', DOMAIN journal \subseteq DOMAIN journal',
           \A i \in DOMAIN journal :
             /\ journal'[i].patch = journal[i].patch /\ journal'[i].base = journal[i].base
             /\ journal'[i].status \in {journal[i].status, "gone", "corrupt"},
           \A i \in DOMAIN journal' \ DOMAIN journal : journal'[i].status \notin InProgress,
           cache # NoCache => cache' = cache,
           ~edited' => ~edited /\ disk' = disk,
           phase # "up" => interrupted' = 0 \/ (interrupted' = interrupted /\ disk' = disk)
    PROVE  RuntimeInv'
<1>1. ThreadShape'
  BY DEF RuntimeInv, ThreadShape, IsThread
<1>2. LockInv'
  BY DEF RuntimeInv, LockInv
<1>3. OwnedInv'
  BY DEF RuntimeInv, OwnedInv, InProgress
<1>4. StageInv'
  <2> SUFFICES ASSUME NEW u \in Threads, thread[u].pc # "idle" PROVE StageOf(u, journal[thread[u].rid])'
    BY DEF StageInv
  <2>1. PICK i : i = thread[u].rid
    OBVIOUS
  <2>2. i \in DOMAIN journal /\ StageOf(u, journal[i])
    BY <2>1 DEF RuntimeInv, LockInv, StageInv
  <2>3. /\ journal'[i].patch = journal[i].patch /\ journal'[i].base = journal[i].base
        /\ journal'[i].status = "applying" => journal[i].status = "applying"
    BY <2>2 DEF InProgress
  <2>4. PICK p : p = journal[i].patch
    OBVIOUS
  <2>7. thread[u].pc = "commit" /\ journal'[i].status = "applying" /\ ~edited'
           => \A k \in Fields(p) : disk'.env[k] = p[k]
    BY <2>2, <2>3, <2>4 DEF StageOf, DiskHas
  <2>8. thread[u].pc \in {"activate", "verify", "build", "rollback"} /\ ~edited'
           => \A k \in Fields(p) : disk'.env[k] = p[k]
    BY <2>2, <2>3, <2>4 DEF StageOf, DiskHas
  <2>9. thread[u].pc \in {"capture", "mark", "write", "revert"} /\ ~edited' => journal'[i].base = {disk'}
    BY <2>2, <2>3 DEF StageOf
  <2>10. thread[u].pc \in {"rolling", "undo", "restore", "restored", "unrestored"}
           => journal'[i].status # "applying"
    BY <2>2, <2>3 DEF StageOf
  <2>11. journal'[i].patch = p /\ thread'[u].pc = thread[u].pc /\ thread'[u].rid = i
    BY <2>1, <2>3, <2>4
  <2> QED
    BY <2>2, <2>3, <2>7, <2>8, <2>9, <2>10, <2>11 DEF StageOf, DiskHas
<1>5. CrashInv'
  <2> SUFFICES ASSUME phase # "up", interrupted' # 0
               PROVE  /\ phase = "recovering" => cache' = SettingsOf(disk'.env)
                      /\ \A i \in DOMAIN journal' : i = interrupted' /\ journal'[i].status = "applying" =>
                           journal'[i].base = {disk'} \/ \A k \in Fields(journal'[i].patch) :
                                                           disk'.env[k] = journal'[i].patch[k]
    BY DEF CrashInv, DiskHas
  <2>1. interrupted' = interrupted /\ disk' = disk
    OBVIOUS
  <2>2. ASSUME phase = "recovering" PROVE cache' = SettingsOf(disk'.env)
    BY <2>1, <2>2, BuiltIsCached DEF RuntimeInv, CrashInv
  <2>3. ASSUME NEW i \in DOMAIN journal', i = interrupted', journal'[i].status = "applying"
        PROVE  journal'[i].base = {disk'} \/ \A k \in Fields(journal'[i].patch) :
                                               disk'.env[k] = journal'[i].patch[k]
    <3>1. i \in DOMAIN journal /\ journal[i].status = "applying"
      BY <2>3 DEF InProgress
    <3>2. journal'[i].patch = journal[i].patch /\ journal'[i].base = journal[i].base
      BY <3>1
    <3>3. journal[i].base = {disk} \/ DiskHas(journal[i].patch)
      BY <2>1, <2>3, <3>1 DEF RuntimeInv, CrashInv
    <3> QED
      BY <2>1, <3>2, <3>3 DEF DiskHas
  <2> QED
    BY <2>2, <2>3
<1> QED
  BY <1>1, <1>2, <1>3, <1>4, <1>5 DEF RuntimeInv

LEMMA EditFileKeeps ==
    ASSUME RuntimeInv, NEW c, EditFile(c)
    PROVE  RuntimeInv'
<1>1. /\ thread' = thread /\ lock' = lock /\ phase' = phase /\ depth' = depth /\ todo' = todo
      /\ blemish' = blemish /\ journal' = journal /\ cache' = cache /\ edited' = TRUE
      /\ phase # "up" => interrupted' = 0
  BY DEF EditFile
<1>2. JournalInv'
  BY <1>1 DEF RuntimeInv, JournalInv, IsRev
<1> QED
  BY <1>1, <1>2, OutsideKeeps

LEMMA CorruptRecordKeeps ==
    ASSUME RuntimeInv, NEW i \in DOMAIN journal, CorruptRecord(i)
    PROVE  RuntimeInv'
<1>1. /\ thread' = thread /\ lock' = lock /\ phase' = phase /\ depth' = depth /\ todo' = todo
      /\ blemish' = blemish /\ cache' = cache /\ edited' = edited /\ disk' = disk
      /\ interrupted' = interrupted
      /\ journal' = [journal EXCEPT ![i].status = "corrupt"]
  BY DEF CorruptRecord, files, others
<1>2. JournalInv
  BY DEF RuntimeInv
<1>3. /\ JournalInv' /\ DOMAIN journal' = DOMAIN journal
      /\ journal'[i].status = "corrupt" /\ journal'[i].patch = journal[i].patch
      /\ journal'[i].base = journal[i].base
      /\ \A k \in DOMAIN journal \ {i} : journal'[k] = journal[k]
  BY <1>1, <1>2, RecordFacts
<1>5. \A k \in DOMAIN journal :
        /\ journal'[k].patch = journal[k].patch /\ journal'[k].base = journal[k].base
        /\ journal'[k].status \in {journal[k].status, "gone", "corrupt"}
  BY <1>3
<1> QED
  BY <1>1, <1>3, <1>5, OutsideKeeps

\* A revision is added: what there was stays, or is pruned.
LEMMA PersistFacts ==
    ASSUME RuntimeInv, NEW p \in Patches, NEW s, PersistValidated(p, s)
    PROVE  /\ JournalInv' /\ DOMAIN journal \subseteq DOMAIN journal'
           /\ \A i \in DOMAIN journal :
                /\ journal'[i].patch = journal[i].patch /\ journal'[i].base = journal[i].base
                /\ journal'[i].status \in {journal[i].status, "gone", "corrupt"}
           /\ \A i \in DOMAIN journal' \ DOMAIN journal : journal'[i].status \notin InProgress
<1>1. journal' = Kept(Append(journal, NewRevision(p, s)))
  BY DEF PersistValidated
<1>2. PICK S : journal \in Seq(S)
  BY DEF RuntimeInv, JournalInv
<1>3. PICK j : j = Append(journal, NewRevision(p, s))
  OBVIOUS
<1>4. PICK n : n = NewRevision(p, s)
  OBVIOUS
<1>5. IsRev(n) /\ n.patch \in Patches /\ n.status = "validated"
  BY <1>4 DEF NewRevision, IsRev
<1>6. PICK T : j \in Seq(T)
  <2>1. Append(journal, n) \in Seq(S \cup {n})
    BY <1>2, AppendFacts
  <2> QED
    BY <1>3, <1>4, <2>1
<1>7. /\ DOMAIN j = DOMAIN journal \cup {Len(journal) + 1} /\ Len(journal) + 1 \notin DOMAIN journal
      /\ \A i \in DOMAIN journal : j[i] = journal[i]
      /\ j[Len(journal) + 1] = n
  BY <1>2, <1>3, <1>4, AppendFacts
<1>8. /\ \E U : journal' \in Seq(U)
      /\ DOMAIN journal' = DOMAIN j
      /\ \A i \in DOMAIN j : journal'[i] = j[i] \/ journal'[i] = [j[i] EXCEPT !.status = "gone"]
  BY <1>1, <1>3, <1>6, KeptFacts
<1>9. \A i \in DOMAIN j : IsRev(j[i]) /\ j[i].patch \in Patches
  BY <1>5, <1>7 DEF RuntimeInv, JournalInv
<1>10. ASSUME NEW i \in DOMAIN j
       PROVE  /\ IsRev(journal'[i]) /\ journal'[i].patch = j[i].patch /\ journal'[i].base = j[i].base
              /\ journal'[i].status = j[i].status \/ journal'[i].status = "gone"
  <2>1. PICK r : r = j[i]
    OBVIOUS
  <2>2. PICK q : q = [r EXCEPT !.status = "gone"]
    OBVIOUS
  <2>3. IsRev(q) /\ q.patch = r.patch /\ q.base = r.base /\ q.status = "gone"
    BY <1>9, <2>1, <2>2, WithStatus
  <2>4. journal'[i] = r \/ journal'[i] = q
    BY <1>8, <2>1, <2>2
  <2> QED
    BY <1>9, <2>1, <2>3, <2>4 DEF IsRev
<1>11. JournalInv'
  BY <1>8, <1>9, <1>10 DEF JournalInv, IsRev
<1>12. "gone" \notin InProgress /\ "validated" \notin InProgress
  BY DEF InProgress
<1>13. \A i \in DOMAIN journal :
        /\ journal'[i].patch = journal[i].patch /\ journal'[i].base = journal[i].base
        /\ journal'[i].status \in {journal[i].status, "gone", "corrupt"}
  BY <1>7, <1>10
<1>14. \A i \in DOMAIN journal' \ DOMAIN journal : journal'[i].status \notin InProgress
  BY <1>5, <1>7, <1>8, <1>10, <1>12
<1>15. DOMAIN journal \subseteq DOMAIN journal'
  BY <1>7, <1>8
<1> QED
  BY <1>11, <1>13, <1>14, <1>15

LEMMA ValidateKeeps ==
    ASSUME RuntimeInv, NEW p \in Patches, Validate(p)
    PROVE  RuntimeInv'
<1>1. /\ thread' = thread /\ lock' = lock /\ phase' = phase /\ depth' = depth /\ todo' = todo
      /\ blemish' = blemish /\ cache' = cache /\ edited' = edited /\ disk' = disk
      /\ interrupted' = interrupted /\ PersistValidated(p, cache)
  BY DEF Validate, others, files
<1> QED
  BY <1>1, PersistFacts, OutsideKeeps

LEMMA ReadersKeep ==
    ASSUME RuntimeInv, NEW r \in Readers, ReadTtl(r) \/ ReadIce(r) \/ StoreSettings(r)
    PROVE  RuntimeInv'
<1>1. /\ thread' = thread /\ lock' = lock /\ phase' = phase /\ depth' = depth /\ todo' = todo
      /\ blemish' = blemish /\ disk' = disk /\ edited' = edited
      /\ interrupted' = interrupted
      /\ journal' = journal \/ \E p \in Patches : PersistValidated(p, SettingsOf(reader[r]))
  BY DEF ReadTtl, ReadIce, StoreSettings, files
<1>2. cache # NoCache => cache' = cache
  BY DEF ReadTtl, ReadIce, StoreSettings, Stored, files
<1>3. CASE journal' = journal
  <2>1. JournalInv'
    BY <1>3 DEF RuntimeInv, JournalInv, IsRev
  <2> QED
    BY <1>1, <1>2, <1>3, <2>1, OutsideKeeps
<1>4. CASE \E p \in Patches : PersistValidated(p, SettingsOf(reader[r]))
  BY <1>1, <1>2, <1>4, PersistFacts, OutsideKeeps
<1> QED
  BY <1>1, <1>3, <1>4

-----------------------------------------------------------------------------
(* Death, start and recovery                                               *)

LEMMA CrashKeeps ==
    ASSUME RuntimeInv, Crash
    PROVE  RuntimeInv'
<1>1. /\ phase' = "down" /\ thread' = [t \in Threads |-> Idle] /\ journal' = journal /\ disk' = disk
      /\ interrupted' = IF edited \/ phase # "up" \/ UnderWay = {} THEN 0 ELSE CHOOSE r \in UnderWay : TRUE
  BY DEF Crash
<1>2. JournalInv'
  BY <1>1 DEF RuntimeInv, JournalInv, IsRev
<1>3. ThreadShape' /\ LockInv' /\ StageInv'
  BY <1>1 DEF ThreadShape, LockInv, StageInv, IsThread, Idle
<1>4. OwnedInv'
  BY <1>1 DEF OwnedInv
<1>5. CrashInv'
  <2> SUFFICES ASSUME interrupted' # 0, NEW i \in DOMAIN journal, i = interrupted',
                      journal[i].status = "applying"
               PROVE  journal[i].base = {disk} \/ DiskHas(journal[i].patch)
    BY <1>1 DEF CrashInv, DiskHas
  <2>1. ~edited /\ i \in UnderWay
    BY <1>1
  <2>2. PICK t \in Threads : thread[t].pc \notin {"idle", "check", "rebuilt", "capture", "mark"} /\ i = thread[t].rid
    BY <2>1 DEF UnderWay, Rid
  <2>3. StageOf(t, journal[i])
    BY <2>2 DEF RuntimeInv, StageInv
  <2> QED
    BY <2>1, <2>2, <2>3 DEF StageOf
<1> QED
  BY <1>2, <1>3, <1>4, <1>5 DEF RuntimeInv

LEMMA BootKeeps ==
    ASSUME RuntimeInv, Boot
    PROVE  RuntimeInv'
<1>1. /\ phase = "down" /\ phase' = "recovering" /\ thread' = thread /\ lock' = lock /\ journal' = journal
      /\ disk' = disk /\ cache' = SettingsOf(disk.env) /\ interrupted' = interrupted
      /\ todo' = {i \in DOMAIN journal : journal[i].status # "gone"}
  BY DEF Boot
<1>2. \A t \in Threads : thread[t].pc = "idle"
  BY <1>1 DEF RuntimeInv, LockInv
<1>3. JournalInv'
  BY <1>1 DEF RuntimeInv, JournalInv, IsRev
<1>4. ThreadShape' /\ LockInv' /\ StageInv'
  BY <1>1, <1>2 DEF RuntimeInv, ThreadShape, LockInv, StageInv, IsThread
<1>5. OwnedInv'
  BY <1>1 DEF OwnedInv, InProgress
<1>6. CrashInv'
  BY <1>1 DEF RuntimeInv, CrashInv, DiskHas
<1> QED
  BY <1>3, <1>4, <1>5, <1>6 DEF RuntimeInv

\* What recovery makes of a status.
LEMMA ReconciledFacts ==
    ASSUME NEW st, NEW b
    PROVE  /\ Reconciled(st, b) \notin InProgress
           /\ Reconciled(st, b) # st /\ Reconciled(st, b) = "applied" => st = "applying" /\ ~b
           /\ Reconciled(st, b) # st /\ Reconciled(st, b) = "rolled_back" => b
  BY DEF Reconciled, InProgress

\* One turn of the loop of recover_on_boot.
Reconciles(i) ==
    /\ i \in DOMAIN journal /\ JournalInv' /\ DOMAIN journal' = DOMAIN journal
    /\ journal'[i].status = Reconciled(journal[i].status, journal[i].base = {disk})
    /\ journal'[i].patch = journal[i].patch /\ journal'[i].base = journal[i].base
    /\ \A k \in DOMAIN journal \ {i} : journal'[k] = journal[k]
    /\ todo' = todo \ {i} /\ phase' = phase /\ blemish' = blemish

LEMMA RecoverFacts ==
    ASSUME RuntimeInv, RecoverOnBoot
    PROVE  /\ phase = "recovering" /\ thread' = thread /\ lock' = lock /\ disk' = disk /\ cache' = cache
           /\ interrupted' = interrupted
           /\ \/ todo = {} /\ phase' = "up" /\ journal' = journal /\ blemish' = blemish
              \/ \E i : Reconciles(i)
              \/ phase' = "up" /\ journal' = journal /\ blemish' = TRUE
<1>1. /\ phase = "recovering" /\ thread' = thread /\ lock' = lock /\ disk' = disk /\ cache' = cache
      /\ interrupted' = interrupted
  BY DEF RecoverOnBoot, files
<1>2. CASE todo = {} /\ phase' = "up" /\ UNCHANGED <<journal, todo, blemish, faults>>
  BY <1>1, <1>2
<1>3. CASE \E i \in DOMAIN journal :
             /\ Oldest(i) /\ journal[i].status # "corrupt"
             /\ journal' = [journal EXCEPT ![i].status = Reconciled(@, journal[i].base = {disk})]
             /\ todo' = todo \ {i}
             /\ UNCHANGED <<phase, blemish, faults>>
  <2>1. PICK i \in DOMAIN journal :
             /\ journal' = [journal EXCEPT ![i].status = Reconciled(@, journal[i].base = {disk})]
             /\ todo' = todo \ {i} /\ phase' = phase /\ blemish' = blemish
    BY <1>3
  <2>2. PICK st : st = Reconciled(journal[i].status, journal[i].base = {disk})
    OBVIOUS
  <2>3. journal' = [journal EXCEPT ![i].status = st]
    BY <2>1, <2>2
  <2>4. JournalInv
    BY DEF RuntimeInv
  <2>5. /\ JournalInv' /\ DOMAIN journal' = DOMAIN journal
        /\ journal'[i].status = st /\ journal'[i].patch = journal[i].patch
        /\ journal'[i].base = journal[i].base
        /\ \A k \in DOMAIN journal \ {i} : journal'[k] = journal[k]
    BY <2>3, <2>4, RecordFacts
  <2>6. Reconciles(i)
    BY <2>1, <2>2, <2>5 DEF Reconciles
  <2> QED
    BY <1>1, <2>6
<1>4. CASE phase' = "up" /\ journal' = journal /\ blemish' = TRUE
  BY <1>1, <1>4
<1> QED
  BY <1>2, <1>3, <1>4 DEF RecoverOnBoot

LEMMA RecoverKeeps ==
    ASSUME RuntimeInv, RecoverOnBoot
    PROVE  RuntimeInv'
<1>1. /\ phase = "recovering" /\ thread' = thread /\ lock' = lock /\ disk' = disk /\ cache' = cache
      /\ interrupted' = interrupted
  BY RecoverFacts
<1>2. \A t \in Threads : thread[t].pc = "idle"
  BY <1>1 DEF RuntimeInv, LockInv
<1>3. phase' \in {"up", "recovering"} => ThreadShape' /\ LockInv' /\ StageInv'
  BY <1>1, <1>2 DEF RuntimeInv, ThreadShape, LockInv, StageInv, IsThread
<1>4. journal' = journal => JournalInv'
  BY DEF RuntimeInv, JournalInv, IsRev
<1>5. CASE phase' = "up" /\ journal' = journal /\ ((todo = {} /\ blemish' = blemish) \/ blemish' = TRUE)
  <2>1. OwnedInv'
    BY <1>1, <1>5 DEF RuntimeInv, OwnedInv
  <2>2. CrashInv'
    BY <1>5 DEF CrashInv
  <2> QED
    BY <1>3, <1>4, <1>5, <2>1, <2>2 DEF RuntimeInv
<1>6. CASE \E i : Reconciles(i)
  <2>1. PICK i : Reconciles(i)
    BY <1>6
  <2>2. PICK st, b : st = journal[i].status /\ b = (journal[i].base = {disk})
    OBVIOUS
  <2>3. journal'[i].status \notin InProgress
    <3>1. Reconciled(st, b) \notin InProgress
      BY ReconciledFacts
    <3> QED
      BY <2>1, <2>2, <3>1 DEF Reconciles
  <2>4. phase' = phase /\ blemish' = blemish /\ JournalInv' /\ todo' = todo \ {i}
        /\ DOMAIN journal' = DOMAIN journal /\ \A k \in DOMAIN journal \ {i} : journal'[k] = journal[k]
    BY <2>1 DEF Reconciles
  <2>5. OwnedInv'
    BY <1>1, <2>3, <2>4 DEF RuntimeInv, OwnedInv
  <2>6. CrashInv'
    BY <1>1, <2>3, <2>4 DEF RuntimeInv, CrashInv, DiskHas, InProgress
  <2> QED
    BY <1>1, <1>3, <2>4, <2>5, <2>6 DEF RuntimeInv
<1> QED
  BY <1>5, <1>6, RecoverFacts

-----------------------------------------------------------------------------
(* The invariant, and what it is for                                       *)

LEMMA InitRuntime == RuntimeInit => RuntimeInv
<1> SUFFICES ASSUME RuntimeInit PROVE RuntimeInv
  OBVIOUS
<1>1. journal = <<>> /\ phase = "up" /\ thread = [t \in Threads |-> Idle]
  BY DEF RuntimeInit
<1>2. JournalInv
  <2>1. journal \in Seq({}) /\ DOMAIN journal = {}
    BY <1>1
  <2> QED
    BY <2>1 DEF JournalInv
<1>3. ThreadShape /\ LockInv /\ StageInv
  BY <1>1 DEF ThreadShape, LockInv, StageInv, IsThread, Idle
<1>4. OwnedInv /\ CrashInv
  BY <1>1 DEF OwnedInv, CrashInv
<1> QED
  BY <1>2, <1>3, <1>4 DEF RuntimeInv

LEMMA StepKeepsRuntime == RuntimeInv /\ [RuntimeNext]_vars => RuntimeInv'
<1> SUFFICES ASSUME RuntimeInv, [RuntimeNext]_vars PROVE RuntimeInv'
  OBVIOUS
<1>1. CASE \E p \in Patches : Validate(p)
  BY <1>1, ValidateKeeps
<1>2. ASSUME NEW t \in Threads, \E r \in DOMAIN journal : ApplyRevision(t, r)
      PROVE  RuntimeInv'
  BY <1>2, ApplyRevisionKeeps
<1>3. ASSUME NEW t \in Threads,
             Check(t) \/ CheckRebuilt(t) \/ Capture(t) \/ MarkApplying(t) \/ WriteLocked(t) \/ Revert(t)
      PROVE  RuntimeInv'
  BY <1>3, CheckKeeps, CheckRebuiltKeeps, CaptureKeeps, MarkApplyingKeeps, WriteLockedKeeps, RevertKeeps
<1>4. ASSUME NEW t \in Threads, \E k \in Keys : Activate(t, k) \/ Undo(t, k)
      PROVE  RuntimeInv'
  BY <1>4, EnvironKeeps
<1>5. ASSUME NEW t \in Threads, CacheClear(t) \/ VerifyTarget(t) \/ VerifyBuilt(t) \/ Commit(t)
      PROVE  RuntimeInv'
  BY <1>5, CacheClearKeeps, VerifyTargetKeeps, CommitKeeps
<1>6. ASSUME NEW t \in Threads,
             MarkRollingBack(t) \/ BeginUndo(t) \/ RestoreLocked(t) \/ EndRollback(t)
      PROVE  RuntimeInv'
  BY <1>6, MarkRollingBackKeeps, BeginUndoKeeps, RestoreLockedKeeps, EndRollbackKeeps
<1>7. CASE \E r \in Readers : ReadTtl(r) \/ ReadIce(r) \/ StoreSettings(r)
  BY <1>7, ReadersKeep
<1>8. CASE \E c \in Edits : EditFile(c)
  BY <1>8, EditFileKeeps
<1>9. CASE \E r \in DOMAIN journal : CorruptRecord(r)
  BY <1>9, CorruptRecordKeeps
<1>10. CASE Crash \/ Boot \/ RecoverOnBoot
  BY <1>10, CrashKeeps, BootKeeps, RecoverKeeps
<1>11. CASE UNCHANGED vars
  <2>1. JournalInv' /\ ThreadShape'
    BY <1>11 DEF vars, RuntimeInv, JournalInv, ThreadShape, IsRev, IsThread
  <2>2. LockInv' /\ OwnedInv'
    BY <1>11 DEF vars, RuntimeInv, LockInv, OwnedInv
  <2>3. StageInv'
    BY <1>11 DEF vars, RuntimeInv, StageInv, StageOf, DiskHas
  <2>4. CrashInv'
    BY <1>11 DEF vars, RuntimeInv, CrashInv, DiskHas
  <2> QED
    BY <2>1, <2>2, <2>3, <2>4 DEF RuntimeInv
<1> QED
  BY <1>1, <1>2, <1>3, <1>4, <1>5, <1>6, <1>7, <1>8, <1>9, <1>10, <1>11 DEF RuntimeNext

\* RuntimeInv holds in every reachable state.
THEOREM RuntimeInvariant == RuntimeSpec => []RuntimeInv
  BY InitRuntime, StepKeepsRuntime, PTL DEF RuntimeSpec

\* While the process serves requests and no operation on the journal failed,
\* a revision in progress is the work of the thread that holds the apply lock
\* (runtime_config_apply.py, apply_revision and recover_on_boot), for any
\* number of threads, revisions, crashes and edits of the file.
THEOREM WorkIsOwned == RuntimeSpec => []InProgressOwned
<1>1. RuntimeInv => InProgressOwned
  BY DEF RuntimeInv, OwnedInv, InProgressOwned
<1> QED
  BY <1>1, RuntimeInvariant, PTL

\* The steps that leave every record alone or mark some "gone" or "corrupt".
LEMMA RecordsRest ==
    ASSUME RuntimeInv, NEW i \in DOMAIN journal,
           \/ \E p \in Patches : Validate(p)
           \/ \E t \in Threads, r \in DOMAIN journal : ApplyRevision(t, r)
           \/ \E t \in Threads : Check(t) \/ CheckRebuilt(t) \/ Capture(t) \/ WriteLocked(t)
           \/ \E t \in Threads, k \in Keys : Activate(t, k) \/ Undo(t, k)
           \/ \E t \in Threads : CacheClear(t) \/ VerifyTarget(t) \/ VerifyBuilt(t) \/ BeginUndo(t) \/ RestoreLocked(t)
           \/ \E r \in Readers : ReadTtl(r) \/ ReadIce(r) \/ StoreSettings(r)
           \/ \E c \in Edits : EditFile(c)
           \/ \E r \in DOMAIN journal : CorruptRecord(r)
           \/ Crash \/ Boot
           \/ UNCHANGED vars
    PROVE  journal'[i].status \in {journal[i].status, "gone", "corrupt"}
<1>1. CASE \E p \in Patches : \E s : PersistValidated(p, s)
  BY <1>1, PersistFacts
<1>2. CASE \E r \in DOMAIN journal : CorruptRecord(r)
  <2>1. PICK r \in DOMAIN journal : journal' = [journal EXCEPT ![r].status = "corrupt"]
    BY <1>2 DEF CorruptRecord
  <2>2. JournalInv
    BY DEF RuntimeInv
  <2>3. journal'[r].status = "corrupt" /\ \A k \in DOMAIN journal \ {r} : journal'[k] = journal[k]
    BY <2>1, <2>2, RecordFacts
  <2> QED
    BY <2>3
<1>3. CASE journal' = journal
  BY <1>3
<1> QED
  BY <1>1, <1>2, <1>3
     DEF Validate, ApplyRevision, Check, CheckRebuilt, Capture, WriteLocked, Activate, Undo, CacheClear,
         VerifyTarget, VerifyBuilt, BeginUndo,
         RestoreLocked, ReadTtl, ReadIce, StoreSettings, EditFile, Crash, Boot, vars

\* The steps that call set_status write the status they are given to the
\* record of their thread.
LEMMA SetStatusWrites ==
    ASSUME RuntimeInv, NEW i \in DOMAIN journal, NEW t \in Threads, thread[t].pc # "idle",
           NEW st, NEW next, NEW raised, SetStatus(t, st, next, raised),
           next # "idle", raised # "idle", journal'[i].status # journal[i].status
    PROVE  i = thread[t].rid /\ journal'[i].status \in {st, "gone"}
<1>1. Recorded(t, st, After(next)) \/ Raised(t, After(raised))
  BY SetStatusFacts
<1> QED
  BY <1>1 DEF Recorded, Raised

\* Only a commit and boot recovery make a record "applied".
LEMMA AppliedBy ==
    ASSUME RuntimeInv, [RuntimeNext]_vars, NEW i \in DOMAIN journal,
           journal[i].status # "applied", journal'[i].status = "applied"
    PROVE  \/ \E t \in Threads : /\ thread[t].pc = "commit" /\ i = thread[t].rid
                                /\ journal[i].status \notin {"gone", "corrupt"}
           \/ RecoverOnBoot
<1>1. journal'[i].status # journal[i].status
  OBVIOUS
<1>2. ~(journal'[i].status \in {journal[i].status, "gone", "corrupt"})
  OBVIOUS
<1>3. ASSUME NEW t \in Threads, MarkApplying(t) PROVE FALSE
  <2>1. thread[t].pc # "idle" /\ SetStatus(t, "applying", "write", "end")
    BY <1>3 DEF MarkApplying, At
  <2>2. journal'[i].status \in {"applying", "gone"}
    BY <1>1, <2>1, SetStatusWrites
  <2> QED
    BY <2>2
<1>4. ASSUME NEW t \in Threads, Revert(t) PROVE FALSE
  <2>1. thread[t].pc # "idle" /\ SetStatus(t, "validated", "end", "end")
    BY <1>4 DEF Revert, At
  <2>2. journal'[i].status \in {"validated", "gone"}
    BY <1>1, <2>1, SetStatusWrites
  <2> QED
    BY <2>2
<1>5. ASSUME NEW t \in Threads, MarkRollingBack(t) PROVE FALSE
  <2>1. thread[t].pc # "idle" /\ SetStatus(t, "rolling_back", "rolling", "end")
    BY <1>5 DEF MarkRollingBack, At
  <2>2. journal'[i].status \in {"rolling_back", "gone"}
    BY <1>1, <2>1, SetStatusWrites
  <2> QED
    BY <2>2
<1>6. ASSUME NEW t \in Threads, EndRollback(t) PROVE FALSE
  <2>1. /\ thread[t].pc # "idle"
        /\ \/ SetStatus(t, "rolled_back", "end", "unrestored")
           \/ SetStatus(t, "rollback_failed", "end", "end")
    BY <1>6 DEF EndRollback, At
  <2>2. CASE SetStatus(t, "rolled_back", "end", "unrestored")
    <3>1. journal'[i].status \in {"rolled_back", "gone"}
      BY <1>1, <2>1, <2>2, SetStatusWrites
    <3> QED
      BY <3>1
  <2>3. CASE SetStatus(t, "rollback_failed", "end", "end")
    <3>1. journal'[i].status \in {"rollback_failed", "gone"}
      BY <1>1, <2>1, <2>3, SetStatusWrites
    <3> QED
      BY <3>1
  <2> QED
    BY <2>1, <2>2, <2>3
<1>7. ASSUME NEW t \in Threads, Commit(t)
      PROVE  thread[t].pc = "commit" /\ i = thread[t].rid /\ journal[i].status \notin {"gone", "corrupt"}
  <2>1. thread[t].pc = "commit" /\ SetStatus(t, "applied", "end", "end")
    BY <1>7 DEF Commit, At
  <2>2. thread[t].pc # "idle"
    BY <2>1
  <2>3. i = thread[t].rid /\ journal'[i].status \in {"applied", "gone"}
    BY <1>1, <2>1, <2>2, SetStatusWrites
  <2>4. journal[thread[t].rid].status \notin {"gone", "corrupt"}
    BY <1>1, <2>1 DEF SetStatus, Rid
  <2> QED
    BY <2>1, <2>3, <2>4
<1> QED
  BY <1>2, <1>3, <1>4, <1>5, <1>6, <1>7, RecordsRest DEF RuntimeNext

-----------------------------------------------------------------------------
(* What an apply serves                                                    *)

\* The environment of the process holds the target of a patch.
EnvHas(p) == \A k \in Fields(p) : environ[k] = p[k]

\* Nobody has settings that were built from another environment.
ReaderInStep(x) ==
    /\ x.pc \in {"ice", "store"} => x.ttl = environ.ttl
    /\ x.pc = "store" => x.ice = environ.ice
InStep ==
    ~crossed => /\ cache \in {NoCache, SettingsOf(environ)}
                /\ \A q \in Readers : ReaderInStep(reader[q])

Written == {"applying", "gone", "corrupt"}
Claiming == {"write", "activate", "verify", "build", "commit"}

\* What the stage of thread t says of its revision r, the environment and the
\* cache: a thread at the commit wrote the file, or found the target served.
ServedOf(t, r) ==
    /\ thread[t].pc \in {"write", "activate", "verify", "build"} => r.status \in Written
    /\ thread[t].pc = "activate" => \A k \in Fields(r.patch) \ thread[t].todo : environ[k] = r.patch[k]
    /\ thread[t].pc \in {"verify", "build"} => EnvHas(r.patch) /\ InStep
    /\ thread[t].pc = "commit" =>
         /\ cache # NoCache
         /\ \/ r.status \in Written /\ EnvHas(r.patch) /\ InStep
            \/ r.status # "applying" /\ Verify(r.patch, cache)

ServedInv ==
    /\ DOMAIN reader = Readers
    /\ \A t \in Threads : thread[t].pc # "idle" => ServedOf(t, journal[thread[t].rid])

\* A step of the thread with the lock says what its next stage claims.
LEMMA HolderServes ==
    ASSUME RuntimeInv, ServedInv, NEW t \in Threads, thread[t].pc # "idle", NEW x, Moves(t, x), reader' = reader,
           x \in Claiming => ServedOf(t, journal[thread[t].rid])'
    PROVE  ServedInv'
<1>1. \A u \in Threads \ {t} : thread'[u].pc = "idle"
  BY DEF RuntimeInv, LockInv, Moves
<1>2. thread'[t].pc = x
  BY DEF Moves
<1>3. x \notin Claiming => ServedOf(t, journal[thread[t].rid])'
  BY <1>2 DEF ServedOf, Claiming
<1> QED
  BY <1>1, <1>3 DEF ServedInv

\* The decision at the end of the checks.
LEMMA DecideServes ==
    ASSUME RuntimeInv, ServedInv, NEW t \in Threads, NEW s, thread[t].pc \in {"check", "rebuilt"}, Decide(t, s),
           Applyable(t) \/ thread[t].pc = "rebuilt", journal' = journal, reader' = reader, depth' = depth
    PROVE  ServedInv'
<1>1. thread[t].pc # "idle" /\ ThreadShape
  BY DEF RuntimeInv
<1>2. CASE Leave(t)
  <2>1. Moves(t, "idle")
    BY <1>1, <1>2, LeaveMoves
  <2> QED
    BY <1>1, <2>1, HolderServes DEF Claiming
<1>3. CASE Verify(Patch(t), Stored(environ)) /\ Go(t, "commit") /\ lock' = lock /\ cache' = Stored(environ)
  <2>1. Moves(t, "commit")
    BY <1>1, <1>3, GoMoves
  <2>2. thread'[t].pc = "commit" /\ thread'[t].rid = thread[t].rid
    BY <2>1 DEF Moves
  <2>3. PICK p : p = journal[thread[t].rid].patch
    OBVIOUS
  <2>4. PICK c : c = Stored(environ)
    OBVIOUS
  <2>5. c # NoCache /\ Verify(p, c)
    BY <1>3, <2>3, <2>4, StoredIsCached DEF Patch, Rid
  <2>6. Verify(p, cache)'
    BY <1>3, <2>4, <2>5 DEF Verify, BuildEffective, ExpectedEffective
  <2>7. journal[thread[t].rid].status # "applying"
    BY DEF RuntimeInv, StageInv, StageOf, Applyable, IsApplyable, Rid
  <2>8. ServedOf(t, journal[thread[t].rid])'
    BY <1>3, <2>2, <2>3, <2>4, <2>5, <2>6, <2>7 DEF ServedOf
  <2> QED
    BY <1>1, <2>1, <2>8, HolderServes
<1>4. CASE Go(t, "capture") /\ lock' = lock
  <2>1. Moves(t, "capture")
    BY <1>1, <1>4, GoMoves
  <2> QED
    BY <1>1, <2>1, HolderServes DEF Claiming
<1> QED
  BY <1>2, <1>3, <1>4 DEF Decide

LEMMA ChecksServe ==
    ASSUME RuntimeInv, ServedInv, NEW t \in Threads, Check(t) \/ CheckRebuilt(t)
    PROVE  ServedInv'
<1>1. thread[t].pc \in {"check", "rebuilt"} /\ journal' = journal /\ reader' = reader /\ depth' = depth
  BY DEF Check, CheckRebuilt, At, others
<1>2. thread[t].pc # "idle" /\ ThreadShape
  BY <1>1 DEF RuntimeInv
<1>3. CASE Leave(t)
  <2>1. Moves(t, "idle")
    BY <1>2, <1>3, LeaveMoves
  <2> QED
    BY <1>1, <1>2, <2>1, HolderServes DEF Claiming
<1>4. CASE Go(t, "rebuilt") /\ lock' = lock
  <2>1. Moves(t, "rebuilt")
    BY <1>2, <1>4, GoMoves
  <2> QED
    BY <1>1, <1>2, <2>1, HolderServes DEF Claiming
<1>5. CASE Applyable(t) /\ Decide(t, cache)
  BY <1>1, <1>5, DecideServes
<1>6. CASE CheckRebuilt(t)
  <2>1. thread[t].pc = "rebuilt" /\ Decide(t, SettingsOf(environ))
    BY <1>6 DEF CheckRebuilt, At
  <2> QED
    BY <1>1, <2>1, DecideServes
<1> QED
  BY <1>3, <1>4, <1>5, <1>6 DEF Check

\* A call of set_status claims something only at "write".
LEMMA StatusServes ==
    ASSUME RuntimeInv, ServedInv, NEW t \in Threads,
           MarkApplying(t) \/ Revert(t) \/ Commit(t) \/ MarkRollingBack(t) \/ EndRollback(t)
    PROVE  ServedInv'
<1>1. thread[t].pc # "idle" /\ reader' = reader
  BY DEF MarkApplying, Revert, Commit, MarkRollingBack, EndRollback, At, others
<1>2. ASSUME NEW x \in {"idle", "rolling", "unrestored"}, Moves(t, x) PROVE ServedInv'
  BY <1>1, <1>2, HolderServes DEF Claiming
<1>3. CASE MarkApplying(t)
  <2>1. SetStatus(t, "applying", "write", "end")
    BY <1>3 DEF MarkApplying
  <2>2. Recorded(t, "applying", After("write")) \/ Raised(t, After("end"))
    BY <1>1, <2>1, SetStatusFacts
  <2>3. CASE Recorded(t, "applying", "write")
    <3>1. Moves(t, "write") /\ journal'[thread[t].rid].status \in {"applying", "gone"}
      BY <2>3 DEF Recorded
    <3>2. thread'[t].pc = "write" /\ thread'[t].rid = thread[t].rid
      BY <3>1 DEF Moves
    <3>3. ServedOf(t, journal[thread[t].rid])'
      BY <3>1, <3>2 DEF ServedOf, Written
    <3> QED
      BY <1>1, <3>1, <3>3, HolderServes
  <2>4. CASE Raised(t, "idle")
    BY <1>2, <2>4 DEF Raised
  <2> QED
    BY <2>2, <2>3, <2>4 DEF After
<1>4. CASE Revert(t) \/ Commit(t)
  <2>1. PICK st \in {"validated", "applied"} : SetStatus(t, st, "end", "end")
    BY <1>4 DEF Revert, Commit
  <2>2. Recorded(t, st, After("end")) \/ Raised(t, After("end"))
    BY <1>1, <2>1, SetStatusFacts
  <2> QED
    BY <1>2, <2>2 DEF After, Recorded, Raised
<1>5. CASE MarkRollingBack(t)
  <2>1. SetStatus(t, "rolling_back", "rolling", "end")
    BY <1>5 DEF MarkRollingBack
  <2>2. Recorded(t, "rolling_back", After("rolling")) \/ Raised(t, After("end"))
    BY <1>1, <2>1, SetStatusFacts
  <2> QED
    BY <1>2, <2>2 DEF After, Recorded, Raised
<1>6. CASE EndRollback(t)
  <2>1. CASE SetStatus(t, "rolled_back", "end", "unrestored")
    <3>1. Recorded(t, "rolled_back", After("end")) \/ Raised(t, After("unrestored"))
      BY <1>1, <2>1, SetStatusFacts
    <3> QED
      BY <1>2, <3>1 DEF After, Recorded, Raised
  <2>2. CASE SetStatus(t, "rollback_failed", "end", "end")
    <3>1. Recorded(t, "rollback_failed", After("end")) \/ Raised(t, After("end"))
      BY <1>1, <2>2, SetStatusFacts
    <3> QED
      BY <1>2, <3>1 DEF After, Recorded, Raised
  <2> QED
    BY <1>6, <2>1, <2>2 DEF EndRollback
<1> QED
  BY <1>3, <1>4, <1>5, <1>6

LEMMA WriteServes ==
    ASSUME RuntimeInv, ServedInv, NEW t \in Threads, WriteLocked(t)
    PROVE  ServedInv'
<1>1. thread[t].pc = "write" /\ journal' = journal /\ reader' = reader /\ lock' = lock
  BY DEF WriteLocked, At, others
<1>2. thread[t].pc # "idle" /\ ThreadShape
  BY <1>1 DEF RuntimeInv
<1>3. CASE Go(t, "revert")
  <2>1. Moves(t, "revert")
    BY <1>1, <1>2, <1>3, GoMoves
  <2> QED
    BY <1>1, <1>2, <2>1, HolderServes DEF Claiming
<1>4. CASE thread' = [thread EXCEPT ![t].pc = "activate", ![t].todo = Fields(Patch(t))]
  <2>1. DOMAIN thread = Threads /\ IsThread(thread[t])
    BY <1>2 DEF ThreadShape
  <2>2. /\ thread'[t].pc = "activate" /\ thread'[t].rid = thread[t].rid /\ IsThread(thread'[t])
        /\ thread'[t].todo = Fields(Patch(t))
    BY <1>4, <2>1 DEF IsThread
  <2>3. DOMAIN thread' = Threads /\ \A u \in Threads \ {t} : thread'[u] = thread[u]
    BY <1>4, <2>1
  <2>4. Moves(t, "activate")
    BY <1>1, <2>2, <2>3 DEF Moves
  <2>5. PICK p : p = journal[thread[t].rid].patch
    OBVIOUS
  <2>6. thread'[t].todo = Fields(p) /\ journal'[thread'[t].rid].patch = p
    BY <1>1, <2>2, <2>5 DEF Patch, Rid
  <2>7. journal[thread[t].rid].status \in Written
    BY <1>1 DEF ServedInv, ServedOf
  <2>8. ServedOf(t, journal[thread[t].rid])'
    BY <1>1, <2>2, <2>6, <2>7 DEF ServedOf
  <2> QED
    BY <1>1, <1>2, <2>4, <2>8, HolderServes
<1> QED
  BY <1>3, <1>4 DEF WriteLocked

LEMMA ActivateServes ==
    ASSUME RuntimeInv, ServedInv, NEW t \in Threads, NEW k \in Keys, Activate(t, k)
    PROVE  ServedInv'
<1>1. /\ thread[t].pc = "activate" /\ journal' = journal /\ reader' = reader /\ lock' = lock
      /\ thread' = [thread EXCEPT ![t].todo = @ \ {k}]
      /\ environ' = [j \in Keys |-> IF j = k THEN Patch(t)[k] ELSE environ[j]]
  BY DEF Activate, At, others
<1>2. DOMAIN thread = Threads /\ IsThread(thread[t])
  BY DEF RuntimeInv, ThreadShape
<1>3. /\ thread'[t].pc = "activate" /\ thread'[t].rid = thread[t].rid /\ IsThread(thread'[t])
      /\ thread'[t].todo = thread[t].todo \ {k}
  BY <1>1, <1>2 DEF IsThread
<1>4. DOMAIN thread' = Threads /\ \A u \in Threads \ {t} : thread'[u] = thread[u]
  BY <1>1, <1>2
<1>5. Moves(t, "activate")
  BY <1>1, <1>3, <1>4 DEF Moves
<1>6. PICK p : p = journal[thread[t].rid].patch
  OBVIOUS
<1>7. /\ journal[thread[t].rid].status \in Written
      /\ \A j \in Fields(p) \ thread[t].todo : environ[j] = p[j]
  BY <1>1, <1>6 DEF ServedInv, ServedOf
<1>8. Patch(t) = p
  BY <1>6 DEF Patch, Rid
<1>9. \A j \in Fields(p) \ thread'[t].todo : environ'[j] = p[j]
  BY <1>1, <1>3, <1>7, <1>8 DEF Fields
<1>10. journal'[thread'[t].rid].patch = p /\ journal'[thread'[t].rid].status \in Written
  BY <1>1, <1>3, <1>6, <1>7
<1>11. ServedOf(t, journal[thread[t].rid])'
  BY <1>3, <1>9, <1>10 DEF ServedOf
<1> QED
  BY <1>1, <1>5, <1>11, HolderServes

\* The cache is emptied: who is building settings now is counted as crossing,
\* and who begins afterwards reads the whole target.
LEMMA ClearServes ==
    ASSUME RuntimeInv, ServedInv, NEW t \in Threads, CacheClear(t)
    PROVE  ServedInv'
<1>1. /\ journal' = journal /\ reader' = reader /\ lock' = lock /\ environ' = environ /\ cache' = NoCache
      /\ thread[t].todo = {} /\ crossed' = \E r \in Readers : reader[r].pc # "idle"
  BY DEF CacheClear
<1>2. ThreadShape
  BY DEF RuntimeInv
<1>3. CASE thread[t].pc = "undo" /\ Go(t, "restore")
  <2>1. Moves(t, "restore")
    BY <1>1, <1>2, <1>3, GoMoves
  <2> QED
    BY <1>1, <1>3, <2>1, HolderServes DEF Claiming
<1>4. CASE thread[t].pc = "activate" /\ Go(t, "verify")
  <2>1. Moves(t, "verify")
    BY <1>1, <1>2, <1>4, GoMoves
  <2>2. thread'[t].pc = "verify" /\ thread'[t].rid = thread[t].rid
    BY <2>1 DEF Moves
  <2>3. PICK p : p = journal[thread[t].rid].patch
    OBVIOUS
  <2>4. journal[thread[t].rid].status \in Written /\ \A k \in Fields(p) : environ[k] = p[k]
    BY <1>1, <1>4, <2>3 DEF ServedInv, ServedOf
  <2>5. EnvHas(p)'
    BY <1>1, <2>4 DEF EnvHas
  <2>6. InStep'
    BY <1>1 DEF InStep, ReaderInStep
  <2>7. ServedOf(t, journal[thread[t].rid])'
    BY <1>1, <2>2, <2>3, <2>4, <2>5, <2>6 DEF ServedOf
  <2> QED
    BY <1>1, <1>4, <2>1, <2>7, HolderServes
<1> QED
  BY <1>3, <1>4 DEF CacheClear, At

\* The look at the settings, in the cache or built by the thread itself.
LEMMA VerifyServes ==
    ASSUME RuntimeInv, ServedInv, NEW t \in Threads, VerifyTarget(t) \/ VerifyBuilt(t)
    PROVE  ServedInv'
<1>1. /\ thread[t].pc \in {"verify", "build"} /\ journal' = journal /\ reader' = reader /\ lock' = lock
      /\ environ' = environ /\ crossed' = crossed
  BY DEF VerifyTarget, VerifyBuilt, At, files, others
<1>2. thread[t].pc # "idle" /\ ThreadShape
  BY <1>1 DEF RuntimeInv
<1>3. PICK p : p = journal[thread[t].rid].patch
  OBVIOUS
<1>4. journal[thread[t].rid].status \in Written /\ EnvHas(p) /\ InStep
  BY <1>1, <1>3 DEF ServedInv, ServedOf
<1>5. EnvHas(p)'
  BY <1>1, <1>4 DEF EnvHas
<1>6. PICK x \in {"build", "commit", "rollback"} : Go(t, x)
  BY DEF VerifyTarget, VerifyBuilt
<1>7. /\ cache' = cache \/ cache' = Stored(environ)
      /\ x = "commit" => cache' # NoCache
  <2>1. CASE VerifyTarget(t)
    <3>1. cache' = cache /\ (cache = NoCache => Go(t, "build"))
      BY <2>1 DEF VerifyTarget, files
    <3>2. Moves(t, x)
      BY <1>1, <1>2, <1>6, GoMoves
    <3>3. cache = NoCache => Moves(t, "build")
      BY <1>1, <1>2, <3>1, GoMoves
    <3> QED
      BY <3>1, <3>2, <3>3 DEF Moves
  <2>2. CASE VerifyBuilt(t)
    <3>1. PICK c : c = Stored(environ)
      OBVIOUS
    <3>2. cache' = c /\ c # NoCache
      BY <2>2, <3>1, StoredIsCached DEF VerifyBuilt
    <3> QED
      BY <3>1, <3>2
  <2> QED
    BY <2>1, <2>2
<1>8. InStep'
  <2>1. ~crossed => cache' \in {NoCache, SettingsOf(environ)}
    BY <1>4, <1>7 DEF InStep, Stored
  <2>2. ~crossed => \A q \in Readers : ReaderInStep(reader[q])'
    BY <1>1, <1>4 DEF InStep, ReaderInStep
  <2>3. PICK c : c = SettingsOf(environ)
    OBVIOUS
  <2>4. SettingsOf(environ)' = c
    BY <1>1, <2>3 DEF SettingsOf
  <2> QED
    BY <1>1, <2>1, <2>2, <2>3, <2>4 DEF InStep
<1>9. x # "idle" /\ Moves(t, x)
  BY <1>1, <1>2, <1>6, GoMoves
<1>10. thread'[t].pc = x /\ thread'[t].rid = thread[t].rid
  BY <1>9 DEF Moves
<1>11. journal'[thread'[t].rid].patch = p /\ journal'[thread'[t].rid].status \in Written
  BY <1>1, <1>3, <1>4, <1>10
<1>12. ServedOf(t, journal[thread[t].rid])'
  BY <1>5, <1>7, <1>8, <1>10, <1>11 DEF ServedOf
<1> QED
  BY <1>1, <1>2, <1>9, <1>12, HolderServes

\* The stages that claim nothing.
LEMMA QuietServes ==
    ASSUME RuntimeInv, ServedInv, NEW t \in Threads,
           Capture(t) \/ BeginUndo(t) \/ RestoreLocked(t) \/ \E k \in Keys : Undo(t, k)
    PROVE  ServedInv'
<1>1. thread[t].pc \in {"capture", "rolling", "restore", "undo"} /\ reader' = reader /\ lock' = lock
  BY DEF Capture, BeginUndo, RestoreLocked, Undo, At, others
<1>2. DOMAIN thread = Threads /\ IsThread(thread[t]) /\ thread[t].pc # "idle"
  BY <1>1 DEF RuntimeInv, ThreadShape
<1>3. /\ thread'[t].pc \in {"mark", "undo", "restored", "unrestored"} /\ thread'[t].rid = thread[t].rid
      /\ IsThread(thread'[t])
  BY <1>2 DEF Capture, BeginUndo, RestoreLocked, Undo, At, Go, IsThread
<1>4. DOMAIN thread' = Threads /\ \A u \in Threads \ {t} : thread'[u] = thread[u]
  BY <1>2 DEF Capture, BeginUndo, RestoreLocked, Undo, Go
<1>5. PICK x : x = thread'[t].pc
  OBVIOUS
<1>6. Moves(t, x) /\ x \notin Claiming
  BY <1>1, <1>3, <1>4, <1>5 DEF Moves, Claiming
<1> QED
  BY <1>1, <1>2, <1>6, HolderServes

\* A step of somebody else: settings stored in an empty cache are in step.
LEMMA OutsideServes ==
    ASSUME RuntimeInv, ServedInv, thread' = thread, depth' = depth, environ' = environ, crossed' = crossed,
           DOMAIN reader' = Readers, InStep => InStep',
           \A i \in DOMAIN journal :
             /\ journal'[i].patch = journal[i].patch
             /\ journal'[i].status \in {journal[i].status, "gone", "corrupt"},
           cache # NoCache => cache' = cache
    PROVE  ServedInv'
<1> SUFFICES ASSUME NEW t \in Threads, thread[t].pc # "idle" PROVE ServedOf(t, journal[thread[t].rid])'
  BY DEF ServedInv
<1>1. PICK i : i = thread[t].rid
  OBVIOUS
<1>2. i \in DOMAIN journal /\ ServedOf(t, journal[i])
  BY <1>1 DEF RuntimeInv, LockInv, ServedInv
<1>3. PICK p : p = journal[i].patch
  OBVIOUS
<1>4. /\ journal'[i].patch = p /\ thread'[t].pc = thread[t].pc /\ thread'[t].rid = i /\ thread'[t].todo = thread[t].todo
      /\ journal[i].status \in Written => journal'[i].status \in Written
      /\ journal'[i].status = "applying" => journal[i].status = "applying"
  BY <1>1, <1>2, <1>3 DEF Written
<1>5. EnvHas(p) => EnvHas(p)'
  BY DEF EnvHas
<1>6. cache # NoCache /\ Verify(p, cache) => Verify(p, cache)'
  BY DEF Verify, BuildEffective, ExpectedEffective
<1>7. thread[t].pc \in {"write", "activate", "verify", "build"} => journal'[i].status \in Written
  BY <1>2, <1>4 DEF ServedOf
<1>8. thread[t].pc = "activate" => \A k \in Fields(p) \ thread[t].todo : environ'[k] = p[k]
  BY <1>2, <1>3 DEF ServedOf
<1>9. thread[t].pc \in {"verify", "build"} => EnvHas(p)' /\ InStep'
  BY <1>2, <1>3, <1>5 DEF ServedOf
<1>10. thread[t].pc = "commit" =>
         /\ cache' # NoCache
         /\ \/ journal'[i].status \in Written /\ EnvHas(p)' /\ InStep'
            \/ journal'[i].status # "applying" /\ Verify(p, cache)'
  BY <1>2, <1>3, <1>4, <1>5, <1>6 DEF ServedOf
<1> QED
  BY <1>4, <1>7, <1>8, <1>9, <1>10 DEF ServedOf

LEMMA ReadersServe ==
    ASSUME RuntimeInv, ServedInv, NEW q \in Readers, ReadTtl(q) \/ ReadIce(q) \/ StoreSettings(q)
    PROVE  ServedInv'
<1>1. /\ thread' = thread /\ depth' = depth /\ environ' = environ /\ crossed' = crossed
      /\ journal' = journal \/ \E p \in Patches : PersistValidated(p, SettingsOf(reader[q]))
  BY DEF ReadTtl, ReadIce, StoreSettings, files
<1>2. DOMAIN reader = Readers
  BY DEF ServedInv
<1>3. DOMAIN reader' = Readers /\ \A r \in Readers \ {q} : reader'[r] = reader[r]
  BY <1>2 DEF ReadTtl, ReadIce, StoreSettings
<1>4. cache # NoCache => cache' = cache
  BY DEF ReadTtl, ReadIce, StoreSettings, Stored, files
<1>5. \A i \in DOMAIN journal :
        /\ journal'[i].patch = journal[i].patch
        /\ journal'[i].status \in {journal[i].status, "gone", "corrupt"}
  BY <1>1, PersistFacts
<1>6. ASSUME InStep PROVE InStep'
  <2> SUFFICES ASSUME ~crossed
               PROVE  cache' \in {NoCache, SettingsOf(environ)'} /\ \A r \in Readers : ReaderInStep(reader[r])'
    BY <1>1 DEF InStep
  <2>1. cache \in {NoCache, SettingsOf(environ)} /\ \A r \in Readers : ReaderInStep(reader[r])
    BY <1>6 DEF InStep
  <2>2. PICK c : c = SettingsOf(environ)
    OBVIOUS
  <2>3. SettingsOf(environ)' = c
    BY <1>1, <2>2 DEF SettingsOf
  <2>4. cache' \in {NoCache, c}
    <3>1. CASE StoreSettings(q)
      <4>1. reader[q].ttl = environ.ttl /\ reader[q].ice = environ.ice
        BY <2>1, <3>1 DEF StoreSettings, ReaderInStep
      <4>2. SettingsOf(reader[q]) = c
        BY <2>2, <4>1 DEF SettingsOf
      <4> QED
        BY <2>1, <2>2, <3>1, <4>2 DEF StoreSettings, Stored
    <3>2. CASE cache' = cache
      BY <2>1, <2>2, <3>2
    <3> QED
      BY <3>1, <3>2 DEF ReadTtl, ReadIce, files
  <2>5. ReaderInStep(reader[q])'
    <3>1. CASE ReadTtl(q)
      <4>1. reader'[q] = [pc |-> "ice", ttl |-> environ.ttl, ice |-> "unset"]
        BY <1>2, <3>1 DEF ReadTtl
      <4> QED
        BY <1>1, <4>1 DEF ReaderInStep
    <3>2. CASE ReadIce(q)
      <4>1. reader[q].pc = "ice" /\ reader'[q] = [pc |-> "store", ttl |-> reader[q].ttl, ice |-> environ.ice]
        BY <1>2, <3>2 DEF ReadIce
      <4>2. reader[q].ttl = environ.ttl
        BY <2>1, <4>1 DEF ReaderInStep
      <4> QED
        BY <1>1, <4>1, <4>2 DEF ReaderInStep
    <3>3. CASE StoreSettings(q)
      <4>1. reader'[q] = Asleep
        BY <1>2, <3>3 DEF StoreSettings
      <4> QED
        BY <4>1 DEF ReaderInStep, Asleep
    <3> QED
      BY <3>1, <3>2, <3>3
  <2>6. \A r \in Readers \ {q} : ReaderInStep(reader[r])'
    BY <1>1, <1>3, <2>1 DEF ReaderInStep
  <2> QED
    BY <2>3, <2>4, <2>5, <2>6
<1> QED
  BY <1>1, <1>3, <1>4, <1>5, <1>6, OutsideServes

\* Validation, edits, damaged records and steps that change nothing.
LEMMA OthersServe ==
    ASSUME RuntimeInv, ServedInv,
           \/ \E p \in Patches : Validate(p)
           \/ \E c \in Edits : EditFile(c)
           \/ \E r \in DOMAIN journal : CorruptRecord(r)
           \/ UNCHANGED vars
    PROVE  ServedInv'
<1>1. /\ thread' = thread /\ depth' = depth /\ environ' = environ /\ crossed' = crossed
      /\ reader' = reader /\ cache' = cache
  BY DEF Validate, EditFile, CorruptRecord, vars, files, others
<1>2. DOMAIN reader' = Readers
  BY <1>1 DEF ServedInv
<1>3. InStep => InStep'
  BY <1>1 DEF InStep, ReaderInStep, SettingsOf
<1>4. \A i \in DOMAIN journal :
        /\ journal'[i].patch = journal[i].patch
        /\ journal'[i].status \in {journal[i].status, "gone", "corrupt"}
  <2>1. CASE \E p \in Patches : Validate(p)
    BY <2>1, PersistFacts DEF Validate
  <2>2. CASE \E r \in DOMAIN journal : CorruptRecord(r)
    <3>1. PICK r \in DOMAIN journal : journal' = [journal EXCEPT ![r].status = "corrupt"]
      BY <2>2 DEF CorruptRecord
    <3>2. JournalInv
      BY DEF RuntimeInv
    <3> QED
      BY <3>1, <3>2, RecordFacts
  <2>3. CASE journal' = journal
    BY <2>3
  <2> QED
    BY <2>1, <2>2, <2>3 DEF EditFile, vars
<1> QED
  BY <1>1, <1>2, <1>3, <1>4, OutsideServes

\* Entering an apply, death, start and recovery: no thread is at a claim.
LEMMA RestServes ==
    ASSUME RuntimeInv, ServedInv,
           \/ \E t \in Threads, r \in DOMAIN journal : ApplyRevision(t, r)
           \/ Crash \/ Boot \/ RecoverOnBoot
    PROVE  ServedInv'
<1>1. DOMAIN reader' = Readers
  BY DEF ServedInv, ApplyRevision, Crash, Boot, RecoverOnBoot, others
<1>2. \A u \in Threads : thread'[u].pc \in {"idle", "check"}
  <2>1. DOMAIN thread = Threads /\ \A u \in Threads : IsThread(thread[u])
    BY DEF RuntimeInv, ThreadShape
  <2>2. CASE \E t \in Threads, r \in DOMAIN journal : ApplyRevision(t, r)
    <3>1. PICK t \in Threads, r \in DOMAIN journal : ApplyRevision(t, r)
      BY <2>2
    <3>2. \A u \in Threads : thread[u].pc = "idle"
      BY <3>1, RuntimeAssumption DEF ApplyRevision, RuntimeInv, LockInv
    <3>3. thread'[t].pc = "check" /\ \A u \in Threads \ {t} : thread'[u] = thread[u]
      BY <2>1, <3>1 DEF ApplyRevision, IsThread
    <3> QED
      BY <3>2, <3>3
  <2>3. CASE Crash
    BY <2>3 DEF Crash, Idle
  <2>4. CASE Boot \/ RecoverOnBoot
    <3>1. phase # "up" /\ thread' = thread
      BY <2>4 DEF Boot, RecoverOnBoot
    <3> QED
      BY <3>1 DEF RuntimeInv, LockInv
  <2> QED
    BY <2>2, <2>3, <2>4
<1>3. \A u \in Threads : ServedOf(u, journal[thread[u].rid])'
  BY <1>2 DEF ServedOf
<1> QED
  BY <1>1, <1>3 DEF ServedInv

LEMMA StepKeepsServed == RuntimeInv /\ ServedInv /\ [RuntimeNext]_vars => ServedInv'
<1> SUFFICES ASSUME RuntimeInv, ServedInv, [RuntimeNext]_vars PROVE ServedInv'
  OBVIOUS
<1>1. ASSUME NEW t \in Threads, Check(t) \/ CheckRebuilt(t) \/ WriteLocked(t) \/ CacheClear(t)
             \/ VerifyTarget(t) \/ VerifyBuilt(t) \/ \E k \in Keys : Activate(t, k)
      PROVE  ServedInv'
  BY <1>1, ChecksServe, WriteServes, ClearServes, VerifyServes, ActivateServes
<1>2. ASSUME NEW t \in Threads, MarkApplying(t) \/ Revert(t) \/ Commit(t) \/ MarkRollingBack(t) \/ EndRollback(t)
      PROVE  ServedInv'
  BY <1>2, StatusServes
<1>3. ASSUME NEW t \in Threads, Capture(t) \/ BeginUndo(t) \/ RestoreLocked(t) \/ \E k \in Keys : Undo(t, k)
      PROVE  ServedInv'
  BY <1>3, QuietServes
<1>4. CASE \E q \in Readers : ReadTtl(q) \/ ReadIce(q) \/ StoreSettings(q)
  BY <1>4, ReadersServe
<1> QED
  BY <1>1, <1>2, <1>3, <1>4, OthersServe, RestServes DEF RuntimeNext

LEMMA ServedInvariant == RuntimeSpec => []ServedInv
<1>1. RuntimeInit => ServedInv
  BY DEF RuntimeInit, ServedInv, Idle
<1> QED
  BY <1>1, StepKeepsServed, RuntimeInvariant, PTL DEF RuntimeSpec

LEMMA ServedStep ==
    ASSUME RuntimeInv, ServedInv, [RuntimeNext]_vars, NEW i \in DOMAIN journal, phase = "up",
           journal[i].status # "applied", journal'[i].status = "applied"
    PROVE  /\ journal[i].status = "applying" =>
                /\ Verify(journal[i].patch, SettingsOf(environ))
                /\ ~crossed => cache = SettingsOf(environ)
                /\ ~edited => Verify(journal[i].patch, SettingsOf(disk.env))
           /\ journal[i].status # "applying" => cache # NoCache /\ Verify(journal[i].patch, cache)
<1>1. PICK t \in Threads : /\ thread[t].pc = "commit" /\ i = thread[t].rid
                           /\ journal[i].status \notin {"gone", "corrupt"}
  BY AppliedBy DEF RecoverOnBoot
<1>2. StageOf(t, journal[i]) /\ ServedOf(t, journal[i])
  BY <1>1 DEF RuntimeInv, StageInv, ServedInv
<1>3. PICK p \in Patches : p = journal[i].patch
  BY DEF RuntimeInv, JournalInv
<1>4. /\ cache # NoCache
      /\ journal[i].status = "applying" => EnvHas(p) /\ InStep /\ (~edited => DiskHas(p))
      /\ journal[i].status # "applying" => Verify(p, cache)
  BY <1>1, <1>2, <1>3 DEF StageOf, ServedOf, Written
<1>5. DiskHas(p) => Verify(p, SettingsOf(disk.env))
  BY HeldIsServed DEF DiskHas
<1>6. EnvHas(p) => Verify(p, SettingsOf(environ))
  BY HeldIsServed DEF EnvHas
<1>7. InStep /\ ~crossed => cache \in {NoCache, SettingsOf(environ)}
  BY DEF InStep
<1> QED
  BY <1>3, <1>4, <1>5, <1>6, <1>7

\* What a revision recorded as applied stands for (_apply_under_lock and
\* _verify, runtime_config_apply.py, over the lru_cache of get_settings): the
\* environment holds the target; the cached settings are those of the
\* environment unless a request was building settings across the clearing of
\* the cache; and a restart keeps the target if nobody edited the file.
THEOREM AppliedRevisionsAreServed == RuntimeSpec => AppliedIsServed
<1>1. RuntimeInv /\ ServedInv /\ [RuntimeNext]_vars =>
        [\A i \in DOMAIN journal :
           (phase = "up" /\ journal[i].status # "applied" /\ journal'[i].status = "applied") =>
             /\ journal[i].status = "applying" =>
                  /\ Verify(journal[i].patch, SettingsOf(environ))
                  /\ ~crossed => cache = SettingsOf(environ)
                  /\ ~edited => Verify(journal[i].patch, SettingsOf(disk.env))
             /\ journal[i].status # "applying" => cache # NoCache /\ Verify(journal[i].patch, cache)]_vars
  BY ServedStep
<1> QED
  BY <1>1, RuntimeInvariant, ServedInvariant, PTL DEF RuntimeSpec, AppliedIsServed

LEMMA TruthStep ==
    ASSUME RuntimeInv, [RuntimeNext]_vars, NEW i \in DOMAIN journal, phase = "recovering",
           i = interrupted, journal'[i].status # journal[i].status
    PROVE  /\ journal'[i].status = "applied" => Verify(journal[i].patch, cache)
           /\ journal'[i].status = "rolled_back" => \A f \in journal[i].base : cache = SettingsOf(f.env)
<1>1. CASE RecoverOnBoot
  <2>1. PICK k : Reconciles(k)
    BY <1>1, RecoverFacts
  <2>2. k = i
    BY <2>1 DEF Reconciles
  <2>3. PICK st, b : st = journal[i].status /\ b = (journal[i].base = {disk})
    OBVIOUS
  <2>4. journal'[i].status = Reconciled(st, b)
    BY <2>1, <2>2, <2>3 DEF Reconciles
  <2>5. /\ Reconciled(st, b) # st /\ Reconciled(st, b) = "applied" => st = "applying" /\ ~b
        /\ Reconciled(st, b) # st /\ Reconciled(st, b) = "rolled_back" => b
    BY ReconciledFacts
  <2>6. interrupted # 0
    <3>1. PICK S : journal \in Seq(S)
      BY DEF RuntimeInv, JournalInv
    <3> QED
      BY <3>1
  <2>7. /\ cache = SettingsOf(disk.env)
        /\ journal[i].status = "applying" => journal[i].base = {disk} \/ DiskHas(journal[i].patch)
    BY <2>6 DEF RuntimeInv, CrashInv
  <2>8. PICK p \in Patches : p = journal[i].patch
    BY DEF RuntimeInv, JournalInv
  <2>9. DiskHas(p) => Verify(p, SettingsOf(disk.env))
    BY HeldIsServed DEF DiskHas
  <2>10. journal'[i].status = "applied" => Verify(p, SettingsOf(disk.env))
    BY <2>3, <2>4, <2>5, <2>7, <2>8, <2>9
  <2>11. journal'[i].status = "applied" => Verify(journal[i].patch, cache)
    BY <2>7, <2>8, <2>10
  <2>12. journal'[i].status = "rolled_back" => journal[i].base = {disk}
    BY <2>3, <2>4, <2>5
  <2> QED
    BY <2>7, <2>11, <2>12
<1>2. CASE journal'[i].status \in {journal[i].status, "gone", "corrupt"}
  BY <1>2
<1>3. \A t \in Threads : ~(MarkApplying(t) \/ Revert(t) \/ MarkRollingBack(t) \/ EndRollback(t) \/ Commit(t))
  BY DEF MarkApplying, Revert, MarkRollingBack, EndRollback, Commit, At
<1> QED
  BY <1>1, <1>2, <1>3, RecordsRest DEF RuntimeNext

\* Boot recovery tells the truth of the apply a crash interrupted
\* (recover_on_boot, runtime_config_apply.py), at whatever step it died: a
\* revision recorded as applied is served by the restarted process, and with
\* one recorded as rolled back it serves what the revision was validated
\* against.
THEOREM RecoveryRecordsTheTruth == RuntimeSpec => RecoveryTellsTruth
<1>1. RuntimeInv /\ [RuntimeNext]_vars =>
        [\A i \in DOMAIN journal :
           (phase = "recovering" /\ i = interrupted /\ journal'[i].status # journal[i].status) =>
             /\ journal'[i].status = "applied" => Verify(journal[i].patch, cache)
             /\ journal'[i].status = "rolled_back" => \A f \in journal[i].base : cache = SettingsOf(f.env)]_vars
  BY TruthStep
<1> QED
  BY <1>1, RuntimeInvariant, PTL DEF RuntimeSpec, RecoveryTellsTruth
=============================================================================
