--------------------------- MODULE JanusNatProofs ---------------------------
(***************************************************************************)
(* The writers of janus.jcfg, proved for any number of update requests,    *)
(* configurations, addresses, days and faults.                             *)
(*                                                                         *)
(* Three writers hold the lock between reading and writing, the console    *)
(* takes no lock: but its file has no TURN lines, and only an update under *)
(* the lock brings them back.  So, while the file has them, what a holder  *)
(* of the lock knows of it is still true.                                  *)
(***************************************************************************)
EXTENDS JanusNat, TLAPS

\* The text of a NAT block.
IsFile(x) == x = [turn |-> x.turn, user |-> x.user, pwd |-> x.pwd, map |-> x.map, ice |-> x.ice]

\* A request in progress carries its configuration.
PostShape ==
    /\ DOMAIN post = Posts
    /\ \A p \in Posts : /\ "pc" \in DOMAIN post[p]
                        /\ Running(p) => post[p] = [pc |-> post[p].pc, cfg |-> post[p].cfg]

\* Who is between taking and releasing the lock holds it.
LockInv ==
    /\ rot.pc \in {"write", "restart"} => lock = "rotator"
    /\ upd.pc \in {"move", "restart"} => lock = "updater"
    /\ \A p \in Posts : post[p].pc \in {"patching", "restarting"} => lock = p

FileShape ==
    /\ IsFile(jcfg)
    /\ rot.pc = "write" => IsFile(rot.copy)
    /\ upd.pc = "move" => IsFile(upd.copy) /\ upd.copy.map = upd.ip
    /\ con.pc = "write" => IsFile(con.file) /\ con.file.turn = FALSE

\* A holder's copy is the file, and what it has written is still there,
\* unless the console has written since.
CopyInv ==
    jcfg.turn =>
        /\ rot.pc = "write" => rot.copy = jcfg
        /\ rot.pc = "restart" => jcfg.user = rot.new /\ jcfg.pwd = rot.new
        /\ upd.pc = "move" => upd.copy = [jcfg EXCEPT !.map = upd.ip]
        /\ upd.pc = "restart" => jcfg.map = upd.ip

WritersInv == PostShape /\ LockInv /\ FileShape /\ CopyInv

-----------------------------------------------------------------------------
(* Requests                                                                *)

\* Request p has gone on to stage x, and no other has moved.
MovedTo(p, x) ==
    /\ DOMAIN post' = Posts /\ post'[p] = [pc |-> x, cfg |-> post[p].cfg]
    /\ post'[p].pc = x /\ post'[p].cfg = post[p].cfg
    /\ \A q \in Posts \ {p} : post'[q] = post[q]

LEMMA GotoFacts ==
    ASSUME PostShape, NEW p \in Posts, Running(p), NEW x, Goto(p, x)
    PROVE  MovedTo(p, x)
<1>1. post[p] = [pc |-> post[p].pc, cfg |-> post[p].cfg] /\ DOMAIN post = Posts
  BY DEF PostShape
<1>2. post'[p] = [pc |-> x, cfg |-> post[p].cfg]
  BY <1>1 DEF Goto
<1> QED
  BY <1>1, <1>2 DEF Goto, MovedTo

LEMMA EndFacts ==
    ASSUME PostShape, NEW p \in Posts, End(p)
    PROVE  /\ DOMAIN post' = Posts /\ post'[p] = [pc |-> "done"] /\ post'[p].pc = "done"
           /\ \A q \in Posts \ {p} : post'[q] = post[q]
  BY DEF PostShape, End

\* A request at a new step, or ended, has its shape.
LEMMA ShapeKept ==
    ASSUME PostShape, NEW p \in Posts, DOMAIN post' = Posts,
           \A q \in Posts \ {p} : post'[q] = post[q],
           \/ post'[p] = [pc |-> "done"]
           \/ post'[p] = [pc |-> post'[p].pc, cfg |-> post'[p].cfg]
    PROVE  PostShape'
<1>1. "pc" \in DOMAIN post'[p] /\ (Running(p)' => post'[p] = [pc |-> post'[p].pc, cfg |-> post'[p].cfg])
  BY DEF Running
<1>2. \A q \in Posts \ {p} : Running(q)' <=> Running(q)
  BY DEF Running
<1> QED
  BY <1>1, <1>2 DEF PostShape

\* The steps of a request: where it was, where it is now, and what it changed.
\* None but the patch writes the file; each takes the lock, keeps it, or
\* releases it only as its holder.
PostMoves(p) ==
    /\ \/ post'[p] = [pc |-> "done"]
       \/ post'[p] = [pc |-> post'[p].pc, cfg |-> post'[p].cfg]
    /\ DOMAIN post' = Posts /\ \A q \in Posts \ {p} : post'[q] = post[q]
    /\ rot' = rot /\ upd' = upd /\ con' = con
    /\ \/ lock' = lock /\ post'[p].pc \notin {"patching", "restarting"}
       \/ lock = Free /\ lock' = p
       \/ lock = p /\ lock' \in {Free, "orphan"} /\ post'[p].pc \notin {"patching", "restarting"}
    /\ \/ jcfg' = jcfg
       \/ lock = p /\ IsFile(jcfg')

LEMMA PostMovesKeeps ==
    ASSUME WritersInv, NEW p \in Posts, PostMoves(p)
    PROVE  WritersInv'
<1> USE DEF WritersInv
<1>1. PostShape'
  BY ShapeKept DEF PostMoves
<1>2. \A q \in Posts : q \notin {"free", "orphan", "rotator", "updater"}
  BY NatAssumption
<1>3. LockInv'
  BY <1>2 DEF LockInv, PostMoves, Free
<1>5. lock = p => rot.pc \notin {"write", "restart"} /\ upd.pc \notin {"move", "restart"}
  BY <1>2 DEF LockInv
<1>6. FileShape'
  BY <1>5 DEF FileShape, PostMoves, IsFile
<1>7. CopyInv'
  BY <1>5 DEF CopyInv, PostMoves
<1> QED
  BY <1>1, <1>3, <1>6, <1>7

LEMMA RenderIsFile == \A c : IsFile(Render(c)) /\ Render(c).turn = TRUE
  BY DEF IsFile, Render

LEMMA PostStepMoves ==
    ASSUME WritersInv, NEW p \in Posts,
           \/ \E body \in Bodies : Submit(p, body)
           \/ Persist(p) \/ RecordPending(p) \/ AdminTakesLock(p) \/ CmdNatConfig(p)
           \/ CmdRestart(p) \/ RestartTimesOut(p) \/ RecordApplied(p) \/ RecordFailed(p)
    PROVE  PostMoves(p)
<1> USE DEF WritersInv
<1>1. CASE \E body \in Bodies : Submit(p, body)
  <2>1. PICK c : /\ post' = [post EXCEPT ![p] = [pc |-> "persist", cfg |-> c]]
                 /\ jcfg' = jcfg /\ lock' = lock /\ rot' = rot /\ upd' = upd /\ con' = con
    BY <1>1 DEF Submit, jobVars, worldVars
  <2> QED
    BY <2>1 DEF PostShape, PostMoves
<1>2. CASE Persist(p)
  <2>1. /\ Running(p) /\ jcfg' = jcfg /\ lock' = lock /\ rot' = rot /\ upd' = upd /\ con' = con
        /\ Goto(p, "pending") \/ Goto(p, "failed")
    BY <1>2 DEF Persist, jobVars, worldVars, Running
  <2>2. MovedTo(p, "pending") \/ MovedTo(p, "failed")
    BY <2>1, GotoFacts
  <2> QED
    BY <2>1, <2>2 DEF PostMoves, MovedTo
<1>3. CASE RecordPending(p)
  <2>1. /\ Running(p) /\ jcfg' = jcfg /\ lock' = lock /\ rot' = rot /\ upd' = upd /\ con' = con
        /\ Goto(p, "patch")
    BY <1>3 DEF RecordPending, jobVars, worldVars, Running
  <2>2. MovedTo(p, "patch")
    BY <2>1, GotoFacts
  <2> QED
    BY <2>1, <2>2 DEF PostMoves, MovedTo
<1>4. CASE RecordApplied(p) \/ RecordFailed(p)
  <2>1. /\ jcfg' = jcfg /\ lock' = lock /\ rot' = rot /\ upd' = upd /\ con' = con /\ End(p)
    BY <1>4 DEF RecordApplied, RecordFailed, jobVars, worldVars
  <2> QED
    BY <2>1, EndFacts DEF PostMoves, End
<1>5. CASE AdminTakesLock(p)
  <2>1. /\ Running(p) /\ jcfg' = jcfg /\ rot' = rot /\ upd' = upd /\ con' = con
        /\ \/ (Goto(p, "patching") \/ Goto(p, "restarting")) /\ lock = Free /\ lock' = p
           \/ Goto(p, "failed") /\ lock' = lock
    BY <1>5 DEF AdminTakesLock, jobVars, worldVars, Running, JcfgLock
  <2>2. CASE Goto(p, "failed") /\ lock' = lock
    <3>1. MovedTo(p, "failed")
      BY <2>1, <2>2, GotoFacts
    <3> QED
      BY <2>1, <2>2, <3>1 DEF PostMoves, MovedTo
  <2>3. CASE (Goto(p, "patching") \/ Goto(p, "restarting")) /\ lock = Free /\ lock' = p
    <3>1. MovedTo(p, "patching") \/ MovedTo(p, "restarting")
      BY <2>1, <2>3, GotoFacts
    <3> QED
      BY <2>1, <2>3, <3>1 DEF PostMoves, MovedTo
  <2> QED
    BY <2>1, <2>2, <2>3
<1>6. CASE CmdNatConfig(p)
  <2>1. /\ Running(p) /\ rot' = rot /\ upd' = upd /\ con' = con /\ lock = p /\ lock' = Free
        /\ Goto(p, "restart") \/ Goto(p, "failed")
        /\ jcfg' = Render(post[p].cfg) \/ jcfg' = jcfg
    BY <1>6 DEF CmdNatConfig, jobVars, worldVars, Running, LockInv
  <2>2. MovedTo(p, "restart") \/ MovedTo(p, "failed")
    BY <2>1, GotoFacts
  <2> QED
    BY <2>1, <2>2, RenderIsFile DEF PostMoves, MovedTo
<1>7. CASE CmdRestart(p)
  <2>1. /\ Running(p) /\ rot' = rot /\ upd' = upd /\ con' = con /\ lock = p /\ lock' = Free
        /\ Goto(p, "applied") \/ Goto(p, "failed")
        /\ jcfg' = jcfg
    BY <1>7 DEF CmdRestart, jobVars, worldVars, Running, LockInv
  <2>2. MovedTo(p, "applied") \/ MovedTo(p, "failed")
    BY <2>1, GotoFacts
  <2> QED
    BY <2>1, <2>2 DEF PostMoves, MovedTo
<1>8. CASE RestartTimesOut(p)
  <2>1. /\ Running(p) /\ rot' = rot /\ upd' = upd /\ con' = con /\ lock = p /\ lock' = "orphan"
        /\ Goto(p, "failed") \/ End(p)
        /\ jcfg' = jcfg
    BY <1>8 DEF RestartTimesOut, jobVars, worldVars, Running, LockInv
  <2>2. MovedTo(p, "failed") \/ End(p)
    BY <2>1, GotoFacts
  <2> QED
    BY <2>1, <2>2, EndFacts DEF PostMoves, MovedTo, End
<1> QED
  BY <1>1, <1>2, <1>3, <1>4, <1>5, <1>6, <1>7, <1>8

-----------------------------------------------------------------------------
(* The other writers                                                       *)

LEMMA PostsAreNoNames ==
    \A q \in Posts : q \notin {"free", "orphan", "rotator", "updater"}
  BY NatAssumption

\* Steps that move no writer and leave the file alone: a restart, a new
\* render of the console, the world.
LEMMA BystanderKeeps ==
    ASSUME WritersInv, UNCHANGED <<post, rot, upd, jcfg>>,
           lock' = lock \/ lock = "orphan",
           \/ con' = con
           \/ con'.pc # "write"
           \/ con'.pc = "write" /\ IsFile(con'.file) /\ con'.file.turn = FALSE
    PROVE  WritersInv'
<1>1. PostShape'
  BY DEF WritersInv, PostShape, Running
<1>2. LockInv'
  BY PostsAreNoNames DEF WritersInv, LockInv
<1>3. FileShape'
  BY DEF WritersInv, FileShape, IsFile
<1>4. CopyInv'
  BY DEF WritersInv, CopyInv
<1> QED
  BY <1>1, <1>2, <1>3, <1>4 DEF WritersInv

LEMMA BystanderSteps ==
    ASSUME WritersInv,
           \/ OrphanEnds \/ RestartRoute \/ ApplyConfig \/ SetNatMapping
           \/ RenderRestart \/ JanusStarts \/ World
    PROVE  WritersInv'
<1>1. CASE OrphanEnds \/ RestartRoute \/ JanusStarts \/ World
  BY <1>1, BystanderKeeps DEF OrphanEnds, RestartRoute, JanusStarts, World, jobVars, worldVars
<1>2. CASE RenderRestart
  BY <1>2, BystanderKeeps DEF RenderRestart, jobVars
<1>3. CASE ApplyConfig \/ SetNatMapping
  <2>1. PICK m, r : /\ con' = [pc |-> "write", file |-> Template(m), restart |-> r]
                    /\ UNCHANGED <<post, rot, upd, jcfg, lock>>
    BY <1>3 DEF ApplyConfig, SetNatMapping, Rendering, jobVars
  <2>2. IsFile(Template(m)) /\ Template(m).turn = FALSE
    BY DEF Template, IsFile
  <2> QED
    BY <2>1, <2>2, BystanderKeeps
<1> QED
  BY <1>1, <1>2, <1>3

\* The console's file has no TURN lines.
LEMMA RenderWriteKeeps ==
    ASSUME WritersInv, RenderWrite
    PROVE  WritersInv'
<1>1. /\ UNCHANGED <<post, rot, upd, lock>> /\ con'.pc \in {"restart", "done"}
      /\ jcfg' = jcfg \/ jcfg' = con.file
      /\ con.pc = "write"
  BY DEF RenderWrite, jobVars
<1>2. PostShape'
  BY <1>1 DEF WritersInv, PostShape, Running
<1>3. LockInv'
  BY <1>1 DEF WritersInv, LockInv
<1>4. FileShape'
  BY <1>1 DEF WritersInv, FileShape, IsFile
<1>5. CopyInv'
  BY <1>1 DEF WritersInv, CopyInv, FileShape
<1> QED
  BY <1>2, <1>3, <1>4, <1>5 DEF WritersInv

\* A job that stops, and gives the lock back if it had it.
LEMMA RotatorStops ==
    ASSUME WritersInv, post' = post, jcfg' = jcfg, con' = con, upd' = upd,
           rot'.pc \in {"off", "wait"},
           lock' = lock \/ (lock = "rotator" /\ lock' = Free)
    PROVE  WritersInv'
<1>1. PostShape'
  BY DEF WritersInv, PostShape, Running
<1>2. LockInv'
  BY PostsAreNoNames DEF WritersInv, LockInv
<1>3. FileShape'
  BY DEF WritersInv, FileShape, IsFile
<1>4. CopyInv'
  BY DEF WritersInv, CopyInv
<1> QED
  BY <1>1, <1>2, <1>3, <1>4 DEF WritersInv

LEMMA UpdaterStops ==
    ASSUME WritersInv, post' = post, jcfg' = jcfg, con' = con, rot' = rot,
           upd'.pc \in {"off", "wait"},
           lock' = lock \/ (lock = "updater" /\ lock' = Free)
    PROVE  WritersInv'
<1>1. PostShape'
  BY DEF WritersInv, PostShape, Running
<1>2. LockInv'
  BY PostsAreNoNames DEF WritersInv, LockInv
<1>3. FileShape'
  BY DEF WritersInv, FileShape, IsFile
<1>4. CopyInv'
  BY DEF WritersInv, CopyInv
<1> QED
  BY <1>1, <1>2, <1>3, <1>4 DEF WritersInv

LEMMA ExitStops == \A c : Exit(c).pc = "off"
  BY DEF Exit

LEMMA JobStopSteps ==
    ASSUME WritersInv,
           RotateStart \/ RotateNoLock \/ RotateRestart \/ UpdaterStart \/ UpdaterRestart
    PROVE  WritersInv'
<1>1. CASE RotateStart \/ RotateNoLock
  <2>1. /\ UNCHANGED <<post, jcfg, con, upd, lock>>
        /\ rot'.pc \in {"off", "wait"}
    BY <1>1, ExitStops DEF RotateStart, RotateNoLock, worldVars
  <2> QED
    BY <2>1, RotatorStops
<1>2. CASE UpdaterStart
  <2>1. /\ UNCHANGED <<post, jcfg, con, rot, lock>>
        /\ upd'.pc \in {"off", "wait"}
    BY <1>2, ExitStops DEF UpdaterStart, worldVars
  <2> QED
    BY <2>1, UpdaterStops
<1>3. CASE RotateRestart
  <2>1. /\ UNCHANGED <<post, jcfg, con, upd>> /\ lock = "rotator" /\ lock' = Free
        /\ rot'.pc \in {"off", "wait"}
    BY <1>3, ExitStops DEF RotateRestart, worldVars, WritersInv, LockInv
  <2> QED
    BY <2>1, RotatorStops
<1>4. CASE UpdaterRestart
  <2>1. /\ UNCHANGED <<post, jcfg, con, rot>> /\ lock = "updater" /\ lock' = Free
        /\ upd'.pc \in {"off", "wait"}
    BY <1>4, ExitStops DEF UpdaterRestart, worldVars, WritersInv, LockInv
  <2> QED
    BY <2>1, UpdaterStops
<1> QED
  BY <1>1, <1>2, <1>3, <1>4

LEMMA PatchFacts ==
    ASSUME NEW f, IsFile(f), NEW n
    PROVE  /\ PatchJcfg(f, n) = [turn |-> f.turn, user |-> n, pwd |-> n, map |-> f.map, ice |-> f.ice]
           /\ IsFile(PatchJcfg(f, n))
           /\ PatchJcfg(f, n).turn = f.turn /\ PatchJcfg(f, n).user = n /\ PatchJcfg(f, n).pwd = n
           /\ PatchJcfg(f, n).ice = f.ice
<1>1. PICK t, u, w, m, i : f = [turn |-> t, user |-> u, pwd |-> w, map |-> m, ice |-> i]
  BY DEF IsFile
<1>2. DOMAIN f = {"turn", "user", "pwd", "map", "ice"}
  BY <1>1
<1>3. DOMAIN PatchJcfg(f, n) = {"turn", "user", "pwd", "map", "ice"}
  BY <1>2 DEF PatchJcfg
<1>4. /\ PatchJcfg(f, n)["turn"] = f.turn /\ PatchJcfg(f, n)["user"] = n /\ PatchJcfg(f, n)["pwd"] = n
      /\ PatchJcfg(f, n)["map"] = f.map /\ PatchJcfg(f, n)["ice"] = f.ice
  BY <1>2 DEF PatchJcfg
<1>5. PatchJcfg(f, n) = [x \in {"turn", "user", "pwd", "map", "ice"} |-> PatchJcfg(f, n)[x]]
  BY <1>2, <1>3 DEF PatchJcfg
<1>6. PatchJcfg(f, n) = [turn |-> f.turn, user |-> n, pwd |-> n, map |-> f.map, ice |-> f.ice]
  BY <1>3, <1>4, <1>5
<1> QED
  BY <1>6 DEF IsFile

LEMMA MapFacts ==
    ASSUME NEW f, IsFile(f), NEW m
    PROVE  /\ [f EXCEPT !.map = m] = [turn |-> f.turn, user |-> f.user, pwd |-> f.pwd, map |-> m, ice |-> f.ice]
           /\ IsFile([f EXCEPT !.map = m])
           /\ [f EXCEPT !.map = m].turn = f.turn /\ [f EXCEPT !.map = m].map = m
           /\ [f EXCEPT !.map = m].ice = f.ice
<1>1. f = [turn |-> f.turn, user |-> f.user, pwd |-> f.pwd, map |-> f.map, ice |-> f.ice]
  BY DEF IsFile
<1>2. [f EXCEPT !.map = m] = [turn |-> f.turn, user |-> f.user, pwd |-> f.pwd, map |-> m, ice |-> f.ice]
  BY <1>1
<1> QED
  BY <1>2 DEF IsFile

\* The file is read again under the lock.
LEMMA RotateLockKeeps ==
    ASSUME WritersInv, RotateLock
    PROVE  WritersInv'
<1>1. /\ UNCHANGED <<post, jcfg, con, upd>> /\ lock = Free /\ lock' = "rotator"
      /\ rot'.pc = "write" /\ rot'.copy = jcfg
  BY DEF RotateLock, JcfgLock, worldVars
<1>2. PostShape'
  BY <1>1 DEF WritersInv, PostShape, Running
<1>3. LockInv'
  BY <1>1, PostsAreNoNames DEF WritersInv, LockInv, Free
<1>4. FileShape'
  BY <1>1 DEF WritersInv, FileShape, IsFile
<1>5. CopyInv'
  BY <1>1 DEF WritersInv, CopyInv
<1> QED
  BY <1>2, <1>3, <1>4, <1>5 DEF WritersInv

LEMMA RotateWriteKeeps ==
    ASSUME WritersInv, RotateWrite
    PROVE  WritersInv'
<1>0. /\ UNCHANGED <<post, con, upd>> /\ rot.pc = "write" /\ lock = "rotator" /\ IsFile(rot.copy)
  BY DEF RotateWrite, worldVars, WritersInv, LockInv, FileShape
<1>1. CASE jcfg' = jcfg /\ rot' = Exit(2) /\ lock' = Free
  BY <1>0, <1>1, RotatorStops, ExitStops
<1>2. CASE /\ jcfg' = PatchJcfg(rot.copy, rot.new) /\ lock' = lock
           /\ rot' = [pc |-> "restart", new |-> rot.new]
  <2>1. PICK f, n : f = rot.copy /\ n = rot.new
    OBVIOUS
  <2>2. IsFile(jcfg') /\ jcfg'.user = n /\ jcfg'.pwd = n
    BY <1>0, <1>2, <2>1, PatchFacts
  <2>3. rot'.pc = "restart" /\ rot'.new = n
    BY <1>2, <2>1
  <2>4. upd.pc \notin {"move", "restart"}
    BY <1>0 DEF WritersInv, LockInv
  <2>5. PostShape'
    BY <1>0 DEF WritersInv, PostShape, Running
  <2>6. LockInv'
    BY <1>0, <1>2, <2>3, <2>4 DEF WritersInv, LockInv
  <2>7. FileShape'
    BY <1>0, <2>2, <2>3, <2>4 DEF WritersInv, FileShape, IsFile
  <2>8. CopyInv'
    BY <1>0, <2>2, <2>3, <2>4 DEF CopyInv
  <2> QED
    BY <2>5, <2>6, <2>7, <2>8 DEF WritersInv
<1> QED
  BY <1>1, <1>2 DEF RotateWrite

LEMMA UpdaterLockKeeps ==
    ASSUME WritersInv, UpdaterLock
    PROVE  WritersInv'
<1>1. CASE upd' = Exit(2) /\ lock' = lock
  BY <1>1, UpdaterStops, ExitStops DEF UpdaterLock, worldVars
<1>2. CASE /\ lock = Free /\ lock' = "updater"
           /\ upd' = [pc |-> "move", ip |-> upd.ip, copy |-> [jcfg EXCEPT !.map = upd.ip]]
  <2>1. PICK f, m : f = jcfg /\ m = upd.ip
    OBVIOUS
  <2>2. /\ UNCHANGED <<post, jcfg, con, rot>>
        /\ upd'.pc = "move" /\ upd'.copy = [f EXCEPT !.map = m] /\ upd'.ip = m
    BY <1>2, <2>1 DEF UpdaterLock, worldVars
  <2>3. IsFile([f EXCEPT !.map = m])
    BY <2>1, MapFacts DEF WritersInv, FileShape
  <2>4. PostShape'
    BY <2>2 DEF WritersInv, PostShape, Running
  <2>5. LockInv'
    BY <1>2, <2>2, PostsAreNoNames DEF WritersInv, LockInv, Free
  <2>6. FileShape'
    BY <2>2, <2>3 DEF WritersInv, FileShape, IsFile
  <2>7. CopyInv'
    BY <2>1, <2>2 DEF WritersInv, CopyInv
  <2> QED
    BY <2>4, <2>5, <2>6, <2>7 DEF WritersInv
<1> QED
  BY <1>1, <1>2 DEF UpdaterLock, JcfgLock

LEMMA UpdaterMoveKeeps ==
    ASSUME WritersInv, UpdaterMove
    PROVE  WritersInv'
<1>0. /\ UNCHANGED <<post, con, rot>> /\ upd.pc = "move" /\ lock = "updater" /\ IsFile(upd.copy)
  BY DEF UpdaterMove, worldVars, WritersInv, LockInv, FileShape
<1>1. CASE jcfg' = jcfg /\ upd' = Exit(3) /\ lock' = Free
  BY <1>0, <1>1, UpdaterStops, ExitStops
<1>2. CASE /\ jcfg' = upd.copy /\ lock' = lock
           /\ upd' = [pc |-> "restart", ip |-> upd.ip]
  <2>1. upd'.pc = "restart" /\ upd'.ip = upd.ip
    BY <1>2
  <2>2. IsFile(jcfg') /\ jcfg'.map = upd.ip
    BY <1>0, <1>2 DEF WritersInv, FileShape
  <2>3. rot.pc \notin {"write", "restart"}
    BY <1>0 DEF WritersInv, LockInv
  <2>4. PostShape'
    BY <1>0 DEF WritersInv, PostShape, Running
  <2>5. LockInv'
    BY <1>0, <1>2, <2>1, <2>3 DEF WritersInv, LockInv
  <2>6. FileShape'
    BY <1>0, <2>1, <2>2, <2>3 DEF WritersInv, FileShape, IsFile
  <2>7. CopyInv'
    BY <1>0, <2>1, <2>2, <2>3 DEF CopyInv
  <2> QED
    BY <2>4, <2>5, <2>6, <2>7 DEF WritersInv
<1>3. CASE jcfg' = upd.copy /\ upd' = Exit(3) /\ lock' = Free
  <2>1. upd'.pc = "off"
    BY <1>3, ExitStops
  <2>2. IsFile(jcfg')
    BY <1>0, <1>3
  <2>3. rot.pc \notin {"write", "restart"}
    BY <1>0 DEF WritersInv, LockInv
  <2>4. PostShape'
    BY <1>0 DEF WritersInv, PostShape, Running
  <2>5. LockInv'
    BY <1>0, <1>3, <2>1, <2>3, PostsAreNoNames DEF WritersInv, LockInv, Free
  <2>6. FileShape'
    BY <1>0, <2>1, <2>2, <2>3 DEF WritersInv, FileShape, IsFile
  <2>7. CopyInv'
    BY <1>0, <2>1, <2>2, <2>3 DEF CopyInv
  <2> QED
    BY <2>4, <2>5, <2>6, <2>7 DEF WritersInv
<1> QED
  BY <1>1, <1>2, <1>3 DEF UpdaterMove

\* A killed writer loses its lock, and only its own.
LEMMA KilledKeeps ==
    ASSUME WritersInv, Killed
    PROVE  WritersInv'
<1>0. UNCHANGED <<jcfg, con>>
  BY DEF Killed, worldVars
<1>1. CASE \E p \in Posts : Running(p) /\ End(p) /\ Dropped(p) /\ UNCHANGED jobVars
  <2>1. PICK p \in Posts : End(p) /\ Dropped(p) /\ UNCHANGED jobVars
    BY <1>1
  <2>2. /\ DOMAIN post' = Posts /\ post'[p] = [pc |-> "done"] /\ post'[p].pc = "done"
        /\ \A q \in Posts \ {p} : post'[q] = post[q]
    BY <2>1, EndFacts DEF WritersInv
  <2>3. PostMoves(p)
    BY <1>0, <2>1, <2>2 DEF PostMoves, Dropped, jobVars
  <2> QED
    BY <2>3, PostMovesKeeps
<1>2. CASE rot' = Exit(2) /\ Dropped("rotator") /\ UNCHANGED <<post, upd, cache>>
  BY <1>0, <1>2, RotatorStops, ExitStops DEF Dropped
<1>3. CASE upd' = Exit(3) /\ Dropped("updater") /\ UNCHANGED <<post, rot, cache>>
  BY <1>0, <1>3, UpdaterStops, ExitStops DEF Dropped
<1> QED
  BY <1>1, <1>2, <1>3 DEF Killed

LEMMA WritersInit == NatInit => WritersInv
<1> SUFFICES ASSUME NatInit PROVE WritersInv
  OBVIOUS
<1>1. rot.pc = "off" /\ upd.pc = "off" /\ con.pc = "new" /\ IsFile(jcfg)
  BY ExitStops, RenderIsFile DEF NatInit
<1>2. DOMAIN post = Posts /\ \A p \in Posts : post[p] = [pc |-> "new"]
  BY DEF NatInit
<1>3. PostShape
  BY <1>2 DEF PostShape, Running
<1>4. LockInv /\ FileShape /\ CopyInv
  BY <1>1, <1>2 DEF LockInv, FileShape, CopyInv
<1> QED
  BY <1>3, <1>4 DEF WritersInv

LEMMA WritersStep == WritersInv /\ [NatNext]_vars => WritersInv'
<1> SUFFICES ASSUME WritersInv, [NatNext]_vars PROVE WritersInv'
  OBVIOUS
<1>1. CASE UNCHANGED vars
  BY <1>1, BystanderKeeps DEF vars
<1>2. CASE \E p \in Posts :
             \/ \E body \in Bodies : Submit(p, body)
             \/ Persist(p) \/ RecordPending(p) \/ AdminTakesLock(p) \/ CmdNatConfig(p)
             \/ CmdRestart(p) \/ RestartTimesOut(p) \/ RecordApplied(p) \/ RecordFailed(p)
  <2>1. PICK p \in Posts : PostMoves(p)
    BY <1>2, PostStepMoves
  <2> QED
    BY <2>1, PostMovesKeeps
<1>3. CASE \/ OrphanEnds \/ RestartRoute \/ ApplyConfig \/ SetNatMapping
           \/ RenderRestart \/ JanusStarts \/ World
  BY <1>3, BystanderSteps
<1>4. CASE RotateStart \/ RotateNoLock \/ RotateRestart \/ UpdaterStart \/ UpdaterRestart
  BY <1>4, JobStopSteps
<1>5. CASE RotateLock \/ RotateWrite \/ UpdaterLock \/ UpdaterMove \/ RenderWrite \/ Killed
  BY <1>5, RotateLockKeeps, RotateWriteKeeps, UpdaterLockKeeps, UpdaterMoveKeeps,
     RenderWriteKeeps, KilledKeeps
<1> QED
  BY <1>1, <1>2, <1>3, <1>4, <1>5 DEF NatNext

\* Whoever is between reading and writing janus.jcfg holds the lock, and while
\* the file has TURN lines its copy is the file, whatever the other writers,
\* the console, kills and timeouts do.
THEOREM WritersAgree == NatSpec => []WritersInv
  BY WritersInit, WritersStep, PTL DEF NatSpec

-----------------------------------------------------------------------------
(* What the jobs may change, and what their exit codes mean                *)

\* The steps that are none of the two jobs'.
LEMMA JobsRest ==
    ASSUME WritersInv, [NatNext]_vars,
           ~(RotateStart \/ RotateLock \/ RotateNoLock \/ RotateWrite \/ RotateRestart),
           ~(UpdaterStart \/ UpdaterLock \/ UpdaterMove \/ UpdaterRestart), ~Killed
    PROVE  rot' = rot /\ upd' = upd
<1>1. CASE UNCHANGED vars
  BY <1>1 DEF vars
<1>2. CASE \E p \in Posts :
             \/ \E body \in Bodies : Submit(p, body)
             \/ Persist(p) \/ RecordPending(p) \/ AdminTakesLock(p) \/ CmdNatConfig(p)
             \/ CmdRestart(p) \/ RestartTimesOut(p) \/ RecordApplied(p) \/ RecordFailed(p)
  BY <1>2, PostStepMoves DEF PostMoves
<1>3. CASE OrphanEnds \/ RestartRoute \/ RenderRestart \/ JanusStarts \/ World \/ RenderWrite
  BY <1>3 DEF OrphanEnds, RestartRoute, RenderRestart, JanusStarts, World, RenderWrite, jobVars
<1>4. CASE ApplyConfig \/ SetNatMapping
  BY <1>4 DEF ApplyConfig, SetNatMapping, Rendering, jobVars
<1> QED
  BY <1>1, <1>2, <1>3, <1>4 DEF NatNext

LEMMA PatchStep ==
    ASSUME WritersInv, [NatNext]_vars, jcfg.turn
    PROVE  /\ rot' # rot => PatchJcfg(jcfg', 0) = PatchJcfg(jcfg, 0)
           /\ upd' # upd => [jcfg' EXCEPT !.map = NoMap] = [jcfg EXCEPT !.map = NoMap]
<1>0. IsFile(jcfg)
  BY DEF WritersInv, FileShape
<1>1. CASE RotateWrite
  <2>1. PICK f, n, g : f = jcfg /\ n = rot.new /\ g = jcfg'
    OBVIOUS
  <2>2. upd' = upd /\ (g = f \/ g = PatchJcfg(f, n))
    BY <1>1, <2>1 DEF RotateWrite, WritersInv, CopyInv
  <2>3. IsFile(f)
    BY <1>0, <2>1
  <2>4. IsFile(PatchJcfg(f, n)) /\ PatchJcfg(PatchJcfg(f, n), 0) = PatchJcfg(f, 0)
    BY <2>3, PatchFacts
  <2> QED
    BY <2>1, <2>2, <2>4
<1>2. CASE UpdaterMove
  <2>1. PICK f, m, g : f = jcfg /\ m = upd.ip /\ g = jcfg'
    OBVIOUS
  <2>2. rot' = rot /\ (g = f \/ g = [f EXCEPT !.map = m])
    BY <1>2, <2>1 DEF UpdaterMove, WritersInv, CopyInv
  <2>3. IsFile(f)
    BY <1>0, <2>1
  <2>4. PICK h : h = [f EXCEPT !.map = m]
    OBVIOUS
  <2>5. IsFile(h) /\ h = [turn |-> f.turn, user |-> f.user, pwd |-> f.pwd, map |-> m, ice |-> f.ice]
    BY <2>3, <2>4, MapFacts
  <2>6. [h EXCEPT !.map = NoMap] = [f EXCEPT !.map = NoMap]
    BY <2>3, <2>5, MapFacts
  <2> QED
    BY <2>1, <2>2, <2>4, <2>6
<1>3. CASE RotateStart \/ RotateLock \/ RotateNoLock \/ RotateRestart
  BY <1>3 DEF RotateStart, RotateLock, RotateNoLock, RotateRestart
<1>4. CASE UpdaterStart \/ UpdaterLock \/ UpdaterRestart
  BY <1>4 DEF UpdaterStart, UpdaterLock, UpdaterRestart
<1>5. CASE Killed
  BY <1>5 DEF Killed
<1> QED
  BY <1>1, <1>2, <1>3, <1>4, <1>5, JobsRest

\* A step of the rotator changes only the credentials of janus.jcfg and one of
\* the address updater only the mapping, whatever was written between their
\* decision to run and their turn on the lock.
THEOREM PatchesAreKept == NatSpec => NoLostPatch
<1>1. WritersInv /\ [NatNext]_vars
      => [jcfg.turn =>
            /\ rot' # rot => PatchJcfg(jcfg', 0) = PatchJcfg(jcfg, 0)
            /\ upd' # upd => [jcfg' EXCEPT !.map = NoMap] = [jcfg EXCEPT !.map = NoMap]]_vars
  BY PatchStep
<1> QED
  BY <1>1, WritersAgree, PTL DEF NatSpec, NoLostPatch

LEMMA ExitStep ==
    ASSUME WritersInv, [NatNext]_vars, jcfg.turn
    PROVE  /\ rot.pc = "restart" /\ rot'.pc = "off" /\ rot'.ok
                => live'.user = rot.new /\ live'.pwd = rot.new
           /\ upd.pc = "restart" /\ upd'.pc = "off" /\ upd'.ok
                => live'.map = upd.ip
<1>0. ~Exit(2).ok /\ ~Exit(3).ok
  <2>1. ~(2 = 0) /\ ~(3 = 0)
    OBVIOUS
  <2>2. PICK b, c : b = (2 = 0) /\ c = (3 = 0)
    OBVIOUS
  <2>3. Exit(2).ok = b /\ Exit(3).ok = c
    BY <2>2 DEF Exit
  <2> QED
    BY <2>1, <2>2, <2>3
<1>1. CASE RotateRestart
  BY <1>0, <1>1 DEF RotateRestart, RestartOk, WritersInv, CopyInv
<1>2. CASE UpdaterRestart
  BY <1>0, <1>2 DEF UpdaterRestart, RestartOk, WritersInv, CopyInv
<1>3. CASE RotateStart \/ RotateLock \/ RotateNoLock \/ RotateWrite
  BY <1>3 DEF RotateStart, RotateLock, RotateNoLock, RotateWrite
<1>4. CASE UpdaterStart \/ UpdaterLock \/ UpdaterMove
  BY <1>4 DEF UpdaterStart, UpdaterLock, UpdaterMove
<1>5. CASE Killed
  BY <1>0, <1>5 DEF Killed, jobVars
<1> QED
  BY <1>1, <1>2, <1>3, <1>4, <1>5, JobsRest

\* A rotation or an address update that exits 0 leaves Janus running with what
\* it wrote: nobody but the console gets between its write and its restart.
THEOREM ExitZeroIsLive == NatSpec => ExitZeroMeansLive
<1>1. WritersInv /\ [NatNext]_vars
      => [jcfg.turn =>
            /\ rot.pc = "restart" /\ rot'.pc = "off" /\ rot'.ok
                 => live'.user = rot.new /\ live'.pwd = rot.new
            /\ upd.pc = "restart" /\ upd'.pc = "off" /\ upd'.ok
                 => live'.map = upd.ip]_vars
  BY ExitStep
<1> QED
  BY <1>1, WritersAgree, PTL DEF NatSpec, ExitZeroMeansLive

-----------------------------------------------------------------------------
(* What the status sidecar says                                            *)

\* The ICE settings i are those of the file and of every copy of it that may
\* still be written back, unless the console's file is meant.
FileIs(i) ==
    /\ jcfg.turn => jcfg.ice = i
    /\ rot.pc = "write" /\ rot.copy.turn => rot.copy.ice = i
    /\ upd.pc = "move" /\ upd.copy.turn => upd.copy.ice = i

\* They are those of the running Janus, if one runs.
LiveIs(i) == live # None /\ live.turn => live.ice = i

IceOf(c) == Render(c).ice

OneRunning == \A p, q \in Posts : Running(p) /\ Running(q) => p = q

\* From the patch on the sidecar no longer says "applied"; a request past its
\* patch finds its settings in the file, past its restart in Janus too.
StageOf(p) ==
    /\ post[p].pc \in {"patch", "patching", "restart", "restarting", "applied"}
         => status.st # "applied"
    /\ post[p].pc \in {"restart", "restarting", "applied"} => FileIs(IceOf(post[p].cfg))
    /\ post[p].pc = "applied" => LiveIs(IceOf(post[p].cfg))

StageInv == \A p \in Posts : StageOf(p)

StatusInv ==
    status.st = "applied" => FileIs(IceOf(status.hash)) /\ LiveIs(IceOf(status.hash))

IceInv == clean => OneRunning /\ StageInv /\ StatusInv

\* A step that brings no new ICE settings: what it writes to the file, to a
\* copy or into Janus was already in one of them, or is the console's.
Neutral ==
    /\ \/ jcfg' = jcfg
       \/ jcfg'.turn = FALSE
       \/ rot.pc = "write" /\ jcfg'.turn = rot.copy.turn /\ jcfg'.ice = rot.copy.ice
       \/ upd.pc = "move" /\ jcfg' = upd.copy
    /\ rot'.pc = "write" => rot' = rot \/ rot'.copy = jcfg
    /\ upd'.pc = "move" => \/ upd' = upd
                           \/ upd'.copy.turn = jcfg.turn /\ upd'.copy.ice = jcfg.ice
    /\ live' \in {live, jcfg, None}

LEMMA NeutralFile ==
    ASSUME Neutral, NEW i, FileIs(i)
    PROVE  FileIs(i)'
  BY DEF Neutral, FileIs

LEMMA NeutralLive ==
    ASSUME Neutral, NEW i, FileIs(i), LiveIs(i)
    PROVE  LiveIs(i)'
  BY DEF Neutral, FileIs, LiveIs

LEMMA NeutralStatus ==
    ASSUME Neutral, StatusInv, status' = status
    PROVE  StatusInv'
<1> SUFFICES ASSUME status.st = "applied" PROVE FileIs(IceOf(status.hash))' /\ LiveIs(IceOf(status.hash))'
  BY DEF StatusInv
<1>1. PICK i : i = IceOf(status.hash) /\ i = IceOf(status'.hash)
  OBVIOUS
<1>2. FileIs(i) /\ LiveIs(i)
  BY <1>1 DEF StatusInv
<1>3. FileIs(i)' /\ LiveIs(i)'
  BY <1>2, NeutralFile, NeutralLive
<1> QED
  BY <1>1, <1>3 DEF FileIs, LiveIs

LEMMA NeutralStage ==
    ASSUME Neutral, NEW p \in Posts, StageOf(p), status' = status,
           post'[p] = post[p] \/ post'[p].pc \in {"done", "failed", "persist", "pending"}
    PROVE  StageOf(p)'
<1>1. CASE post'[p].pc \in {"done", "failed", "persist", "pending"}
  BY <1>1 DEF StageOf
<1>2. CASE post'[p] = post[p]
  <2>1. PICK i : i = IceOf(post[p].cfg) /\ i = IceOf(post'[p].cfg)
    BY <1>2
  <2>2. /\ post[p].pc \in {"restart", "restarting", "applied"} => FileIs(i)
        /\ post[p].pc = "applied" => LiveIs(i)
    BY <2>1 DEF StageOf
  <2>3. FileIs(i) => FileIs(i)'
    BY NeutralFile
  <2>4. FileIs(i) /\ LiveIs(i) => LiveIs(i)'
    BY NeutralLive
  <2>5. /\ post'[p].pc \in {"restart", "restarting", "applied"} => FileIs(i)'
        /\ post'[p].pc = "applied" => LiveIs(i)'
    BY <1>2, <2>2, <2>3, <2>4
  <2> QED
    BY <1>2, <2>1, <2>5 DEF StageOf, FileIs, LiveIs
<1> QED
  BY <1>1, <1>2

\* Every step that is none of a request's patch, restart or status keeps the
\* invariant: jobs, console, restarts, kills.
LEMMA NeutralKeeps ==
    ASSUME IceInv, Neutral, status' = status, clean' => clean,
           \A p \in Posts : post'[p] = post[p] \/ post'[p].pc = "done"
    PROVE  IceInv'
<1> SUFFICES ASSUME clean PROVE OneRunning' /\ StageInv' /\ StatusInv'
  BY DEF IceInv
<1>1. OneRunning /\ StageInv /\ StatusInv
  BY DEF IceInv
<1>2. OneRunning'
  BY <1>1 DEF OneRunning, Running
<1>3. ASSUME NEW p \in Posts PROVE StageOf(p)'
  BY <1>1, NeutralStage DEF StageInv
<1> QED
  BY <1>1, <1>2, <1>3, NeutralStatus DEF StageInv

\* A step of the one request that runs.
LEMMA RunnerKeeps ==
    ASSUME IceInv, NEW p \in Posts, Running(p), clean' => clean,
           \A q \in Posts \ {p} : post'[q] = post[q],
           clean' => StageOf(p)' /\ StatusInv'
    PROVE  IceInv'
<1> SUFFICES ASSUME clean, clean' PROVE OneRunning' /\ StageInv' /\ StatusInv'
  BY DEF IceInv
<1>1. OneRunning
  BY DEF IceInv
<1>2. \A q \in Posts \ {p} : post'[q] = post[q] /\ post[q].pc \in {"new", "done"}
  BY <1>1 DEF OneRunning, Running
<1>3. OneRunning'
  BY <1>2 DEF OneRunning, Running
<1>4. ASSUME NEW q \in Posts PROVE StageOf(q)'
  <2>1. CASE q = p
    BY <2>1
  <2>2. CASE q # p
    BY <1>2, <2>2 DEF StageOf
  <2> QED
    BY <2>1, <2>2
<1> QED
  BY <1>3, <1>4 DEF StageInv

LEMMA IceSubmit ==
    ASSUME WritersInv, IceInv, NEW p \in Posts, NEW body \in Bodies, Submit(p, body)
    PROVE  IceInv'
<1> SUFFICES ASSUME clean' PROVE OneRunning' /\ StageInv' /\ StatusInv'
  BY DEF IceInv
<1>1. /\ clean /\ \A q \in Posts : ~Running(q)
      /\ status' = status /\ jcfg' = jcfg /\ live' = live /\ rot' = rot /\ upd' = upd
  BY DEF Submit, jobVars
<1>2. /\ post'[p].pc = "persist" /\ \A q \in Posts \ {p} : post'[q] = post[q]
  BY DEF Submit, WritersInv, PostShape
<1>3. Neutral
  BY <1>1 DEF Neutral
<1>4. StatusInv'
  BY <1>1, <1>3, NeutralStatus DEF IceInv
<1>5. OneRunning'
  BY <1>1, <1>2 DEF OneRunning, Running
<1>6. ASSUME NEW q \in Posts PROVE StageOf(q)'
  BY <1>1, <1>2, <1>3, NeutralStage DEF IceInv, StageInv
<1> QED
  BY <1>4, <1>5, <1>6 DEF StageInv

\* The stages that touch neither file nor Janus nor sidecar.
LEMMA IcePersist ==
    ASSUME WritersInv, IceInv, NEW p \in Posts, Persist(p)
    PROVE  IceInv'
<1>1. /\ Running(p) /\ (Goto(p, "pending") \/ Goto(p, "failed")) /\ clean' = clean
      /\ status' = status /\ jcfg' = jcfg /\ live' = live /\ rot' = rot /\ upd' = upd
  BY DEF Persist, jobVars, Running
<1>2. MovedTo(p, "pending") \/ MovedTo(p, "failed")
  BY <1>1, GotoFacts DEF WritersInv
<1>3. /\ post'[p].pc \in {"pending", "failed"} /\ \A q \in Posts \ {p} : post'[q] = post[q]
  BY <1>2 DEF MovedTo
<1>4. Neutral
  BY <1>1 DEF Neutral
<1>5. clean' => StatusInv'
  BY <1>1, <1>4, NeutralStatus DEF IceInv
<1>6. StageOf(p)'
  BY <1>3 DEF StageOf
<1> QED
  BY <1>1, <1>3, <1>5, <1>6, RunnerKeeps

LEMMA IceAdminTakesLock ==
    ASSUME WritersInv, IceInv, NEW p \in Posts, AdminTakesLock(p)
    PROVE  IceInv'
<1>1. /\ Running(p) /\ clean' = clean
      /\ \/ Goto(p, "patching") /\ post[p].pc = "patch"
         \/ Goto(p, "restarting") /\ post[p].pc = "restart"
         \/ Goto(p, "failed")
      /\ status' = status /\ jcfg' = jcfg /\ live' = live /\ rot' = rot /\ upd' = upd
  BY DEF AdminTakesLock, jobVars, Running
<1>2. Neutral
  BY <1>1 DEF Neutral
<1>3. clean' => StatusInv'
  BY <1>1, <1>2, NeutralStatus DEF IceInv
<1>4. ASSUME clean, MovedTo(p, "patching"), post[p].pc = "patch" PROVE StageOf(p)'
  BY <1>1, <1>4 DEF MovedTo, StageOf, IceInv, StageInv
<1>5. ASSUME clean, MovedTo(p, "restarting"), post[p].pc = "restart" PROVE StageOf(p)'
  <2>1. PICK i : i = IceOf(post[p].cfg) /\ i = IceOf(post'[p].cfg)
    BY <1>5 DEF MovedTo
  <2>2. FileIs(i) /\ status.st # "applied"
    BY <1>5, <2>1 DEF StageOf, IceInv, StageInv
  <2>3. FileIs(i)'
    BY <1>2, <2>2, NeutralFile
  <2> QED
    BY <1>1, <1>5, <2>1, <2>2, <2>3 DEF MovedTo, StageOf, FileIs
<1>6. ASSUME MovedTo(p, "failed") PROVE StageOf(p)'
  BY <1>6 DEF MovedTo, StageOf
<1>7. CASE Goto(p, "patching") /\ post[p].pc = "patch"
  <2>1. MovedTo(p, "patching")
    BY <1>1, <1>7, GotoFacts DEF WritersInv
  <2>2. \A q \in Posts \ {p} : post'[q] = post[q]
    BY <2>1 DEF MovedTo
  <2> QED
    BY <1>1, <1>3, <1>4, <1>7, <2>1, <2>2, RunnerKeeps
<1>8. CASE Goto(p, "restarting") /\ post[p].pc = "restart"
  <2>1. MovedTo(p, "restarting")
    BY <1>1, <1>8, GotoFacts DEF WritersInv
  <2>2. \A q \in Posts \ {p} : post'[q] = post[q]
    BY <2>1 DEF MovedTo
  <2> QED
    BY <1>1, <1>3, <1>5, <1>8, <2>1, <2>2, RunnerKeeps
<1>9. CASE Goto(p, "failed")
  <2>1. MovedTo(p, "failed")
    BY <1>1, <1>9, GotoFacts DEF WritersInv
  <2>2. \A q \in Posts \ {p} : post'[q] = post[q]
    BY <2>1 DEF MovedTo
  <2> QED
    BY <1>1, <1>3, <1>6, <2>1, <2>2, RunnerKeeps
<1> QED
  BY <1>1, <1>7, <1>8, <1>9

\* The sidecar: "pending" and "failed" promise nothing, "applied" what the
\* stage before has seen.  A lost write ends the promise.
LEMMA IceRecordPending ==
    ASSUME WritersInv, IceInv, NEW p \in Posts, RecordPending(p)
    PROVE  IceInv'
<1>1. /\ Running(p) /\ Goto(p, "patch") /\ (clean' => clean)
      /\ clean' => status' = [st |-> "pending", hash |-> post[p].cfg]
  BY DEF RecordPending, SetStatus, Running
<1>2. MovedTo(p, "patch")
  BY <1>1, GotoFacts DEF WritersInv
<1>3. clean' => status'.st = "pending"
  BY <1>1
<1>4. clean' => StatusInv'
  BY <1>3 DEF StatusInv
<1>5. clean' => StageOf(p)'
  BY <1>2, <1>3 DEF StageOf, MovedTo
<1>6. \A q \in Posts \ {p} : post'[q] = post[q]
  BY <1>2 DEF MovedTo
<1> QED
  BY <1>1, <1>4, <1>5, <1>6, RunnerKeeps

LEMMA IceRecordFailed ==
    ASSUME WritersInv, IceInv, NEW p \in Posts, RecordFailed(p)
    PROVE  IceInv'
<1>1. /\ Running(p) /\ End(p) /\ (clean' => clean)
      /\ clean' => status' = [st |-> "failed", hash |-> post[p].cfg]
  BY DEF RecordFailed, SetStatus, Running
<1>2. post'[p].pc = "done" /\ \A q \in Posts \ {p} : post'[q] = post[q]
  BY <1>1, EndFacts DEF WritersInv
<1>3. clean' => status'.st = "failed"
  BY <1>1
<1>4. clean' => StatusInv'
  BY <1>3 DEF StatusInv
<1>5. StageOf(p)'
  BY <1>2 DEF StageOf
<1> QED
  BY <1>1, <1>2, <1>4, <1>5, RunnerKeeps

LEMMA IceRecordApplied ==
    ASSUME WritersInv, IceInv, NEW p \in Posts, RecordApplied(p)
    PROVE  IceInv'
<1>1. /\ Running(p) /\ post[p].pc = "applied" /\ End(p) /\ (clean' => clean)
      /\ clean' => status' = [st |-> "applied", hash |-> post[p].cfg]
      /\ jcfg' = jcfg /\ live' = live /\ rot' = rot /\ upd' = upd
  BY DEF RecordApplied, SetStatus, Running, jobVars
<1>2. post'[p].pc = "done" /\ \A q \in Posts \ {p} : post'[q] = post[q]
  BY <1>1, EndFacts DEF WritersInv
<1>3. ASSUME clean' PROVE StatusInv'
  <2>1. PICK i : i = IceOf(post[p].cfg)
    OBVIOUS
  <2>2. FileIs(i) /\ LiveIs(i)
    BY <1>1, <1>3, <2>1 DEF IceInv, StageInv, StageOf
  <2>3. i = IceOf(status'.hash)
    BY <1>1, <1>3, <2>1
  <2>4. FileIs(i)' /\ LiveIs(i)'
    BY <1>1, <2>2 DEF FileIs, LiveIs
  <2> QED
    BY <2>3, <2>4 DEF StatusInv, FileIs, LiveIs
<1>4. StageOf(p)'
  BY <1>2 DEF StageOf
<1> QED
  BY <1>1, <1>2, <1>3, <1>4, RunnerKeeps

\* The patch: the file is the request's own, and nobody holds a copy.
LEMMA IceCmdNatConfig ==
    ASSUME WritersInv, IceInv, NEW p \in Posts, CmdNatConfig(p)
    PROVE  IceInv'
<1>1. /\ Running(p) /\ post[p].pc = "patching" /\ lock = p /\ clean' = clean
      /\ status' = status /\ live' = live /\ rot' = rot /\ upd' = upd
      /\ \/ jcfg' = Render(post[p].cfg) /\ Goto(p, "restart")
         \/ jcfg' = jcfg /\ Goto(p, "failed")
  BY DEF CmdNatConfig, jobVars, Running, WritersInv, LockInv
<1>2. CASE jcfg' = jcfg /\ Goto(p, "failed")
  <2>1. MovedTo(p, "failed")
    BY <1>1, <1>2, GotoFacts DEF WritersInv
  <2>2. Neutral
    BY <1>1, <1>2 DEF Neutral
  <2>3. clean' => StatusInv'
    BY <1>1, <2>2, NeutralStatus DEF IceInv
  <2>4. StageOf(p)' /\ \A q \in Posts \ {p} : post'[q] = post[q]
    BY <2>1 DEF StageOf, MovedTo
  <2> QED
    BY <1>1, <2>3, <2>4, RunnerKeeps
<1>3. CASE jcfg' = Render(post[p].cfg) /\ Goto(p, "restart")
  <2>1. MovedTo(p, "restart")
    BY <1>1, <1>3, GotoFacts DEF WritersInv
  <2>2. PICK i : i = IceOf(post[p].cfg) /\ i = IceOf(post'[p].cfg)
    BY <2>1 DEF MovedTo
  <2>3. rot.pc # "write" /\ upd.pc # "move"
    BY <1>1, PostsAreNoNames DEF WritersInv, LockInv
  <2>4. FileIs(i)'
    BY <1>1, <1>3, <2>2, <2>3 DEF FileIs, IceOf
  <2>5. clean => status.st # "applied"
    BY <1>1 DEF IceInv, StageInv, StageOf
  <2>6. clean' => StageOf(p)'
    BY <1>1, <2>1, <2>2, <2>4, <2>5 DEF StageOf, MovedTo, FileIs
  <2>7. clean' => StatusInv'
    BY <1>1, <2>5 DEF StatusInv
  <2>8. \A q \in Posts \ {p} : post'[q] = post[q]
    BY <2>1 DEF MovedTo
  <2> QED
    BY <1>1, <2>6, <2>7, <2>8, RunnerKeeps
<1> QED
  BY <1>1, <1>2, <1>3

\* The restart: Janus reads the file.
LEMMA IceCmdRestart ==
    ASSUME WritersInv, IceInv, NEW p \in Posts, CmdRestart(p)
    PROVE  IceInv'
<1>1. /\ Running(p) /\ post[p].pc = "restarting" /\ clean' = clean
      /\ status' = status /\ jcfg' = jcfg /\ rot' = rot /\ upd' = upd
      /\ \/ live' = jcfg /\ Goto(p, "applied")
         \/ live' \in {live, jcfg, None} /\ Goto(p, "failed")
  BY DEF CmdRestart, RestartOk, RestartFails, jobVars, Running
<1>2. Neutral
  BY <1>1 DEF Neutral
<1>3. clean' => StatusInv'
  BY <1>1, <1>2, NeutralStatus DEF IceInv
<1>4. CASE Goto(p, "failed")
  <2>1. MovedTo(p, "failed")
    BY <1>1, <1>4, GotoFacts DEF WritersInv
  <2>2. StageOf(p)' /\ \A q \in Posts \ {p} : post'[q] = post[q]
    BY <2>1 DEF StageOf, MovedTo
  <2> QED
    BY <1>1, <1>3, <2>2, RunnerKeeps
<1>5. CASE live' = jcfg /\ Goto(p, "applied")
  <2>1. MovedTo(p, "applied")
    BY <1>1, <1>5, GotoFacts DEF WritersInv
  <2>2. PICK i : i = IceOf(post[p].cfg) /\ i = IceOf(post'[p].cfg)
    BY <2>1 DEF MovedTo
  <2>3. ASSUME clean PROVE StageOf(p)'
    <3>1. FileIs(i) /\ status.st # "applied"
      BY <1>1, <2>2, <2>3 DEF IceInv, StageInv, StageOf
    <3>2. FileIs(i)'
      BY <1>2, <3>1, NeutralFile
    <3>3. LiveIs(i)'
      BY <1>5, <3>1 DEF FileIs, LiveIs
    <3> QED
      BY <1>1, <2>1, <2>2, <3>1, <3>2, <3>3 DEF StageOf, MovedTo, FileIs, LiveIs
  <2>4. \A q \in Posts \ {p} : post'[q] = post[q]
    BY <2>1 DEF MovedTo
  <2> QED
    BY <1>1, <1>3, <2>3, <2>4, RunnerKeeps
<1> QED
  BY <1>1, <1>4, <1>5

LEMMA IceRestartTimesOut ==
    ASSUME WritersInv, IceInv, NEW p \in Posts, RestartTimesOut(p)
    PROVE  IceInv'
<1>1. /\ Running(p) /\ (Goto(p, "failed") \/ End(p)) /\ clean' = clean
      /\ status' = status /\ jcfg' = jcfg /\ live' = live /\ rot' = rot /\ upd' = upd
  BY DEF RestartTimesOut, jobVars, Running
<1>2. Neutral
  BY <1>1 DEF Neutral
<1>3. clean' => StatusInv'
  BY <1>1, <1>2, NeutralStatus DEF IceInv
<1>4. CASE Goto(p, "failed")
  <2>1. MovedTo(p, "failed")
    BY <1>1, <1>4, GotoFacts DEF WritersInv
  <2>2. StageOf(p)' /\ \A q \in Posts \ {p} : post'[q] = post[q]
    BY <2>1 DEF StageOf, MovedTo
  <2> QED
    BY <1>1, <1>3, <2>2, RunnerKeeps
<1>5. CASE End(p)
  <2>1. post'[p].pc = "done" /\ \A q \in Posts \ {p} : post'[q] = post[q]
    BY <1>5, EndFacts DEF WritersInv
  <2>2. StageOf(p)'
    BY <2>1 DEF StageOf
  <2> QED
    BY <1>1, <1>3, <2>1, <2>2, RunnerKeeps
<1> QED
  BY <1>1, <1>4, <1>5

LEMMA BystandersAreNeutral ==
    ASSUME \/ OrphanEnds \/ RestartRoute \/ ApplyConfig \/ SetNatMapping
           \/ RenderRestart \/ JanusStarts \/ World
    PROVE  Neutral /\ status' = status /\ clean' = clean /\ post' = post
<1>1. CASE OrphanEnds \/ RestartRoute \/ RenderRestart
  BY <1>1 DEF OrphanEnds, RestartRoute, RenderRestart, RestartOk, RestartFails, jobVars, Neutral
<1>2. CASE JanusStarts \/ World
  BY <1>2 DEF JanusStarts, World, jobVars, Neutral
<1>3. CASE ApplyConfig \/ SetNatMapping
  BY <1>3 DEF ApplyConfig, SetNatMapping, Rendering, jobVars, Neutral
<1> QED
  BY <1>1, <1>2, <1>3

LEMMA RotatorIsNeutral ==
    ASSUME WritersInv, RotateStart \/ RotateLock \/ RotateNoLock \/ RotateWrite \/ RotateRestart
    PROVE  Neutral /\ status' = status /\ clean' = clean /\ post' = post
<1>1. CASE RotateStart \/ RotateNoLock
  <2>1. rot'.pc # "write"
    BY <1>1, ExitStops DEF RotateStart, RotateNoLock
  <2> QED
    BY <1>1, <2>1 DEF RotateStart, RotateNoLock, Neutral
<1>2. CASE RotateLock
  BY <1>2 DEF RotateLock, Neutral
<1>3. CASE RotateRestart
  <2>1. rot'.pc # "write"
    BY <1>3, ExitStops DEF RotateRestart
  <2> QED
    BY <1>3, <2>1 DEF RotateRestart, RestartOk, RestartFails, Neutral
<1>4. CASE RotateWrite
  <2>1. PICK f, n : f = rot.copy /\ n = rot.new
    OBVIOUS
  <2>2. IsFile(f)
    BY <1>4, <2>1 DEF RotateWrite, WritersInv, FileShape
  <2>3. PatchJcfg(f, n).turn = f.turn /\ PatchJcfg(f, n).ice = f.ice
    BY <2>2, PatchFacts
  <2>4. rot'.pc # "write" /\ (jcfg' = jcfg \/ jcfg' = PatchJcfg(f, n))
    BY <1>4, <2>1, ExitStops DEF RotateWrite
  <2>5. rot.pc = "write" /\ upd' = upd /\ live' = live /\ status' = status /\ clean' = clean /\ post' = post
    BY <1>4 DEF RotateWrite
  <2> QED
    BY <2>1, <2>3, <2>4, <2>5 DEF Neutral
<1> QED
  BY <1>1, <1>2, <1>3, <1>4

LEMMA UpdaterIsNeutral ==
    ASSUME WritersInv, UpdaterStart \/ UpdaterLock \/ UpdaterMove \/ UpdaterRestart
    PROVE  Neutral /\ status' = status /\ clean' = clean /\ post' = post
<1>1. CASE UpdaterStart
  <2>1. upd'.pc # "move"
    BY <1>1, ExitStops DEF UpdaterStart
  <2> QED
    BY <1>1, <2>1 DEF UpdaterStart, Neutral
<1>2. CASE UpdaterMove
  <2>1. upd'.pc # "move"
    BY <1>2, ExitStops DEF UpdaterMove
  <2> QED
    BY <1>2, <2>1 DEF UpdaterMove, Neutral
<1>3. CASE UpdaterRestart
  <2>1. upd'.pc # "move"
    BY <1>3, ExitStops DEF UpdaterRestart
  <2> QED
    BY <1>3, <2>1 DEF UpdaterRestart, RestartOk, RestartFails, Neutral
<1>4. CASE UpdaterLock
  <2>1. PICK f, m : f = jcfg /\ m = upd.ip
    OBVIOUS
  <2>2. IsFile(f)
    BY <2>1 DEF WritersInv, FileShape
  <2>3. [f EXCEPT !.map = m].turn = f.turn /\ [f EXCEPT !.map = m].ice = f.ice
    BY <2>2, MapFacts
  <2>4. upd'.pc # "move" \/ upd'.copy = [f EXCEPT !.map = m]
    BY <1>4, <2>1, ExitStops DEF UpdaterLock
  <2>5. jcfg' = jcfg /\ rot' = rot /\ live' = live /\ status' = status /\ clean' = clean /\ post' = post
    BY <1>4 DEF UpdaterLock
  <2> QED
    BY <2>1, <2>3, <2>4, <2>5 DEF Neutral
<1> QED
  BY <1>1, <1>2, <1>3, <1>4

LEMMA ConsoleIsNeutral ==
    ASSUME WritersInv, RenderWrite
    PROVE  Neutral /\ status' = status /\ clean' = clean /\ post' = post
  BY DEF RenderWrite, WritersInv, FileShape, jobVars, Neutral

LEMMA KilledIsNeutral ==
    ASSUME WritersInv, Killed
    PROVE  /\ Neutral /\ status' = status /\ clean' = clean
           /\ \A p \in Posts : post'[p] = post[p] \/ post'[p].pc = "done"
<1>0. jcfg' = jcfg /\ live' = live /\ status' = status /\ clean' = clean
  BY DEF Killed
<1>1. CASE \E p \in Posts : Running(p) /\ End(p) /\ Dropped(p) /\ UNCHANGED jobVars
  <2>1. PICK p \in Posts : End(p) /\ UNCHANGED jobVars
    BY <1>1
  <2>2. post'[p].pc = "done" /\ \A q \in Posts \ {p} : post'[q] = post[q]
    BY <2>1, EndFacts DEF WritersInv
  <2> QED
    BY <1>0, <2>1, <2>2 DEF jobVars, Neutral
<1>2. CASE rot' = Exit(2) /\ UNCHANGED <<post, upd, cache>>
  BY <1>0, <1>2, ExitStops DEF Neutral
<1>3. CASE upd' = Exit(3) /\ UNCHANGED <<post, rot, cache>>
  BY <1>0, <1>3, ExitStops DEF Neutral
<1> QED
  BY <1>1, <1>2, <1>3 DEF Killed

LEMMA IceInit == NatInit => IceInv
<1> SUFFICES ASSUME NatInit PROVE OneRunning /\ StageInv /\ StatusInv
  BY DEF IceInv
<1>1. /\ \A p \in Posts : post[p] = [pc |-> "new"]
      /\ status = [st |-> "unknown", hash |-> None]
  BY DEF NatInit
<1>2. /\ \A p \in Posts : post[p].pc = "new"
      /\ status.st = "unknown"
  BY <1>1
<1> QED
  BY <1>2 DEF OneRunning, StageInv, StageOf, StatusInv, Running

LEMMA IceStep == WritersInv /\ IceInv /\ [NatNext]_vars => IceInv'
<1> SUFFICES ASSUME WritersInv, IceInv, [NatNext]_vars PROVE IceInv'
  OBVIOUS
<1>1. CASE UNCHANGED vars
  <2>1. Neutral /\ status' = status /\ clean' = clean /\ post' = post
    BY <1>1 DEF vars, Neutral
  <2> QED
    BY <2>1, NeutralKeeps
<1>2. CASE \E p \in Posts : \E body \in Bodies : Submit(p, body)
  BY <1>2, IceSubmit
<1>3. CASE \E p \in Posts : \/ Persist(p) \/ RecordPending(p) \/ AdminTakesLock(p) \/ CmdNatConfig(p)
                          \/ CmdRestart(p) \/ RestartTimesOut(p) \/ RecordApplied(p) \/ RecordFailed(p)
  BY <1>3, IcePersist, IceRecordPending, IceAdminTakesLock, IceCmdNatConfig, IceCmdRestart,
     IceRestartTimesOut, IceRecordApplied, IceRecordFailed
<1>4. CASE \/ OrphanEnds \/ RestartRoute \/ ApplyConfig \/ SetNatMapping
           \/ RenderRestart \/ JanusStarts \/ World
  <2>1. Neutral /\ status' = status /\ clean' = clean /\ post' = post
    BY <1>4, BystandersAreNeutral
  <2> QED
    BY <2>1, NeutralKeeps
<1>5. CASE RotateStart \/ RotateLock \/ RotateNoLock \/ RotateWrite \/ RotateRestart
  <2>1. Neutral /\ status' = status /\ clean' = clean /\ post' = post
    BY <1>5, RotatorIsNeutral
  <2> QED
    BY <2>1, NeutralKeeps
<1>6. CASE UpdaterStart \/ UpdaterLock \/ UpdaterMove \/ UpdaterRestart
  <2>1. Neutral /\ status' = status /\ clean' = clean /\ post' = post
    BY <1>6, UpdaterIsNeutral
  <2> QED
    BY <2>1, NeutralKeeps
<1>7. CASE RenderWrite
  <2>1. Neutral /\ status' = status /\ clean' = clean /\ post' = post
    BY <1>7, ConsoleIsNeutral
  <2> QED
    BY <2>1, NeutralKeeps
<1>8. CASE Killed
  <2>1. /\ Neutral /\ status' = status /\ clean' = clean
        /\ \A p \in Posts : post'[p] = post[p] \/ post'[p].pc = "done"
    BY <1>8, KilledIsNeutral
  <2> QED
    BY <2>1, NeutralKeeps
<1> QED
  BY <1>1, <1>2, <1>3, <1>4, <1>5, <1>6, <1>7, <1>8 DEF NatNext

\* A sidecar that says "applied" for the stored configuration tells the truth
\* about the ICE settings in the file and in the running Janus, through failed
\* and late restarts, kills and the other writers, as long as updates do not
\* overlap and no write of the sidecar is lost.
THEOREM AppliedTellsTruth == NatSpec => []AppliedIsLive
<1>1. IceInv => AppliedIsLive
  <2> SUFFICES ASSUME IceInv, clean, status.st = "applied", status.hash = desired
               PROVE  /\ jcfg.turn => jcfg.ice = Render(desired).ice
                      /\ live # None /\ live.turn => live.ice = Render(desired).ice
    BY DEF AppliedIsLive
  <2>1. PICK i : i = IceOf(status.hash)
    OBVIOUS
  <2>2. FileIs(i) /\ LiveIs(i)
    BY <2>1 DEF IceInv, StatusInv
  <2>3. i = Render(desired).ice
    BY <2>1 DEF IceOf
  <2> QED
    BY <2>2, <2>3 DEF FileIs, LiveIs
<1> QED
  BY <1>1, WritersAgree, IceInit, IceStep, PTL DEF NatSpec
=============================================================================
