------------------------------ MODULE JanusNat ------------------------------
(***************************************************************************)
(* janus.jcfg and its writers.  The admin update (POST /janus/nat, which   *)
(* calls the janus-admin CLI once to patch the NAT block and once to       *)
(* restart), the daily rotation of the TURN credentials and the cron job   *)
(* that follows the public address take the flock                          *)
(* /var/lock/janus-jcfg.lock.  The configuration console renders the whole *)
(* file from its template and takes no lock.  Janus reads the file only    *)
(* when it starts.                                                         *)
(*                                                                         *)
(* A credential is the number that is its expiry time (0: a static one);   *)
(* user and password match when they are the same number.                  *)
(***************************************************************************)
EXTENDS Integers, FiniteSets

CONSTANTS
    Posts,     \* the POST /janus/nat requests of a behaviour
    Bodies,    \* the configurations an administrator submits
    Maps,      \* the public addresses; NoMap is the empty nat_1_1_mapping
    NoMap,
    Ttl,       \* ttl_days
    Before,    \* before_days
    MaxNow,    \* bound: days that pass
    MaxFaults  \* bound: failed commands, lost writes, killed processes

ASSUME NatAssumption ==
    /\ Posts \cap {"free", "orphan", "rotator", "updater"} = {}
    /\ NoMap \notin Maps
    /\ Bodies \subseteq [user : Nat, pwd : Nat, map : Maps \cup {NoMap}, enforce : STRING]
    /\ Before \in Nat /\ Ttl \in Nat /\ Before < Ttl
    /\ MaxNow \in Nat /\ MaxFaults \in Nat

VARIABLES
    desired,  \* janus-nat.json (None: no file)
    status,   \* janus-nat.status.json: [st, hash]
    jcfg,     \* the NAT block of janus.jcfg
    live,     \* the block the running Janus has read (None: Janus is down)
    lock,     \* holder of the flock, or Free
    post,     \* [Posts -> [pc, cfg]], the update requests
    rot,      \* the rotator: pc, and its copy, new credentials or exit code
    upd,      \* the address updater: pc, and its address, copy or exit code
    cache,    \* IP_CACHE
    con,      \* a render by the console: [pc, file, restart]
    now, ip,  \* the day and the public address
    faults,   \* faults so far
    clean     \* history: no two updates overlapped, no status write was lost

vars == <<desired, status, jcfg, live, lock, post, rot, upd, cache, con, now, ip, faults, clean>>
jobVars == <<rot, upd, cache>>
worldVars == <<now, ip, con>>

None == [none |-> TRUE]
Free == "free"
NoEnforce == "empty"

\* JanusNatConfig, its default, and what the model keeps of it.
Default == [user |-> 0, pwd |-> 0, map |-> NoMap, enforce |-> NoEnforce]

\* render_nat_block: the enforce list wins over the ignore list.  turn: the
\* turn_* lines count (the template has them as comments).
Render(cfg) ==
    [turn |-> TRUE, user |-> cfg.user, pwd |-> cfg.pwd, map |-> cfg.map,
     ice |-> IF cfg.enforce # NoEnforce THEN <<"enforce", cfg.enforce>> ELSE <<"ignore">>]

\* load_nat_config on the colour camera.
LoadNat == IF desired = None THEN Default ELSE desired

\* A rotator or updater that is not running; ok: its last run exited 0.
Exit(code) == [pc |-> "off", ok |-> code = 0]

NatInit ==
    /\ desired = None /\ status = [st |-> "unknown", hash |-> None]
    /\ jcfg = Render(Default) /\ live = jcfg /\ lock = Free
    /\ post = [p \in Posts |-> [pc |-> "new"]]
    /\ rot = Exit(0) /\ upd = Exit(0)
    /\ cache = NoMap /\ con = [pc |-> "new"] /\ now = 0 /\ ip \in Maps /\ faults = 0 /\ clean = TRUE

-----------------------------------------------------------------------------
Fault == faults < MaxFaults /\ faults' = faults + 1

\* jcfg_lock: taken when free; a waiter gives up after 60 s.
JcfgLock(p) == lock = Free /\ lock' = p
LockTimeout == lock # Free /\ Fault

\* systemctl restart janus.service: True, or False with Janus in any state
\* (still up, down, or started after the 60 s the caller waited).
RestartOk == live' = jcfg /\ UNCHANGED faults
RestartFails == Fault /\ live' \in {live, jcfg, None}

-----------------------------------------------------------------------------
(* POST /janus/nat: update_nat_config.  pc is the next stage.              *)

Goto(p, pc) == post' = [post EXCEPT ![p].pc = pc]
End(p) == post' = [post EXCEPT ![p] = [pc |-> "done"]]

Running(p) == post[p].pc \notin {"new", "done"}

\* The request comes in; an empty or masked password keeps the stored one.
Submit(p, body) ==
    /\ post[p].pc = "new"
    /\ post' = [post EXCEPT ![p] =
         [pc |-> "persist", cfg |-> IF body.pwd = 0 THEN [body EXCEPT !.pwd = LoadNat.pwd] ELSE body]]
    /\ clean' = (clean /\ ~\E q \in Posts : Running(q))
    /\ UNCHANGED <<desired, status, jcfg, live, lock, jobVars, worldVars, faults>>

\* 1. save_nat_config.
Persist(p) ==
    /\ post[p].pc = "persist"
    /\ \/ desired' = post[p].cfg /\ Goto(p, "pending") /\ UNCHANGED faults
       \/ Fault /\ Goto(p, "failed") /\ UNCHANGED desired
    /\ UNCHANGED <<status, jcfg, live, lock, jobVars, worldVars, clean>>

\* _set_status: the sidecar is written, or the failure is swallowed.
SetStatus(p, st) ==
    \/ status' = [st |-> st, hash |-> post[p].cfg] /\ UNCHANGED <<faults, clean>>
    \/ Fault /\ clean' = FALSE /\ UNCHANGED status

RecordPending(p) ==
    /\ post[p].pc = "pending" /\ SetStatus(p, "pending") /\ Goto(p, "patch")
    /\ UNCHANGED <<desired, jcfg, live, lock, jobVars, worldVars>>

RecordFailed(p) ==
    /\ post[p].pc = "failed" /\ SetStatus(p, "failed") /\ End(p)
    /\ UNCHANGED <<desired, jcfg, live, lock, jobVars, worldVars>>

RecordApplied(p) ==
    /\ post[p].pc = "applied" /\ SetStatus(p, "applied") /\ End(p)
    /\ UNCHANGED <<desired, jcfg, live, lock, jobVars, worldVars>>

\* 2. and 3.: the janus-admin process of the stage takes the lock; or it does
\* not get it, or could not be started (exit codes 1, 2 and 5, or no process).
AdminTakesLock(p) ==
    /\ \/ post[p].pc = "patch" /\ JcfgLock(p) /\ Goto(p, "patching") /\ UNCHANGED faults
       \/ post[p].pc = "restart" /\ JcfgLock(p) /\ Goto(p, "restarting") /\ UNCHANGED faults
       \/ /\ post[p].pc \in {"patch", "restart"}
          /\ Fault /\ Goto(p, "failed") /\ UNCHANGED lock
    /\ UNCHANGED <<desired, status, jcfg, live, jobVars, worldVars, clean>>

\* cmd_nat_config --no-restart: the block between the markers is replaced, or
\* there is no file or no marker or the write fails (exit codes 3 and 5).
CmdNatConfig(p) ==
    /\ post[p].pc = "patching" /\ lock' = Free
    /\ \/ jcfg' = Render(post[p].cfg) /\ Goto(p, "restart") /\ UNCHANGED faults
       \/ Fault /\ Goto(p, "failed") /\ UNCHANGED jcfg
    /\ UNCHANGED <<desired, status, live, jobVars, worldVars, clean>>

\* A failed restart is a warning, as that of the depth node is (mutant).
CmdRestartBestEffort(p) ==
    /\ post[p].pc = "restarting" /\ lock' = Free
    /\ RestartOk \/ RestartFails
    /\ Goto(p, "applied")
    /\ UNCHANGED <<desired, status, jcfg, jobVars, worldVars, clean>>

\* cmd_restart: exit 0, then the depth node is asked to restart, which changes
\* nothing here and may fail; or exit 4.
CmdRestart(p) ==
    /\ post[p].pc = "restarting" /\ lock' = Free
    /\ \/ RestartOk /\ Goto(p, "applied")
       \/ RestartFails /\ Goto(p, "failed")
    /\ UNCHANGED <<desired, status, jcfg, jobVars, worldVars, clean>>

\* restart_janus after 120 s: sudo is killed and janus-admin goes on under the
\* lock; or the controller may not kill a root process, and PermissionError
\* ends the request with no status written.
RestartTimesOut(p) ==
    /\ post[p].pc = "restarting" /\ Fault
    /\ lock' = "orphan"
    /\ Goto(p, "failed") \/ End(p)
    /\ UNCHANGED <<desired, status, jcfg, live, jobVars, worldVars, clean>>

OrphanEnds ==
    /\ lock = "orphan" /\ lock' = Free
    /\ RestartOk \/ RestartFails
    /\ UNCHANGED <<desired, status, jcfg, post, jobVars, worldVars, clean>>

\* POST /janus/restart and the tracked restart: the same command on its own.
RestartRoute ==
    /\ lock = Free
    /\ RestartOk \/ RestartFails
    /\ UNCHANGED <<desired, status, jcfg, lock, post, jobVars, worldVars, clean>>

-----------------------------------------------------------------------------
(* janus-turn-rotator.py                                                   *)

\* generate_credentials
GenerateCredentials == now + Ttl

\* should_rotate
ShouldRotate(expiry) == expiry = 0 \/ expiry <= now + Before

\* rotate() up to the lock: no secret or no file (exit 2), nothing to do
\* (exit 0), or the lock is waited for with the copy just read.
RotateStart ==
    /\ rot.pc = "off"
    /\ \/ Fault /\ rot' = Exit(2)
       \/ /\ ~ShouldRotate(jcfg.user) /\ UNCHANGED faults
          /\ rot' = Exit(0)
       \/ /\ ShouldRotate(jcfg.user) /\ UNCHANGED faults
          /\ rot' = [pc |-> "wait", copy |-> jcfg]
    /\ UNCHANGED <<desired, status, jcfg, live, lock, post, upd, cache, worldVars, clean>>

\* The copy of the optimistic check is used after the lock (mutant).
RotateLockStale ==
    /\ rot.pc = "wait" /\ JcfgLock("rotator")
    /\ rot' = [pc |-> "write", copy |-> rot.copy, new |-> GenerateCredentials]
    /\ UNCHANGED <<desired, status, jcfg, live, post, upd, cache, worldVars, clean, faults>>

\* The lock is taken and the file is read again.
RotateLock ==
    /\ rot.pc = "wait" /\ JcfgLock("rotator")
    /\ rot' = [pc |-> "write", copy |-> jcfg, new |-> GenerateCredentials]
    /\ UNCHANGED <<desired, status, jcfg, live, post, upd, cache, worldVars, clean, faults>>

RotateNoLock ==
    /\ rot.pc = "wait" /\ LockTimeout
    /\ rot' = Exit(2)
    /\ UNCHANGED <<desired, status, jcfg, live, lock, post, upd, cache, worldVars, clean>>

\* patch_jcfg: comments are patched like settings.
PatchJcfg(file, new) == [file EXCEPT !.user = new, !.pwd = new]

\* The lock covers the write only (mutant).
RotateWriteUnlocking ==
    /\ rot.pc = "write" /\ lock' = Free
    /\ jcfg' = PatchJcfg(rot.copy, rot.new)
    /\ rot' = [pc |-> "restart", new |-> rot.new]
    /\ UNCHANGED <<desired, status, live, post, upd, cache, worldVars, clean, faults>>

\* The patched copy is written; a patch without a difference is refused.
RotateWrite ==
    /\ rot.pc = "write"
    /\ LET text == PatchJcfg(rot.copy, rot.new)
           Bail == rot' = Exit(2) /\ lock' = Free
       IN  \/ text = rot.copy /\ Bail /\ UNCHANGED <<jcfg, faults>>
           \/ Fault /\ Bail /\ UNCHANGED jcfg
           \/ /\ text # rot.copy /\ jcfg' = text
              /\ rot' = [pc |-> "restart", new |-> rot.new] /\ UNCHANGED <<lock, faults>>
    /\ UNCHANGED <<desired, status, live, post, upd, cache, worldVars, clean>>

RotateRestart ==
    /\ rot.pc = "restart" /\ lock' = Free
    /\ \/ RestartOk /\ rot' = Exit(0)
       \/ RestartFails /\ rot' = Exit(2)
    /\ UNCHANGED <<desired, status, jcfg, post, upd, cache, worldVars, clean>>

-----------------------------------------------------------------------------
(* janus-nat-updater.sh                                                    *)

\* The address is asked for outside the lock and compared with the cache.
UpdaterStart ==
    /\ upd.pc = "off"
    /\ \/ Fault /\ upd' = Exit(1)
       \/ ip = cache /\ upd' = Exit(0) /\ UNCHANGED faults
       \/ ip # cache /\ upd' = [pc |-> "wait", ip |-> ip] /\ UNCHANGED faults
    /\ UNCHANGED <<desired, status, jcfg, live, lock, post, rot, cache, worldVars, clean>>

\* Under the lock the file is patched into TMP.
UpdaterLock ==
    /\ upd.pc = "wait"
    /\ \/ /\ JcfgLock("updater") /\ UNCHANGED faults
          /\ upd' = [pc |-> "move", ip |-> upd.ip, copy |-> [jcfg EXCEPT !.map = upd.ip]]
       \/ LockTimeout /\ upd' = Exit(2) /\ UNCHANGED lock
    /\ UNCHANGED <<desired, status, jcfg, live, post, rot, cache, worldVars, clean>>

\* mv TMP, then the cache, which only the script itself reads; or it ends with
\* an error before the mv, or between the two.
UpdaterMove ==
    /\ upd.pc = "move"
    /\ \/ /\ jcfg' = upd.copy /\ cache' = upd.ip
          /\ upd' = [pc |-> "restart", ip |-> upd.ip] /\ UNCHANGED <<lock, faults>>
       \/ /\ Fault /\ upd' = Exit(3)
          /\ lock' = Free /\ jcfg' \in {jcfg, upd.copy} /\ UNCHANGED cache
    /\ UNCHANGED <<desired, status, live, post, rot, worldVars, clean>>

\* The subshell holds the lock to the end of the restart.
UpdaterRestart ==
    /\ upd.pc = "restart" /\ lock' = Free
    /\ \/ RestartOk /\ upd' = Exit(0)
       \/ RestartFails /\ upd' = Exit(3)
    /\ UNCHANGED <<desired, status, jcfg, post, rot, cache, worldVars, clean>>

-----------------------------------------------------------------------------
(* The configuration console: routes/admin_config.py, config_apply.py and  *)
(* jcfg_renderer.py                                                        *)

\* _read_current_nat_mapping: an empty mapping is taken for a missing one.
CurrentMapping == IF jcfg.map = NoMap THEN "REPLACE_WITH_PUBLIC_IP" ELSE jcfg.map

\* The template with its substitutions: no TURN server, the primary interface.
Template(map) ==
    [turn |-> FALSE, user |-> 0, pwd |-> 0, map |-> map, ice |-> <<"enforce", "iface">>]

Rendering(map, restart) ==
    /\ con.pc = "new"
    /\ con' = [pc |-> "write", file |-> Template(map), restart |-> restart]
    /\ UNCHANGED <<desired, status, jcfg, live, lock, post, jobVars, now, ip, faults, clean>>

\* POST /apply keeps the mapping now in the file and restarts Janus.
ApplyConfig == Rendering(CurrentMapping, TRUE)

\* POST /set-nat-mapping brings its own and restarts nothing.
SetNatMapping == Rendering(ip, FALSE)

\* render: the file is replaced, or the template is skipped.
RenderWrite ==
    /\ con.pc = "write"
    /\ \/ jcfg' = con.file /\ UNCHANGED faults
       \/ Fault /\ UNCHANGED jcfg
    /\ con' = IF con.restart THEN [pc |-> "restart"] ELSE [pc |-> "done"]
    /\ UNCHANGED <<desired, status, live, lock, post, jobVars, now, ip, clean>>

\* apply restarts Janus through service-admin.
RenderRestart ==
    /\ con.pc = "restart" /\ con' = [pc |-> "done"]
    /\ RestartOk \/ RestartFails
    /\ UNCHANGED <<desired, status, jcfg, lock, post, jobVars, now, ip, clean>>

-----------------------------------------------------------------------------
(* What happens around the writers                                         *)

Dropped(p) == lock' = IF lock = p THEN Free ELSE lock

\* The process of a writer is killed: the kernel drops its lock.  The
\* controller's child processes die with it.
Killed ==
    /\ Fault
    /\ \/ \E p \in Posts : Running(p) /\ End(p) /\ Dropped(p) /\ UNCHANGED jobVars
       \/ /\ rot.pc # "off" /\ rot' = Exit(2)
          /\ Dropped("rotator") /\ UNCHANGED <<post, upd, cache>>
       \/ /\ upd.pc # "off" /\ upd' = Exit(3)
          /\ Dropped("updater") /\ UNCHANGED <<post, rot, cache>>
    /\ UNCHANGED <<desired, status, jcfg, live, worldVars, clean>>

\* systemd starts a Janus that ended; no lock is involved.
JanusStarts ==
    /\ live = None /\ live' = jcfg
    /\ UNCHANGED <<desired, status, jcfg, lock, post, jobVars, worldVars, faults, clean>>

\* A day passes; the public address may be another one.
World ==
    /\ now < MaxNow /\ now' = now + 1 /\ ip' \in Maps
    /\ UNCHANGED <<con, desired, status, jcfg, live, lock, post, jobVars, faults, clean>>

NatNext ==
    \/ \E p \in Posts :
         \/ \E body \in Bodies : Submit(p, body)
         \/ Persist(p) \/ RecordPending(p) \/ AdminTakesLock(p) \/ CmdNatConfig(p)
         \/ CmdRestart(p) \/ RestartTimesOut(p) \/ RecordApplied(p) \/ RecordFailed(p)
    \/ OrphanEnds \/ RestartRoute
    \/ RotateStart \/ RotateLock \/ RotateNoLock \/ RotateWrite \/ RotateRestart
    \/ UpdaterStart \/ UpdaterLock \/ UpdaterMove \/ UpdaterRestart
    \/ ApplyConfig \/ SetNatMapping \/ RenderWrite \/ RenderRestart
    \/ Killed \/ JanusStarts \/ World

NatSpec == NatInit /\ [][NatNext]_vars

-----------------------------------------------------------------------------
(* Properties                                                              *)

\* The flock makes the read-modify-writes of janus.jcfg atomic: a step of the
\* rotator changes only the credentials of the file, one of the updater only
\* the mapping, whatever was written while they decided to run
\* (janus-turn-rotator.py re-reads inside the lock for this reason).  The file
\* of the console, which takes no lock, is excepted.
NoLostPatch ==
    [][jcfg.turn =>
         /\ rot' # rot => PatchJcfg(jcfg', 0) = PatchJcfg(jcfg, 0)
         /\ upd' # upd => [jcfg' EXCEPT !.map = NoMap] = [jcfg EXCEPT !.map = NoMap]]_vars

\* CONTRACT.md:306 "Only one mutator on janus.jcfg at any moment": nobody
\* changes the file while another writer holds the lock.
OneMutator ==
    [][jcfg' # jcfg => \/ lock = "rotator" /\ rot' # rot
                       \/ lock = "updater" /\ upd' # upd
                       \/ lock \in Posts /\ post'[lock] # post[lock]]_vars

\* A rotation that exits 0 leaves Janus running with the credentials it
\* generated, and an address update that exits 0 with the address it found:
\* the lock is held from the write to the end of the restart, so only the
\* console can get in between.
ExitZeroMeansLive ==
    [][jcfg.turn =>
         /\ rot.pc = "restart" /\ rot'.pc = "off" /\ rot'.ok
              => live'.user = rot.new /\ live'.pwd = rot.new
         /\ upd.pc = "restart" /\ upd'.pc = "off" /\ upd'.ok
              => live'.map = upd.ip]_vars

\* When updates did not overlap and no write of the sidecar was lost, a status
\* "applied" whose hash is that of the stored configuration means that the
\* ICE settings of that configuration are in the file and in the running Janus,
\* whatever failed, timed out or was killed since (update_nat_config.py's G1),
\* unless the console has rendered the file.  Credentials and mapping are
\* excepted: the other two writers own them too.
AppliedIsLive ==
    clean /\ status.st = "applied" /\ status.hash = desired =>
      /\ jcfg.turn => jcfg.ice = Render(desired).ice
      /\ live # None /\ live.turn => live.ice = Render(desired).ice
=============================================================================
