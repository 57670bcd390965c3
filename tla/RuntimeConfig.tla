---------------------------- MODULE RuntimeConfig ----------------------------
(***************************************************************************)
(* Runtime configuration: a patch is validated and journalled as a         *)
(* revision, and a revision of the class NEW_SESSIONS_ONLY is applied to   *)
(* three places that can disagree: the file rs-runtime.env (read again by  *)
(* systemd at each start), the environment of the process, and the cached  *)
(* settings every request uses.  An apply holds a file lock, marks the     *)
(* revision in the journal around its writes, and undoes them when the     *)
(* settings do not show the target.  The operator edits the file without   *)
(* the lock, other requests fill the cache, journal and file writes fail,  *)
(* and the process dies anywhere: recover_on_boot then decides from the    *)
(* file what became of the revision that was under way.                    *)
(***************************************************************************)
EXTENDS Integers, Sequences, FiniteSets, TLC

CONSTANTS
    Threads,          \* request threads that serve POST /apply
    Readers,          \* request threads that call get_settings
    Patches,          \* the patches the admin sends
    Edits,            \* the contents the operator puts in rs-runtime.env
    MaxRevisions,     \* revisions the journal keeps
    MaxValidated,     \* revisions validated in a behaviour
    MaxFaults,        \* failing writes, corrupt records and crashes
    MaxEdits          \* edits of rs-runtime.env outside the lock

ASSUME RuntimeAssumption ==
    /\ "free" \notin Threads
    /\ Patches \subseteq [ice : STRING, ttl : Nat, extra : STRING]
    /\ MaxRevisions \in Nat \ {0} /\ MaxValidated \in Nat

VARIABLES disk, environ, cache, depth, journal, lock, thread, reader, phase, todo,
          edited, crossed, interrupted, blemish, faults, edits

vars == <<disk, environ, cache, depth, journal, lock, thread, reader, phase, todo,
          edited, crossed, interrupted, blemish, faults, edits>>
files == <<disk, environ, cache>>
others == <<depth, reader, phase, todo, edited, crossed, interrupted, edits>>

-----------------------------------------------------------------------------
(* Settings and the effective view.  0 and "unset" are keys not set.       *)

Keys == {"ice", "ttl"}
Unset == [ice |-> "unset", ttl |-> 0]
NoCache == [ice |-> "none", ttl |-> 0]
Absent == [present |-> FALSE, env |-> Unset, foreign |-> FALSE, canon |-> FALSE]
Fields(p) == {k \in Keys : p[k] # Unset[k]}
ClampTtl(n) == IF n < 300 THEN 300 ELSE IF n > 3600 THEN 3600 ELSE n

IntEnv(n) == IF n = 0 THEN 3600 ELSE ClampTtl(n)
StrEnv(v) == IF v \in {"all", "relay"} THEN v ELSE "all"
SettingsOf(env) == [ice |-> StrEnv(env.ice), ttl |-> IntEnv(env.ttl)]

(* The cache after a call that missed and built from e: a result stored by *)
(* another request meanwhile stays, and the call returns its own.          *)
Stored(e) == IF cache = NoCache THEN SettingsOf(e) ELSE cache

BuildEffective(s) == [ice |-> IF depth THEN "relay" ELSE s.ice, ttl |-> ClampTtl(s.ttl)]
ExpectedEffective(p) == [ice |-> IF depth THEN "relay" ELSE StrEnv(p.ice), ttl |-> ClampTtl(p.ttl)]
Verify(p, s) == \A k \in Fields(p) : BuildEffective(s)[k] = ExpectedEffective(p)[k]

-----------------------------------------------------------------------------
(* Validation.  The part of a patch that is not one of the two keys is     *)
(* known by what the validator makes of it: an impact, or an error.        *)

TopLevelPolicy == [none |-> "none", version2 |-> "error", secret |-> "error",
                   host_lan_ip |-> "error", unknown |-> "error"]
WebrtcPolicy == [reconnect |-> "DEPLOYMENT_ONLY", reconnect_order |-> "error", turn_enabled |-> "error"]
DiagPolicy == [telemetry_interval |-> "DEPLOYMENT_ONLY", reboot_allowed |-> "error"]
StreamPolicy == [color_fps |-> "RESTART_ENCODER", color_mode_unknown |-> "error",
                 depth_fps |-> "error", mountpoint_id |-> "error", local_key |-> "error"]
Policy == TopLevelPolicy @@ WebrtcPolicy @@ DiagPolicy @@ StreamPolicy

MergedErrors(p) ==
    {k \in Fields(p) : IF k = "ice" THEN p.ice \notin {"all", "relay"} ELSE p.ttl \notin 300..3600}
Valid(p) == MergedErrors(p) = {} /\ Policy[p.extra] # "error"
Impact(p, s) ==
    {"NEW_SESSIONS_ONLY" : k \in {f \in Fields(p) : BuildEffective(s)[f] # p[f]}}
      \cup ({Policy[p.extra]} \ {"none"})

(* The file a revision is bound to, absence included.                      *)
FileHashesBefore(p) == IF Fields(p) = {} THEN {} ELSE {disk}

IsApplyable(r) ==
    /\ r.status = "validated"
    /\ r.impact = {"NEW_SESSIONS_ONLY"}
    /\ r.base # {}

(* Both are set and differ: the trace of a rollback that failed.           *)
CoherenceOk ==
    \A k \in Keys : disk.env[k] = Unset[k] \/ environ[k] = Unset[k] \/ disk.env[k] = environ[k]

-----------------------------------------------------------------------------
Idle == [pc |-> "idle", rid |-> 0, prior |-> Absent, priorEnv |-> Unset, todo |-> {}]
Asleep == [pc |-> "idle", ttl |-> 0, ice |-> "unset"]
Seeded == [Absent EXCEPT !.present = TRUE, !.env = [ice |-> "relay", ttl |-> 3600]]
InProgress == {"applying", "rolling_back"}

RuntimeInit ==
    /\ disk \in {Absent, Seeded} /\ environ = disk.env /\ cache = SettingsOf(disk.env)
    /\ depth \in BOOLEAN
    /\ journal = <<>> /\ lock = "free"
    /\ thread = [t \in Threads |-> Idle] /\ reader = [r \in Readers |-> Asleep]
    /\ phase = "up" /\ todo = {}
    /\ edited = FALSE /\ crossed = FALSE /\ interrupted = 0 /\ blemish = FALSE /\ faults = 0 /\ edits = 0

Fault == faults < MaxFaults /\ faults' = faults + 1
Rid(t) == thread[t].rid
Patch(t) == journal[Rid(t)].patch
At(t, pc) == phase = "up" /\ thread[t].pc = pc
Go(t, pc) == thread' = [thread EXCEPT ![t].pc = pc]
Leave(t) == thread' = [thread EXCEPT ![t] = Idle] /\ lock' = "free"

(* The journal after a revision was added: the oldest ones are removed.    *)
Kept(j) ==
    LET on == {i \in DOMAIN j : j[i].status # "gone"}
    IN [i \in DOMAIN j |->
          IF i \in on /\ Cardinality({k \in on : k > i}) >= MaxRevisions
          THEN [j[i] EXCEPT !.status = "gone"] ELSE j[i]]

NewRevision(p, s) ==
    [patch |-> p, base |-> FileHashesBefore(p), impact |-> Impact(p, s), status |-> "validated"]

PersistValidated(p, s) ==
    /\ Len(journal) < MaxValidated /\ Valid(p) /\ Impact(p, s) # {}
    /\ journal' = Kept(Append(journal, NewRevision(p, s)))

(* POST /validate with the settings in the cache; one that finds it empty  *)
(* is a reader that goes on with the settings it built.                    *)
Validate(p) ==
    /\ phase = "up" /\ cache # NoCache /\ PersistValidated(p, cache)
    /\ UNCHANGED <<files, lock, thread, blemish, faults, others>>

(* set_status: a record that was pruned is left alone, one that is corrupt *)
(* or cannot be written raises, and the thread goes on at `raised'.        *)
SetStatus(t, status, next, raised) ==
    \/ /\ journal[Rid(t)].status # "corrupt"
       /\ journal' = IF journal[Rid(t)].status = "gone" THEN journal
                     ELSE [journal EXCEPT ![Rid(t)].status = status]
       /\ IF next = "end" THEN Leave(t) ELSE Go(t, next) /\ UNCHANGED lock
       /\ UNCHANGED <<blemish, faults>>
    \/ /\ IF journal[Rid(t)].status = "corrupt" THEN UNCHANGED faults ELSE Fault
       /\ blemish' = TRUE
       /\ IF raised = "end" THEN Leave(t) ELSE Go(t, raised) /\ UNCHANGED lock
       /\ UNCHANGED journal

-----------------------------------------------------------------------------
(* POST /apply.  A call that finds no readable revision or the lock held   *)
(* is answered without effect.                                             *)

Readable(r) == journal[r].status \notin {"gone", "corrupt"}

ApplyRevision(t, r) ==
    /\ At(t, "idle") /\ lock = "free" /\ Readable(r)
    /\ lock' = t
    /\ thread' = [thread EXCEPT ![t].pc = "check", ![t].rid = r]
    /\ UNCHANGED <<files, journal, blemish, faults, others>>

(* The conditions of an apply, in the order of the code: the record, then  *)
(* the patch validated again on the settings of now, coherence, the base.  *)
Applyable(t) ==
    /\ Readable(Rid(t)) /\ IsApplyable(journal[Rid(t)])
    /\ Patch(t).extra = "none" /\ Valid(Patch(t))
Accepted(t, s) ==
    /\ Impact(Patch(t), s) = {"NEW_SESSIONS_ONLY"}
    /\ CoherenceOk
    /\ FileHashesBefore(Patch(t)) = journal[Rid(t)].base

(* The validation sees the settings s; the check for a revision already at *)
(* its target is a later call of get_settings and sees the cache.          *)
Decide(t, s) ==
    /\ \/ ~Accepted(t, s) /\ Leave(t)
       \/ /\ Accepted(t, s) /\ UNCHANGED lock
          /\ Go(t, IF Verify(Patch(t), Stored(environ)) THEN "commit" ELSE "capture")
    /\ cache' = Stored(environ)

Check(t) ==
    /\ At(t, "check")
    /\ \/ ~Applyable(t) /\ Leave(t) /\ UNCHANGED cache
       \/ Applyable(t) /\ cache # NoCache /\ Decide(t, cache)
       \/ Applyable(t) /\ cache = NoCache /\ Go(t, "rebuilt") /\ UNCHANGED <<cache, lock>>
    /\ UNCHANGED <<disk, environ, journal, blemish, faults, others>>

(* The call missed and built its settings.  Only the holder of the lock    *)
(* writes the environment, so what it read is still there.                 *)
CheckRebuilt(t) ==
    /\ At(t, "rebuilt") /\ Decide(t, SettingsOf(environ))
    /\ UNCHANGED <<disk, environ, journal, blemish, faults, others>>

(* What a rollback restores; the hash of the file is read here once more.  *)
Capture(t) ==
    /\ At(t, "capture")
    /\ thread' = [thread EXCEPT ![t].pc = "mark", ![t].prior = disk, ![t].priorEnv = environ]
    /\ UNCHANGED <<files, journal, lock, blemish, faults, others>>

MarkApplying(t) ==
    /\ At(t, "mark") /\ SetStatus(t, "applying", "write", "end")
    /\ UNCHANGED <<files, others>>

(* The write is given up on a file that changed since its hash was taken,  *)
(* on a key that is not allowed there, and on an input/output error.       *)
WriteLocked(t) ==
    /\ At(t, "write")
    /\ \/ /\ (disk # thread[t].prior \/ disk.foreign) /\ Go(t, "revert")
          /\ UNCHANGED <<disk, faults>>
       \/ Fault /\ Go(t, "revert") /\ UNCHANGED disk
       \/ /\ disk = thread[t].prior /\ ~disk.foreign
          /\ disk' = [present |-> TRUE, foreign |-> FALSE, canon |-> TRUE,
                      env |-> [k \in Keys |-> IF k \in Fields(Patch(t)) THEN Patch(t)[k] ELSE disk.env[k]]]
          /\ thread' = [thread EXCEPT ![t].pc = "activate", ![t].todo = Fields(Patch(t))]
          /\ UNCHANGED faults
    /\ UNCHANGED <<environ, cache, journal, lock, blemish, others>>

Revert(t) ==
    /\ At(t, "revert") /\ SetStatus(t, "validated", "end", "end")
    /\ UNCHANGED <<files, others>>

(* One variable of the environment at a time, in the order of the patch.   *)
Activate(t, k) ==
    /\ At(t, "activate") /\ k \in thread[t].todo
    /\ environ' = [j \in Keys |-> IF j = k THEN Patch(t)[k] ELSE environ[j]]
    /\ thread' = [thread EXCEPT ![t].todo = @ \ {k}]
    /\ UNCHANGED <<disk, cache, journal, lock, blemish, faults, others>>

(* The history variable `crossed': a request was building settings from    *)
(* before the environment was complete when the cache was emptied.         *)
CacheClear(t) ==
    /\ thread[t].todo = {}
    /\ \/ At(t, "activate") /\ Go(t, "verify")
       \/ At(t, "undo") /\ Go(t, "restore")
    /\ cache' = NoCache
    /\ crossed' = \E r \in Readers : reader[r].pc # "idle"
    /\ UNCHANGED <<disk, environ, depth, journal, lock, reader, phase, todo, edited, interrupted, blemish,
                   faults, edits>>

(* _verify looks at the settings it gets: those in the cache, or, after a  *)
(* miss, the ones it built itself, stored or not.                          *)
VerifyTargetSkipped(t) ==
    /\ At(t, "verify") /\ Go(t, "commit")
    /\ UNCHANGED <<files, journal, lock, blemish, faults, others>>
VerifyTarget(t) ==
    /\ At(t, "verify")
    /\ Go(t, IF cache = NoCache THEN "build"
             ELSE IF Verify(Patch(t), cache) THEN "commit" ELSE "rollback")
    /\ UNCHANGED <<files, journal, lock, blemish, faults, others>>

VerifyBuilt(t) ==
    /\ At(t, "build")
    /\ Go(t, IF Verify(Patch(t), SettingsOf(environ)) THEN "commit" ELSE "rollback")
    /\ cache' = Stored(environ)
    /\ UNCHANGED <<disk, environ, journal, lock, blemish, faults, others>>

Commit(t) ==
    /\ At(t, "commit") /\ SetStatus(t, "applied", "end", "end")
    /\ UNCHANGED <<files, others>>

-----------------------------------------------------------------------------
(* Rollback: environment and cache first, the file last.                   *)

MarkRollingBack(t) ==
    /\ At(t, "rollback") /\ SetStatus(t, "rolling_back", "rolling", "end")
    /\ UNCHANGED <<files, others>>

BeginUndo(t) ==
    /\ At(t, "rolling")
    /\ thread' = [thread EXCEPT ![t].pc = "undo", ![t].todo = Fields(Patch(t))]
    /\ UNCHANGED <<files, journal, lock, blemish, faults, others>>

Undo(t, k) ==
    /\ At(t, "undo") /\ k \in thread[t].todo
    /\ environ' = [j \in Keys |-> IF j = k THEN thread[t].priorEnv[k] ELSE environ[j]]
    /\ thread' = [thread EXCEPT ![t].todo = @ \ {k}]
    /\ UNCHANGED <<disk, cache, journal, lock, blemish, faults, others>>

RestoreLocked(t) ==
    /\ At(t, "restore")
    /\ \/ disk' = thread[t].prior /\ Go(t, "restored") /\ UNCHANGED faults
       \/ Fault /\ Go(t, "unrestored") /\ UNCHANGED disk
    /\ UNCHANGED <<environ, cache, journal, lock, blemish, others>>

(* The record is written inside the same try: when that fails, the         *)
(* rollback is recorded as failed although the file was restored.          *)
EndRollback(t) ==
    /\ \/ At(t, "restored") /\ SetStatus(t, "rolled_back", "end", "unrestored")
       \/ At(t, "unrestored") /\ SetStatus(t, "rollback_failed", "end", "end")
    /\ UNCHANGED <<files, others>>

-----------------------------------------------------------------------------
(* get_settings in another request: a miss builds the settings key by key, *)
(* outside any lock, and stores them unless someone stored some meanwhile. *)

ReadTtl(r) ==
    /\ phase = "up" /\ reader[r].pc = "idle" /\ cache = NoCache
    /\ reader' = [reader EXCEPT ![r] = [pc |-> "ice", ttl |-> environ.ttl, ice |-> "unset"]]
    /\ UNCHANGED <<files, depth, journal, lock, thread, phase, todo, edited, crossed, interrupted, blemish,
                   faults, edits>>

ReadIce(r) ==
    /\ reader[r].pc = "ice"
    /\ reader' = [reader EXCEPT ![r] = [pc |-> "store", ttl |-> @.ttl, ice |-> environ.ice]]
    /\ UNCHANGED <<files, depth, journal, lock, thread, phase, todo, edited, crossed, interrupted, blemish,
                   faults, edits>>

StoreSettings(r) ==
    /\ reader[r].pc = "store"
    /\ cache' = Stored(reader[r])
    /\ reader' = [reader EXCEPT ![r] = Asleep]
    /\ \/ UNCHANGED journal
       \/ \E p \in Patches : PersistValidated(p, SettingsOf(reader[r]))
    /\ UNCHANGED <<disk, environ, depth, lock, thread, phase, todo, edited, crossed, interrupted, blemish,
                   faults, edits>>

-----------------------------------------------------------------------------
(* The outside: the operator's editor, a record damaged on the disk, the   *)
(* death of the process, its start and the recovery that comes first.      *)

EditFile(content) ==
    /\ edits < MaxEdits /\ edits' = edits + 1 /\ content # disk
    /\ disk' = content /\ edited' = TRUE
    /\ interrupted' = IF phase = "up" THEN interrupted ELSE 0
    /\ UNCHANGED <<environ, cache, depth, journal, lock, thread, reader, phase, todo, crossed, blemish, faults>>

CorruptRecord(r) ==
    /\ Fault /\ journal[r].status # "gone"
    /\ journal' = [journal EXCEPT ![r].status = "corrupt"]
    /\ UNCHANGED <<files, lock, thread, blemish, others>>

(* The revision whose writes were under way when the process died.         *)
UnderWay == {Rid(t) : t \in {u \in Threads : thread[u].pc \notin {"idle", "check", "rebuilt", "capture", "mark"}}}

Crash ==
    /\ phase # "down" /\ Fault /\ phase' = "down"
    /\ interrupted' = IF edited \/ phase # "up" \/ UnderWay = {} THEN 0 ELSE CHOOSE r \in UnderWay : TRUE
    /\ lock' = "free" /\ thread' = [t \in Threads |-> Idle] /\ reader' = [r \in Readers |-> Asleep]
    /\ cache' = NoCache /\ environ' = Unset /\ todo' = {} /\ crossed' = FALSE
    /\ UNCHANGED <<disk, depth, journal, edited, blemish, edits>>

Boot ==
    /\ phase = "down" /\ phase' = "recovering"
    /\ environ' = disk.env /\ cache' = SettingsOf(disk.env) /\ edited' = FALSE
    /\ todo' = {i \in DOMAIN journal : journal[i].status # "gone"}
    /\ UNCHANGED <<disk, depth, journal, lock, thread, reader, crossed, interrupted, blemish, faults, edits>>

ReconciledTrusting(status, atBase) ==
    IF status \in InProgress THEN "applied" ELSE status
Reconciled(status, atBase) ==
    CASE status = "applying" -> IF atBase THEN "rolled_back" ELSE "applied"
      [] status = "rolling_back" -> IF atBase THEN "rolled_back" ELSE "rollback_failed"
      [] OTHER -> status


(* The loop over the revisions, the oldest first.  A corrupt record ends   *)
(* it; a failing write ends it too.                                        *)
Oldest(i) == i \in todo /\ \A k \in todo : i <= k

RecoverOnBoot ==
    /\ phase = "recovering"
    /\ \/ /\ todo = {} /\ phase' = "up"
          /\ UNCHANGED <<journal, todo, blemish, faults>>
       \/ \E i \in DOMAIN journal :
            /\ Oldest(i) /\ journal[i].status # "corrupt"
            /\ journal' = [journal EXCEPT ![i].status = Reconciled(@, journal[i].base = {disk})]
            /\ todo' = todo \ {i}
            /\ UNCHANGED <<phase, blemish, faults>>
       \/ \E i \in DOMAIN journal :
            /\ Oldest(i)
            /\ \/ journal[i].status = "corrupt" /\ UNCHANGED faults
               \/ journal[i].status \in InProgress /\ Fault
            /\ phase' = "up" /\ todo' = {} /\ blemish' = TRUE
            /\ UNCHANGED journal
    /\ UNCHANGED <<files, depth, lock, thread, reader, edited, crossed, interrupted, edits>>

-----------------------------------------------------------------------------
RuntimeNext ==
    \/ \E p \in Patches : Validate(p)
    \/ \E t \in Threads :
         \/ \E r \in DOMAIN journal : ApplyRevision(t, r)
         \/ Check(t) \/ CheckRebuilt(t) \/ Capture(t) \/ MarkApplying(t) \/ WriteLocked(t) \/ Revert(t)
         \/ \E k \in Keys : Activate(t, k) \/ Undo(t, k)
         \/ CacheClear(t) \/ VerifyTarget(t) \/ VerifyBuilt(t) \/ Commit(t)
         \/ MarkRollingBack(t) \/ BeginUndo(t) \/ RestoreLocked(t) \/ EndRollback(t)
    \/ \E r \in Readers : ReadTtl(r) \/ ReadIce(r) \/ StoreSettings(r)
    \/ \E c \in Edits : EditFile(c)
    \/ \E r \in DOMAIN journal : CorruptRecord(r)
    \/ Crash \/ Boot \/ RecoverOnBoot

RuntimeSpec == RuntimeInit /\ [][RuntimeNext]_vars

-----------------------------------------------------------------------------
(* The state of the engine is of its types; a free lock has no thread      *)
(* inside an apply.                                                        *)
RuntimeTypeOK ==
    /\ cache = NoCache \/ cache \in [ice : {"all", "relay"}, ttl : 300..3600]
    /\ phase \in {"down", "recovering", "up"} /\ lock \in Threads \cup {"free"}
    /\ \A i \in DOMAIN journal :
         journal[i].status \in InProgress \cup {"validated", "applied", "rolled_back", "rollback_failed",
                                                "gone", "corrupt"}
    /\ \A t \in Threads : thread[t].pc # "idle" => lock = t

(* When an apply that wrote the file records its revision as applied, the  *)
(* environment of the process shows the target, so that settings built     *)
(* from now on serve it; the cached settings, which requests really use,   *)
(* show it too unless a request was building settings across the clearing  *)
(* of the cache; and if nobody edited the file since the start of the      *)
(* process, a restart keeps the target (on a depth camera the policy is    *)
(* relay either way).  A revision found already at its target is recorded  *)
(* from the cached settings, without a look at the file.                   *)
AppliedIsServed ==
    [][\A i \in DOMAIN journal :
         (phase = "up" /\ journal[i].status # "applied" /\ journal'[i].status = "applied") =>
           /\ journal[i].status = "applying" =>
                /\ Verify(journal[i].patch, SettingsOf(environ))
                /\ ~crossed => cache = SettingsOf(environ)
                /\ ~edited => Verify(journal[i].patch, SettingsOf(disk.env))
           /\ journal[i].status # "applying" => cache # NoCache /\ Verify(journal[i].patch, cache)]_vars

(* The same without the exception: the cached settings show the target of  *)
(* every revision recorded as applied.  Refuted: a request that missed     *)
(* before the environment changed stores its old settings between the      *)
(* applier's own miss and store, and _verify looks at the applier's.       *)
AppliedIsCached ==
    [][\A i \in DOMAIN journal :
         (phase = "up" /\ journal[i].status # "applied" /\ journal'[i].status = "applied") =>
           Verify(journal[i].patch, cache)]_vars

(* After a crash in the middle of an apply, and no edit of the file, boot  *)
(* recovery records the truth: a revision it calls applied is the one the  *)
(* restarted process serves, and with one it calls rolled back the process *)
(* serves what the revision was validated against.                         *)
RecoveryTellsTruth ==
    [][\A i \in DOMAIN journal :
         (phase = "recovering" /\ i = interrupted /\ journal'[i].status # journal[i].status) =>
           /\ journal'[i].status = "applied" => Verify(journal[i].patch, cache)
           /\ journal'[i].status = "rolled_back" => \A f \in journal[i].base : cache = SettingsOf(f.env)]_vars

(* While the process serves requests and no journal operation has failed,  *)
(* a revision is in progress only as the work of the thread that holds the *)
(* lock: a crash leaves none behind, and no two applies mix.               *)
InProgressOwned ==
    phase = "up" /\ ~blemish =>
      \A i \in DOMAIN journal :
        journal[i].status \in InProgress => lock \in Threads /\ thread[lock].rid = i

(* A value an apply rejected is not what the process serves after a        *)
(* restart: recover_on_boot refuses it.                                    *)
RejectedNotServedAfterRestart ==
    [][\A i \in DOMAIN journal :
         (phase = "recovering" /\ phase' = "up" /\ journal[i].status = "rollback_failed") =>
           ~Verify(journal[i].patch, cache)]_vars
=============================================================================
