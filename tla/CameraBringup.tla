---------------------------- MODULE CameraBringup ----------------------------
(***************************************************************************)
(* The fixers of the bring-up layer, run by two processes on one host: the *)
(* recovery call that the layers above make, and the command line of an    *)
(* operator.  Each gathers the context of the checks once, then *)
(* takes the fixers in order: check, plan, lock, act, verify.  The lock is *)
(* a file lock that is not waited for, and it covers the actions only: the *)
(* plan, with the new baseline and its signature in it, is made before.    *)
(***************************************************************************)
EXTENDS BringupChecks, Sequences, SequencesExt, TLC

CONSTANTS
    MaxFaults,     \* changes of the host, failing actions and dying processes
    MaxCommands    \* commands of the operator

VARIABLES host, safe, proc, lock, faults, commands

vars == <<host, safe, proc, lock, faults, commands>>

Procs == {"api", "cli"}
AllFixers == <<"usb_power", "udev", "reset_tools", "fingerprint">>
Idle == [pc |-> "idle", dry |-> FALSE, ctx |-> NoCtx, todo |-> <<>>, acts |-> <<>>,
         secret |-> None, payload |-> NoBaseline, code |-> 0, alone |-> FALSE]

(* Besides the host just installed: one that has been commissioned.        *)
Commissioned ==
    [ColdHost EXCEPT !.power = PowerSpec, !.rule = "spec", !.powerRule = TRUE, !.link = "rgb",
        !.script = "exec", !.venv = TRUE, !.pyrs = TRUE, !.datadir = TRUE, !.secret = 1,
        !.baseline = [serial |-> Min(Cameras), ver |-> 1, port |-> 2, sig |-> 1,
                       kind |-> "object"]]

(* Deviations no fixer looks at: there from the start or not at all.       *)
Deviation ==
    [speed |-> {480, 12},
     uvc |-> {[loaded |-> FALSE, run |-> "other", conf |-> "spec"],
              [loaded |-> TRUE, run |-> "other", conf |-> "spec"]}
             \cup {[loaded |-> TRUE, run |-> "spec", conf |-> c] : c \in {"other", "absent", "unparsable"}},
     link |-> {"absent", "file", "dangling", "other"},
     v4l2ctl |-> {FALSE}, formats |-> {"none", "nosize", "norate"}, capture |-> {"busy", "error"},
     bcd |-> {"old", "unreadable"}, rate |-> {24001, 40000, 40001},
     env |-> {"unknownformat", "unparsable"},
     ffmpeg |-> {FALSE}, x264 |-> {FALSE}, encoder |-> {"absent", "noexec"},
     rundir |-> {FALSE}, muxUnit |-> {FALSE}, streamUnit |-> {FALSE}]

(* The operator gives no command on a host that deviates.                  *)
BringupInit ==
    /\ \/ host \in {ColdHost, Commissioned} /\ commands = 0
       \/ /\ \E f \in DOMAIN Deviation : \E v \in Deviation[f] : host = [Commissioned EXCEPT ![f] = v]
          /\ commands = MaxCommands
    /\ safe = FALSE /\ proc = [p \in Procs |-> Idle] /\ lock = "free" /\ faults = 0

At(p, pc) == proc[p].pc = pc
Fixer(p) == Head(proc[p].todo)
Fault == faults < MaxFaults /\ faults' = faults + 1

(* The processes after p changed the host: the others are not alone.       *)
Disturbed(procs, p) ==
    [q \in Procs |-> IF q = p THEN procs[q] ELSE [procs[q] EXCEPT !.alone = FALSE]]

-----------------------------------------------------------------------------
(* Commands.  The recovery call refuses in SAFE mode, the command line     *)
(* does not ask.  All checks run first, for the context they leave.        *)

AttemptRecovery ==
    /\ At("api", "idle") /\ ~safe
    /\ proc' = [proc EXCEPT !["api"] =
                  [Idle EXCEPT !.pc = "fix", !.ctx = CtxOf(host), !.todo = AllFixers, !.alone = TRUE]]
    /\ UNCHANGED <<host, safe, lock, faults, commands>>

CmdApply(only, dry) ==
    /\ At("cli", "idle") /\ commands < MaxCommands /\ commands' = commands + 1
    /\ proc' = [proc EXCEPT !["cli"] =
                  [Idle EXCEPT !.pc = "fix", !.ctx = CtxOf(host), !.dry = dry, !.todo = only,
                               !.alone = ~dry /\ only = AllFixers]]
    /\ UNCHANGED <<host, safe, lock, faults>>

CmdSafe(enter) ==
    /\ commands < MaxCommands /\ commands' = commands + 1
    /\ safe # enter /\ safe' = enter
    /\ host' = [host EXCEPT !.datadir = @ \/ enter]
    /\ UNCHANGED <<proc, lock, faults>>

-----------------------------------------------------------------------------
(* run_fixer.                                                              *)

(* Without the path of the camera the rule is triggered at a default port. *)
TriggerPortFixed(q) == 2
TriggerPort(q) == IF q.ctx.sysfs = None THEN 2 ELSE q.ctx.sysfs

(* Reloading the rules, and the directories and modes of files, go with    *)
(* the action that follows.                                                *)
PlanPower == <<"power rule", "trigger usb", "settle">>
PlanUdev == <<"rule", "trigger video", "settle">>
PlanTools ==
    (IF host.venv THEN <<>> ELSE <<"make venv">>) \o <<"pip install", "chmod">>
PlanFingerprint ==
    (IF host.datadir THEN <<>> ELSE <<"make data dir">>)
    \o (IF host.secret # None THEN <<>> ELSE <<"secret">>)
    \o <<"baseline">>

Plan(fixer) ==
    CASE fixer = "usb_power" -> PlanPower      [] fixer = "udev" -> PlanUdev
      [] fixer = "reset_tools" -> PlanTools    [] fixer = "fingerprint" -> PlanFingerprint

(* Random: any value not in use.                                           *)
FreshSecret == Min((1 .. 6) \ ({host.secret, host.baseline.sig}
                               \cup {proc[p].secret : p \in Procs}
                               \cup {proc[p].payload.sig : p \in Procs}))

(* The new baseline, signed when the secret exists at planning time.       *)
BuildFingerprint(ctx) ==
    LET now == CurrentFingerprint(host, ctx)
    IN [serial |-> now.serial, ver |-> now.ver, port |-> now.port, sig |-> None, kind |-> "object"]
AttachSignature(fp) == [fp EXCEPT !.sig = host.secret]

(* The exit code so far: 2 after a FAILED fixer, 1 after an UNFIXED one.   *)
FixerExitCodeLenient(code, result) == IF result = "FAILED" THEN 2 ELSE code
FixerExitCode(code, result) ==
    Max({code, CASE result = "FAILED" -> 2 [] result = "UNFIXED" -> 1 [] OTHER -> 0})

Stopped(q) == [q EXCEPT !.todo = <<>>, !.pc = "finish", !.ctx = NoCtx]
NextFixer(q, result) ==
    LET done == [q EXCEPT !.code = FixerExitCode(@, result), !.acts = <<>>,
                          !.secret = None, !.payload = NoBaseline]
    IN IF Len(q.todo) = 1 THEN Stopped(done)
       ELSE [done EXCEPT !.todo = Tail(@), !.pc = "fix"]

(* Nobody catches what plan() raises, and a baseline that is not an object *)
(* makes it raise: the whole command ends, whatever else it had to fix.    *)
PlanRaises(fixer) == fixer = "fingerprint" /\ host.baseline.kind = "garbled"

PreCheck(p) ==
    /\ At(p, "fix")
    /\ LET q == proc[p]
           ok == Check(Fixer(p), host, q.ctx) = "OK"
       IN IF ~ok /\ PlanRaises(Fixer(p))
          THEN proc' = [proc EXCEPT ![p] = Idle]
          ELSE IF ok \/ q.dry
          THEN proc' = [proc EXCEPT ![p] = NextFixer(q, "SKIPPED")]
          ELSE proc' = [proc EXCEPT ![p] =
                 [q EXCEPT !.pc = "lock", !.acts = Plan(Fixer(p)),
                    !.secret = IF "secret" \in Range(Plan(Fixer(p))) THEN FreshSecret ELSE None,
                    !.payload = IF Fixer(p) = "fingerprint"
                                THEN AttachSignature(BuildFingerprint(q.ctx))
                                ELSE NoBaseline]]
    /\ UNCHANGED <<host, safe, lock, faults, commands>>

(* What giving the lock back leaves; a process that dies gives it back.    *)
Release(p) == IF lock = p THEN "free" ELSE lock

(* The lock is taken on entering the with statement, outside the handler   *)
(* of LockBusyError: the exception ends the whole command.                 *)
ApplyLock(p) ==
    /\ At(p, "lock")
    /\ \/ /\ lock = "free" /\ lock' = p
          /\ proc' = [proc EXCEPT ![p].pc = "act"]
       \/ /\ lock # "free" /\ UNCHANGED lock
          /\ proc' = [proc EXCEPT ![p] = Idle]
    /\ UNCHANGED <<host, safe, faults, commands>>

(* udev applies the installed rules to a device it is told about.  The     *)
(* rule of the link names the port of the instance, and the link cannot    *)
(* replace a plain file.                                                   *)
PortHint == 2
UsbEvent(w) == IF w.powerRule /\ w.plugged # {} THEN [w EXCEPT !.power = PowerSpec] ELSE w
VideoEvent(w) ==
    IF w.rule = "spec" /\ w.plugged # {} /\ w.port = PortHint /\ w.link # "file" THEN [w EXCEPT !.link = "rgb"] ELSE w

Effect(w, q, act) ==
    CASE act = "power rule" -> [w EXCEPT !.powerRule = TRUE]
      [] act = "trigger usb" -> IF TriggerPort(q) = w.port THEN UsbEvent(w) ELSE w
      [] act = "rule" -> [w EXCEPT !.rule = "spec"]
      [] act = "trigger video" -> VideoEvent(w)
      [] act = "make venv" -> [w EXCEPT !.venv = TRUE]
      [] act = "pip install" -> [w EXCEPT !.pyrs = TRUE]
      [] act = "chmod" -> [w EXCEPT !.script = "exec"]
      [] act = "make data dir" -> [w EXCEPT !.datadir = TRUE]
      [] act = "secret" -> [w EXCEPT !.secret = q.secret]
      [] act = "baseline" -> [w EXCEPT !.baseline = q.payload]
      [] OTHER -> w

(* Actions that cannot succeed on this host.                               *)
Fails(w, act) == \/ act = "chmod" /\ w.script = "absent"
                 \/ act = "pip install" /\ ~w.venv

Execute(p) ==
    /\ At(p, "act") /\ proc[p].acts # <<>> /\ ~Fails(host, Head(proc[p].acts))
    /\ host' = Effect(host, proc[p], Head(proc[p].acts))
    /\ proc' = Disturbed([proc EXCEPT ![p].acts = Tail(@)], p)
    /\ UNCHANGED <<safe, lock, faults, commands>>

(* The first action that fails ends the fixer and gives the lock back; the *)
(* command line also stops, unless told to continue.                       *)
ExecuteFails(p) ==
    /\ At(p, "act") /\ proc[p].acts # <<>>
    /\ \/ Fails(host, Head(proc[p].acts)) /\ UNCHANGED faults
       \/ ~Fails(host, Head(proc[p].acts)) /\ Fault
    /\ lock' = Release(p)
    /\ proc' \in {[proc EXCEPT ![p] = NextFixer(@, "FAILED")]}
                 \cup (IF p = "api" THEN {}
                       ELSE {[proc EXCEPT ![p] = Stopped(NextFixer(@, "FAILED"))]})
    /\ UNCHANGED <<host, safe, commands>>

Unlock(p) ==
    /\ At(p, "act") /\ proc[p].acts = <<>>
    /\ lock' = Release(p) /\ proc' = [proc EXCEPT ![p].pc = "verify"]
    /\ UNCHANGED <<host, safe, faults, commands>>

Verify(p) ==
    /\ At(p, "verify")
    /\ proc' = [proc EXCEPT ![p] =
                  NextFixer(@, IF Check(Fixer(p), host, @.ctx) = "OK" THEN "APPLIED" ELSE "UNFIXED")]
    /\ UNCHANGED <<host, safe, lock, faults, commands>>

(* The results are reported: the recovery call runs the checks once more,  *)
(* the command line exits.                                                 *)
Finish(p) ==
    /\ At(p, "finish")
    /\ proc' = [proc EXCEPT ![p] = Idle]
    /\ UNCHANGED <<host, safe, lock, faults, commands>>

Die(p) ==
    /\ ~At(p, "idle") /\ Fault
    /\ proc' = [proc EXCEPT ![p] = Idle]
    /\ lock' = Release(p)
    /\ UNCHANGED <<host, safe, commands>>

FixerStep(p) == PreCheck(p) \/ ApplyLock(p) \/ Execute(p) \/ ExecuteFails(p)
                \/ Unlock(p) \/ Verify(p) \/ Finish(p)

-----------------------------------------------------------------------------
(* What happens to a host.                                                 *)

Drift ==
    [rule |-> {"absent", "other"}, powerRule |-> {FALSE}, legacy |-> {TRUE},
     power |-> {KernelPower, [PowerSpec EXCEPT !.persist = 1],
                [PowerSpec EXCEPT !.runtime = "suspended"]},
     usbreset |-> {FALSE}, script |-> {"absent", "noexec"}, venv |-> {FALSE}, pyrs |-> {FALSE},
     ver |-> {2}, secret |-> {None}, baseline |-> {NoBaseline, GarbledBaseline}]

Changed(w) == host' = w /\ proc' = Disturbed(proc, "nobody")
              /\ UNCHANGED <<safe, lock, commands>>

HostDrifts == \E f \in DOMAIN Drift : \E v \in Drift[f] :
                 host[f] # v /\ Fault /\ Changed([host EXCEPT ![f] = v])

BaselineEdited == /\ host.baseline.sig # None /\ Fault
                  /\ Changed([host EXCEPT !.baseline.sig = Forged])

(* A camera is pulled, and a camera, the same or another, is plugged in.   *)
Unplugged == /\ host.plugged # {} /\ Fault
             /\ \E c \in host.plugged :
                  LET w == [host EXCEPT !.plugged = @ \ {c}]
                  IN Changed(IF w.link = "file" \/ w.plugged # {} THEN w
                             ELSE [w EXCEPT !.link = "absent"])
Plugged ==
    \E c \in Cameras \ host.plugged, port \in Ports :
       /\ host.plugged # {} => Fault
       /\ host.plugged = {} => UNCHANGED faults
       /\ Changed(VideoEvent(UsbEvent(
              [host EXCEPT !.plugged = @ \cup {c}, !.power = KernelPower,
                           !.port = IF host.plugged = {} THEN port ELSE @])))

Environment == HostDrifts \/ BaselineEdited \/ Unplugged \/ Plugged

BringupNext ==
    \/ AttemptRecovery
    \/ \E only \in {AllFixers, <<"fingerprint">>}, dry \in BOOLEAN : CmdApply(only, dry)
    \/ \E enter \in BOOLEAN : CmdSafe(enter)
    \/ \E p \in Procs : FixerStep(p) \/ Die(p)
    \/ Environment

(* A command that runs goes on, its subprocesses have timeouts.  Nobody in *)
(* this repository makes the recovery call: that it is made is assumed by  *)
(* the property that needs it.                                             *)
BringupSpec ==
    /\ BringupInit /\ [][BringupNext]_vars
    /\ \A p \in Procs : WF_vars(FixerStep(p))

-----------------------------------------------------------------------------
HostFields == DOMAIN ColdHost
BringupTypeOK ==
    /\ DOMAIN host = HostFields /\ host.plugged \subseteq Cameras /\ host.port \in Ports
    /\ safe \in BOOLEAN /\ lock \in Procs \cup {"free"}
    /\ \A p \in Procs :
         /\ At(p, "act") <=> lock = p
         /\ proc[p].pc \in {"idle", "fix", "lock", "act", "verify", "finish"}
         /\ proc[p].todo = <<>> <=> proc[p].pc \in {"idle", "finish"}

(* CONTRACT.md, section 3: when a pass of the checks makes the status      *)
(* HEALTHY, the host itself is as each guarantee says, but for the four    *)
(* cases the checks waive; all guarantees are given and no human is asked. *)
(* It needs every check that is skipped to be skipped for a reason another *)
(* check reports, and the checks to look at what the contract speaks of.   *)
HealthyMeansDelivered ==
    Status(host, safe) = "healthy" =>
       /\ \A g \in Guarantees \ Waived(host) : Promise(host, g)
       /\ \A c \in AllChecks : Guaranteed(Results(host), c)
       /\ RequiresHuman(Results(host)) = {}

(* cmd_apply exits 0 when nothing is left to fix: a complete apply during  *)
(* which nobody else changed the host, exits 0 only with all its fixers'   *)
(* checks OK, although every fixer was checked at a different time, and    *)
(* with a context gathered before the first of them acted.                 *)
ExitZeroMeansFixed ==
    \A p \in Procs :
       At(p, "finish") /\ proc[p].alone /\ proc[p].code = 0
       => \A f \in Fixers : Results(host)[f] = "OK"

(* attempt_recovery, when it is called again and again, closes the drift   *)
(* it has a fixer for, from any state two processes, a crash and a         *)
(* changing host may leave behind, once the host is one camera with its    *)
(* packages and not in SAFE mode.  A fingerprint that FAILs is not drift   *)
(* (a human confirms a camera that was swapped): only one that stops       *)
(* failing has to become OK.                                               *)
Recoverable == /\ Cardinality(host.plugged) = 1 /\ ~host.legacy /\ host.usbreset
               /\ host.script # "absent" /\ host.baseline.kind # "garbled" /\ ~safe
DriftCloses ==
    []<><<AttemptRecovery>>_vars /\ <>[]Recoverable
    => /\ <>[](\A f \in Fixers \ {"fingerprint"} : Results(host)[f] = "OK")
       /\ \/ []<>(Results(host)["fingerprint"] = "FAIL")
          \/ <>[](Results(host)["fingerprint"] = "OK")

(* CONTRACT.md, section 3: HEALTHY means every guarantee, as it is written *)
(* there.                                                                  *)
HealthyMeansContract ==
    Status(host, safe) = "healthy" => \A g \in Guarantees : Promise(host, g)

(* CONTRACT.md, section 3: HEALTHY means that the current serial is the    *)
(* one of the baseline.                                                    *)
HealthyMeansSameCamera ==
    Status(host, safe) = "healthy" => host.baseline.serial \in host.plugged

(* CONTRACT.md, section 5: another camera becomes the baseline only by a   *)
(* command of the operator, who confirms the swap.                         *)
SwapNeedsConfirmation ==
    [][ /\ host.baseline.serial # None
        /\ host'.baseline.serial \notin {None, host.baseline.serial}
        => lock = "cli" ]_vars
=============================================================================
