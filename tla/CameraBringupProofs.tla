------------------------- MODULE CameraBringupProofs -------------------------
(***************************************************************************)
(* What the bring-up layer says of a host is true of it, proved for any    *)
(* cameras, ports, number of faults and number of commands.                *)
(***************************************************************************)
EXTENDS CameraBringup, FiniteSetTheorems, WellFoundedInduction, TLAPS

\* The values that a host's settings can have, whatever happens to it.
HostOK(w) ==
    /\ DOMAIN w = HostFields
    /\ w.plugged \subseteq Cameras /\ w.port \in Ports
    /\ w.formats \in {"spec", "none", "nosize", "norate"}
    /\ w.env \in {"ok", "unknownformat", "unparsable"}
    /\ w.rate \in Nat
    /\ w.script \in {"exec", "noexec", "absent"}
    /\ w.uvc.conf \in {"spec", "other", "absent", "unparsable"}

-----------------------------------------------------------------------------
(* The checks.                                                             *)

LEMMA HealthyResults ==
    ASSUME NEW w, NEW b, Status(w, b) = "healthy", NEW c \in AllChecks
    PROVE  Results(w)[c] \notin {"ERROR", "FAIL", "WARN"}
<1>1. ~b /\ DeriveStatus(Results(w)) = "healthy"
  BY DEF Status
<1> DEFINE with(s) == {d \in AllChecks : Results(w)[d] = s}
<1>2. with("ERROR") = {} /\ with("FAIL") = {} /\ with("WARN") = {}
  <2> HIDE DEF with
  <2>1. DeriveStatus(Results(w)) =
          IF with("ERROR") # {} THEN "unknown"
          ELSE IF with("FAIL") # {} THEN IF with("FAIL") \cap Fixers # {} THEN "drifted" ELSE "broken"
          ELSE IF with("WARN") # {} THEN IF with("WARN") \cap Fixers # {} THEN "drifted" ELSE "degraded"
          ELSE "healthy"
    BY DEF DeriveStatus, with
  <2> QED
    BY <1>1, <2>1
<1> QED
  BY <1>2

LEMMA ResultOf ==
    ASSUME NEW w
    PROVE  /\ Results(w)["usb_enumerate"] = UsbEnumerate(w, CtxOf(w))
           /\ Results(w)["usb_power"] = UsbPower(w, CtxOf(w))
           /\ Results(w)["uvcvideo"] = Uvcvideo(w, CtxOf(w))
           /\ Results(w)["udev"] = Udev(w, CtxOf(w))
           /\ Results(w)["dev_symlinks"] = DevSymlinks(w, CtxOf(w))
           /\ Results(w)["v4l2"] = V4l2(w, CtxOf(w))
           /\ Results(w)["firmware"] = Firmware(w, CtxOf(w))
           /\ Results(w)["bandwidth"] = Bandwidth(w, CtxOf(w))
           /\ Results(w)["reset_tools"] = ResetTools(w, CtxOf(w))
           /\ Results(w)["smoke"] = Smoke(w, CtxOf(w))
           /\ Results(w)["fingerprint"] = Fingerprint(w, CtxOf(w))
  BY DEF Results, Check, AllChecks, Fixers

\* One camera, and the camera library's first one is that one.
LEMMA OneCamera ==
    ASSUME NEW S, S \subseteq Cameras, Cardinality(S) = 1
    PROVE  \E c : S = {c} /\ c \in Nat
<1>1. IsFiniteSet(S)
  BY BringupAssumption, FS_Subset
<1> QED
  BY <1>1, BringupAssumption, FS_Singleton

LEMMA SmallestOfOne ==
    ASSUME NEW c \in Nat
    PROVE  Min({c}) = c
<1>1. \E x \in {c} : \A y \in {c} : x =< y
  OBVIOUS
<1> QED
  BY <1>1, Zenon DEF Min

\* The host is as the guarantees say when no check complains: a check that
\* is skipped is skipped for want of a camera, and that one check reports.
LEMMA HealthyHost ==
    ASSUME NEW w, HostOK(w), NEW b, Status(w, b) = "healthy"
    PROVE  /\ \A g \in Guarantees \ Waived(w) : Promise(w, g)
           /\ \A c \in AllChecks : Results(w)[c] = "OK"
<1> DEFINE bad == {"ERROR", "FAIL", "WARN"}
<1>1. /\ UsbEnumerate(w, CtxOf(w)) \notin bad /\ UsbPower(w, CtxOf(w)) \notin bad
      /\ Uvcvideo(w, CtxOf(w)) \notin bad /\ Udev(w, CtxOf(w)) \notin bad
      /\ DevSymlinks(w, CtxOf(w)) \notin bad /\ V4l2(w, CtxOf(w)) \notin bad
      /\ Firmware(w, CtxOf(w)) \notin bad /\ Bandwidth(w, CtxOf(w)) \notin bad
      /\ ResetTools(w, CtxOf(w)) \notin bad /\ Smoke(w, CtxOf(w)) \notin bad
      /\ Fingerprint(w, CtxOf(w)) \notin bad
  <2> \A c \in AllChecks : Results(w)[c] \notin bad
    BY HealthyResults
  <2> QED
    BY ResultOf DEF AllChecks, Fixers
<1>2. Cardinality(w.plugged) = 1 /\ w.speed = 5000 /\ UsbEnumerate(w, CtxOf(w)) = "OK"
  BY <1>1 DEF UsbEnumerate
<1>3. CtxOf(w) = [sysfs |-> w.port, speed |-> 5000]
  BY <1>2 DEF CtxOf
<1>4. w.port # None
  BY BringupAssumption DEF HostOK, None
<1>5. w.power = PowerSpec /\ UsbPower(w, CtxOf(w)) = "OK"
  BY <1>1, <1>3, <1>4 DEF UsbPower
<1>6. /\ w.uvc.loaded /\ w.uvc.run = "spec" /\ w.uvc.conf \in {"spec", "absent"}
      /\ Uvcvideo(w, CtxOf(w)) = "OK"
  BY <1>1 DEF Uvcvideo, HostOK
<1>7. w.rule = "spec" /\ ~w.legacy /\ Udev(w, CtxOf(w)) = "OK"
  BY <1>1 DEF Udev
<1>8. w.link = "rgb" /\ DevSymlinks(w, CtxOf(w)) = "OK"
  BY <1>1 DEF DevSymlinks
<1>9. w.v4l2ctl /\ w.formats = "spec" /\ w.capture \in {"ok", "busy"} /\ V4l2(w, CtxOf(w)) = "OK"
  BY <1>1, <1>8 DEF V4l2, ListFormats, CaptureTest, HostOK
<1>10. w.bcd = "recent" /\ Firmware(w, CtxOf(w)) = "OK"
  BY <1>1, <1>3, <1>4 DEF Firmware
<1>11. w.env = "ok" /\ w.rate =< Useful(w.speed) /\ Bandwidth(w, CtxOf(w)) = "OK"
  <2>1. Useful(w.speed) = 40000 /\ CtxOf(w).speed = 5000 /\ w.rate \in Nat
    BY <1>2, <1>3 DEF Useful, HostOK
  <2> QED
    BY <1>1, <1>2, <2>1 DEF Bandwidth, HostOK
<1>12. w.script = "exec" /\ Importable(w) /\ w.usbreset /\ ResetTools(w, CtxOf(w)) = "OK"
  BY <1>1, <1>3, <1>4 DEF ResetTools, HostOK
<1>13. /\ w.ffmpeg /\ w.x264 /\ w.encoder # "absent"
       /\ Smoke(w, CtxOf(w)) = "OK"
  BY <1>1 DEF Smoke
<1>14. /\ Fingerprint(w, CtxOf(w)) = "OK"
       /\ ~Differs(w, CtxOf(w), "serial")
  BY <1>1 DEF Fingerprint
<1>15. w.baseline.serial = None \/ w.baseline.serial \in w.plugged
  <2>1. PICK c : w.plugged = {c} /\ c \in Nat
    BY <1>2, OneCamera DEF HostOK
  <2>2. CurrentFingerprint(w, CtxOf(w))["serial"] = c
    BY <1>12, <2>1, SmallestOfOne DEF CurrentFingerprint, PrimaryDevice
  <2> QED
    BY <1>14, <2>1, <2>2 DEF Differs
<1>16. ASSUME NEW g \in Guarantees \ Waived(w) PROVE Promise(w, g)
  <2>1. /\ \A k \in {"control", "autosuspend", "persist"} : w.power[k] = PowerSpec[k]
        /\ Cardinality(w.plugged) <= 1
    BY <1>2, <1>5
  <2>2. /\ g = "UVCVIDEO_QUIRKS_OK" => w.uvc.conf = "spec"
        /\ g = "V4L2_CAPTURE_READY" => w.capture = "ok"
        /\ g = "ENCODER_PREREQS_OK" => w.streamUnit
        /\ g = "IDENTITY_MATCHES_BASELINE" => w.baseline.serial \in w.plugged
    <3>1. /\ w.uvc.conf = "absent" => "UVCVIDEO_QUIRKS_OK" \in Waived(w)
          /\ w.capture = "busy" => "V4L2_CAPTURE_READY" \in Waived(w)
          /\ ~w.streamUnit => "ENCODER_PREREQS_OK" \in Waived(w)
          /\ w.baseline.serial = None => "IDENTITY_MATCHES_BASELINE" \in Waived(w)
      BY Zenon DEF Waived
    <3>2. g \notin Waived(w)
      OBVIOUS
    <3> QED
      BY <1>6, <1>9, <1>15, <3>1, <3>2, Zenon
  <2> QED
    BY <1>2, <1>6, <1>7, <1>8, <1>9, <1>10, <1>11, <1>12, <1>13, <2>1, <2>2
    DEF Promise
<1>17. \A c \in AllChecks : Results(w)[c] = "OK"
  BY <1>2, <1>5, <1>6, <1>7, <1>8, <1>9, <1>10, <1>11, <1>12, <1>13, <1>14, ResultOf
  DEF AllChecks, Fixers
<1> QED
  BY <1>16, <1>17

-----------------------------------------------------------------------------
(* The inductive invariant: what a running apply has behind it.            *)

FixerLists == {AllFixers, <<"udev", "reset_tools", "fingerprint">>,
             <<"reset_tools", "fingerprint">>, <<"fingerprint">>}
Running == {"fix", "lock", "act", "verify"}

\* The fixers that a list of fixers still to run has behind it.
Passed(todo) == {f \in Fixers : \A i \in DOMAIN todo : todo[i] # f}

ActsOf(f) ==
    CASE f = "usb_power" -> {"power rule", "trigger usb", "settle"}
      [] f = "udev" -> {"rule", "trigger video", "settle"}
      [] f = "reset_tools" -> {"make venv", "pip install", "chmod"}
      [] f = "fingerprint" -> {"make data dir", "secret", "baseline"}

\* A process that nobody disturbs has the context of the host as it is, and,
\* unless it has to report a failure, the checks behind it are OK still.
Undisturbed(q, w) ==
    /\ ~q.dry
    /\ q.pc \in Running => q.ctx = CtxOf(w)
    /\ q.code = 0 => \A f \in Passed(q.todo) : Check(f, w, CtxOf(w)) = "OK"

RunOK(q, w) ==
    /\ DOMAIN q = DOMAIN Idle
    /\ q.pc \in {"idle", "fix", "lock", "act", "verify", "finish"}
    /\ q.code \in 0..2
    /\ q.pc \in {"idle", "finish"} => q.todo = <<>>
    /\ q.pc \in Running => q.todo \in FixerLists
    /\ q.pc \in {"lock", "act"} => q.acts \in Seq(ActsOf(Head(q.todo)))
    /\ q.pc = "idle" => ~q.alone
    /\ q.alone => Undisturbed(q, w)

BringupInv ==
    /\ HostOK(host) /\ safe \in BOOLEAN /\ lock \in Procs \cup {"free"}
    /\ DOMAIN proc = Procs
    /\ \A p \in Procs : RunOK(proc[p], host) /\ (At(p, "act") <=> lock = p)

-----------------------------------------------------------------------------
(* The lists of fixers.                                                    *)

LEMMA Lists ==
    /\ Passed(AllFixers) = {}
    /\ Passed(<<"udev", "reset_tools", "fingerprint">>) = {"usb_power"}
    /\ Passed(<<"reset_tools", "fingerprint">>) = {"usb_power", "udev"}
    /\ Passed(<<"fingerprint">>) = {"usb_power", "udev", "reset_tools"}
    /\ Passed(<<>>) = Fixers
<1>1. Passed(AllFixers) = {}
  BY DEF Passed, AllFixers, Fixers
<1>2. Passed(<<"udev", "reset_tools", "fingerprint">>) = {"usb_power"}
  BY DEF Passed, Fixers
<1>3. Passed(<<"reset_tools", "fingerprint">>) = {"usb_power", "udev"}
  BY DEF Passed, Fixers
<1>4. Passed(<<"fingerprint">>) = {"usb_power", "udev", "reset_tools"}
  BY DEF Passed, Fixers
<1>5. Passed(<<>>) = Fixers
  BY DEF Passed, Fixers
<1> QED
  BY <1>1, <1>2, <1>3, <1>4, <1>5

\* A step to the next fixer puts exactly the first one behind.
LEMMA Advance ==
    ASSUME NEW t \in FixerLists
    PROVE  /\ Head(t) \in Fixers /\ t # <<>> /\ Len(t) \in Nat
           /\ Len(t) = 1 => Fixers = Passed(t) \cup {Head(t)}
           /\ Len(t) # 1 => /\ Tail(t) \in FixerLists
                            /\ Passed(Tail(t)) = Passed(t) \cup {Head(t)}
<1>1. CASE t = AllFixers
  <2>1. Head(t) = "usb_power" /\ Len(t) = 4 /\ t # <<>>
        /\ Tail(t) = <<"udev", "reset_tools", "fingerprint">>
    BY <1>1 DEF AllFixers
  <2>2. Tail(t) \in FixerLists
    BY <2>1 DEF FixerLists
  <2>3. Passed(Tail(t)) = Passed(t) \cup {Head(t)}
    BY <1>1, <2>1, Lists
  <2> QED
    BY <2>1, <2>2, <2>3 DEF Fixers
<1>2. CASE t = <<"udev", "reset_tools", "fingerprint">>
  <2>1. Head(t) = "udev" /\ Len(t) = 3 /\ Tail(t) = <<"reset_tools", "fingerprint">>
    BY <1>2
  <2> QED
    BY <1>2, <2>1, Lists DEF FixerLists, Fixers
<1>3. CASE t = <<"reset_tools", "fingerprint">>
  <2>1. Head(t) = "reset_tools" /\ Len(t) = 2 /\ Tail(t) = <<"fingerprint">>
    BY <1>3
  <2> QED
    BY <1>3, <2>1, Lists DEF FixerLists, Fixers
<1>4. CASE t = <<"fingerprint">>
  <2>1. Head(t) = "fingerprint" /\ Len(t) = 1
    BY <1>4
  <2> QED
    BY <1>4, <2>1, Lists DEF FixerLists, Fixers
<1> QED
  BY <1>1, <1>2, <1>3, <1>4 DEF FixerLists

\* The fixers that are behind a process, by the one it is at.
LEMMA Behind ==
    ASSUME NEW t \in FixerLists
    PROVE  /\ Head(t) = "usb_power" => Passed(t) = {}
           /\ Head(t) = "udev" => Passed(t) = {"usb_power"}
           /\ Head(t) = "reset_tools" => Passed(t) = {"usb_power", "udev"}
           /\ Head(t) = "fingerprint" => Passed(t) = {"usb_power", "udev", "reset_tools"}
<1>1. CASE t = AllFixers
  BY <1>1, Lists DEF AllFixers
<1>2. CASE t = <<"udev", "reset_tools", "fingerprint">>
  BY <1>2, Lists
<1>3. CASE t = <<"reset_tools", "fingerprint">>
  BY <1>3, Lists
<1>4. CASE t = <<"fingerprint">>
  BY <1>4, Lists
<1> QED
  BY <1>1, <1>2, <1>3, <1>4 DEF FixerLists

-----------------------------------------------------------------------------
(* The exit code, the plans and the next fixer.                            *)

LEMMA ExitCode ==
    ASSUME NEW c \in 0..2, NEW r
    PROVE  /\ FixerExitCode(c, r) \in 0..2
           /\ FixerExitCode(c, r) = 0 => c = 0 /\ r \notin {"FAILED", "UNFIXED"}
<1>1. PICK x \in 0..2 : /\ x = CASE r = "FAILED" -> 2 [] r = "UNFIXED" -> 1 [] OTHER -> 0
                        /\ x = 0 => r \notin {"FAILED", "UNFIXED"}
  OBVIOUS
<1>2. FixerExitCode(c, r) = Max({c, x})
  BY <1>1 DEF FixerExitCode
<1>3. Max({c, x}) \in {c, x} /\ Max({c, x}) >= c /\ Max({c, x}) >= x
  BY DEF Max
<1> QED
  BY <1>1, <1>2, <1>3

LEMMA PlanActs ==
    ASSUME NEW f \in Fixers
    PROVE  Plan(f) \in Seq(ActsOf(f))
<1>1. CASE f = "usb_power"
  <2>1. PlanPower \in Seq({"power rule", "trigger usb", "settle"})
    BY DEF PlanPower
  <2> QED
    BY <1>1, <2>1 DEF Plan, ActsOf
<1>2. CASE f = "udev"
  <2>1. PlanUdev \in Seq({"rule", "trigger video", "settle"})
    BY DEF PlanUdev
  <2> QED
    BY <1>2, <2>1 DEF Plan, ActsOf
<1>3. CASE f = "reset_tools"
  <2> DEFINE S == {"make venv", "pip install", "chmod"}
  <2>1. <<>> \in Seq(S) /\ <<"make venv">> \in Seq(S) /\ <<"pip install", "chmod">> \in Seq(S)
    OBVIOUS
  <2>2. PlanTools \in Seq(S)
    <3> HIDE DEF S
    <3>1. ASSUME NEW a \in Seq(S), NEW b \in Seq(S) PROVE a \o b \in Seq(S)
      OBVIOUS
    <3>2. (IF host.venv THEN <<>> ELSE <<"make venv">>) \in Seq(S)
      BY <2>1
    <3> QED
      BY <2>1, <3>1, <3>2, Zenon DEF PlanTools
  <2> QED
    BY <1>3, <2>2 DEF Plan, ActsOf
<1>4. CASE f = "fingerprint"
  <2> DEFINE S == {"make data dir", "secret", "baseline"}
  <2>1. /\ <<>> \in Seq(S) /\ <<"make data dir">> \in Seq(S)
        /\ <<"secret">> \in Seq(S) /\ <<"baseline">> \in Seq(S)
    OBVIOUS
  <2>2. PlanFingerprint \in Seq(S)
    <3> HIDE DEF S
    <3>1. ASSUME NEW a \in Seq(S), NEW b \in Seq(S) PROVE a \o b \in Seq(S)
      OBVIOUS
    <3>2. /\ (IF host.datadir THEN <<>> ELSE <<"make data dir">>) \in Seq(S)
          /\ (IF host.secret # None THEN <<>> ELSE <<"secret">>) \in Seq(S)
      BY <2>1
    <3> QED
      BY <2>1, <3>1, <3>2, Zenon DEF PlanFingerprint
  <2> QED
    BY <1>4, <2>2 DEF Plan, ActsOf
<1> QED
  BY <1>1, <1>2, <1>3, <1>4 DEF Fixers

\* Going to the next fixer after a good result needs the check to be OK.
LEMMA NextFixerOK ==
    ASSUME NEW w, NEW q, RunOK(q, w), q.pc \in Running, NEW r,
           r \in {"FAILED", "UNFIXED"}
           \/ q.dry \/ Check(Head(q.todo), w, q.ctx) = "OK"
    PROVE  RunOK(NextFixer(q, r), w) /\ NextFixer(q, r).pc # "act"
<1> DEFINE done == [q EXCEPT !.code = FixerExitCode(@, r), !.acts = <<>>,
                             !.secret = None, !.payload = NoBaseline]
<1>1. /\ DOMAIN done = DOMAIN Idle /\ done.todo = q.todo /\ done.alone = q.alone
      /\ done.dry = q.dry /\ done.ctx = q.ctx /\ done.code = FixerExitCode(q.code, r)
  BY DEF RunOK, Idle
<1>2. /\ done.code \in 0..2
      /\ done.code = 0 => q.code = 0 /\ r \notin {"FAILED", "UNFIXED"}
  BY <1>1, ExitCode DEF RunOK
<1>3. PICK t \in FixerLists : t = q.todo
  BY DEF RunOK
<1>4. /\ Len(t) = 1 => Fixers = Passed(t) \cup {Head(t)}
      /\ Len(t) # 1 => Tail(t) \in FixerLists /\ Passed(Tail(t)) = Passed(t) \cup {Head(t)}
  BY Advance
<1>5. q.alone /\ done.code = 0 =>
        \A f \in Passed(t) \cup {Head(t)} : Check(f, w, CtxOf(w)) = "OK"
  BY <1>2, <1>3 DEF RunOK, Undisturbed
<1> HIDE DEF done
<1>6. CASE Len(t) = 1
  <2> DEFINE s == Stopped(done)
  <2>1. s = [done EXCEPT !.todo = <<>>, !.pc = "finish", !.ctx = NoCtx]
    BY DEF Stopped
  <2>2. /\ DOMAIN s = DOMAIN Idle /\ s.todo = <<>> /\ s.pc = "finish"
        /\ s.alone = q.alone /\ s.dry = q.dry /\ s.code = done.code
    BY <1>1, <2>1 DEF Idle
  <2>3. NextFixer(q, r) = s
    BY <1>3, <1>6 DEF NextFixer, done
  <2>4. Passed(<<>>) = Fixers
    BY Lists
  <2> HIDE DEF s
  <2>5. q.alone => Undisturbed(s, w)
    BY <1>4, <1>5, <1>6, <2>2, <2>4 DEF Undisturbed, Running, RunOK
  <2> QED
    BY <1>2, <2>2, <2>3, <2>5 DEF RunOK, Running
<1>7. CASE Len(t) # 1
  <2> DEFINE s == [done EXCEPT !.todo = Tail(@), !.pc = "fix"]
  <2>2. /\ DOMAIN s = DOMAIN Idle /\ s.todo = Tail(t) /\ s.pc = "fix" /\ s.ctx = q.ctx
        /\ s.alone = q.alone /\ s.dry = q.dry /\ s.code = done.code
    BY <1>1, <1>3 DEF Idle
  <2>3. NextFixer(q, r) = s
    BY <1>3, <1>7 DEF NextFixer, done
  <2> HIDE DEF s
  <2>5. q.alone => Undisturbed(s, w)
    BY <1>4, <1>5, <1>7, <2>2 DEF Undisturbed, Running, RunOK
  <2> QED
    BY <1>2, <1>4, <1>7, <2>2, <2>3, <2>5 DEF RunOK, Running
<1> QED
  BY <1>6, <1>7

LEMMA StoppedOK ==
    ASSUME NEW w, NEW q, RunOK(q, w), q.code # 0
    PROVE  RunOK(Stopped(q), w) /\ Stopped(q).pc # "act"
<1>1. Stopped(q) = [q EXCEPT !.todo = <<>>, !.pc = "finish", !.ctx = NoCtx]
  BY DEF Stopped
<1>2. /\ DOMAIN Stopped(q) = DOMAIN Idle /\ Stopped(q).todo = <<>>
      /\ Stopped(q).pc = "finish" /\ Stopped(q).code = q.code
      /\ Stopped(q).alone = q.alone /\ Stopped(q).dry = q.dry
  BY <1>1 DEF RunOK, Idle
<1>3. q.alone => Undisturbed(Stopped(q), w)
  BY <1>2 DEF Undisturbed, RunOK, Running
<1> QED
  BY <1>2, <1>3 DEF RunOK, Running

LEMMA IdleOK ==
    ASSUME NEW w PROVE RunOK(Idle, w) /\ Idle.pc = "idle"
  BY DEF RunOK, Idle, Running

\* Whatever happens to the host, a process that is not alone is as before.
LEMMA DisturbedOK ==
    ASSUME NEW w, NEW x, NEW q, RunOK(q, w)
    PROVE  /\ RunOK([q EXCEPT !.alone = FALSE], x)
           /\ [q EXCEPT !.alone = FALSE].pc = q.pc
<1> DEFINE s == [q EXCEPT !.alone = FALSE]
<1>1. /\ DOMAIN s = DOMAIN Idle /\ s.pc = q.pc /\ s.code = q.code /\ s.todo = q.todo
      /\ s.acts = q.acts /\ s.alone = FALSE
  BY DEF RunOK, Idle
<1> HIDE DEF s
<1>2. RunOK(s, x) /\ s.pc = q.pc
  BY <1>1 DEF RunOK
<1> QED
  BY <1>2 DEF s

-----------------------------------------------------------------------------
(* The actions of the fixers on the host.                                  *)

\* One setting of a host is changed to a value it can have.
LEMMA SetField ==
    ASSUME NEW w, HostOK(w), NEW f \in HostFields, NEW v,
           f \notin {"plugged", "port", "formats", "env", "rate", "uvc"},
           f = "script" => v \in {"exec", "noexec", "absent"}
    PROVE  /\ HostOK([w EXCEPT ![f] = v])
           /\ \A g \in HostFields \ {f} : [w EXCEPT ![f] = v][g] = w[g]
<1> DEFINE x == [w EXCEPT ![f] = v]
<1>1. DOMAIN x = HostFields /\ (\A g \in HostFields \ {f} : x[g] = w[g]) /\ x[f] = v
  BY DEF HostOK
<1>2. {"plugged", "port", "formats", "env", "rate", "script", "uvc"} \subseteq HostFields
  BY DEF HostFields, ColdHost
<1> HIDE DEF x
<1>3. HostOK(x)
  <2>1. /\ x["plugged"] = w["plugged"] /\ x["port"] = w["port"] /\ x["formats"] = w["formats"]
        /\ x["env"] = w["env"] /\ x["rate"] = w["rate"] /\ x["uvc"] = w["uvc"]
    BY <1>1, <1>2
  <2>2. x["script"] \in {"exec", "noexec", "absent"}
    BY <1>1, <1>2 DEF HostOK
  <2> QED
    BY <1>1, <2>1, <2>2 DEF HostOK
<1> QED
  BY <1>1, <1>3 DEF x

\* The settings that the actions of each fixer may change.
Changes(f) ==
    CASE f = "usb_power" -> {"powerRule", "power"}
      [] f = "udev" -> {"rule", "link"}
      [] f = "reset_tools" -> {"venv", "pyrs", "script"}
      [] f = "fingerprint" -> {"datadir", "secret", "baseline"}

LEMMA EffectOf ==
    ASSUME NEW w, HostOK(w), NEW q, NEW f \in Fixers, NEW a \in ActsOf(f)
    PROVE  /\ HostOK(Effect(w, q, a))
           /\ \A g \in HostFields \ Changes(f) : Effect(w, q, a)[g] = w[g]
<1> DEFINE Kept(x) == HostOK(x) /\ \A g \in HostFields \ Changes(f) : x[g] = w[g]
<1>0. Kept(w)
  OBVIOUS
<1>1. ASSUME NEW k \in HostFields, NEW v, k \in Changes(f),
             k \notin {"plugged", "port", "formats", "env", "rate", "uvc"},
             k = "script" => v \in {"exec", "noexec", "absent"}
      PROVE  Kept([w EXCEPT ![k] = v])
  BY <1>1, SetField
<1>2. {"powerRule", "power", "rule", "link", "venv", "pyrs", "script", "datadir",
       "secret", "baseline"} \subseteq HostFields
  BY DEF HostFields, ColdHost
<1> HIDE DEF Kept
<1>3. CASE f = "usb_power"
  <2>1. a \in {"power rule", "trigger usb", "settle"}
        /\ Changes(f) = {"powerRule", "power"}
    BY <1>3 DEF ActsOf, Changes
  <2>2. Kept([w EXCEPT !["powerRule"] = TRUE]) /\ Kept([w EXCEPT !["power"] = PowerSpec])
    BY <1>1, <1>2, <2>1
  <2>3. Kept(UsbEvent(w))
    BY <1>0, <2>2 DEF UsbEvent
  <2>4. Effect(w, q, a) \in {w, [w EXCEPT !["powerRule"] = TRUE], UsbEvent(w)}
    BY <2>1 DEF Effect
  <2>5. Kept(Effect(w, q, a))
    BY <1>0, <2>2, <2>3, <2>4
  <2> QED
    BY <2>5 DEF Kept
<1>4. CASE f = "udev"
  <2>1. a \in {"rule", "trigger video", "settle"} /\ Changes(f) = {"rule", "link"}
    BY <1>4 DEF ActsOf, Changes
  <2>2. Kept([w EXCEPT !["rule"] = "spec"]) /\ Kept([w EXCEPT !["link"] = "rgb"])
    BY <1>1, <1>2, <2>1
  <2>3. Kept(VideoEvent(w))
    BY <1>0, <2>2 DEF VideoEvent
  <2>4. Effect(w, q, a) \in {w, [w EXCEPT !["rule"] = "spec"], VideoEvent(w)}
    BY <2>1 DEF Effect
  <2>5. Kept(Effect(w, q, a))
    BY <1>0, <2>2, <2>3, <2>4
  <2> QED
    BY <2>5 DEF Kept
<1>5. CASE f = "reset_tools"
  <2>1. a \in {"make venv", "pip install", "chmod"} /\ Changes(f) = {"venv", "pyrs", "script"}
    BY <1>5 DEF ActsOf, Changes
  <2>2. /\ Kept([w EXCEPT !["venv"] = TRUE]) /\ Kept([w EXCEPT !["pyrs"] = TRUE])
        /\ Kept([w EXCEPT !["script"] = "exec"])
    BY <1>1, <1>2, <2>1
  <2>4. Effect(w, q, a) \in {[w EXCEPT !["venv"] = TRUE], [w EXCEPT !["pyrs"] = TRUE],
                             [w EXCEPT !["script"] = "exec"]}
    BY <2>1 DEF Effect
  <2>5. Kept(Effect(w, q, a))
    BY <2>2, <2>4
  <2> QED
    BY <2>5 DEF Kept
<1>6. CASE f = "fingerprint"
  <2>1. a \in {"make data dir", "secret", "baseline"}
        /\ Changes(f) = {"datadir", "secret", "baseline"}
    BY <1>6 DEF ActsOf, Changes
  <2>2. /\ Kept([w EXCEPT !["datadir"] = TRUE]) /\ Kept([w EXCEPT !["secret"] = q.secret])
        /\ Kept([w EXCEPT !["baseline"] = q.payload])
    BY <1>1, <1>2, <2>1
  <2>4. Effect(w, q, a) \in {[w EXCEPT !["datadir"] = TRUE], [w EXCEPT !["secret"] = q.secret],
                             [w EXCEPT !["baseline"] = q.payload]}
    BY <2>1 DEF Effect
  <2>5. Kept(Effect(w, q, a))
    BY <2>2, <2>4
  <2> QED
    BY <2>5 DEF Kept
<1> QED
  BY <1>3, <1>4, <1>5, <1>6 DEF Fixers

\* What the checks of the first three fixers read.
LEMMA ChecksRead ==
    ASSUME NEW w, NEW x, NEW c
    PROVE  /\ x.plugged = w.plugged /\ x.port = w.port /\ x.speed = w.speed => CtxOf(x) = CtxOf(w)
           /\ x.plugged = w.plugged /\ x.port = w.port /\ x.power = w.power
              => Check("usb_power", x, c) = Check("usb_power", w, c)
           /\ x.rule = w.rule /\ x.legacy = w.legacy
              => Check("udev", x, c) = Check("udev", w, c)
           /\ x.script = w.script /\ x.venv = w.venv /\ x.pyrs = w.pyrs /\ x.usbreset = w.usbreset
              => Check("reset_tools", x, c) = Check("reset_tools", w, c)
<1>1. /\ \A y : Check("usb_power", y, c) = UsbPower(y, c)
      /\ \A y : Check("udev", y, c) = Udev(y, c)
      /\ \A y : Check("reset_tools", y, c) = ResetTools(y, c)
  BY DEF Check
<1>2. x.plugged = w.plugged /\ x.port = w.port /\ x.speed = w.speed => CtxOf(x) = CtxOf(w)
  BY DEF CtxOf
<1>3. x.plugged = w.plugged /\ x.port = w.port /\ x.power = w.power
      => UsbPower(x, c) = UsbPower(w, c)
  BY Zenon DEF UsbPower
<1>4. x.rule = w.rule /\ x.legacy = w.legacy => Udev(x, c) = Udev(w, c)
  BY Zenon DEF Udev
<1>5. x.script = w.script /\ x.venv = w.venv /\ x.pyrs = w.pyrs /\ x.usbreset = w.usbreset
      => ResetTools(x, c) = ResetTools(w, c)
  BY Zenon DEF ResetTools, Importable
<1> QED
  BY <1>1, <1>2, <1>3, <1>4, <1>5

\* An action of a fixer leaves the checks behind it as they were: no fixer
\* undoes what an earlier one has done, nor moves the camera.
LEMMA EffectKeeps ==
    ASSUME NEW w, HostOK(w), NEW q, NEW t \in FixerLists, NEW a \in ActsOf(Head(t))
    PROVE  /\ CtxOf(Effect(w, q, a)) = CtxOf(w)
           /\ \A f \in Passed(t) : \A c : Check(f, Effect(w, q, a), c) = Check(f, w, c)
<1>1. PICK h \in Fixers : h = Head(t)
  BY Advance
<1>2. PICK x : x = Effect(w, q, a)
  OBVIOUS
<1>3. \A g \in HostFields \ Changes(h) : x[g] = w[g]
  BY <1>1, <1>2, EffectOf
<1>4. {"plugged", "port", "speed", "power", "rule", "legacy", "script", "venv", "pyrs",
       "usbreset"} \subseteq HostFields
  BY DEF HostFields, ColdHost
<1>5. x["plugged"] = w["plugged"] /\ x["port"] = w["port"] /\ x["speed"] = w["speed"]
  BY <1>3, <1>4 DEF Changes, Fixers
<1>6. CtxOf(x) = CtxOf(w)
  BY <1>5, ChecksRead
<1>7. CASE h = "usb_power"
  BY <1>1, <1>2, <1>6, <1>7, Behind
<1>8. CASE h = "udev"
  <2>1. x["power"] = w["power"]
    BY <1>3, <1>4, <1>8 DEF Changes
  <2> QED
    BY <1>1, <1>2, <1>5, <1>6, <1>8, <2>1, Behind, ChecksRead
<1>9. CASE h = "reset_tools"
  <2>1. x["power"] = w["power"] /\ x["rule"] = w["rule"] /\ x["legacy"] = w["legacy"]
    BY <1>3, <1>4, <1>9 DEF Changes
  <2> QED
    BY <1>1, <1>2, <1>5, <1>6, <1>9, <2>1, Behind, ChecksRead
<1>10. CASE h = "fingerprint"
  <2>1. /\ x["power"] = w["power"] /\ x["rule"] = w["rule"] /\ x["legacy"] = w["legacy"]
        /\ x["script"] = w["script"] /\ x["venv"] = w["venv"] /\ x["pyrs"] = w["pyrs"]
        /\ x["usbreset"] = w["usbreset"]
    BY <1>3, <1>4, <1>10 DEF Changes
  <2> QED
    BY <1>1, <1>2, <1>5, <1>6, <1>10, <2>1, Behind, ChecksRead
<1> QED
  BY <1>7, <1>8, <1>9, <1>10 DEF Fixers

\* A process goes on alone after its own action.
LEMMA ExecuteOK ==
    ASSUME NEW w, HostOK(w), NEW q, RunOK(q, w), q.pc = "act", q.acts # <<>>
    PROVE  /\ RunOK([q EXCEPT !.acts = Tail(@)], Effect(w, q, Head(q.acts)))
           /\ HostOK(Effect(w, q, Head(q.acts)))
           /\ [q EXCEPT !.acts = Tail(@)].pc = "act"
<1>1. PICK t \in FixerLists : t = q.todo
  BY DEF RunOK, Running
<1>2. q.acts \in Seq(ActsOf(Head(t)))
  BY <1>1 DEF RunOK
<1>3. PICK a \in ActsOf(Head(t)) : a = Head(q.acts)
  BY <1>2
<1>4. Tail(q.acts) \in Seq(ActsOf(Head(t)))
  BY <1>2
<1> DEFINE s == [q EXCEPT !.acts = Tail(@)]
<1>5. /\ DOMAIN s = DOMAIN Idle /\ s.pc = q.pc /\ s.code = q.code /\ s.todo = t
      /\ s.acts = Tail(q.acts) /\ s.alone = q.alone /\ s.dry = q.dry /\ s.ctx = q.ctx
  BY <1>1 DEF RunOK, Idle
<1>6. PICK x : x = Effect(w, q, a)
  OBVIOUS
<1>7. HostOK(x)
  BY <1>6, EffectOf, Advance
<1>8. CtxOf(x) = CtxOf(w) /\ \A f \in Passed(t) : \A c : Check(f, x, c) = Check(f, w, c)
  <2>1. /\ CtxOf(Effect(w, q, a)) = CtxOf(w)
        /\ \A f \in Passed(t) : \A c : Check(f, Effect(w, q, a), c) = Check(f, w, c)
    <3>1. /\ HostOK(w) /\ t \in FixerLists /\ a \in ActsOf(Head(t))
      OBVIOUS
    <3> QED
      BY <3>1, EffectKeeps
  <2> QED
    BY <1>6, <2>1, Zenon
<1> HIDE DEF s
<1>9. q.alone => Undisturbed(s, x)
  BY <1>1, <1>5, <1>8 DEF RunOK, Undisturbed
<1>10. RunOK(s, x)
  BY <1>4, <1>5, <1>9 DEF RunOK, Running
<1> QED
  BY <1>3, <1>5, <1>6, <1>7, <1>10 DEF s

-----------------------------------------------------------------------------
(* The initial hosts.                                                      *)

LEMMA SmallestCamera == Min(Cameras) \in Cameras
<1> DEFINE R == {ss \in Nat \X Nat : ss[1] < ss[2]}
<1>1. OpToRel(<, Nat) = R
  BY Zenon DEF OpToRel
<1>2. Cameras \subseteq Nat /\ Cameras # {}
  BY BringupAssumption
<1>3. PICK n \in Cameras : \A m \in Cameras : ~(<<m, n>> \in R)
  BY <1>1, <1>2, WFMin, NatLessThanWellFounded
<1>4. ASSUME NEW m \in Cameras PROVE n =< m
  <2>1. <<m, n>> \notin R /\ <<m, n>> \in Nat \X Nat
    BY <1>2, <1>3
  <2> QED
    BY <1>2, <2>1
<1> QED
  BY <1>4, Zenon DEF Min

LEMMA ColdHostOK == HostOK(ColdHost)
<1>1. {Min(Cameras)} \subseteq Cameras
  BY SmallestCamera
<1> QED
  BY <1>1, BringupAssumption DEF HostOK, HostFields, ColdHost, SpecRate

LEMMA CommissionedOK == HostOK(Commissioned)
<1>1. DOMAIN Commissioned = HostFields
  BY DEF Commissioned, HostFields
<1>2. Commissioned.plugged \subseteq Cameras /\ Commissioned.port \in Ports
  BY SmallestCamera, BringupAssumption DEF Commissioned, ColdHost
<1>3. /\ Commissioned.formats = "spec" /\ Commissioned.env = "ok"
      /\ Commissioned.rate = SpecRate /\ Commissioned.script = "exec"
      /\ Commissioned.uvc.conf = "spec"
  BY DEF Commissioned, ColdHost
<1> QED
  BY <1>1, <1>2, <1>3 DEF HostOK, SpecRate

LEMMA DeviantOK ==
    ASSUME NEW f \in DOMAIN Deviation, NEW v \in Deviation[f]
    PROVE  HostOK([Commissioned EXCEPT ![f] = v])
<1> DEFINE x == [Commissioned EXCEPT ![f] = v]
<1>1. /\ f \in {"speed", "uvc", "link", "v4l2ctl", "formats", "capture", "bcd", "rate", "env",
                "ffmpeg", "x264", "encoder", "rundir", "muxUnit", "streamUnit"}
      /\ f = "formats" => v \in {"none", "nosize", "norate"}
      /\ f = "rate" => v \in {24001, 40000, 40001}
      /\ f = "env" => v \in {"unknownformat", "unparsable"}
      /\ f = "uvc" => v.conf \in {"spec", "other", "absent", "unparsable"}
  BY DEF Deviation
<1>2. /\ f \in HostFields
      /\ {"plugged", "port", "formats", "env", "rate", "script", "uvc"} \subseteq HostFields
  BY <1>1 DEF HostFields, ColdHost
<1>3. DOMAIN x = HostFields /\ x[f] = v /\ \A g \in HostFields \ {f} : x[g] = Commissioned[g]
  BY <1>2, CommissionedOK DEF HostOK
<1> HIDE DEF x
<1>4. HostOK(x)
  <2>1. x["plugged"] = Commissioned["plugged"] /\ x["port"] = Commissioned["port"]
        /\ x["script"] = Commissioned["script"]
    BY <1>1, <1>2, <1>3
  <2>2. x["formats"] \in {"spec", "none", "nosize", "norate"}
    BY <1>1, <1>2, <1>3, CommissionedOK DEF HostOK
  <2>3. x["env"] \in {"ok", "unknownformat", "unparsable"}
    BY <1>1, <1>2, <1>3, CommissionedOK DEF HostOK
  <2>4. x["rate"] \in Nat
    BY <1>1, <1>2, <1>3, CommissionedOK DEF HostOK
  <2>5. x["uvc"].conf \in {"spec", "other", "absent", "unparsable"}
    BY <1>1, <1>2, <1>3, CommissionedOK DEF HostOK
  <2> QED
    BY <1>3, <2>1, <2>2, <2>3, <2>4, <2>5, CommissionedOK DEF HostOK
<1> QED
  BY <1>4 DEF x

LEMMA BringupInit_OK == BringupInit => BringupInv
<1> SUFFICES ASSUME BringupInit PROVE BringupInv
  OBVIOUS
<1>1. HostOK(host)
  BY ColdHostOK, CommissionedOK, DeviantOK DEF BringupInit
<1>2. proc = [p \in Procs |-> Idle] /\ safe = FALSE /\ lock = "free"
  BY DEF BringupInit
<1>3. \A p \in Procs : proc[p] = Idle /\ p # "free"
  BY <1>2 DEF Procs
<1>4. \A p \in Procs : RunOK(proc[p], host) /\ proc[p].pc = "idle"
  BY <1>3, IdleOK
<1> QED
  BY <1>1, <1>2, <1>3, <1>4 DEF BringupInv, At

-----------------------------------------------------------------------------
(* What happens to a host.                                                 *)

LEMMA DriftOK ==
    ASSUME NEW w, HostOK(w), NEW f \in DOMAIN Drift, NEW v \in Drift[f]
    PROVE  HostOK([w EXCEPT ![f] = v])
<1>1. /\ f \in {"rule", "powerRule", "legacy", "power", "usbreset", "script", "venv", "pyrs",
                "ver", "secret", "baseline"}
      /\ f = "script" => v \in {"absent", "noexec"}
  BY DEF Drift
<1>2. f \in HostFields
  BY <1>1 DEF HostFields, ColdHost
<1> QED
  BY <1>1, <1>2, SetField

LEMMA EventsOK ==
    ASSUME NEW w, HostOK(w)
    PROVE  HostOK(UsbEvent(w)) /\ HostOK(VideoEvent(w))
<1>1. "power" \in HostFields /\ "link" \in HostFields
  BY DEF HostFields, ColdHost
<1>2. HostOK([w EXCEPT !["power"] = PowerSpec]) /\ HostOK([w EXCEPT !["link"] = "rgb"])
  BY <1>1, SetField
<1> QED
  BY <1>2 DEF UsbEvent, VideoEvent

\* The environment disturbs every process.
LEMMA ChangedKeeps ==
    ASSUME BringupInv, NEW w, HostOK(w), Changed(w)
    PROVE  BringupInv'
<1>1. host' = w /\ proc' = Disturbed(proc, "nobody") /\ safe' = safe /\ lock' = lock
  BY DEF Changed
<1>2. DOMAIN proc' = Procs
  BY <1>1 DEF Disturbed
<1>3. ASSUME NEW p \in Procs
      PROVE  RunOK(proc'[p], w) /\ proc'[p].pc = proc[p].pc
  <2>1. proc'[p] = [proc[p] EXCEPT !.alone = FALSE]
    BY <1>1 DEF Disturbed, Procs
  <2>2. PICK q : q = proc[p] /\ RunOK(q, host)
    BY DEF BringupInv
  <2>3. PICK h : h = host
    OBVIOUS
  <2>4. RunOK([q EXCEPT !.alone = FALSE], w) /\ [q EXCEPT !.alone = FALSE].pc = q.pc
    BY <2>2, <2>3, DisturbedOK
  <2> QED
    BY <2>1, <2>2, <2>4
<1> QED
  BY <1>1, <1>2, <1>3 DEF BringupInv, At

LEMMA EnvironmentKeeps == BringupInv /\ Environment => BringupInv'
<1> SUFFICES ASSUME BringupInv, Environment PROVE BringupInv'
  OBVIOUS
<1>0. HostOK(host)
  BY DEF BringupInv
<1>1. CASE HostDrifts
  <2>1. PICK f \in DOMAIN Drift : \E v \in Drift[f] : Changed([host EXCEPT ![f] = v])
    BY <1>1 DEF HostDrifts
  <2>2. PICK v \in Drift[f] : Changed([host EXCEPT ![f] = v])
    BY <2>1
  <2>3. HostOK([host EXCEPT ![f] = v])
    BY <1>0, DriftOK
  <2>4. PICK w : w = [host EXCEPT ![f] = v]
    OBVIOUS
  <2> QED
    BY <2>2, <2>3, <2>4, ChangedKeeps
<1>2. CASE BaselineEdited
  <2>1. PICK w : w = [host EXCEPT !.baseline.sig = Forged]
    OBVIOUS
  <2>2. Changed(w)
    BY <1>2, <2>1 DEF BaselineEdited
  <2>3. "baseline" \in HostFields
    BY DEF HostFields, ColdHost
  <2>4. HostOK(w)
    BY <1>0, <2>1, <2>3, SetField
  <2> QED
    BY <2>2, <2>4, ChangedKeeps
<1>3. CASE Unplugged
  <2>1. PICK c \in host.plugged :
           LET w == [host EXCEPT !.plugged = @ \ {c}]
           IN Changed(IF w.link = "file" \/ w.plugged # {} THEN w
                      ELSE [w EXCEPT !.link = "absent"])
    BY <1>3 DEF Unplugged
  <2>2. PICK w : w = [host EXCEPT !.plugged = @ \ {c}]
    OBVIOUS
  <2>3. HostOK(w)
    BY <1>0, <2>2 DEF HostOK, HostFields, ColdHost
  <2>4. "link" \in HostFields
    BY DEF HostFields, ColdHost
  <2>5. HostOK([w EXCEPT !["link"] = "absent"])
    BY <2>3, <2>4, SetField
  <2>6. PICK x : /\ x = IF w.link = "file" \/ w.plugged # {} THEN w
                        ELSE [w EXCEPT !.link = "absent"]
    OBVIOUS
  <2>7. HostOK(x) /\ Changed(x)
    BY <2>1, <2>2, <2>3, <2>5, <2>6
  <2> QED
    BY <2>7, ChangedKeeps
<1>4. CASE Plugged
  <2>1. PICK c \in Cameras \ host.plugged, port \in Ports :
           Changed(VideoEvent(UsbEvent(
              [host EXCEPT !.plugged = @ \cup {c}, !.power = KernelPower,
                           !.port = IF host.plugged = {} THEN port ELSE @])))
    BY <1>4 DEF Plugged
  <2>2. PICK w : w = [host EXCEPT !.plugged = @ \cup {c}, !.power = KernelPower,
                                  !.port = IF host.plugged = {} THEN port ELSE @]
    OBVIOUS
  <2>3. /\ DOMAIN w = HostFields /\ w.plugged = host.plugged \cup {c}
        /\ w.port \in Ports /\ w.formats = host.formats /\ w.env = host.env
        /\ w.rate = host.rate /\ w.script = host.script /\ w.uvc = host.uvc
    BY <1>0, <2>2 DEF HostOK, HostFields, ColdHost
  <2>4. HostOK(w)
    BY <1>0, <2>3 DEF HostOK
  <2>5. HostOK(VideoEvent(UsbEvent(w)))
    BY <2>4, EventsOK
  <2>6. PICK x : x = VideoEvent(UsbEvent(w))
    OBVIOUS
  <2> QED
    BY <2>1, <2>2, <2>5, <2>6, ChangedKeeps
<1> QED
  BY <1>1, <1>2, <1>3, <1>4 DEF Environment

-----------------------------------------------------------------------------
(* One lemma for the step of one process, one per action of its caller.    *)

\* Process p goes to q, the host and the lock go with it.
LEMMA OneProcess ==
    ASSUME BringupInv, NEW p \in Procs, NEW q, proc' = [proc EXCEPT ![p] = q],
           host' = host, RunOK(q, host), safe' \in BOOLEAN, q.pc # "act",
           lock' = Release(p) \/ (lock' = lock /\ ~At(p, "act"))
    PROVE  BringupInv'
<1>1. lock' \in Procs \cup {"free"} /\ lock' # p
      /\ \A r \in Procs \ {p} : lock' = r <=> lock = r
  BY DEF BringupInv, Release, Procs
<1>2. DOMAIN proc' = Procs /\ proc'[p] = q /\ \A r \in Procs \ {p} : proc'[r] = proc[r]
  BY DEF BringupInv
<1>3. HostOK(host')
  BY DEF BringupInv
<1>4. ASSUME NEW r \in Procs PROVE RunOK(proc'[r], host') /\ (proc'[r].pc = "act" <=> lock' = r)
  BY <1>1, <1>2 DEF BringupInv, At
<1> QED
  BY <1>1, <1>2, <1>3, <1>4 DEF BringupInv, At

\* A command starts with nothing behind it.
LEMMA StartOK ==
    ASSUME NEW w, NEW q, DOMAIN q = DOMAIN Idle, q.pc = "fix", q.ctx = CtxOf(w),
           q.todo \in {AllFixers, <<"fingerprint">>}, q.code = 0,
           q.alone => ~q.dry /\ q.todo = AllFixers
    PROVE  RunOK(q, w)
<1>1. q.alone => Undisturbed(q, w)
  BY Lists DEF Undisturbed
<1>2. q.todo \in FixerLists
  BY DEF FixerLists
<1> QED
  BY <1>1, <1>2 DEF RunOK, Running

LEMMA AttemptRecoveryKeeps == BringupInv /\ AttemptRecovery => BringupInv'
<1> SUFFICES ASSUME BringupInv, AttemptRecovery PROVE BringupInv'
  OBVIOUS
<1>1. PICK q : q = [Idle EXCEPT !.pc = "fix", !.ctx = CtxOf(host), !.todo = AllFixers, !.alone = TRUE]
  OBVIOUS
<1>2. /\ DOMAIN q = DOMAIN Idle /\ q.pc = "fix" /\ q.ctx = CtxOf(host) /\ q.dry = FALSE
      /\ q.todo = AllFixers /\ q.code = 0
  BY <1>1 DEF Idle
<1>3. RunOK(q, host)
  BY <1>2, StartOK
<1>4. /\ proc' = [proc EXCEPT !["api"] = q] /\ host' = host /\ lock' = lock /\ safe' = safe
      /\ ~At("api", "act") /\ "api" \in Procs
  BY <1>1 DEF AttemptRecovery, At, Procs
<1>5. safe' \in BOOLEAN
  BY <1>4 DEF BringupInv
<1> QED
  BY <1>2, <1>3, <1>4, <1>5, OneProcess

LEMMA CmdApplyKeeps ==
    ASSUME BringupInv, NEW only \in {AllFixers, <<"fingerprint">>}, NEW dry \in BOOLEAN,
           CmdApply(only, dry)
    PROVE  BringupInv'
<1>1. PICK b \in BOOLEAN : b = (~dry /\ only = AllFixers)
  OBVIOUS
<1>2. PICK q : q = [Idle EXCEPT !.pc = "fix", !.ctx = CtxOf(host), !.dry = dry, !.todo = only,
                                !.alone = b]
  OBVIOUS
<1>3. RunOK(q, host) /\ q.pc = "fix"
  <2>1. /\ DOMAIN q = DOMAIN Idle /\ q.pc = "fix" /\ q.ctx = CtxOf(host) /\ q.dry = dry
        /\ q.todo = only /\ q.code = 0 /\ q.alone = b
    BY <1>2 DEF Idle
  <2> QED
    BY <1>1, <2>1, StartOK
<1>4. /\ proc' = [proc EXCEPT !["cli"] = q] /\ host' = host /\ lock' = lock /\ safe' = safe
      /\ ~At("cli", "act") /\ "cli" \in Procs
  BY <1>1, <1>2 DEF CmdApply, At, Procs
<1>5. safe' \in BOOLEAN
  BY <1>4 DEF BringupInv
<1> QED
  BY <1>3, <1>4, <1>5, OneProcess

\* The data directory is of no interest to any check.
LEMMA CmdSafeKeeps ==
    ASSUME BringupInv, NEW enter \in BOOLEAN, CmdSafe(enter)
    PROVE  BringupInv'
<1>1. PICK w : w = host
  OBVIOUS
<1>2. PICK v : v = (w.datadir \/ enter)
  OBVIOUS
<1> DEFINE x == [w EXCEPT !["datadir"] = v]
<1>3. host' = x /\ safe' = enter /\ UNCHANGED <<proc, lock>> /\ HostOK(w)
  BY <1>1, <1>2 DEF CmdSafe, BringupInv
<1>4. HostOK(x) /\ \A g \in HostFields \ {"datadir"} : x[g] = w[g]
  <2>1. "datadir" \in HostFields
    BY DEF HostFields, ColdHost
  <2> QED
    BY <1>3, <2>1, SetField
<1> HIDE DEF x
<1>5. /\ x["plugged"] = w["plugged"] /\ x["port"] = w["port"] /\ x["speed"] = w["speed"]
      /\ x["power"] = w["power"] /\ x["rule"] = w["rule"] /\ x["legacy"] = w["legacy"]
      /\ x["script"] = w["script"] /\ x["venv"] = w["venv"] /\ x["pyrs"] = w["pyrs"]
      /\ x["usbreset"] = w["usbreset"] /\ x["baseline"] = w["baseline"]
      /\ x["secret"] = w["secret"] /\ x["ver"] = w["ver"]
  <2>1. {"plugged", "port", "speed", "power", "rule", "legacy", "script", "venv", "pyrs",
         "usbreset", "baseline", "secret", "ver"} \subseteq HostFields
    BY DEF HostFields, ColdHost
  <2> QED
    BY <1>4, <2>1
<1>6. CtxOf(x) = CtxOf(w)
  BY <1>5, ChecksRead
<1>7. \A f \in Fixers : \A c : Check(f, x, c) = Check(f, w, c)
  <2>1. \A c : Fingerprint(x, c) = Fingerprint(w, c)
    BY <1>5, Zenon DEF Fingerprint, SignatureInvalid, Differs, CurrentFingerprint, PrimaryDevice,
                       Importable
  <2>2. \A y, c : Check("fingerprint", y, c) = Fingerprint(y, c)
    BY DEF Check
  <2> QED
    BY <1>5, <2>1, <2>2, ChecksRead DEF Fixers
<1>8. ASSUME NEW p \in Procs PROVE RunOK(proc[p], x)
  <2>1. PICK q : q = proc[p] /\ RunOK(q, w)
    BY <1>1 DEF BringupInv
  <2>2. q.alone => Undisturbed(q, x)
    <3>1. Passed(q.todo) \subseteq Fixers
      BY DEF Passed
    <3> QED
      BY <1>6, <1>7, <2>1, <3>1 DEF RunOK, Undisturbed
  <2>3. RunOK(q, x)
    BY <2>1, <2>2 DEF RunOK
  <2> QED
    BY <2>1, <2>3
<1> QED
  BY <1>3, <1>4, <1>8 DEF BringupInv, At

-----------------------------------------------------------------------------
(* The steps of run_fixer.                                                 *)

LEMMA PreCheckKeeps ==
    ASSUME BringupInv, NEW p \in Procs, PreCheck(p)
    PROVE  BringupInv'
<1>1. PICK q : q = proc[p]
  OBVIOUS
<1>2. RunOK(q, host) /\ q.pc = "fix" /\ safe \in BOOLEAN
  BY <1>1 DEF BringupInv, PreCheck, At
<1>3. /\ host' = host /\ lock' = lock /\ safe' = safe /\ ~At(p, "act")
  BY <1>1, <1>2 DEF PreCheck, At
<1> DEFINE ok == Check(Fixer(p), host, q.ctx) = "OK"
<1>6. CASE ~ok /\ PlanRaises(Fixer(p))
  <2>1. proc' = [proc EXCEPT ![p] = Idle]
    BY <1>1, <1>6 DEF PreCheck
  <2>2. RunOK(Idle, host) /\ Idle.pc # "act"
    BY IdleOK
  <2> QED
    BY <1>2, <1>3, <2>1, <2>2, OneProcess
<1>4. CASE ~(~ok /\ PlanRaises(Fixer(p))) /\ (ok \/ q.dry)
  <2>1. PICK s : s = NextFixer(q, "SKIPPED")
    OBVIOUS
  <2>2. proc' = [proc EXCEPT ![p] = s]
    BY <1>1, <1>4, <2>1 DEF PreCheck
  <2>3. RunOK(s, host) /\ s.pc # "act"
    BY <1>1, <1>2, <1>4, <2>1, NextFixerOK DEF Fixer, Running
  <2> QED
    BY <1>2, <1>3, <2>2, <2>3, OneProcess
<1>5. CASE ~(~ok /\ PlanRaises(Fixer(p))) /\ ~(ok \/ q.dry)
  <2>1. PICK a, b, c :
          /\ a = Plan(Fixer(p))
          /\ b = IF "secret" \in Range(Plan(Fixer(p))) THEN FreshSecret ELSE None
          /\ c = IF Fixer(p) = "fingerprint" THEN AttachSignature(BuildFingerprint(q.ctx))
                 ELSE NoBaseline
    OBVIOUS
  <2> DEFINE s == [q EXCEPT !.pc = "lock", !.acts = a, !.secret = b, !.payload = c]
  <2>2. proc' = [proc EXCEPT ![p] = s]
    BY <1>1, <1>5, <2>1, Zenon DEF PreCheck
  <2>3. /\ DOMAIN s = DOMAIN Idle /\ s.pc = "lock" /\ s.acts = a /\ s.code = q.code
        /\ s.todo = q.todo /\ s.alone = q.alone /\ s.dry = q.dry /\ s.ctx = q.ctx
    BY <1>2 DEF RunOK, Idle
  <2> HIDE DEF s
  <2>4. q.todo \in FixerLists /\ Head(q.todo) \in Fixers
    BY <1>2, Advance DEF RunOK, Running
  <2>5. a \in Seq(ActsOf(Head(q.todo)))
    BY <1>1, <2>1, <2>4, PlanActs DEF Fixer
  <2>6. q.alone => Undisturbed(s, host)
    BY <1>2, <2>3 DEF RunOK, Undisturbed, Running
  <2>7. RunOK(s, host)
    BY <1>2, <2>3, <2>4, <2>5, <2>6 DEF RunOK, Running
  <2> QED
    BY <1>2, <1>3, <2>2, <2>3, <2>7, OneProcess
<1> QED
  BY <1>4, <1>5, <1>6

\* Moving on within a fixer changes nothing else of a process.
LEMMA MoveOK ==
    ASSUME NEW w, NEW q, RunOK(q, w), NEW k,
           \/ q.pc = "lock" /\ k = "act"
           \/ q.pc = "act" /\ k = "verify"
    PROVE  RunOK([q EXCEPT !.pc = k], w) /\ [q EXCEPT !.pc = k].pc = k
<1> DEFINE s == [q EXCEPT !.pc = k]
<1>1. /\ DOMAIN s = DOMAIN Idle /\ s.pc = k /\ s.acts = q.acts /\ s.code = q.code
      /\ s.todo = q.todo /\ s.alone = q.alone /\ s.dry = q.dry /\ s.ctx = q.ctx
  BY DEF RunOK, Idle
<1> HIDE DEF s
<1>2. q.alone => Undisturbed(s, w)
  BY <1>1 DEF RunOK, Undisturbed, Running
<1>3. RunOK(s, w)
  BY <1>1, <1>2 DEF RunOK, Running
<1> QED
  BY <1>1, <1>3 DEF s

LEMMA ApplyLockKeeps ==
    ASSUME BringupInv, NEW p \in Procs, ApplyLock(p)
    PROVE  BringupInv'
<1>1. PICK q : q = proc[p]
  OBVIOUS
<1>2. RunOK(q, host) /\ q.pc = "lock" /\ safe \in BOOLEAN
  BY <1>1 DEF BringupInv, ApplyLock, At
<1>3. host' = host /\ safe' = safe /\ ~At(p, "act")
  BY <1>1, <1>2 DEF ApplyLock, At
<1>4. CASE lock = "free" /\ lock' = p /\ proc' = [proc EXCEPT ![p].pc = "act"]
  <2>1. PICK s : s = [q EXCEPT !.pc = "act"]
    OBVIOUS
  <2>2. RunOK(s, host) /\ s.pc = "act"
    BY <1>2, <2>1, MoveOK
  <2>3. DOMAIN proc' = Procs /\ proc'[p] = s /\ \A r \in Procs \ {p} : proc'[r] = proc[r]
    BY <1>1, <1>4, <2>1 DEF BringupInv
  <2>4. ASSUME NEW r \in Procs
        PROVE  RunOK(proc'[r], host') /\ (proc'[r].pc = "act" <=> lock' = r)
    BY <1>3, <1>4, <2>2, <2>3 DEF BringupInv, At, Procs
  <2> QED
    BY <1>3, <1>4, <2>3, <2>4 DEF BringupInv, At
<1>5. CASE UNCHANGED lock /\ proc' = [proc EXCEPT ![p] = Idle]
  <2>1. RunOK(Idle, host) /\ Idle.pc # "act"
    BY IdleOK
  <2> QED
    BY <1>2, <1>3, <1>5, <2>1, OneProcess
<1> QED
  BY <1>4, <1>5 DEF ApplyLock

LEMMA ExecuteKeeps ==
    ASSUME BringupInv, NEW p \in Procs, Execute(p)
    PROVE  BringupInv'
<1>1. PICK q, w, x : q = proc[p] /\ w = host /\ x = Effect(w, q, Head(q.acts))
  OBVIOUS
<1>2. RunOK(q, w) /\ HostOK(w) /\ q.pc = "act" /\ q.acts # <<>>
  BY <1>1 DEF BringupInv, Execute, At
<1>3. PICK s : s = [q EXCEPT !.acts = Tail(@)]
  OBVIOUS
<1>4. RunOK(s, x) /\ HostOK(x) /\ s.pc = "act"
  BY <1>1, <1>2, <1>3, ExecuteOK
<1>5. /\ host' = x /\ safe' = safe /\ lock' = lock
      /\ proc' = Disturbed([proc EXCEPT ![p].acts = Tail(@)], p)
  BY <1>1 DEF Execute
<1>6. /\ DOMAIN proc' = Procs /\ proc'[p] = s
      /\ \A r \in Procs \ {p} : proc'[r] = [proc[r] EXCEPT !.alone = FALSE]
  BY <1>1, <1>3, <1>5 DEF Disturbed, BringupInv
<1>7. ASSUME NEW r \in Procs \ {p}
      PROVE  RunOK(proc'[r], x) /\ proc'[r].pc = proc[r].pc
  <2>1. PICK z : z = proc[r] /\ RunOK(z, w)
    BY <1>1 DEF BringupInv
  <2>2. RunOK([z EXCEPT !.alone = FALSE], x) /\ [z EXCEPT !.alone = FALSE].pc = z.pc
    BY <2>1, DisturbedOK
  <2> QED
    BY <1>6, <2>1, <2>2
<1>8. ASSUME NEW r \in Procs
      PROVE  RunOK(proc'[r], x) /\ proc'[r].pc = proc[r].pc
  BY <1>1, <1>2, <1>4, <1>6, <1>7
<1> QED
  BY <1>4, <1>5, <1>6, <1>8 DEF BringupInv, At

LEMMA ExecuteFailsKeeps ==
    ASSUME BringupInv, NEW p \in Procs, ExecuteFails(p)
    PROVE  BringupInv'
<1>1. PICK q, s : q = proc[p] /\ s = NextFixer(q, "FAILED")
  OBVIOUS
<1>2. RunOK(q, host) /\ q.pc = "act" /\ safe \in BOOLEAN /\ DOMAIN proc = Procs
  BY <1>1 DEF BringupInv, ExecuteFails, At
<1>3. RunOK(s, host) /\ s.pc # "act"
  BY <1>1, <1>2, NextFixerOK DEF Running
<1>4. s.code # 0
  <2>1. FixerExitCode(q.code, "FAILED") # 0
    BY <1>2, ExitCode DEF RunOK
  <2> DEFINE done == [q EXCEPT !.code = FixerExitCode(@, "FAILED"), !.acts = <<>>,
                               !.secret = None, !.payload = NoBaseline]
  <2>2. DOMAIN done = DOMAIN Idle /\ done.code = FixerExitCode(q.code, "FAILED")
    BY <1>2 DEF RunOK, Idle
  <2>3. s = IF Len(q.todo) = 1 THEN Stopped(done) ELSE [done EXCEPT !.todo = Tail(@), !.pc = "fix"]
    BY <1>1 DEF NextFixer
  <2> HIDE DEF done
  <2>4. s.code = done.code
    BY <2>2, <2>3 DEF Stopped, Idle
  <2> QED
    BY <2>1, <2>2, <2>4
<1>5. RunOK(Stopped(s), host) /\ Stopped(s).pc # "act"
  BY <1>3, <1>4, StoppedOK
<1>6. host' = host /\ safe' = safe /\ lock' = Release(p)
  BY DEF ExecuteFails
<1>7. proc' = [proc EXCEPT ![p] = s] \/ proc' = [proc EXCEPT ![p] = Stopped(s)]
  BY <1>1, <1>2 DEF ExecuteFails
<1>8. CASE proc' = [proc EXCEPT ![p] = s]
  BY <1>2, <1>3, <1>6, <1>8, OneProcess
<1>9. CASE proc' = [proc EXCEPT ![p] = Stopped(s)]
  BY <1>2, <1>5, <1>6, <1>9, OneProcess
<1> QED
  BY <1>7, <1>8, <1>9

LEMMA UnlockKeeps ==
    ASSUME BringupInv, NEW p \in Procs, Unlock(p)
    PROVE  BringupInv'
<1>1. PICK q, s : q = proc[p] /\ s = [q EXCEPT !.pc = "verify"]
  OBVIOUS
<1>2. RunOK(q, host) /\ q.pc = "act" /\ safe \in BOOLEAN /\ DOMAIN proc = Procs
  BY <1>1 DEF BringupInv, Unlock, At
<1>3. RunOK(s, host) /\ s.pc # "act"
  BY <1>1, <1>2, MoveOK
<1>4. host' = host /\ safe' = safe /\ lock' = Release(p) /\ proc' = [proc EXCEPT ![p] = s]
  BY <1>1, <1>2 DEF Unlock
<1> QED
  BY <1>2, <1>3, <1>4, OneProcess

LEMMA VerifyKeeps ==
    ASSUME BringupInv, NEW p \in Procs, Verify(p)
    PROVE  BringupInv'
<1>1. PICK q, k : /\ q = proc[p]
                  /\ k = IF Check(Fixer(p), host, q.ctx) = "OK" THEN "APPLIED" ELSE "UNFIXED"
  OBVIOUS
<1>2. RunOK(q, host) /\ q.pc = "verify" /\ safe \in BOOLEAN /\ DOMAIN proc = Procs
  BY <1>1 DEF BringupInv, Verify, At
<1>3. PICK s : s = NextFixer(q, k)
  OBVIOUS
<1>4. RunOK(s, host) /\ s.pc # "act"
  BY <1>1, <1>2, <1>3, NextFixerOK DEF Running, Fixer
<1>5. /\ host' = host /\ safe' = safe /\ lock' = lock /\ proc' = [proc EXCEPT ![p] = s]
      /\ ~At(p, "act")
  BY <1>1, <1>2, <1>3 DEF Verify, At
<1> QED
  BY <1>2, <1>4, <1>5, OneProcess

LEMMA FinishDieKeeps ==
    ASSUME BringupInv, NEW p \in Procs, Finish(p) \/ Die(p)
    PROVE  BringupInv'
<1>1. RunOK(Idle, host) /\ Idle.pc # "act"
  BY IdleOK
<1>2. /\ host' = host /\ safe' = safe /\ proc' = [proc EXCEPT ![p] = Idle]
      /\ lock' = Release(p) \/ (lock' = lock /\ ~At(p, "act"))
  BY DEF Finish, Die, At
<1>3. safe' \in BOOLEAN
  BY <1>2 DEF BringupInv
<1> QED
  BY <1>1, <1>2, <1>3, OneProcess

LEMMA BringupStep == BringupInv /\ [BringupNext]_vars => BringupInv'
<1> SUFFICES ASSUME BringupInv, [BringupNext]_vars PROVE BringupInv'
  OBVIOUS
<1>1. CASE AttemptRecovery
  BY <1>1, AttemptRecoveryKeeps
<1>2. CASE \E only \in {AllFixers, <<"fingerprint">>}, dry \in BOOLEAN : CmdApply(only, dry)
  BY <1>2, CmdApplyKeeps
<1>3. CASE \E enter \in BOOLEAN : CmdSafe(enter)
  BY <1>3, CmdSafeKeeps
<1>4. CASE \E p \in Procs : FixerStep(p) \/ Die(p)
  BY <1>4, PreCheckKeeps, ApplyLockKeeps, ExecuteKeeps, ExecuteFailsKeeps, UnlockKeeps,
     VerifyKeeps, FinishDieKeeps DEF FixerStep
<1>5. CASE Environment
  BY <1>5, EnvironmentKeeps
<1>6. CASE UNCHANGED vars
  BY <1>6 DEF vars, BringupInv, At
<1> QED
  BY <1>1, <1>2, <1>3, <1>4, <1>5, <1>6 DEF BringupNext

THEOREM BringupInvariant == BringupSpec => []BringupInv
<1> QED
  BY BringupInit_OK, BringupStep, PTL DEF BringupSpec

-----------------------------------------------------------------------------
(* The theorems.                                                           *)

\* A process is among the actions of a fixer exactly while it has the lock
\* of apply_lock, and it has fixers to run exactly while a command runs.
THEOREM BringupTypes == BringupSpec => []BringupTypeOK
<1>1. BringupInv => BringupTypeOK
  <2> SUFFICES ASSUME BringupInv PROVE BringupTypeOK
    OBVIOUS
  <2>1. ASSUME NEW p \in Procs
        PROVE  /\ At(p, "act") <=> lock = p
               /\ proc[p].pc \in {"idle", "fix", "lock", "act", "verify", "finish"}
               /\ proc[p].todo = <<>> <=> proc[p].pc \in {"idle", "finish"}
    <3>1. RunOK(proc[p], host)
      BY DEF BringupInv
    <3>2. proc[p].pc \in Running => proc[p].todo # <<>>
      BY <3>1, Advance DEF RunOK
    <3> QED
      BY <3>1, <3>2 DEF BringupInv, RunOK, Running
  <2> QED
    BY <2>1 DEF BringupTypeOK, BringupInv, HostOK
<1> QED
  BY <1>1, BringupInvariant, PTL

\* CONTRACT.md, section 3: a host that a pass of the checks calls HEALTHY is
\* as every guarantee says, but for the four cases the checks waive, and no
\* human is asked for.  None of the checks was skipped for a reason that
\* nobody reports.
THEOREM StatusIsTrue == BringupSpec => []HealthyMeansDelivered
<1>1. BringupInv => HealthyMeansDelivered
  <2> SUFFICES ASSUME BringupInv, Status(host, safe) = "healthy"
               PROVE  /\ \A g \in Guarantees \ Waived(host) : Promise(host, g)
                      /\ \A c \in AllChecks : Guaranteed(Results(host), c)
                      /\ RequiresHuman(Results(host)) = {}
    BY DEF HealthyMeansDelivered
  <2>1. /\ \A g \in Guarantees \ Waived(host) : Promise(host, g)
        /\ \A c \in AllChecks : Results(host)[c] = "OK"
    BY HealthyHost DEF BringupInv
  <2>2. \A c \in AllChecks : Guaranteed(Results(host), c)
    BY <2>1 DEF Guaranteed
  <2>3. RequiresHuman(Results(host)) = {}
    BY <2>1 DEF RequiresHuman, AllChecks, Fixers
  <2> QED
    BY <2>1, <2>2, <2>3
<1> QED
  BY <1>1, BringupInvariant, PTL

\* cmd_apply that exits 0 after a run nobody disturbed left a host with the
\* checks of all four fixers OK, those it passed first included.
THEOREM ExitCodeIsTrue == BringupSpec => []ExitZeroMeansFixed
<1>1. BringupInv => ExitZeroMeansFixed
  <2> SUFFICES ASSUME BringupInv, NEW p \in Procs, At(p, "finish"), proc[p].alone,
                      proc[p].code = 0, NEW f \in Fixers
               PROVE  Results(host)[f] = "OK"
    BY DEF ExitZeroMeansFixed
  <2>1. RunOK(proc[p], host) /\ proc[p].todo = <<>>
    BY DEF BringupInv, RunOK, At
  <2>2. f \in Passed(proc[p].todo)
    BY <2>1, Lists
  <2>3. Check(f, host, CtxOf(host)) = "OK"
    BY <2>1, <2>2 DEF RunOK, Undisturbed
  <2> QED
    BY <2>3 DEF Results, AllChecks
<1> QED
  BY <1>1, BringupInvariant, PTL

=============================================================================
