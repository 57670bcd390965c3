---------------------------- MODULE BringupChecks ----------------------------
(***************************************************************************)
(* The camera host as the bring-up layer sees it, the eleven checks over   *)
(* it, the status derived from their results and what a healthy status     *)
(* promises.  A host is a record; a camera, a port, a version and a secret *)
(* are positive numbers, and None stands for a value Python has as None.   *)
(***************************************************************************)
EXTENDS Integers, FiniteSets, FiniteSetsExt

CONSTANTS Cameras, Ports

ASSUME BringupAssumption ==
    Cameras \subseteq Nat \ {0} /\ Ports \subseteq Nat \ {0}
    /\ IsFiniteSet(Cameras) /\ IsFiniteSet(Ports) /\ Cameras # {} /\ 2 \in Ports

None == 0
Forged == -1       \* a signature no secret verifies
NoBaseline == [kind |-> "absent", serial |-> None, ver |-> None, port |-> None, sig |-> None]
GarbledBaseline == [NoBaseline EXCEPT !.kind = "garbled"]   \* JSON, but not an object

(* What the specification of the instance asks for, and a stream of        *)
(* 640x480 YUYV at 15 frames a second, in tenths of a Mbit/s.              *)
PowerSpec == [control |-> "on", autosuspend |-> -1, persist |-> 0, runtime |-> "active"]
KernelPower == [control |-> "auto", autosuspend |-> 2, persist |-> 1, runtime |-> "active"]
SpecRate == 737

(* A host as the deployment leaves it: the camera is plugged in, the       *)
(* system packages are there, no fixer has run yet.                        *)
ColdHost ==
    [plugged |-> {Min(Cameras)}, port |-> 2, speed |-> 5000, power |-> KernelPower,
     uvc |-> [loaded |-> TRUE, run |-> "spec", conf |-> "spec"],
     rule |-> "absent", powerRule |-> FALSE, legacy |-> FALSE, link |-> "absent",
     v4l2ctl |-> TRUE, formats |-> "spec", capture |-> "ok", bcd |-> "recent",
     rate |-> SpecRate, env |-> "ok", usbreset |-> TRUE, script |-> "noexec",
     venv |-> FALSE, pyrs |-> FALSE, ffmpeg |-> TRUE, x264 |-> TRUE,
     encoder |-> "exec", rundir |-> TRUE, muxUnit |-> TRUE, streamUnit |-> TRUE,
     datadir |-> FALSE, ver |-> 1, secret |-> None, baseline |-> NoBaseline]

-----------------------------------------------------------------------------
(* What the checks hand on to each other.                                  *)

NoCtx == [sysfs |-> None, speed |-> 0]
CtxOf(w) ==
    IF Cardinality(w.plugged) = 1 THEN [sysfs |-> w.port, speed |-> w.speed] ELSE NoCtx

UsbEnumerate(w, ctx) ==
    IF Cardinality(w.plugged) # 1 THEN "FAIL"
    ELSE IF w.speed = 5000 THEN "OK" ELSE "WARN"

(* The path comes from an earlier check: when the camera is somewhere else *)
(* by now the files are gone and nothing matches.                          *)
UsbPowerControlOnly(w, ctx) ==
    IF ctx.sysfs = None THEN "SKIP"
    ELSE IF w.plugged = {} \/ w.port # ctx.sysfs THEN "FAIL"
    ELSE IF w.power.control = "auto" /\ w.power.autosuspend > 0 THEN "FAIL"
    ELSE IF w.power.runtime # PowerSpec.runtime THEN "FAIL" ELSE "OK"
UsbPower(w, ctx) ==
    IF ctx.sysfs = None THEN "SKIP"
    ELSE IF w.plugged = {} \/ w.port # ctx.sysfs THEN "FAIL"
    ELSE IF w.power.control = "auto" /\ w.power.autosuspend > 0 THEN "FAIL"
    ELSE IF w.power.runtime # PowerSpec.runtime THEN "FAIL"
    ELSE IF w.power # PowerSpec THEN "WARN" ELSE "OK"

Uvcvideo(w, ctx) ==
    IF ~w.uvc.loaded THEN "FAIL"
    ELSE IF w.uvc.conf = "unparsable" THEN "ERROR"
    ELSE IF w.uvc.run # "spec" \/ w.uvc.conf = "other" THEN "WARN" ELSE "OK"

Udev(w, ctx) ==
    IF w.rule = "absent" \/ w.legacy THEN "FAIL"
    ELSE IF w.rule # "spec" THEN "WARN" ELSE "OK"

DevSymlinks(w, ctx) == IF w.link = "rgb" THEN "OK" ELSE "FAIL"

(* What the device behind the link offers; one in use counts as working.   *)
ListFormats(w) == IF w.link \in {"rgb", "other"} THEN w.formats ELSE "none"
CaptureTest(w) == w.capture \in {"ok", "busy"}
V4l2(w, ctx) ==
    IF ~w.v4l2ctl \/ ListFormats(w) \in {"none", "nosize"} THEN "FAIL"
    ELSE IF w.formats = "norate" THEN "WARN"
    ELSE IF CaptureTest(w) THEN "OK" ELSE "FAIL"

Firmware(w, ctx) ==
    IF ctx.sysfs = None THEN "SKIP" ELSE IF w.bcd = "recent" THEN "OK" ELSE "WARN"

Useful(speed) == CASE speed = 480 -> 3600 [] speed = 5000 -> 40000
Bandwidth(w, ctx) ==
    IF w.env = "unparsable" THEN "ERROR"
    ELSE IF w.env = "unknownformat" THEN "WARN"
    ELSE IF ctx.speed \notin {480, 5000} THEN "SKIP"
    ELSE IF w.rate > Useful(ctx.speed) THEN "FAIL"
    ELSE IF w.rate * 100 > Useful(ctx.speed) * 60 THEN "WARN" ELSE "OK"

(* The reset script names the interpreter of the layer's own venv, and the *)
(* camera library has to import there.                                     *)
Importable(w) == w.venv /\ w.pyrs
ResetTools(w, ctx) ==
    IF w.script = "absent" \/ ~Importable(w) THEN "FAIL"
    ELSE IF ~w.usbreset \/ ctx.sysfs = None \/ w.script = "noexec" THEN "WARN" ELSE "OK"

Smoke(w, ctx) ==
    IF ~w.ffmpeg \/ ~w.x264 \/ w.encoder = "absent" \/ ~w.muxUnit THEN "FAIL"
    ELSE IF w.encoder = "noexec" \/ ~w.rundir THEN "WARN" ELSE "OK"

-----------------------------------------------------------------------------
(* The identity of the camera against its baseline.  ver stands for what   *)
(* may change in one camera: the firmware and the calibration it holds.    *)

(* The first device the camera library lists; it lists none while it       *)
(* cannot be imported.                                                     *)
PrimaryDevice(w) ==
    IF Importable(w) /\ w.plugged # {} THEN [serial |-> Min(w.plugged), ver |-> w.ver]
    ELSE [serial |-> None, ver |-> None]

CurrentFingerprint(w, ctx) ==
    [serial |-> PrimaryDevice(w).serial, ver |-> PrimaryDevice(w).ver, port |-> ctx.sysfs]

(* A field the baseline has no value for is not compared.                  *)
Differs(w, ctx, field) ==
    /\ w.baseline[field] # None
    /\ w.baseline[field] # CurrentFingerprint(w, ctx)[field]

SignatureInvalid(w) == /\ w.secret # None /\ w.baseline.sig # None
                       /\ w.baseline.sig # w.secret

Fingerprint(w, ctx) ==
    IF w.baseline.kind = "absent" THEN "WARN"
    ELSE IF w.baseline.kind = "garbled" THEN "ERROR"
    ELSE IF SignatureInvalid(w) \/ Differs(w, ctx, "serial") THEN "FAIL"
    ELSE IF Differs(w, ctx, "ver") \/ Differs(w, ctx, "port") THEN "WARN" ELSE "OK"

-----------------------------------------------------------------------------
(* The pass over all checks, the status of the layer, its guarantees.      *)

Fixers == {"usb_power", "udev", "reset_tools", "fingerprint"}

Check(name, w, ctx) ==
    CASE name = "usb_enumerate" -> UsbEnumerate(w, ctx) [] name = "usb_power" -> UsbPower(w, ctx)
      [] name = "uvcvideo" -> Uvcvideo(w, ctx)          [] name = "udev" -> Udev(w, ctx)
      [] name = "dev_symlinks" -> DevSymlinks(w, ctx)   [] name = "v4l2" -> V4l2(w, ctx)
      [] name = "firmware" -> Firmware(w, ctx)          [] name = "bandwidth" -> Bandwidth(w, ctx)
      [] name = "reset_tools" -> ResetTools(w, ctx)     [] name = "smoke" -> Smoke(w, ctx)
      [] name = "fingerprint" -> Fingerprint(w, ctx)

AllChecks == Fixers \cup {"usb_enumerate", "uvcvideo", "dev_symlinks", "v4l2", "firmware",
                          "bandwidth", "smoke"}
Results(w) == [name \in AllChecks |-> Check(name, w, CtxOf(w))]

DeriveStatus(results) ==
    LET with(s) == {c \in AllChecks : results[c] = s}
    IN IF with("ERROR") # {} THEN "unknown"
       ELSE IF with("FAIL") # {} THEN IF with("FAIL") \cap Fixers # {} THEN "drifted" ELSE "broken"
       ELSE IF with("WARN") # {} THEN IF with("WARN") \cap Fixers # {} THEN "drifted" ELSE "degraded"
       ELSE "healthy"

Status(w, safe) ==
    IF ~safe THEN DeriveStatus(Results(w))
    ELSE IF \E c \in AllChecks : Results(w)[c] = "ERROR" THEN "unknown" ELSE "safe"

(* The booleans of guarantees(), and the reasons that need a human.        *)
AcceptsWarn == {"usb_enumerate", "bandwidth", "fingerprint"}
Guaranteed(results, c) == results[c] = "OK" \/ (results[c] = "WARN" /\ c \in AcceptsWarn)

RequiresHuman(results) ==
    {c \in {"usb_enumerate", "bandwidth"} : results[c] \in {"WARN", "FAIL"}}
    \cup {c \in {"firmware"} : results[c] = "WARN"}
    \cup {c \in {"fingerprint"} : results[c] = "FAIL"}

(* CONTRACT.md, section 3: what a guarantee means, said of the host and    *)
(* not of the check that stands for it.                                    *)
Promise(w, g) ==
    /\ g = "CAMERA_PRESENT" => Cardinality(w.plugged) = 1
    /\ g = "SINGLE_D435I" => Cardinality(w.plugged) <= 1
    /\ g = "USB_POWER_LOCKED_ON" =>
         \A k \in {"control", "autosuspend", "persist"} : w.power[k] = PowerSpec[k]
    /\ g = "UVCVIDEO_QUIRKS_OK" => w.uvc.loaded /\ w.uvc.run = "spec" /\ w.uvc.conf = "spec"
    /\ g = "UDEV_RULE_INSTALLED" => w.rule = "spec"
    /\ g = "DEV_CAM_RGB_VALID" => w.link = "rgb"
    /\ g = "V4L2_CAPTURE_READY" => w.formats = "spec" /\ w.capture = "ok"
    /\ g = "FIRMWARE_NOT_TOO_OLD" => w.bcd = "recent"
    /\ g = "BANDWIDTH_FITS_USB" => w.rate <= Useful(w.speed)
    /\ g = "RESET_TOOLS_AVAILABLE" => w.script = "exec" /\ Importable(w) /\ w.usbreset
    /\ g = "ENCODER_PREREQS_OK" =>
         w.ffmpeg /\ w.x264 /\ w.encoder # "absent" /\ w.streamUnit
    /\ g = "IDENTITY_MATCHES_BASELINE" => w.baseline.serial \in w.plugged

Guarantees ==
    {"CAMERA_PRESENT", "SINGLE_D435I", "USB_POWER_LOCKED_ON", "UVCVIDEO_QUIRKS_OK",
     "UDEV_RULE_INSTALLED", "DEV_CAM_RGB_VALID", "V4L2_CAPTURE_READY", "FIRMWARE_NOT_TOO_OLD",
     "BANDWIDTH_FITS_USB", "RESET_TOOLS_AVAILABLE", "ENCODER_PREREQS_OK",
     "IDENTITY_MATCHES_BASELINE"}

(* The hosts on which the checks are content with less than the contract:  *)
(* no modprobe file at all, a device in use by somebody else, no unit of   *)
(* the stream, a baseline taken while no camera could be read.             *)
Waived(w) ==
    {g \in {"UVCVIDEO_QUIRKS_OK"} : w.uvc.conf = "absent"}
    \cup {g \in {"V4L2_CAPTURE_READY"} : w.capture = "busy"}
    \cup {g \in {"ENCODER_PREREQS_OK"} : ~w.streamUnit}
    \cup {g \in {"IDENTITY_MATCHES_BASELINE"} : w.baseline.serial = None}
=============================================================================
