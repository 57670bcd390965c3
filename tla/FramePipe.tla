----------------------------- MODULE FramePipe -----------------------------
(***************************************************************************)
(* The RealSense producer: realsense-mux.py captures framesets and writes  *)
(* the frames of each sensor into a FIFO, rs-stream.sh (ffmpeg, rawvideo)  *)
(* cuts the bytes of that FIFO into frames again.  Nothing in the stream   *)
(* marks a frame boundary, so one partly written frame shifts every later  *)
(* picture.  The module follows one FIFO: the sensors' FIFOs are written   *)
(* by one thread, one after the other, and share nothing else.             *)
(*                                                                         *)
(* The kernel's pipe is a ring of pages.  F_GETPIPE_SZ is the number of    *)
(* pages times the page size, FIONREAD the number of unread bytes, and the *)
(* writer compares the two; but a page is reused only once all of it has   *)
(* been read, and a short last page only takes bytes of a later write when *)
(* that write's own remainder fits in it.                                  *)
(***************************************************************************)
EXTENDS Integers, Sequences

CONSTANTS
    Page,        \* the kernel's page size
    Frame,       \* bytes of one frame (width * height * bytes per pixel)
    BigSlots,    \* pages of the pipe after F_SETPIPE_SZ
    SmallSlots,  \* pages of the pipe when F_SETPIPE_SZ is refused
    MaxTimeouts, \* MAX_CONSEC_TIMEOUTS
    HwResets,    \* HW_RESET_RETRIES
    Burst,       \* StartLimitBurst of realsense-mux.service
    MaxFaults    \* bound: camera changes, FIFO errors and operator commands

ASSUME PipeAssumption ==
    /\ Page \in Nat \ {0} /\ Frame \in Nat \ {0}
    /\ BigSlots \in Nat \ {0} /\ SmallSlots \in Nat \ {0}
    /\ MaxTimeouts \in Nat \ {0} /\ HwResets \in Nat
    /\ Burst \in Nat \ {0} /\ MaxFaults \in Nat

VARIABLES
    pipe,     \* [fill: end of the data in each page, read: bytes taken of the
              \*  first page, bytes: unread bytes], the open FIFO
    slots,    \* pages of the pipe
    fd,       \* the mux holds the FIFO open
    fifo,     \* the FIFO under /run/realsense: "none", "new" or "used" by a reader
    wpos,     \* bytes written into this FIFO so far, modulo Frame
    mux,      \* [pc, attempt, timeouts], the mux process and its unit
    starts,   \* starts of the unit within StartLimitIntervalSec
    wanted,   \* the unit was not stopped by the operator
    reader,   \* [st, phase, first], the rs-stream unit: where it began to
              \*  read, modulo Frame, and whether it opened this FIFO first
    camera,   \* what the camera does to the mux
    faults    \* faults and commands so far

vars == <<pipe, slots, fd, fifo, wpos, mux, starts, wanted, reader, camera, faults>>

CameraStates == {"ok", "absent", "silent", "wedged", "busy"}
EmptyPipe == [fill |-> <<>>, read |-> 0, bytes |-> 0]
Process(pc) == [pc |-> pc, attempt |-> 0, timeouts |-> 0]
Consumer(st) == [st |-> st, phase |-> 0, first |-> FALSE]
Running == mux.pc = "running"
Fault == faults < MaxFaults /\ faults' = faults + 1

FrameInit ==
    /\ pipe = EmptyPipe /\ slots = BigSlots
    /\ fd = FALSE /\ fifo = "none" /\ wpos = 0
    /\ mux = Process("restarting") /\ starts = 0 /\ wanted = TRUE
    /\ reader = Consumer("waiting")
    /\ camera = "ok" /\ faults = 0

-----------------------------------------------------------------------------
(* The kernel's pipe                                                       *)

\* write(2) of n bytes on a pipe in non-blocking mode: the remainder of the
\* write goes into the last page when it fits there, everything else takes
\* new pages, as many as are left.  The pipe afterwards and the bytes taken.
PipeWrite(p, n) ==
    LET chars == n % Page
        merged == IF p.fill # <<>> /\ p.fill[Len(p.fill)] + chars <= Page THEN chars ELSE 0
        old == IF merged = 0 THEN p.fill
               ELSE [p.fill EXCEPT ![Len(p.fill)] = @ + merged]
        rest == n - merged
        need == (rest + Page - 1) \div Page
        got == IF need <= slots - Len(old) THEN need ELSE slots - Len(old)
        put == IF got = need THEN rest ELSE got * Page
        new == [i \in 1..got |-> IF i < need THEN Page ELSE rest - (need - 1) * Page]
    IN  [pipe |-> [p EXCEPT !.fill = old \o new, !.bytes = @ + merged + put],
         n |-> merged + put]

\* read(2) of k bytes of the first page; the page is free once all of it has
\* been read.
PipeRead(p, k) ==
    IF p.read + k = p.fill[1]
    THEN [fill |-> Tail(p.fill), read |-> 0, bytes |-> p.bytes - k]
    ELSE [p EXCEPT !.read = @ + k, !.bytes = @ - k]

-----------------------------------------------------------------------------
(* FifoWriter                                                              *)

\* _pipe_capacity() - _bytes_in_pipe()
Free == slots * Page - pipe.bytes

\* _ensure_fifo() and _open() of a starting mux: the directory is new, so is
\* the FIFO.  Enlarging the pipe may be refused; a failed open leaves the
\* writer without a descriptor, and write() never tries again.
EnsureAndOpen ==
    /\ fifo' = "new" /\ pipe' = EmptyPipe /\ wpos' = 0
    /\ \E ok \in BOOLEAN, big \in BOOLEAN :
        /\ IF ok /\ big THEN UNCHANGED faults ELSE Fault
        /\ fd' = ok
        /\ slots' = IF big THEN BigSlots ELSE SmallSlots

\* The bytes of one frame: what the pipe took of it, and, when that was not
\* all, what it took of the padding (EAGAIN on the padding is ignored).
Written ==
    LET w == PipeWrite(pipe, Frame)
    IN  IF w.n \in {0, Frame} THEN w
        ELSE LET z == PipeWrite(w.pipe, Frame - w.n)
             IN  [pipe |-> z.pipe, n |-> w.n + z.n]

Drop == UNCHANGED <<pipe, wpos>>

\* write(data) without its capacity check.
FifoWriteUnchecked ==
    \/ ~fd /\ Drop
    \/ fd /\ pipe' = Written.pipe /\ wpos' = (wpos + Written.n) % Frame

\* write(data): nothing without a descriptor, nothing unless the whole frame
\* fits, else the frame.
FifoWrite ==
    \/ ~fd /\ Drop
    \/ fd /\ Free < Frame /\ Drop
    \/ fd /\ Free >= Frame /\ pipe' = Written.pipe /\ wpos' = (wpos + Written.n) % Frame

\* write(data) fails otherwise: the FIFO is closed and opened again.  The
\* data survives while the reader holds the other end.
FifoReopen ==
    /\ Running /\ fd /\ Fault
    /\ fd' \in BOOLEAN
    /\ IF reader.st = "reading" THEN UNCHANGED <<pipe, wpos>>
       ELSE pipe' = EmptyPipe /\ wpos' = 0
    /\ slots' \in {slots, BigSlots}
    /\ UNCHANGED <<fifo, mux, starts, wanted, reader, camera>>

-----------------------------------------------------------------------------
(* The mux process                                                         *)

\* The process ends: the FIFOs are closed, systemd removes RuntimeDirectory;
\* a consumer is left with the end of an unlinked pipe.
Exit(pc) ==
    /\ mux' = Process(pc)
    /\ fd' = FALSE /\ fifo' = "none" /\ pipe' = EmptyPipe /\ wpos' = 0
    /\ reader' = IF reader.st = "reading" THEN Consumer("unlinked") ELSE reader

\* Restart=on-failure: a clean exit is not restarted.
ExitCode(code) == Exit(IF code = 0 THEN "inactive" ELSE "restarting")

\* Mux.__init__: the FIFOs are made before the camera is looked for.
MuxInit ==
    /\ mux.pc = "init"
    /\ EnsureAndOpen
    /\ mux' = Process("wait_device")
    /\ UNCHANGED <<starts, wanted, reader, camera>>

\* _wait_for_device: until a device is listed or the wait times out.
WaitForDevice ==
    /\ mux.pc = "wait_device"
    /\ mux' = [mux EXCEPT !.pc = "start"]
    /\ UNCHANGED <<pipe, slots, fd, fifo, wpos, starts, wanted, reader, camera, faults>>

\* pipeline.start() works; a silent camera is found out later.
PipelineStarts ==
    /\ mux.pc = "start" /\ camera \in {"ok", "silent"}
    /\ mux' = Process("running")
    /\ UNCHANGED <<pipe, slots, fd, fifo, wpos, starts, wanted, reader, camera, faults>>

\* pipeline.start() fails with VIDIOC_S_FMT: hardware_reset() and again, which
\* may cure the camera or take it off the bus for a while.
HardwareReset ==
    /\ mux.pc = "start" /\ camera = "wedged" /\ mux.attempt < HwResets
    /\ mux' = [mux EXCEPT !.attempt = @ + 1]
    /\ camera' \in {"wedged", "ok", "absent"}
    /\ UNCHANGED <<pipe, slots, fd, fifo, wpos, starts, wanted, reader, faults>>

\* Any other error, or the retries are used up: the exception ends the
\* process.
PipelineFails ==
    /\ mux.pc = "start"
    /\ \/ camera \in {"absent", "busy"}
       \/ camera = "wedged" /\ mux.attempt >= HwResets
    /\ ExitCode(1)
    /\ UNCHANGED <<slots, starts, wanted, camera, faults>>

\* wait_for_frames returns: the sensor's frame, if the set has one, is
\* written.
Frameset ==
    /\ Running /\ camera = "ok"
    /\ mux' = [mux EXCEPT !.timeouts = 0]
    /\ FifoWrite
    /\ UNCHANGED <<slots, fd, fifo, starts, wanted, reader, camera, faults>>

\* wait_for_frames times out: too often in a row and run() returns 0.
FrameTimeoutClean ==
    /\ Running /\ camera # "ok"
    /\ IF mux.timeouts + 1 >= MaxTimeouts THEN ExitCode(0)
       ELSE /\ mux' = [mux EXCEPT !.timeouts = @ + 1]
            /\ UNCHANGED <<pipe, fd, fifo, wpos, reader>>
    /\ UNCHANGED <<slots, starts, wanted, camera, faults>>

\* wait_for_frames times out: too often in a row and run() returns 2.
FrameTimeout ==
    /\ Running /\ camera # "ok"
    /\ IF mux.timeouts + 1 >= MaxTimeouts THEN ExitCode(2)
       ELSE /\ mux' = [mux EXCEPT !.timeouts = @ + 1]
            /\ UNCHANGED <<pipe, fd, fifo, wpos, reader>>
    /\ UNCHANGED <<slots, starts, wanted, camera, faults>>

-----------------------------------------------------------------------------
(* The units                                                               *)

\* A start job of the mux: refused once the start limit is hit.
StartJob ==
    IF starts >= Burst
    THEN mux' = Process("failed") /\ UNCHANGED starts
    ELSE mux' = Process("init") /\ starts' = starts + 1

\* RestartSec is over.  The job also restarts the consumer (PartOf=).
AutoRestart ==
    /\ mux.pc = "restarting"
    /\ StartJob
    /\ reader' = CASE starts >= Burst -> reader
                   [] reader.st = "stopped" -> reader
                   [] OTHER -> Consumer("waiting")
    /\ UNCHANGED <<pipe, slots, fd, fifo, wpos, wanted, camera, faults>>

\* StartLimitIntervalSec is over.
WindowPasses ==
    /\ starts > 0 /\ starts' = 0
    /\ UNCHANGED <<pipe, slots, fd, fifo, wpos, mux, wanted, reader, camera, faults>>

\* systemctl stop realsense-mux: SIGTERM, then SIGKILL; the consumer
\* stops with it (Requires=, PartOf=).
StopUnit ==
    /\ wanted /\ Fault /\ wanted' = FALSE
    /\ mux' = Process("inactive")
    /\ fd' = FALSE /\ fifo' = "none" /\ pipe' = EmptyPipe /\ wpos' = 0
    /\ reader' = Consumer("stopped")
    /\ UNCHANGED <<slots, starts, camera>>

\* systemctl start rs-stream@: Requires= starts the mux as well, and the
\* consumer's job fails with it.
StartUnits ==
    /\ mux.pc \in {"inactive", "failed"} /\ reader.st = "stopped" /\ Fault
    /\ StartJob
    /\ wanted' = TRUE
    /\ reader' = IF starts >= Burst THEN reader ELSE Consumer("waiting")
    /\ UNCHANGED <<pipe, slots, fd, fifo, wpos, camera>>

\* rs-stream.sh finds the FIFO and ffmpeg opens it: it reads from wherever
\* the data that is left begins.
ReaderOpens ==
    /\ reader.st = "waiting" /\ fifo # "none"
    /\ reader' = [st |-> "reading", phase |-> (wpos - pipe.bytes) % Frame,
                  first |-> fifo = "new"]
    /\ fifo' = "used"
    /\ UNCHANGED <<pipe, slots, fd, wpos, mux, starts, wanted, camera, faults>>

\* ffmpeg reads.
ReaderReads ==
    /\ reader.st = "reading" /\ pipe.fill # <<>>
    /\ \E k \in 1..(pipe.fill[1] - pipe.read) : pipe' = PipeRead(pipe, k)
    /\ UNCHANGED <<slots, fd, fifo, wpos, mux, starts, wanted, reader, camera, faults>>

\* ffmpeg dies, reads the end of an unlinked FIFO, or the FIFO did not
\* appear in time: Restart=always.
ReaderRestarts ==
    /\ \/ reader.st = "reading" /\ Fault
       \/ reader.st = "unlinked" /\ UNCHANGED faults
       \/ reader.st = "waiting" /\ fifo = "none" /\ UNCHANGED faults
    /\ IF mux.pc = "failed"
       THEN /\ StartJob
            /\ reader' = Consumer(IF starts >= Burst THEN "stopped" ELSE "waiting")
       ELSE reader' = Consumer("waiting") /\ UNCHANGED <<mux, starts>>
    /\ UNCHANGED <<pipe, slots, fd, fifo, wpos, wanted, camera>>

\* The camera is unplugged, stalls, is wedged, taken or comes back.
CameraChanges ==
    /\ camera' \in CameraStates \ {camera}
    /\ IF camera' = "ok" THEN UNCHANGED faults ELSE Fault
    /\ UNCHANGED <<pipe, slots, fd, fifo, wpos, mux, starts, wanted, reader>>

MuxStep ==
    \/ MuxInit \/ WaitForDevice
    \/ PipelineStarts \/ HardwareReset \/ PipelineFails
    \/ Frameset \/ FrameTimeout
    \/ AutoRestart

Next ==
    \/ MuxStep \/ FifoReopen
    \/ WindowPasses \/ StopUnit \/ StartUnits
    \/ ReaderOpens \/ ReaderReads \/ ReaderRestarts
    \/ CameraChanges

\* The mux runs, its timeouts fire and systemd restarts it.
FrameSpec == FrameInit /\ [][Next]_vars /\ WF_vars(MuxStep)

-----------------------------------------------------------------------------
(* Properties                                                              *)

\* When a frame is a whole number of pages, as the default 640x480 ones are,
\* the FIFO never ends in the middle of a frame, and the first consumer of a
\* FIFO starts at a frame's first byte, however the reads, drops, errors and
\* restarts fall: so its pictures are the camera's (FifoWriter.write: "Either
\* writes the FULL frame or nothing - never partial").
FramesWhole ==
    Frame % Page = 0 =>
        /\ wpos = 0
        /\ reader.st = "reading" /\ reader.first => reader.phase = 0

\* Once the camera works for good and the unit is not stopped, the mux ends
\* up streaming, unless its start limit was hit: a stalled or missing camera
\* always ends the process with a failure that systemd restarts (run()
\* returns 2 "for systemd restart").
MuxRecovers ==
    <>[](camera = "ok" /\ wanted)
        => \/ <>[](Running /\ mux.timeouts = 0)
           \/ <>[](mux.pc = "failed")
=============================================================================
