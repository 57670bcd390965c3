----------------------------- MODULE MediaProofs -----------------------------
(***************************************************************************)
(* Proofs about the path of the pictures: the frames that the multiplexer  *)
(* writes into its FIFO, the click-to-depth path beside it, and the player *)
(* in the browser that shows them.                                         *)
(***************************************************************************)
EXTENDS FramePipe, DepthQueries, Player, TLAPS

-----------------------------------------------------------------------------
(***************************************************************************)
(* Frames are never cut, proved for any page size, any frame that is a     *)
(* whole number of pages, any pipe sizes and any faults.                   *)
(*                                                                         *)
(* The writer compares two numbers of bytes, the kernel counts pages.  The *)
(* two agree because every page in the pipe is full and at most one of     *)
(* them, the first, is partly read: a rest of less than a page can never   *)
(* make up for a page that is missing.                                     *)
(***************************************************************************)

\* What the pipe holds when frames are whole numbers of pages.
FullPages ==
    /\ pipe = [fill |-> pipe.fill, read |-> pipe.read, bytes |-> pipe.bytes]
    /\ pipe.fill \in Seq({Page})
    /\ pipe.read \in 0..(Page - 1)
    /\ pipe.fill = <<>> => pipe.read = 0
    /\ pipe.bytes = Page * Len(pipe.fill) - pipe.read

\* Who can have the FIFO open: before a consumer opens it for the first time
\* it holds whole frames, and without a mux there is none.
Opened ==
    /\ mux.pc \in {"init", "restarting", "inactive", "failed"} => fifo = "none"
    /\ fifo \in {"none", "new"} => reader.st # "reading"
    /\ fifo = "new" => \E m \in Nat : pipe.bytes = m * Frame

PipeInv ==
    /\ slots \in {BigSlots, SmallSlots} /\ "pc" \in DOMAIN mux
    /\ FullPages /\ Opened
    /\ wpos = 0
    /\ reader.st = "reading" /\ reader.first => reader.phase = 0

-----------------------------------------------------------------------------
(* Arithmetic of pages                                                     *)

LEMMA PagesOfFrame ==
    ASSUME NEW p \in Nat \ {0}, NEW n \in Nat \ {0}, n % p = 0
    PROVE  n \div p \in Nat \ {0} /\ n = p * (n \div p)
  OBVIOUS

LEMMA RoundUp ==
    ASSUME NEW p \in Nat \ {0}, NEW k \in Nat
    PROVE  (p * k + p - 1) \div p = k
  OBVIOUS

LEMMA LastPage ==
    ASSUME NEW p \in Nat \ {0}, NEW k \in Nat
    PROVE  p * k - (k - 1) * p = p
  OBVIOUS

\* Bytes enough for k pages are k free pages, if less than a page is read.
LEMMA BytesAreSlots ==
    ASSUME NEW p \in Nat \ {0}, NEW k \in Nat, NEW s \in Int, NEW l \in Nat,
           NEW r \in Nat, r < p, s * p - (p * l - r) >= p * k
    PROVE  k <= s - l
  OBVIOUS

LEMMA WholeFrames ==
    ASSUME NEW n \in Nat \ {0}, NEW m \in Nat
    PROVE  (0 + n) % n = 0 /\ (0 - m * n) % n = 0 /\ m * n + n = (m + 1) * n
  OBVIOUS

LEMMA MorePages ==
    ASSUME NEW p \in Nat, NEW l \in Nat, NEW k \in Nat, NEW r \in Nat, NEW b, b = p * l - r
    PROVE  b + p * k = p * (l + k) - r
  OBVIOUS

LEMMA AppendPages ==
    ASSUME NEW s \in Seq({Page}), NEW k \in Nat, NEW t, t = [i \in 1..k |-> Page]
    PROVE  s \o t \in Seq({Page}) /\ Len(s \o t) = Len(s) + k
<1>1. t \in Seq({Page}) /\ Len(t) = k
  OBVIOUS
<1> QED
  BY <1>1

-----------------------------------------------------------------------------
(* Reads and writes                                                        *)

\* A frame for which there are bytes enough is written as a whole.
LEMMA WriteIsWhole ==
    ASSUME Frame % Page = 0, FullPages, slots \in {BigSlots, SmallSlots}, Free >= Frame
    PROVE  /\ Written.n = Frame
           /\ Written.pipe = [fill |-> Written.pipe.fill, read |-> pipe.read,
                              bytes |-> pipe.bytes + Frame]
           /\ Written.pipe.fill \in Seq({Page}) /\ Written.pipe.fill # <<>>
           /\ pipe.bytes + Frame = Page * Len(Written.pipe.fill) - pipe.read
<1> USE PipeAssumption
<1>1. PICK k \in Nat \ {0} : Frame = Page * k
  BY PagesOfFrame
<1>2. slots \in Nat
  OBVIOUS
<1>3. k <= slots - Len(pipe.fill)
  <2>1. /\ Len(pipe.fill) \in Nat /\ pipe.read \in Nat /\ pipe.read < Page
        /\ pipe.bytes = Page * Len(pipe.fill) - pipe.read
    BY DEF FullPages
  <2>2. slots * Page - pipe.bytes >= Frame
    BY DEF Free
  <2>3. slots * Page - (Page * Len(pipe.fill) - pipe.read) >= Page * k
    BY <1>1, <2>1, <2>2
  <2>4. PICK s, l, r : s = slots /\ l = Len(pipe.fill) /\ r = pipe.read
    OBVIOUS
  <2>5. /\ s \in Int /\ l \in Nat /\ r \in Nat /\ r < Page
        /\ s * Page - (Page * l - r) >= Page * k
    BY <1>2, <2>1, <2>3, <2>4
  <2>6. k <= s - l
    BY <2>5, BytesAreSlots
  <2> QED
    BY <2>4, <2>6
<1> DEFINE new == [i \in 1..k |-> Page]
           w == PipeWrite(pipe, Frame)
<1>4. (Frame + Page - 1) \div Page = k
  BY <1>1, RoundUp
<1>5. [i \in 1..k |-> IF i < k THEN Page ELSE Frame - (k - 1) * Page] = new
  BY <1>1, LastPage
<1>6. w = [pipe |-> [pipe EXCEPT !.fill = pipe.fill \o new, !.bytes = pipe.bytes + Frame],
           n |-> Frame]
  <2>1. pipe.bytes \in Int /\ Frame - 0 = Frame /\ 0 + Frame = Frame
    BY DEF FullPages
  <2>2. pipe.bytes + 0 + Frame = pipe.bytes + Frame
    BY <2>1
  <2>3. (IF pipe.fill # <<>> /\ pipe.fill[Len(pipe.fill)] + (Frame % Page) <= Page
         THEN Frame % Page ELSE 0) = 0
    OBVIOUS
  <2> QED
    BY <1>3, <1>4, <1>5, <2>1, <2>2, <2>3, Zenon DEF PipeWrite
<1>7. Written = w
  BY <1>6 DEF Written
<1>8. /\ pipe.fill \o new \in Seq({Page}) /\ Len(pipe.fill \o new) = Len(pipe.fill) + k
      /\ Len(pipe.fill) \in Nat
  <2>1. PICK s, t : s = pipe.fill /\ t = new
    OBVIOUS
  <2>2. s \in Seq({Page}) /\ t = [i \in 1..k |-> Page] /\ k \in Nat
    BY <2>1 DEF FullPages
  <2>3. s \o t \in Seq({Page}) /\ Len(s \o t) = Len(s) + k
    BY <2>2, AppendPages
  <2>4. Len(s) \in Nat
    BY <2>2
  <2> HIDE DEF new
  <2> QED
    BY <2>1, <2>3, <2>4
<1> HIDE DEF new, w
<1>9. w.n = Frame /\ w.pipe = [fill |-> pipe.fill \o new, read |-> pipe.read,
                               bytes |-> pipe.bytes + Frame]
  BY <1>6 DEF FullPages
<1>10. pipe.fill \o new # <<>>
  BY <1>8
<1>11. pipe.bytes + Frame = Page * (Len(pipe.fill) + k) - pipe.read
  <2>1. PICK l, b, r : l = Len(pipe.fill) /\ b = pipe.bytes /\ r = pipe.read
    OBVIOUS
  <2>2. l \in Nat /\ r \in Nat /\ b = Page * l - r
    BY <1>8, <2>1 DEF FullPages
  <2>3. b + Page * k = Page * (l + k) - r
    BY <2>2, MorePages
  <2> QED
    BY <1>1, <2>1, <2>3
<1>12. PICK f, b : f = pipe.fill \o new /\ b = pipe.bytes + Frame
  OBVIOUS
<1>13. Written.n = Frame /\ Written.pipe = [fill |-> f, read |-> pipe.read, bytes |-> b]
  BY <1>7, <1>9, <1>12
<1>14. Written.pipe.fill = f
  BY <1>13
<1>15. Len(f) = Len(pipe.fill) + k /\ f \in Seq({Page}) /\ f # <<>>
  BY <1>8, <1>10, <1>12
<1> QED
  BY <1>11, <1>12, <1>13, <1>14, <1>15

\* A read takes bytes of the first page and leaves full pages behind it.
LEMMA ReadLeavesPages ==
    ASSUME FullPages, pipe.fill # <<>>, NEW k \in 1..(pipe.fill[1] - pipe.read),
           pipe' = PipeRead(pipe, k)
    PROVE  FullPages'
<1> USE PipeAssumption
<1>1. /\ pipe.fill[1] = Page /\ Tail(pipe.fill) \in Seq({Page})
      /\ Len(Tail(pipe.fill)) = Len(pipe.fill) - 1 /\ Len(pipe.fill) \in Nat \ {0}
  BY DEF FullPages
<1>2. /\ pipe.read \in 0..(Page - 1) /\ k \in Int /\ 1 <= k /\ k <= Page - pipe.read
      /\ pipe.bytes = Page * Len(pipe.fill) - pipe.read
  BY <1>1 DEF FullPages
<1>3. CASE pipe.read + k = Page
  <2>1. pipe' = [fill |-> Tail(pipe.fill), read |-> 0, bytes |-> pipe.bytes - k]
    BY <1>1, <1>3 DEF PipeRead
  <2>2. pipe'.fill = Tail(pipe.fill) /\ pipe'.read = 0 /\ pipe'.bytes = pipe.bytes - k
    BY <2>1
  <2>3. pipe.bytes - k = Page * (Len(pipe.fill) - 1) - 0
    BY <1>1, <1>2, <1>3
  <2> QED
    BY <1>1, <2>1, <2>2, <2>3 DEF FullPages
<1>4. CASE pipe.read + k # Page
  <2>1. pipe' = [fill |-> pipe.fill, read |-> pipe.read + k, bytes |-> pipe.bytes - k]
    BY <1>1, <1>4 DEF PipeRead, FullPages
  <2>2. pipe'.fill = pipe.fill /\ pipe'.read = pipe.read + k /\ pipe'.bytes = pipe.bytes - k
    BY <2>1
  <2>3. pipe.bytes - k = Page * Len(pipe.fill) - (pipe.read + k)
    BY <1>1, <1>2
  <2>4. pipe.read + k \in 0..(Page - 1)
    BY <1>2, <1>4
  <2> QED
    BY <2>1, <2>2, <2>3, <2>4 DEF FullPages
<1> QED
  BY <1>3, <1>4

-----------------------------------------------------------------------------
(* Steps                                                                   *)

LEMMA EmptyPages ==
    ASSUME pipe = EmptyPipe
    PROVE  FullPages /\ \E m \in Nat : pipe.bytes = m * Frame
<1> USE PipeAssumption
<1>1. pipe.fill = <<>> /\ pipe.read = 0 /\ pipe.bytes = 0
  BY DEF EmptyPipe
<1>2. <<>> \in Seq({Page}) /\ Len(<<>>) = 0 /\ 0 \in 0..(Page - 1) /\ 0 = Page * 0 - 0
  OBVIOUS
<1>3. FullPages
  BY <1>1, <1>2 DEF FullPages, EmptyPipe
<1>4. 0 = 0 * Frame
  OBVIOUS
<1> QED
  BY <1>1, <1>3, <1>4

LEMMA InitPipe == FrameInit => PipeInv
<1> SUFFICES ASSUME FrameInit PROVE PipeInv
  OBVIOUS
<1>1. FullPages /\ \E m \in Nat : pipe.bytes = m * Frame
  BY EmptyPages DEF FrameInit
<1> QED
  BY <1>1 DEF FrameInit, PipeInv, Opened, Process, Consumer

\* The FIFO is gone or new and empty.
LEMMA EmptiedKeepsPipe ==
    ASSUME PipeInv, pipe' = EmptyPipe, wpos' = 0, slots' \in {BigSlots, SmallSlots},
           mux'.pc \in {"init", "restarting", "inactive", "failed"} => fifo' = "none",
           "pc" \in DOMAIN mux',
           fifo' \in {"none", "new"} => reader'.st # "reading",
           reader'.st = "reading" => reader' = reader
    PROVE  PipeInv'
<1>1. FullPages' /\ \E m \in Nat : pipe'.bytes = m * Frame
  <2> USE PipeAssumption
  <2>1. pipe'.fill = <<>> /\ pipe'.read = 0 /\ pipe'.bytes = 0
    BY DEF EmptyPipe
  <2>2. <<>> \in Seq({Page}) /\ Len(<<>>) = 0 /\ 0 \in 0..(Page - 1) /\ 0 = Page * 0 - 0
    OBVIOUS
  <2>3. FullPages'
    BY <2>1, <2>2 DEF FullPages, EmptyPipe
  <2>4. 0 = 0 * Frame
    OBVIOUS
  <2> QED
    BY <2>1, <2>3, <2>4
<1> QED
  BY <1>1 DEF PipeInv, Opened

\* The FIFO and what is in it are left alone.
LEMMA UntouchedKeepsPipe ==
    ASSUME PipeInv, pipe' = pipe, wpos' = wpos, slots' \in {BigSlots, SmallSlots},
           fifo' = fifo,
           mux'.pc \in {"init", "restarting", "inactive", "failed"} => fifo = "none",
           "pc" \in DOMAIN mux',
           reader' = reader \/ reader'.st # "reading"
    PROVE  PipeInv'
  BY DEF PipeInv, Opened, FullPages, EmptyPipe

LEMMA FramesetKeepsPipe ==
    ASSUME Frame % Page = 0, PipeInv, Frameset
    PROVE  PipeInv'
<1> USE PipeAssumption
<1>1. /\ slots' = slots /\ fifo' = fifo /\ reader' = reader
      /\ mux'.pc = "running" /\ mux.pc = "running" /\ FifoWrite /\ "pc" \in DOMAIN mux'
  BY DEF Frameset, Running, PipeInv
<1>2. CASE Drop
  BY <1>1, <1>2, UntouchedKeepsPipe DEF PipeInv, Drop
<1>3. CASE Free >= Frame /\ pipe' = Written.pipe /\ wpos' = (wpos + Written.n) % Frame
  <2>1. /\ Written.n = Frame
        /\ Written.pipe = [fill |-> Written.pipe.fill, read |-> pipe.read,
                           bytes |-> pipe.bytes + Frame]
        /\ Written.pipe.fill \in Seq({Page}) /\ Written.pipe.fill # <<>>
        /\ pipe.bytes + Frame = Page * Len(Written.pipe.fill) - pipe.read
    BY <1>3, WriteIsWhole DEF PipeInv
  <2>2. wpos' = 0
    BY <1>3, <2>1, WholeFrames DEF PipeInv
  <2>3. /\ pipe' = [fill |-> pipe'.fill, read |-> pipe.read, bytes |-> pipe.bytes + Frame]
        /\ pipe'.fill \in Seq({Page}) /\ pipe'.fill # <<>>
        /\ pipe.bytes + Frame = Page * Len(pipe'.fill) - pipe.read
    BY <1>3, <2>1
  <2>4. pipe'.read = pipe.read /\ pipe'.bytes = pipe.bytes + Frame
    BY <2>3
  <2>5. FullPages'
    BY <2>3, <2>4 DEF PipeInv, FullPages
  <2>6. fifo = "new" => \E m \in Nat : pipe'.bytes = m * Frame
    <3> SUFFICES ASSUME fifo = "new" PROVE \E m \in Nat : pipe'.bytes = m * Frame
      OBVIOUS
    <3>1. PICK m \in Nat : pipe.bytes = m * Frame
      BY DEF PipeInv, Opened
    <3>2. pipe'.bytes = (m + 1) * Frame /\ m + 1 \in Nat
      BY <2>4, <3>1, WholeFrames
    <3> QED
      BY <3>2
  <2> QED
    BY <1>1, <2>2, <2>5, <2>6 DEF PipeInv, Opened
<1> QED
  BY <1>1, <1>2, <1>3 DEF FifoWrite

\* The process ends: its FIFO goes with it, and a reader is left unlinked.
LEMMA ExitKeepsPipe ==
    ASSUME PipeInv, NEW code, ExitCode(code), slots' = slots
    PROVE  PipeInv'
<1>1. /\ fifo' = "none" /\ pipe' = EmptyPipe /\ wpos' = 0
      /\ reader'.st # "reading" /\ "pc" \in DOMAIN mux'
  BY DEF ExitCode, Exit, Consumer, Process
<1>2. slots \in {BigSlots, SmallSlots}
  BY DEF PipeInv
<1> QED
  BY <1>1, <1>2, EmptiedKeepsPipe

LEMMA MuxKeepsPipe ==
    ASSUME Frame % Page = 0, PipeInv, MuxStep
    PROVE  PipeInv'
<1> USE DEF PipeInv
<1>1. CASE MuxInit
  <2>1. /\ fifo' = "new" /\ pipe' = EmptyPipe /\ wpos' = 0
        /\ slots' \in {BigSlots, SmallSlots}
        /\ mux'.pc = "wait_device" /\ reader' = reader /\ "pc" \in DOMAIN mux'
    BY <1>1 DEF MuxInit, EnsureAndOpen, Process
  <2>2. reader.st # "reading"
    BY <1>1 DEF MuxInit, Opened
  <2> QED
    BY <2>1, <2>2, EmptiedKeepsPipe
<1>2. CASE WaitForDevice \/ PipelineStarts \/ HardwareReset
  <2>1. /\ pipe' = pipe /\ wpos' = wpos /\ slots' = slots /\ fifo' = fifo
        /\ reader' = reader /\ mux'.pc \in {"start", "running", mux.pc}
        /\ "pc" \in DOMAIN mux'
    BY <1>2 DEF WaitForDevice, PipelineStarts, HardwareReset, Process
  <2>2. mux'.pc \in {"init", "restarting", "inactive", "failed"} => fifo = "none"
    BY <2>1 DEF Opened
  <2> QED
    BY <2>1, <2>2, UntouchedKeepsPipe
<1>3. CASE PipelineFails
  BY <1>3, ExitKeepsPipe DEF PipelineFails
<1>4. CASE Frameset
  BY <1>4, FramesetKeepsPipe
<1>5. CASE FrameTimeout
  <2>1. CASE mux.timeouts + 1 >= MaxTimeouts
    BY <1>5, <2>1, ExitKeepsPipe DEF FrameTimeout
  <2>2. CASE ~(mux.timeouts + 1 >= MaxTimeouts)
    <3>1. /\ pipe' = pipe /\ wpos' = wpos /\ slots' = slots /\ fifo' = fifo
          /\ reader' = reader /\ mux'.pc = "running" /\ "pc" \in DOMAIN mux'
      BY <1>5, <2>2 DEF FrameTimeout, Running
    <3> QED
      BY <3>1, UntouchedKeepsPipe
  <2> QED
    BY <2>1, <2>2
<1>6. CASE AutoRestart
  <2>1. /\ pipe' = pipe /\ wpos' = wpos /\ slots' = slots /\ fifo' = fifo
        /\ mux.pc = "restarting" /\ "pc" \in DOMAIN mux'
        /\ reader' \in {reader, Consumer("waiting")}
    BY <1>6 DEF AutoRestart, StartJob, Process
  <2>2. fifo = "none" /\ Consumer("waiting").st = "waiting"
    BY <2>1 DEF Opened, Consumer
  <2>3. reader' = reader \/ reader'.st # "reading"
    BY <2>1, <2>2
  <2> QED
    BY <2>1, <2>2, <2>3, UntouchedKeepsPipe
<1> QED
  BY <1>1, <1>2, <1>3, <1>4, <1>5, <1>6 DEF MuxStep

LEMMA StepKeepsPipe ==
    ASSUME Frame % Page = 0, PipeInv, [Next]_vars
    PROVE  PipeInv'
<1> USE DEF PipeInv
<1>1. CASE MuxStep
  BY <1>1, MuxKeepsPipe
<1>2. CASE FifoReopen
  <2>1. fifo' = fifo /\ mux' = mux /\ reader' = reader /\ slots' \in {BigSlots, SmallSlots}
    BY <1>2 DEF FifoReopen
  <2>2. mux'.pc \in {"init", "restarting", "inactive", "failed"} => fifo = "none"
    BY <2>1 DEF Opened
  <2>3. CASE reader.st = "reading"
    BY <1>2, <2>1, <2>2, <2>3, UntouchedKeepsPipe DEF FifoReopen
  <2>4. CASE reader.st # "reading"
    BY <1>2, <2>1, <2>2, <2>4, EmptiedKeepsPipe DEF FifoReopen
  <2> QED
    BY <2>3, <2>4
<1>3. CASE StopUnit
  <2>1. /\ pipe' = EmptyPipe /\ wpos' = 0 /\ slots' = slots /\ fifo' = "none"
        /\ reader'.st = "stopped" /\ "pc" \in DOMAIN mux'
    BY <1>3 DEF StopUnit, Consumer, Process
  <2> QED
    BY <2>1, EmptiedKeepsPipe
<1>4. CASE StartUnits
  <2>1. /\ pipe' = pipe /\ wpos' = wpos /\ slots' = slots /\ fifo' = fifo
        /\ mux.pc \in {"inactive", "failed"} /\ reader.st = "stopped"
        /\ reader'.st \in {"stopped", "waiting"} /\ "pc" \in DOMAIN mux'
    BY <1>4 DEF StartUnits, Consumer, StartJob, Process
  <2>2. fifo = "none"
    BY <2>1 DEF Opened
  <2> QED
    BY <2>1, <2>2, UntouchedKeepsPipe
<1>5. CASE ReaderOpens
  <2>1. /\ pipe' = pipe /\ wpos' = wpos /\ slots' = slots /\ fifo' = "used" /\ mux' = mux
        /\ fifo # "none"
        /\ reader'.first = (fifo = "new") /\ reader'.phase = (wpos - pipe.bytes) % Frame
    BY <1>5 DEF ReaderOpens
  <2>2. fifo = "new" => reader'.phase = 0
    <3> SUFFICES ASSUME fifo = "new" PROVE reader'.phase = 0
      OBVIOUS
    <3>1. PICK m \in Nat : pipe.bytes = m * Frame
      BY DEF Opened
    <3>2. (0 - m * Frame) % Frame = 0
      BY WholeFrames, PipeAssumption
    <3> QED
      BY <2>1, <3>1, <3>2
  <2>3. FullPages' /\ Opened'
    BY <2>1 DEF FullPages, Opened
  <2> QED
    BY <2>1, <2>2, <2>3
<1>6. CASE ReaderReads
  <2>1. /\ wpos' = wpos /\ slots' = slots /\ fifo' = fifo /\ mux' = mux /\ reader' = reader
        /\ reader.st = "reading"
    BY <1>6 DEF ReaderReads
  <2>2. FullPages'
    BY <1>6, ReadLeavesPages DEF ReaderReads
  <2>3. Opened'
    BY <2>1 DEF Opened
  <2> QED
    BY <2>1, <2>2, <2>3
<1>7. CASE ReaderRestarts
  <2>1. /\ pipe' = pipe /\ wpos' = wpos /\ slots' = slots /\ fifo' = fifo
        /\ reader'.st \in {"stopped", "waiting"}
        /\ mux.pc = "failed" \/ mux' = mux
        /\ "pc" \in DOMAIN mux'
    BY <1>7 DEF ReaderRestarts, Consumer, StartJob, Process
  <2>2. mux'.pc \in {"init", "restarting", "inactive", "failed"} => fifo = "none"
    BY <2>1 DEF Opened
  <2> QED
    BY <2>1, <2>2, UntouchedKeepsPipe
<1>8. CASE WindowPasses \/ CameraChanges \/ UNCHANGED vars
  <2>1. /\ pipe' = pipe /\ wpos' = wpos /\ slots' = slots /\ fifo' = fifo /\ mux' = mux
        /\ reader' = reader
    BY <1>8 DEF WindowPasses, CameraChanges, vars
  <2> QED
    BY <2>1, UntouchedKeepsPipe DEF Opened
<1> QED
  BY <1>1, <1>2, <1>3, <1>4, <1>5, <1>6, <1>7, <1>8 DEF Next

\* When a frame is a whole number of pages, FifoWriter.write puts whole frames
\* or nothing into the FIFO and its first consumer reads from a frame's first
\* byte, for any page, frame and pipe size and any number of faults.
THEOREM FramesAreWhole == FrameSpec => []FramesWhole
<1>1. ASSUME Frame % Page = 0 PROVE FrameSpec => []FramesWhole
  <2>1. PipeInv /\ [Next]_vars => PipeInv'
    BY <1>1, StepKeepsPipe
  <2>2. PipeInv => FramesWhole
    BY DEF PipeInv, FramesWhole
  <2> QED
    BY <2>1, <2>2, InitPipe, PTL DEF FrameSpec
<1>2. ASSUME Frame % Page # 0 PROVE FrameSpec => []FramesWhole
  <2>1. FramesWhole
    BY <1>2 DEF FramesWhole
  <2> QED
    BY <2>1, PTL
<1> QED
  BY <1>1, <1>2

-----------------------------------------------------------------------------
(***************************************************************************)
(* Proofs about click-to-depth for any sessions, topics, queue lengths and *)
(* any number of messages, connections and restarts.                       *)
(*                                                                         *)
(* A message moves: from its topic's queue to the worker, which turns it   *)
(* into a result, from there to the page, the queue of a connection and    *)
(* the browser.  Every number is in at most one of these places (IdsInv),  *)
(* which is what keeps an answer from arriving twice, though every hop may *)
(* lose it.                                                                *)
(***************************************************************************)

\* What lies in a topic's queue and in a worker's hands, and what became of it.
Message == [id : Nat, session : Sessions, ts : Stamps]
Result == [id : Nat, session : Sessions]
Conn == [sess : Sessions, st : {"open", "gone", "done"}, q : Seq(Result), got : Seq(Result)]

Posting(t) == worker[t].st = "posting"

RelayTypes ==
    /\ sent \in Nat
    /\ queue \in [Topics -> Seq(Message)]
    /\ DOMAIN worker = Topics
    /\ \A t \in Topics :
        /\ worker[t] = [st |-> worker[t].st, msg |-> worker[t].msg]
        /\ Posting(t) => worker[t].msg \in Message
PageTypes ==
    /\ posted \subseteq Result
    /\ conns \in Seq(Conn)
    /\ subs \in [Sessions -> 0..Len(conns)]

DepthTypes == RelayTypes /\ PageTypes

\* A registered connection is one of the session, and holds answers to it only.
SessionInv ==
    /\ \A s \in Sessions : subs[s] # 0 => conns[subs[s]].sess = s
    /\ \A c \in 1..Len(conns) :
        /\ \A i \in 1..Len(conns[c].q) : conns[c].q[i].session = conns[c].sess
        /\ \A i \in 1..Len(conns[c].got) : conns[c].got[i].session = conns[c].sess

\* Numbers of messages not answered yet: each is in one place.
WaitingInv ==
    /\ \A t \in Topics : \A i \in 1..Len(queue[t]) : queue[t][i].id <= sent
    /\ \A t \in Topics : Posting(t) => worker[t].msg.id <= sent
    /\ \A t, u \in Topics : \A i \in 1..Len(queue[t]), j \in 1..Len(queue[u]) :
        queue[t][i].id = queue[u][j].id => t = u /\ i = j
    /\ \A t, u \in Topics : \A j \in 1..Len(queue[u]) :
        Posting(t) => worker[t].msg.id # queue[u][j].id
    /\ \A t, u \in Topics :
        Posting(t) /\ Posting(u) /\ worker[t].msg.id = worker[u].msg.id => t = u

\* Numbers that were answered, wherever the answer is now.
Answered ==
    {n \in Nat :
        \/ \E r \in posted : n = r.id
        \/ \E c \in 1..Len(conns) : \E i \in 1..Len(conns[c].q) : n = conns[c].q[i].id
        \/ \E c \in 1..Len(conns) : \E i \in 1..Len(conns[c].got) : n = conns[c].got[i].id}

\* A number that was answered is waiting nowhere.
AnsweredInv ==
    /\ \A n \in Answered : n \in Nat /\ n <= sent
    /\ \A t \in Topics : \A i \in 1..Len(queue[t]) : queue[t][i].id \notin Answered
    /\ \A t \in Topics : Posting(t) => worker[t].msg.id \notin Answered

\* An answer is in one place: with the page, or at one position of one queue
\* or of what one browser got.
PlaceInv ==
    /\ \A r, x \in posted : r.id = x.id => r = x
    /\ \A r \in posted : \A c \in 1..Len(conns) :
        /\ \A i \in 1..Len(conns[c].q) : conns[c].q[i].id # r.id
        /\ \A i \in 1..Len(conns[c].got) : conns[c].got[i].id # r.id
    /\ \A c, d \in 1..Len(conns) : \A i \in 1..Len(conns[c].q), j \in 1..Len(conns[d].q) :
        conns[c].q[i].id = conns[d].q[j].id => c = d /\ i = j
    /\ \A c, d \in 1..Len(conns) : \A i \in 1..Len(conns[c].q), j \in 1..Len(conns[d].got) :
        conns[c].q[i].id # conns[d].got[j].id
    /\ \A c, d \in 1..Len(conns) : \A i \in 1..Len(conns[c].got), j \in 1..Len(conns[d].got) :
        conns[c].got[i].id = conns[d].got[j].id => c = d /\ i = j

IdsInv == WaitingInv /\ AnsweredInv /\ PlaceInv

DepthInv == DepthTypes /\ SessionInv /\ NewestRegistered /\ IdsInv
-----------------------------------------------------------------------------
(* Sequences                                                               *)

LEMMA TailFacts ==
    ASSUME NEW S, NEW s \in Seq(S), s # <<>>
    PROVE  /\ Tail(s) \in Seq(S) /\ Head(s) = s[1] /\ s[1] \in S
           /\ 1 \in 1..Len(s) /\ Len(Tail(s)) = Len(s) - 1
           /\ \A i \in 1..Len(Tail(s)) : Tail(s)[i] = s[i + 1] /\ i + 1 \in 1..Len(s)
  OBVIOUS

LEMMA AppendFacts ==
    ASSUME NEW S, NEW s \in Seq(S), NEW x \in S
    PROVE  /\ Append(s, x) \in Seq(S) /\ Len(Append(s, x)) = Len(s) + 1
           /\ \A i \in 1..Len(s) : Append(s, x)[i] = s[i] /\ i \in 1..(Len(s) + 1)
           /\ Append(s, x)[Len(s) + 1] = x
           /\ \A i \in 1..(Len(s) + 1) : i \in 1..Len(s) \/ i = Len(s) + 1
  OBVIOUS

LEMMA FunctionIsSequence ==
    ASSUME NEW S, NEW n \in Nat, NEW f, DOMAIN f = 1..n, f = [i \in 1..n |-> f[i]],
           \A i \in 1..n : f[i] \in S
    PROVE  f \in Seq(S) /\ Len(f) = n
  OBVIOUS

-----------------------------------------------------------------------------
(* The relay                                                               *)

\* A step of topic t takes at most the first message of its queue and leaves
\* no message in the worker's hands.
Drops(t) ==
    /\ \A u \in Topics \ {t} : queue'[u] = queue[u] /\ worker'[u] = worker[u]
    /\ queue'[t] = queue[t] \/ (queue[t] # <<>> /\ queue'[t] = Tail(queue[t]))
    /\ ~Posting(t)'

LEMMA DroppingKeepsWaiting ==
    ASSUME RelayTypes, WaitingInv, NEW t \in Topics, Drops(t), sent' = sent
    PROVE  /\ WaitingInv'
           /\ \A u \in Topics : \A i \in 1..Len(queue'[u]) :
                \E j \in 1..Len(queue[u]) : queue'[u][i] = queue[u][j]
<1> USE DEF RelayTypes
<1>1. \A u \in Topics : queue[u] \in Seq(Message)
  OBVIOUS
<1>2. PICK k \in {0, 1} : \A u \in Topics : \A i \in 1..Len(queue'[u]) :
        LET j == IF u = t THEN i + k ELSE i
        IN  j \in 1..Len(queue[u]) /\ queue'[u][i] = queue[u][j]
  <2>1. CASE queue'[t] = queue[t]
    <3>1. \A u \in Topics : queue'[u] = queue[u] /\ Len(queue[u]) \in Nat
      BY <1>1, <2>1 DEF Drops
    <3> QED
      BY <3>1
  <2>2. CASE queue[t] # <<>> /\ queue'[t] = Tail(queue[t])
    <3>1. \A i \in 1..Len(queue'[t]) :
            queue'[t][i] = queue[t][i + 1] /\ i + 1 \in 1..Len(queue[t])
      BY <1>1, <2>2, TailFacts
    <3>2. \A u \in Topics \ {t} : queue'[u] = queue[u]
      BY DEF Drops
    <3> QED
      BY <3>1, <3>2
  <2> QED
    BY <2>1, <2>2 DEF Drops
<1>3. \A u \in Topics : \A i \in 1..Len(queue'[u]) :
        \E j \in 1..Len(queue[u]) : queue'[u][i] = queue[u][j]
  BY <1>2
<1>4. \A u \in Topics : Posting(u)' => u # t /\ Posting(u) /\ worker'[u] = worker[u]
  BY DEF Drops, Posting
<1>5. (\A u \in Topics : \A i \in 1..Len(queue[u]) : queue[u][i].id <= sent)'
  <2> SUFFICES ASSUME NEW u \in Topics, NEW i \in 1..Len(queue'[u])
               PROVE  queue'[u][i].id <= sent'
    OBVIOUS
  <2>1. PICK j \in 1..Len(queue[u]) : queue'[u][i] = queue[u][j]
    BY <1>3
  <2> QED
    BY <2>1 DEF WaitingInv
<1>6. (\A u \in Topics : Posting(u) => worker[u].msg.id <= sent)'
  BY <1>4 DEF WaitingInv
<1>7. (\A u, v \in Topics : \A i \in 1..Len(queue[u]), j \in 1..Len(queue[v]) :
        queue[u][i].id = queue[v][j].id => u = v /\ i = j)'
  <2> SUFFICES ASSUME NEW u \in Topics, NEW v \in Topics,
                      NEW i \in 1..Len(queue'[u]), NEW j \in 1..Len(queue'[v]),
                      queue'[u][i].id = queue'[v][j].id
               PROVE  u = v /\ i = j
    OBVIOUS
  <2> DEFINE a == IF u = t THEN i + k ELSE i
             b == IF v = t THEN j + k ELSE j
  <2>1. a \in 1..Len(queue[u]) /\ b \in 1..Len(queue[v])
        /\ queue[u][a].id = queue[v][b].id
    BY <1>2
  <2>2. u = v /\ a = b
    BY <2>1 DEF WaitingInv
  <2> QED
    BY <2>2
<1>8. (\A u, v \in Topics : \A j \in 1..Len(queue[v]) :
        Posting(u) => worker[u].msg.id # queue[v][j].id)'
  <2> SUFFICES ASSUME NEW u \in Topics, NEW v \in Topics,
                      NEW i \in 1..Len(queue'[v]), Posting(u)'
               PROVE  worker'[u].msg.id # queue'[v][i].id
    OBVIOUS
  <2>1. PICK j \in 1..Len(queue[v]) : queue'[v][i] = queue[v][j]
    BY <1>3
  <2> QED
    BY <2>1, <1>4 DEF WaitingInv
<1>9. (\A u, v \in Topics :
        Posting(u) /\ Posting(v) /\ worker[u].msg.id = worker[v].msg.id => u = v)'
  BY <1>4 DEF WaitingInv
<1> QED
  BY <1>3, <1>5, <1>6, <1>7, <1>8, <1>9 DEF WaitingInv

\* task_done() ends the message, whether or not the worker survives it.
LEMMA TaskDoneFacts ==
    ASSUME RelayTypes, NEW t \in Topics, NEW n, TaskDone(t, n)
    PROVE  /\ DOMAIN worker' = Topics /\ ~Posting(t)'
           /\ worker'[t] = [st |-> worker'[t].st, msg |-> worker'[t].msg]
           /\ \A u \in Topics \ {t} : worker'[u] = worker[u]
  BY DEF RelayTypes, TaskDone, Posting, IdleWorker, NoMsg

LEMMA RelayDropsKeeps ==
    ASSUME RelayTypes, WaitingInv, AnsweredInv, NEW t \in Topics, Drops(t),
           sent' = sent, Answered' = Answered,
           queue' \in [Topics -> Seq(Message)], DOMAIN worker' = Topics,
           worker'[t] = [st |-> worker'[t].st, msg |-> worker'[t].msg]
    PROVE  RelayTypes' /\ WaitingInv' /\ AnsweredInv'
<1>1. RelayTypes'
  BY DEF RelayTypes, Drops, Posting
<1>2. WaitingInv'
        /\ \A u \in Topics : \A i \in 1..Len(queue'[u]) :
             \E j \in 1..Len(queue[u]) : queue'[u][i] = queue[u][j]
  BY DroppingKeepsWaiting
<1>3. \A u \in Topics : Posting(u)' => Posting(u) /\ worker'[u] = worker[u]
  BY DEF Drops, Posting
<1>4. AnsweredInv'
  <2>1. \A u \in Topics : \A i \in 1..Len(queue'[u]) : queue'[u][i].id \notin Answered
    <3> TAKE u \in Topics
    <3> TAKE i \in 1..Len(queue'[u])
    <3>1. PICK j \in 1..Len(queue[u]) : queue'[u][i] = queue[u][j]
      BY <1>2
    <3> QED
      BY <3>1 DEF AnsweredInv
  <2> QED
    BY <2>1, <1>3 DEF AnsweredInv
<1> QED
  BY <1>1, <1>2, <1>4

RelayInv == RelayTypes /\ WaitingInv /\ AnsweredInv

LEMMA SkipKeepsRelay ==
    ASSUME RelayInv, NEW t \in Topics, WorkerSkips(t), Answered' = Answered
    PROVE  RelayInv'
<1> USE DEF RelayInv
<1>1. queue[t] # <<>> /\ queue[t] \in Seq(Message) /\ Tail(queue[t]) \in Seq(Message)
  BY TailFacts DEF WorkerSkips, RelayTypes
<1>2. /\ queue' \in [Topics -> Seq(Message)] /\ queue'[t] = Tail(queue[t])
      /\ \A u \in Topics \ {t} : queue'[u] = queue[u]
      /\ sent' = sent
  BY <1>1 DEF WorkerSkips, RelayTypes
<1>3. /\ DOMAIN worker' = Topics /\ ~Posting(t)'
      /\ worker'[t] = [st |-> worker'[t].st, msg |-> worker'[t].msg]
      /\ \A u \in Topics \ {t} : worker'[u] = worker[u]
  BY TaskDoneFacts DEF WorkerSkips
<1>4. Drops(t)
  BY <1>1, <1>2, <1>3 DEF Drops
<1> QED
  BY <1>2, <1>3, <1>4, RelayDropsKeeps

LEMMA DoneKeepsRelay ==
    ASSUME RelayInv, NEW t \in Topics, TaskDone(t, 1), queue' = queue, sent' = sent,
           Answered' = Answered
    PROVE  RelayInv'
<1> USE DEF RelayInv
<1>1. /\ DOMAIN worker' = Topics /\ ~Posting(t)'
      /\ worker'[t] = [st |-> worker'[t].st, msg |-> worker'[t].msg]
      /\ \A u \in Topics \ {t} : worker'[u] = worker[u]
  BY TaskDoneFacts
<1>2. Drops(t) /\ queue' \in [Topics -> Seq(Message)]
  BY <1>1 DEF Drops, RelayTypes
<1> QED
  BY <1>1, <1>2, RelayDropsKeeps

LEMMA TakeKeepsRelay ==
    ASSUME RelayInv, NEW t \in Topics, WorkerTakes(t), Answered' = Answered
    PROVE  RelayInv'
<1> USE DEF RelayInv
<1>1. /\ queue[t] # <<>> /\ queue[t] \in Seq(Message) /\ Tail(queue[t]) \in Seq(Message)
      /\ Head(queue[t]) = queue[t][1] /\ queue[t][1] \in Message /\ 1 \in 1..Len(queue[t])
  BY TailFacts DEF WorkerTakes, RelayTypes
<1>2. /\ queue' \in [Topics -> Seq(Message)] /\ queue'[t] = Tail(queue[t])
      /\ \A u \in Topics \ {t} : queue'[u] = queue[u]
      /\ sent' = sent
  BY <1>1 DEF WorkerTakes, RelayTypes
<1>3. /\ DOMAIN worker' = Topics
      /\ worker'[t] = [st |-> "posting", msg |-> queue[t][1]]
      /\ \A u \in Topics \ {t} : worker'[u] = worker[u]
      /\ ~Posting(t)
  BY <1>1 DEF WorkerTakes, RelayTypes, Posting
<1>4. RelayTypes'
  <2>1. \A u \in Topics : worker'[u] = [st |-> worker'[u].st, msg |-> worker'[u].msg]
    <3>1. worker'[t].st = "posting" /\ worker'[t].msg = queue[t][1]
      BY <1>3
    <3> QED
      BY <1>3, <3>1 DEF RelayTypes
  <2>2. \A u \in Topics : Posting(u)' => worker'[u].msg \in Message
    BY <1>1, <1>3 DEF RelayTypes, Posting
  <2> QED
    BY <1>2, <1>3, <2>1, <2>2 DEF RelayTypes
<1>5. \A u \in Topics : Len(queue[u]) \in Nat
  BY DEF RelayTypes
<1>6. \A u \in Topics : \A i \in 1..Len(queue'[u]) :
        LET j == IF u = t THEN i + 1 ELSE i
        IN  j \in 1..Len(queue[u]) /\ queue'[u][i] = queue[u][j]
  <2>1. \A i \in 1..Len(queue'[t]) :
          i + 1 \in 1..Len(queue[t]) /\ queue'[t][i] = queue[t][i + 1]
    <3>1. PICK s \in Seq(Message) : s = queue[t] /\ s # <<>>
      BY <1>1
    <3>2. \A i \in 1..Len(Tail(s)) : Tail(s)[i] = s[i + 1] /\ i + 1 \in 1..Len(s)
      BY <3>1, TailFacts
    <3> QED
      BY <1>2, <3>1, <3>2
  <2>2. \A u \in Topics \ {t} : queue'[u] = queue[u]
    BY <1>2
  <2> QED
    BY <2>1, <2>2
<1>7. \A u \in Topics : \A i \in 1..Len(queue'[u]) :
        \E j \in 1..Len(queue[u]) : queue'[u][i] = queue[u][j] /\ (u = t => j # 1)
  <2> TAKE u \in Topics
  <2> TAKE i \in 1..Len(queue'[u])
  <2>1. CASE u = t
    <3>1. i + 1 \in 1..Len(queue[u]) /\ queue'[u][i] = queue[u][i + 1] /\ i + 1 # 1
      BY <2>1, <1>6
    <3> QED
      BY <3>1
  <2>2. CASE u # t
    BY <2>2, <1>6
  <2> QED
    BY <2>1, <2>2
<1>8. \A u \in Topics : Posting(u)' =>
        \/ u = t /\ worker'[u].msg.id = queue[t][1].id
        \/ u # t /\ Posting(u) /\ worker'[u] = worker[u]
  BY <1>3 DEF Posting
<1>9. \A u \in Topics : \A i \in 1..Len(queue'[u]) :
        queue'[u][i].id <= sent /\ queue'[u][i].id \notin Answered
  <2> TAKE u \in Topics
  <2> TAKE i \in 1..Len(queue'[u])
  <2>1. PICK j \in 1..Len(queue[u]) : queue'[u][i] = queue[u][j]
    BY <1>7
  <2> QED
    BY <2>1 DEF AnsweredInv, WaitingInv
<1>10. \A u \in Topics : Posting(u)' =>
        worker'[u].msg.id <= sent /\ worker'[u].msg.id \notin Answered
  BY <1>1, <1>8 DEF AnsweredInv, WaitingInv
<1>11. AnsweredInv'
  BY <1>2, <1>9, <1>10 DEF AnsweredInv
<1>12. (\A u, v \in Topics : \A i \in 1..Len(queue[u]), j \in 1..Len(queue[v]) :
        queue[u][i].id = queue[v][j].id => u = v /\ i = j)'
  <2> SUFFICES ASSUME NEW u \in Topics, NEW v \in Topics,
                      NEW i \in 1..Len(queue'[u]), NEW j \in 1..Len(queue'[v]),
                      queue'[u][i].id = queue'[v][j].id
               PROVE  u = v /\ i = j
    OBVIOUS
  <2> DEFINE a == IF u = t THEN i + 1 ELSE i
             b == IF v = t THEN j + 1 ELSE j
  <2>1. a \in 1..Len(queue[u]) /\ b \in 1..Len(queue[v])
        /\ queue[u][a].id = queue[v][b].id
    BY <1>6
  <2>2. u = v /\ a = b
    BY <2>1 DEF WaitingInv
  <2> QED
    BY <2>2
<1>13. (\A u, v \in Topics : \A j \in 1..Len(queue[v]) :
        Posting(u) => worker[u].msg.id # queue[v][j].id)'
  <2> SUFFICES ASSUME NEW u \in Topics, NEW v \in Topics,
                      NEW i \in 1..Len(queue'[v]), Posting(u)'
               PROVE  worker'[u].msg.id # queue'[v][i].id
    OBVIOUS
  <2>1. PICK j \in 1..Len(queue[v]) : queue'[v][i] = queue[v][j] /\ (v = t => j # 1)
    BY <1>7
  <2> QED
    BY <2>1, <1>1, <1>8 DEF WaitingInv
<1>14. (\A u, v \in Topics :
        Posting(u) /\ Posting(v) /\ worker[u].msg.id = worker[v].msg.id => u = v)'
  BY <1>1, <1>8 DEF WaitingInv
<1>15. WaitingInv'
  BY <1>2, <1>9, <1>10, <1>12, <1>13, <1>14 DEF WaitingInv
<1> QED
  BY <1>4, <1>11, <1>15

LEMMA HookKeepsRelay ==
    ASSUME RelayInv, NEW t \in Topics, NEW s \in Sessions, NEW ts \in Stamps,
           TextroomHook(t, s, ts), Answered' = Answered
    PROVE  RelayInv'
<1> USE DEF RelayInv
<1> DEFINE full == Len(queue[t]) >= QueueMax
           left == IF full THEN Tail(queue[t]) ELSE queue[t]
           m == [id |-> sent + 1, session |-> s, ts |-> ts]
<1>1. /\ queue' = [queue EXCEPT ![t] = Append(left, m)]
      /\ sent' = sent + 1 /\ worker' = worker /\ sent \in Nat
  BY DEF TextroomHook, RelayTypes
<1>2. m \in Message /\ queue[t] \in Seq(Message)
  <2>1. sent + 1 \in Nat /\ queue[t] \in Seq(Message)
    BY <1>1 DEF RelayTypes
  <2> QED
    BY <2>1, Zenon DEF Message
<1>3. full => queue[t] # <<>>
  BY <1>2, DepthAssumption
<1>4. PICK k \in {0, 1} : /\ left \in Seq(Message)
                          /\ \A i \in 1..Len(left) :
                               i + k \in 1..Len(queue[t]) /\ left[i] = queue[t][i + k]
  <2>1. CASE full
    BY <2>1, <1>2, <1>3, TailFacts
  <2>2. CASE ~full
    BY <2>2, <1>2
  <2> QED
    BY <2>1, <2>2
<1> HIDE DEF left, full, m
<1>5. /\ Append(left, m) \in Seq(Message) /\ Len(Append(left, m)) = Len(left) + 1
      /\ \A i \in 1..Len(left) : Append(left, m)[i] = left[i]
      /\ Append(left, m)[Len(left) + 1] = m
      /\ \A i \in 1..(Len(left) + 1) : i \in 1..Len(left) \/ i = Len(left) + 1
  BY <1>2, <1>4, AppendFacts
<1>6. /\ queue' \in [Topics -> Seq(Message)] /\ queue'[t] = Append(left, m)
      /\ \A u \in Topics \ {t} : queue'[u] = queue[u]
  BY <1>1, <1>5 DEF RelayTypes
<1>7. RelayTypes'
  BY <1>1, <1>6 DEF RelayTypes, Posting
<1>8. m.id = sent + 1
  BY DEF m
\* A position of the new queue is an old one, or the new message's.
<1>9. \A u \in Topics : \A i \in 1..Len(queue'[u]) :
        \/ u = t /\ i = Len(left) + 1 /\ queue'[u][i].id = sent + 1
        \/ LET j == IF u = t THEN i + k ELSE i
           IN  j \in 1..Len(queue[u]) /\ queue'[u][i] = queue[u][j]
  <2> TAKE u \in Topics
  <2> TAKE i \in 1..Len(queue'[u])
  <2>1. CASE u # t
    BY <2>1, <1>6
  <2>2. CASE u = t
    <3>1. i \in 1..Len(left) \/ i = Len(left) + 1
      BY <2>2, <1>5, <1>6
    <3>2. CASE i \in 1..Len(left)
      BY <2>2, <3>2, <1>4, <1>5, <1>6
    <3>3. CASE i = Len(left) + 1
      BY <2>2, <3>3, <1>5, <1>6, <1>8
    <3> QED
      BY <3>1, <3>2, <3>3
  <2> QED
    BY <2>1, <2>2
<1>10. \A u \in Topics : \A i \in 1..Len(queue'[u]) :
        \/ queue'[u][i].id = sent + 1
        \/ \E j \in 1..Len(queue[u]) : queue'[u][i] = queue[u][j]
  BY <1>9
<1>11. \A u \in Topics : \A j \in 1..Len(queue[u]) :
         /\ queue[u][j].id \in Nat /\ queue[u][j].id <= sent
         /\ queue[u][j].id # sent + 1 /\ queue[u][j].id \notin Answered
  <2> TAKE u \in Topics
  <2> TAKE j \in 1..Len(queue[u])
  <2>1. queue[u][j] \in Message /\ queue[u][j].id <= sent /\ queue[u][j].id \notin Answered
    BY DEF RelayTypes, WaitingInv, AnsweredInv
  <2> QED
    BY <2>1, <1>1 DEF Message
<1>12. \A u \in Topics : Posting(u) => worker[u].msg.id \in Nat /\ worker[u].msg.id <= sent
  BY DEF RelayTypes, WaitingInv, Message
<1>13. \A u \in Topics : \A i \in 1..Len(queue'[u]) : queue'[u][i].id <= sent + 1
  <2> TAKE u \in Topics
  <2> TAKE i \in 1..Len(queue'[u])
  <2>1. CASE queue'[u][i].id = sent + 1
    BY <2>1, <1>1
  <2>2. ASSUME NEW j \in 1..Len(queue[u]), queue'[u][i] = queue[u][j]
        PROVE  queue'[u][i].id <= sent + 1
    BY <2>2, <1>1, <1>11
  <2> QED
    BY <2>1, <2>2, <1>10
<1>14. \A u \in Topics : \A i \in 1..Len(queue'[u]) : queue'[u][i].id \notin Answered
  <2> TAKE u \in Topics
  <2> TAKE i \in 1..Len(queue'[u])
  <2>1. CASE queue'[u][i].id = sent + 1
    BY <2>1, <1>1 DEF AnsweredInv
  <2>2. ASSUME NEW j \in 1..Len(queue[u]), queue'[u][i] = queue[u][j]
        PROVE  queue'[u][i].id \notin Answered
    BY <2>2, <1>11
  <2> QED
    BY <2>1, <2>2, <1>10
<1>15. \A u \in Topics : Posting(u)' <=> Posting(u)
  BY <1>1 DEF Posting
<1>16. \A n \in Answered : n \in Nat /\ n <= sent + 1
  <2> TAKE n \in Answered
  <2>1. n \in Nat /\ n <= sent
    BY DEF AnsweredInv
  <2> QED
    BY <2>1, <1>1
<1>17. AnsweredInv'
  BY <1>1, <1>14, <1>15, <1>16 DEF AnsweredInv
<1>18. (\A u, v \in Topics : \A i \in 1..Len(queue[u]), j \in 1..Len(queue[v]) :
        queue[u][i].id = queue[v][j].id => u = v /\ i = j)'
  <2> SUFFICES ASSUME NEW u \in Topics, NEW v \in Topics,
                      NEW i \in 1..Len(queue'[u]), NEW j \in 1..Len(queue'[v]),
                      queue'[u][i].id = queue'[v][j].id
               PROVE  u = v /\ i = j
    OBVIOUS
  <2> DEFINE a == IF u = t THEN i + k ELSE i
             b == IF v = t THEN j + k ELSE j
  <2>1. \/ (u = t /\ i = Len(left) + 1 /\ queue'[u][i].id = sent + 1)
        \/ (a \in 1..Len(queue[u]) /\ queue'[u][i] = queue[u][a])
    BY <1>9
  <2>2. \/ (v = t /\ j = Len(left) + 1 /\ queue'[v][j].id = sent + 1)
        \/ (b \in 1..Len(queue[v]) /\ queue'[v][j] = queue[v][b])
    BY <1>9
  <2>3. CASE queue'[u][i].id = sent + 1
    BY <2>1, <2>2, <2>3, <1>11
  <2>4. CASE queue'[u][i].id # sent + 1
    <3>1. a \in 1..Len(queue[u]) /\ b \in 1..Len(queue[v])
          /\ queue[u][a].id = queue[v][b].id
      BY <2>1, <2>2, <2>4
    <3>2. u = v /\ a = b
      BY <3>1 DEF WaitingInv
    <3> QED
      BY <3>2
  <2> QED
    BY <2>3, <2>4
<1>19. (\A u, v \in Topics : \A j \in 1..Len(queue[v]) :
        Posting(u) => worker[u].msg.id # queue[v][j].id)'
  <2> SUFFICES ASSUME NEW u \in Topics, NEW v \in Topics,
                      NEW i \in 1..Len(queue'[v]), Posting(u)
               PROVE  worker[u].msg.id # queue'[v][i].id
    BY <1>1, <1>15
  <2>1. CASE queue'[v][i].id = sent + 1
    BY <2>1, <1>1, <1>12
  <2>2. ASSUME NEW j \in 1..Len(queue[v]), queue'[v][i] = queue[v][j]
        PROVE  worker[u].msg.id # queue'[v][i].id
    BY <2>2 DEF WaitingInv
  <2> QED
    BY <2>1, <2>2, <1>10
<1>20. (\A u \in Topics : Posting(u) => worker[u].msg.id <= sent)'
  BY <1>1, <1>12, <1>15
<1>21. (\A u, v \in Topics :
        Posting(u) /\ Posting(v) /\ worker[u].msg.id = worker[v].msg.id => u = v)'
  BY <1>1, <1>15 DEF WaitingInv
<1>22. WaitingInv'
  <2>1. (\A u \in Topics : \A i \in 1..Len(queue[u]) : queue[u][i].id <= sent)'
    BY <1>1, <1>13
  <2> QED
    BY <2>1, <1>18, <1>19, <1>20, <1>21, Zenon DEF WaitingInv
<1> QED
  BY <1>7, <1>17, <1>22

\* An answer leaves the worker's hands for the page's.
LEMMA AnswerKeepsRelay ==
    ASSUME RelayInv, NEW t \in Topics, Posting(t), ~Posting(t)', queue' = queue, sent' = sent,
           DOMAIN worker' = Topics, \A u \in Topics \ {t} : worker'[u] = worker[u],
           worker'[t] = [st |-> worker'[t].st, msg |-> worker'[t].msg],
           Answered' = Answered \cup {worker[t].msg.id}
    PROVE  RelayInv'
<1> USE DEF RelayInv
<1>1. RelayTypes'
  BY DEF RelayTypes, Posting
<1>2. WaitingInv'
  <2>1. Drops(t)
    BY DEF Drops
  <2> QED
    BY <2>1, DroppingKeepsWaiting
<1>3. \A u \in Topics : Posting(u)' => u # t /\ Posting(u) /\ worker'[u] = worker[u]
  BY DEF Posting
<1>4. worker[t].msg.id \in Nat /\ worker[t].msg.id <= sent
  BY DEF RelayTypes, WaitingInv, Message
<1>5. AnsweredInv'
  <2>1. \A n \in Answered' : n \in Nat /\ n <= sent'
    BY <1>4 DEF AnsweredInv
  <2>2. \A u \in Topics : \A i \in 1..Len(queue[u]) : queue[u][i].id \notin Answered'
    BY DEF AnsweredInv, WaitingInv
  <2>3. \A u \in Topics : Posting(u)' => worker'[u].msg.id \notin Answered'
    BY <1>3 DEF AnsweredInv, WaitingInv
  <2> QED
    BY <2>1, <2>2, <2>3 DEF AnsweredInv
<1> QED
  BY <1>1, <1>2, <1>5

\* A restart of the relay forgets what waits there; numbers go on.
LEMMA RestartKeepsRelay ==
    ASSUME RelayInv, RelayRestarts, Answered' = Answered
    PROVE  RelayInv'
<1> USE DEF RelayInv
<1>1. /\ \A t \in Topics : queue'[t] = <<>> /\ worker'[t] = IdleWorker
      /\ DOMAIN worker' = Topics /\ sent' = sent
      /\ queue' = [t \in Topics |-> <<>>]
  BY DEF RelayRestarts
<1>2. \A t \in Topics : ~Posting(t)'
  BY <1>1 DEF Posting, IdleWorker
<1>3. \A t \in Topics : worker'[t] = [st |-> worker'[t].st, msg |-> worker'[t].msg]
  BY <1>1 DEF IdleWorker
<1>4. RelayTypes'
  BY <1>1, <1>2, <1>3 DEF RelayTypes
<1>5. \A t \in Topics : 1..Len(queue'[t]) = {}
  BY <1>1
<1>6. WaitingInv' /\ AnsweredInv'
  BY <1>1, <1>2, <1>5 DEF WaitingInv, AnsweredInv
<1> QED
  BY <1>4, <1>6

\* What the page does with an answer concerns no waiting message.
LEMMA PageKeepsRelay ==
    ASSUME RelayInv, UNCHANGED <<relayVars, sent>>, Answered' \subseteq Answered
    PROVE  RelayInv'
<1>1. queue' = queue /\ worker' = worker /\ sent' = sent
  BY DEF relayVars
<1> QED
  BY <1>1 DEF RelayInv, RelayTypes, WaitingInv, AnsweredInv, Posting

-----------------------------------------------------------------------------
(* The page                                                                *)

PageInv == PageTypes /\ SessionInv /\ NewestRegistered /\ PlaceInv

LEMMA ConnFacts ==
    ASSUME PageTypes
    PROVE  /\ Len(conns) \in Nat /\ DOMAIN conns = 1..Len(conns)
           /\ \A c \in 1..Len(conns) :
                /\ conns[c] \in Conn
                /\ conns[c].q \in Seq(Result) /\ Len(conns[c].q) \in Nat
                /\ conns[c].got \in Seq(Result) /\ Len(conns[c].got) \in Nat
                /\ \A i \in 1..Len(conns[c].q) : conns[c].q[i] \in Result
                /\ \A i \in 1..Len(conns[c].got) : conns[c].got[i] \in Result
<1>1. Len(conns) \in Nat /\ DOMAIN conns = 1..Len(conns) /\ \A c \in 1..Len(conns) : conns[c] \in Conn
  BY DEF PageTypes
<1>2. ASSUME NEW c \in 1..Len(conns)
      PROVE  conns[c].q \in Seq(Result) /\ conns[c].got \in Seq(Result)
  BY <1>1 DEF Conn
<1> QED
  BY <1>1, <1>2

\* What is in a place is answered, and nothing else is.
LEMMA AnsweredHolds ==
    ASSUME PageTypes
    PROVE
    /\ \A r \in posted : r.id \in Answered
    /\ \A c \in 1..Len(conns) : \A i \in 1..Len(conns[c].q) : conns[c].q[i].id \in Answered
    /\ \A c \in 1..Len(conns) : \A i \in 1..Len(conns[c].got) : conns[c].got[i].id \in Answered
<1>1. \A r \in posted : r.id \in Nat
  BY DEF PageTypes, Result
<1>2. \A c \in 1..Len(conns) :
        /\ \A i \in 1..Len(conns[c].q) : conns[c].q[i].id \in Nat
        /\ \A i \in 1..Len(conns[c].got) : conns[c].got[i].id \in Nat
  BY ConnFacts DEF Result
<1> QED
  BY <1>1, <1>2, Zenon DEF Answered

LEMMA AnsweredWithin ==
    ASSUME NEW S, \A r \in posted' : r.id \in S,
           \A c \in 1..Len(conns') : \A i \in 1..Len(conns'[c].q) : conns'[c].q[i].id \in S,
           \A c \in 1..Len(conns') : \A i \in 1..Len(conns'[c].got) : conns'[c].got[i].id \in S
    PROVE  Answered' \subseteq S
  BY Zenon DEF Answered

\* A step that hands no answer on: what it touches it empties.
Shrinks ==
    /\ posted' \subseteq posted
    /\ \A c \in 1..Len(conns') :
        /\ conns'[c].q = <<>> \/ (c \in 1..Len(conns) /\ conns'[c].q = conns[c].q)
        /\ conns'[c].got = <<>> \/ (c \in 1..Len(conns) /\ conns'[c].got = conns[c].got)

LEMMA ShrinkingKeepsPlaces ==
    ASSUME PageTypes, PlaceInv, Shrinks
    PROVE  PlaceInv' /\ Answered' \subseteq Answered
<1>1. \A c \in 1..Len(conns') : \A i \in 1..Len(conns'[c].q) :
        c \in 1..Len(conns) /\ conns'[c].q = conns[c].q
  BY DEF Shrinks
<1>2. \A c \in 1..Len(conns') : \A i \in 1..Len(conns'[c].got) :
        c \in 1..Len(conns) /\ conns'[c].got = conns[c].got
  BY DEF Shrinks
<1>3. posted' \subseteq posted
  BY DEF Shrinks
<1>5. (\A r, x \in posted : r.id = x.id => r = x)'
  BY <1>3 DEF PlaceInv
<1>6. (\A r \in posted : \A c \in 1..Len(conns) :
        /\ \A i \in 1..Len(conns[c].q) : conns[c].q[i].id # r.id
        /\ \A i \in 1..Len(conns[c].got) : conns[c].got[i].id # r.id)'
  BY <1>1, <1>2, <1>3 DEF PlaceInv
<1>7. (\A c, d \in 1..Len(conns) : \A i \in 1..Len(conns[c].q), j \in 1..Len(conns[d].q) :
        conns[c].q[i].id = conns[d].q[j].id => c = d /\ i = j)'
  <2> SUFFICES ASSUME NEW c \in 1..Len(conns'), NEW d \in 1..Len(conns'),
                      NEW i \in 1..Len(conns'[c].q), NEW j \in 1..Len(conns'[d].q),
                      conns'[c].q[i].id = conns'[d].q[j].id
               PROVE  c = d /\ i = j
    OBVIOUS
  <2>1. /\ c \in 1..Len(conns) /\ conns'[c].q = conns[c].q
        /\ d \in 1..Len(conns) /\ conns'[d].q = conns[d].q
    BY <1>1
  <2> QED
    BY <2>1 DEF PlaceInv
<1>8. (\A c, d \in 1..Len(conns) : \A i \in 1..Len(conns[c].q), j \in 1..Len(conns[d].got) :
        conns[c].q[i].id # conns[d].got[j].id)'
  <2> SUFFICES ASSUME NEW c \in 1..Len(conns'), NEW d \in 1..Len(conns'),
                      NEW i \in 1..Len(conns'[c].q), NEW j \in 1..Len(conns'[d].got)
               PROVE  conns'[c].q[i].id # conns'[d].got[j].id
    OBVIOUS
  <2>1. /\ c \in 1..Len(conns) /\ conns'[c].q = conns[c].q
        /\ d \in 1..Len(conns) /\ conns'[d].got = conns[d].got
    BY <1>1, <1>2
  <2> QED
    BY <2>1 DEF PlaceInv
<1>9. (\A c, d \in 1..Len(conns) : \A i \in 1..Len(conns[c].got), j \in 1..Len(conns[d].got) :
        conns[c].got[i].id = conns[d].got[j].id => c = d /\ i = j)'
  <2> SUFFICES ASSUME NEW c \in 1..Len(conns'), NEW d \in 1..Len(conns'),
                      NEW i \in 1..Len(conns'[c].got), NEW j \in 1..Len(conns'[d].got),
                      conns'[c].got[i].id = conns'[d].got[j].id
               PROVE  c = d /\ i = j
    OBVIOUS
  <2>1. /\ c \in 1..Len(conns) /\ conns'[c].got = conns[c].got
        /\ d \in 1..Len(conns) /\ conns'[d].got = conns[d].got
    BY <1>2
  <2> QED
    BY <2>1 DEF PlaceInv
<1>10. PlaceInv'
  BY <1>5, <1>6, <1>7, <1>8, <1>9 DEF PlaceInv
<1>11. Answered' \subseteq Answered
  <2>1. \A r \in posted' : r.id \in Answered
    BY <1>3, AnsweredHolds
  <2>2. \A c \in 1..Len(conns') : \A i \in 1..Len(conns'[c].q) : conns'[c].q[i].id \in Answered
    BY <1>1, AnsweredHolds
  <2>3. \A c \in 1..Len(conns') : \A i \in 1..Len(conns'[c].got) : conns'[c].got[i].id \in Answered
    BY <1>2, AnsweredHolds
  <2> QED
    BY <2>1, <2>2, <2>3, AnsweredWithin
<1> QED
  BY <1>10, <1>11

\* The sink's answer becomes a result with the message's number.
LEMMA AnswerKeepsPage ==
    ASSUME PageInv, NEW x \in Result, x.id \notin Answered,
           posted' = posted \cup {x}, UNCHANGED pageVars
    PROVE  PageInv' /\ Answered' = Answered \cup {x.id}
<1> USE DEF PageInv
<1>1. conns' = conns /\ subs' = subs
  BY DEF pageVars
<1>2. PageTypes' /\ SessionInv' /\ NewestRegistered'
  BY <1>1 DEF PageTypes, SessionInv, NewestRegistered
<1>3. \A r \in posted : r.id # x.id
  BY AnsweredHolds
<1>4. \A c \in 1..Len(conns) :
        /\ \A i \in 1..Len(conns[c].q) : conns[c].q[i].id # x.id
        /\ \A i \in 1..Len(conns[c].got) : conns[c].got[i].id # x.id
  BY AnsweredHolds
<1>5. (\A r, y \in posted : r.id = y.id => r = y)'
  BY <1>3 DEF PlaceInv
<1>6. (\A r \in posted : \A c \in 1..Len(conns) :
        /\ \A i \in 1..Len(conns[c].q) : conns[c].q[i].id # r.id
        /\ \A i \in 1..Len(conns[c].got) : conns[c].got[i].id # r.id)'
  BY <1>1, <1>4 DEF PlaceInv
<1>7. PlaceInv'
  BY <1>1, <1>5, <1>6 DEF PlaceInv
<1>8. x.id \in Nat
  BY DEF Result
<1>9. Answered' = Answered \cup {x.id}
  BY <1>1, <1>8 DEF Answered
<1> QED
  BY <1>2, <1>7, <1>9

LEMMA LostKeepsPage ==
    ASSUME PageInv, PublishLost
    PROVE  PageInv' /\ Answered' \subseteq Answered
<1> USE DEF PageInv
<1>1. conns' = conns /\ subs' = subs /\ posted' \subseteq posted
  BY DEF PublishLost, pageVars
<1>2. Shrinks
  BY <1>1 DEF Shrinks
<1>3. PageTypes' /\ SessionInv' /\ NewestRegistered'
  BY <1>1 DEF PageTypes, SessionInv, NewestRegistered
<1> QED
  BY <1>2, <1>3, ShrinkingKeepsPlaces

LEMMA ConnectKeepsPage ==
    ASSUME PageInv, NEW s \in Sessions, Connect(s)
    PROVE  PageInv' /\ Answered' \subseteq Answered
<1> USE DEF PageInv
<1> DEFINE new == [sess |-> s, st |-> "open", q |-> <<>>, got |-> <<>>]
           n == Len(conns)
<1>1. /\ conns' = Append(conns, new) /\ posted' = posted
      /\ subs' = [subs EXCEPT ![s] = n + 1]
  BY DEF Connect
<1>2. new \in Conn
  BY DEF Conn
<1>3. n \in Nat /\ DOMAIN conns = 1..n
  BY ConnFacts
<1>4. /\ conns' \in Seq(Conn) /\ Len(conns') = n + 1
      /\ \A c \in 1..n : conns'[c] = conns[c] /\ c \in 1..Len(conns')
      /\ conns'[n + 1] = new
      /\ \A c \in 1..Len(conns') : c \in 1..n \/ c = n + 1
  <2>1. conns \in Seq(Conn)
    BY DEF PageTypes
  <2> HIDE DEF new
  <2> QED
    BY <1>1, <1>2, <2>1, AppendFacts
<1>5. PageTypes'
  BY <1>1, <1>3, <1>4 DEF PageTypes
<1>6. new.q = <<>> /\ new.got = <<>> /\ new.sess = s /\ new.st = "open"
  OBVIOUS
<1> HIDE DEF new
<1>7. Shrinks
  BY <1>1, <1>4, <1>6 DEF Shrinks
<1>8. subs'[s] = n + 1 /\ \A z \in Sessions \ {s} : subs'[z] = subs[z]
  BY <1>1 DEF PageTypes
<1>9. SessionInv'
  <2>1. \A z \in Sessions : subs'[z] # 0 => conns'[subs'[z]].sess = z
    <3> SUFFICES ASSUME NEW z \in Sessions, subs'[z] # 0
                 PROVE  conns'[subs'[z]].sess = z
      OBVIOUS
    <3>1. CASE z = s
      BY <3>1, <1>4, <1>6, <1>8
    <3>2. CASE z # s
      <4>1. subs[z] \in 1..n /\ subs'[z] = subs[z] /\ conns[subs[z]].sess = z
        BY <3>2, <1>3, <1>8 DEF PageTypes, SessionInv
      <4> QED
        BY <4>1, <1>4
    <3> QED
      BY <3>1, <3>2
  <2>2. \A c \in 1..Len(conns') :
        /\ \A i \in 1..Len(conns'[c].q) : conns'[c].q[i].session = conns'[c].sess
        /\ \A i \in 1..Len(conns'[c].got) : conns'[c].got[i].session = conns'[c].sess
    BY <1>4, <1>6 DEF SessionInv
  <2> QED
    BY <2>1, <2>2 DEF SessionInv
<1>10. NewestRegistered'
  <2> SUFFICES ASSUME NEW c \in 1..Len(conns'), conns'[c].st # "done",
                      \A d \in (c + 1)..Len(conns') : conns'[d].sess # conns'[c].sess
               PROVE  subs'[conns'[c].sess] = c
    BY DEF NewestRegistered
  <2>1. CASE c = n + 1
    BY <2>1, <1>4, <1>6, <1>8
  <2>2. CASE c \in 1..n
    <3>1. conns'[n + 1].sess # conns'[c].sess
      BY <2>2, <1>3, <1>4
    <3>2. conns'[c] = conns[c] /\ conns[c].sess # s /\ conns[c].sess \in Sessions
      BY <2>2, <3>1, <1>4, <1>6, ConnFacts DEF Conn
    <3>3. \A d \in (c + 1)..n : conns[d].sess # conns[c].sess
      BY <2>2, <3>2, <1>3, <1>4
    <3>4. subs[conns[c].sess] = c
      BY <2>2, <3>2, <3>3 DEF NewestRegistered
    <3> QED
      BY <3>2, <3>4, <1>8
  <2> QED
    BY <2>1, <2>2, <1>4
<1> QED
  BY <1>5, <1>7, <1>9, <1>10, ShrinkingKeepsPlaces

\* A step that changes one connection and not whose it is.
LEMMA ReplaceConn ==
    ASSUME PageTypes, NEW c \in 1..Len(conns), NEW y \in Conn,
           conns' = [conns EXCEPT ![c] = y]
    PROVE  /\ conns' \in Seq(Conn) /\ Len(conns') = Len(conns)
           /\ conns'[c] = y
           /\ \A d \in 1..Len(conns) : d # c => conns'[d] = conns[d]
  BY DEF PageTypes

LEMMA SameOwnersKeepNewest ==
    ASSUME PageTypes, NewestRegistered, Len(conns') = Len(conns), subs' = subs,
           \A d \in 1..Len(conns) : /\ conns'[d].sess = conns[d].sess
                                    /\ conns[d].st = "done" => conns'[d].st = "done"
    PROVE  NewestRegistered'
  BY DEF NewestRegistered

LEMMA SameOwnersKeepSessions ==
    ASSUME PageTypes, SessionInv, Len(conns') = Len(conns),
           \A z \in Sessions : subs'[z] \in {0, subs[z]},
           \A d \in 1..Len(conns) : conns'[d].sess = conns[d].sess,
           \A d \in 1..Len(conns) :
             /\ \A i \in 1..Len(conns'[d].q) : conns'[d].q[i].session = conns[d].sess
             /\ \A i \in 1..Len(conns'[d].got) : conns'[d].got[i].session = conns[d].sess
    PROVE  SessionInv'
<1>1. \A z \in Sessions : subs[z] \in 0..Len(conns) /\ Len(conns) \in Nat
  BY DEF PageTypes
<1> QED
  BY <1>1 DEF SessionInv

LEMMA LeaveKeepsPage ==
    ASSUME PageInv, NEW c \in 1..Len(conns), BrowserLeaves(c)
    PROVE  PageInv' /\ Answered' \subseteq Answered
<1> USE DEF PageInv
<1> DEFINE y == [conns[c] EXCEPT !.st = "gone"]
<1>1. conns[c] \in Conn /\ DOMAIN conns = 1..Len(conns) /\ conns[c].st = "open"
  BY ConnFacts DEF BrowserLeaves
<1>2. /\ y \in Conn /\ y.q = conns[c].q /\ y.got = conns[c].got /\ y.sess = conns[c].sess
      /\ y.st = "gone"
  BY <1>1 DEF Conn
<1>3. conns' = [conns EXCEPT ![c] = y] /\ subs' = subs /\ posted' = posted
  BY <1>1 DEF BrowserLeaves
<1> HIDE DEF y
<1>4. /\ conns' \in Seq(Conn) /\ Len(conns') = Len(conns)
      /\ conns'[c] = y
      /\ \A d \in 1..Len(conns) : d # c => conns'[d] = conns[d]
  BY <1>2, <1>3, ReplaceConn
<1>5. \A d \in 1..Len(conns) :
        /\ conns'[d].sess = conns[d].sess /\ conns'[d].q = conns[d].q
        /\ conns'[d].got = conns[d].got /\ (conns[d].st = "done" => conns'[d].st = "done")
  BY <1>1, <1>2, <1>4
<1>6. PageTypes'
  BY <1>3, <1>4 DEF PageTypes
<1>7. Shrinks
  BY <1>3, <1>4, <1>5 DEF Shrinks
<1>8. NewestRegistered'
  BY <1>3, <1>4, <1>5, SameOwnersKeepNewest
<1>9. SessionInv'
  <2>1. \A d \in 1..Len(conns) :
             /\ \A i \in 1..Len(conns'[d].q) : conns'[d].q[i].session = conns[d].sess
             /\ \A i \in 1..Len(conns'[d].got) : conns'[d].got[i].session = conns[d].sess
    BY <1>5 DEF SessionInv
  <2> QED
    BY <1>3, <1>4, <1>5, <2>1, SameOwnersKeepSessions
<1> QED
  BY <1>6, <1>7, <1>8, <1>9, ShrinkingKeepsPlaces

LEMMA ClosedConn ==
    ASSUME NEW x \in Conn
    PROVE  LET y == [x EXCEPT !.st = "done", !.q = <<>>]
           IN  y \in Conn /\ y.q = <<>> /\ y.got = x.got /\ y.sess = x.sess /\ y.st = "done"
<1>1. <<>> \in Seq(Result)
  OBVIOUS
<1>2. PICK e : e = <<>>
  OBVIOUS
<1>3. e \in Seq(Result)
  BY <1>1, <1>2
<1>4. LET y == [x EXCEPT !.st = "done", !.q = e]
      IN  y \in Conn /\ y.q = e /\ y.got = x.got /\ y.sess = x.sess /\ y.st = "done"
  BY <1>3 DEF Conn
<1> QED
  BY <1>2, <1>4

LEMMA EndKeepsPage ==
    ASSUME PageInv, NEW c \in 1..Len(conns), StreamEnds(c)
    PROVE  PageInv' /\ Answered' \subseteq Answered
<1> USE DEF PageInv
<1> DEFINE y == [conns[c] EXCEPT !.st = "done", !.q = <<>>]
           o == conns[c].sess
<1>1. conns[c] \in Conn /\ DOMAIN conns = 1..Len(conns) /\ o \in Sessions
  BY ConnFacts DEF Conn
<1>2. /\ y \in Conn /\ y.q = <<>> /\ y.got = conns[c].got /\ y.sess = conns[c].sess
      /\ y.st = "done"
  BY <1>1, ClosedConn
<1>3. conns' = [conns EXCEPT ![c] = y] /\ posted' = posted
  BY <1>1 DEF StreamEnds
<1>4. /\ subs' \in [Sessions -> 0..Len(conns)]
      /\ \A z \in Sessions : subs'[z] \in {0, subs[z]} /\ (subs[z] # c => subs'[z] = subs[z])
  BY <1>1 DEF StreamEnds, PageTypes
<1> HIDE DEF y
<1>5. /\ conns' \in Seq(Conn) /\ Len(conns') = Len(conns)
      /\ conns'[c] = y
      /\ \A d \in 1..Len(conns) : d # c => conns'[d] = conns[d]
  BY <1>2, <1>3, ReplaceConn
<1>6. \A d \in 1..Len(conns) :
        /\ conns'[d].sess = conns[d].sess /\ conns'[d].q \in {<<>>, conns[d].q}
        /\ conns'[d].got = conns[d].got
        /\ conns'[d].st # "done" => d # c /\ conns[d].st # "done"
  BY <1>1, <1>2, <1>5
<1>7. PageTypes'
  BY <1>3, <1>4, <1>5 DEF PageTypes
<1>8. Shrinks
  BY <1>3, <1>5, <1>6 DEF Shrinks
<1>9. NewestRegistered'
  <2> SUFFICES ASSUME NEW d \in 1..Len(conns), conns'[d].st # "done",
                      \A e \in (d + 1)..Len(conns) : conns'[e].sess # conns'[d].sess
               PROVE  subs'[conns'[d].sess] = d
    BY <1>5 DEF NewestRegistered
  <2>1. d # c /\ conns[d].st # "done" /\ conns'[d].sess = conns[d].sess
    BY <1>6
  <2>2. \A e \in (d + 1)..Len(conns) : conns[e].sess # conns[d].sess
    <3> TAKE e \in (d + 1)..Len(conns)
    <3>1. e \in 1..Len(conns)
      BY ConnFacts
    <3> QED
      BY <2>1, <3>1, <1>6
  <2>3. subs[conns[d].sess] = d /\ conns[d].sess \in Sessions
    BY <2>1, <2>2, ConnFacts DEF NewestRegistered, Conn
  <2> QED
    BY <2>1, <2>3, <1>4
<1>10. SessionInv'
  <2>1. \A d \in 1..Len(conns) :
             /\ \A i \in 1..Len(conns'[d].q) : conns'[d].q[i].session = conns[d].sess
             /\ \A i \in 1..Len(conns'[d].got) : conns'[d].got[i].session = conns[d].sess
    <3> TAKE d \in 1..Len(conns)
    <3>1. /\ \A i \in 1..Len(conns[d].q) : conns[d].q[i].session = conns[d].sess
          /\ \A i \in 1..Len(conns[d].got) : conns[d].got[i].session = conns[d].sess
      BY DEF SessionInv
    <3> QED
      BY <1>6, <3>1
  <2> QED
    BY <1>4, <1>5, <1>6, <2>1, SameOwnersKeepSessions
<1> QED
  BY <1>7, <1>8, <1>9, <1>10, ShrinkingKeepsPlaces

LEMMA PageRestartKeepsPage ==
    ASSUME PageInv, PageRestarts
    PROVE  PageInv' /\ Answered' \subseteq Answered
<1> USE DEF PageInv
<1>1. /\ Len(conns) \in Nat /\ posted' = posted
      /\ conns' = [c \in 1..Len(conns) |-> [conns[c] EXCEPT !.st = "done", !.q = <<>>]]
      /\ subs' = [s \in Sessions |-> 0]
  BY ConnFacts DEF PageRestarts
<1>2. \A c \in 1..Len(conns) :
        /\ conns'[c] \in Conn /\ conns'[c].q = <<>> /\ conns'[c].got = conns[c].got
        /\ conns'[c].sess = conns[c].sess /\ conns'[c].st = "done"
  <2> TAKE c \in 1..Len(conns)
  <2>1. conns'[c] = [conns[c] EXCEPT !.st = "done", !.q = <<>>] /\ conns[c] \in Conn
    BY <1>1, ConnFacts
  <2> QED
    BY <2>1, ClosedConn
<1>3. conns' \in Seq(Conn) /\ Len(conns') = Len(conns)
  <2>1. DOMAIN conns' = 1..Len(conns) /\ conns' = [c \in 1..Len(conns) |-> conns'[c]]
    BY <1>1
  <2>2. PICK f, n : f = conns' /\ n = Len(conns)
    OBVIOUS
  <2>3. /\ n \in Nat /\ DOMAIN f = 1..n /\ f = [i \in 1..n |-> f[i]]
        /\ \A i \in 1..n : f[i] \in Conn
    BY <1>1, <1>2, <2>1, <2>2
  <2>4. f \in Seq(Conn) /\ Len(f) = n
    BY <2>3, FunctionIsSequence
  <2> QED
    BY <2>2, <2>4
<1>4. PageTypes'
  <2>1. subs' = [s \in Sessions |-> 0] /\ Len(conns) \in Nat
    BY <1>1
  <2>2. 0 \in 0..Len(conns')
    BY <1>3, <2>1
  <2>3. subs' \in [Sessions -> 0..Len(conns')]
    BY <2>1, <2>2, Zenon
  <2> QED
    BY <1>1, <1>3, <2>3 DEF PageTypes
<1>5. Shrinks
  BY <1>1, <1>2, <1>3 DEF Shrinks
<1>6. NewestRegistered'
  BY <1>2, <1>3 DEF NewestRegistered
<1>7. SessionInv'
  <2>1. \A d \in 1..Len(conns) :
             /\ \A i \in 1..Len(conns'[d].q) : conns'[d].q[i].session = conns[d].sess
             /\ \A i \in 1..Len(conns'[d].got) : conns'[d].got[i].session = conns[d].sess
    BY <1>2 DEF SessionInv
  <2> QED
    BY <1>1, <1>2, <1>3, <2>1, SameOwnersKeepSessions
<1> QED
  BY <1>4, <1>5, <1>6, <1>7, ShrinkingKeepsPlaces

\* A result goes into the queue registered for its session.
LEMMA OfferKeepsPage ==
    ASSUME PageInv, NEW r \in posted, posted' = posted \ {r}, subs' = subs,
           NEW c \in 1..Len(conns), conns[c].sess = r.session,
           NEW y \in Conn, y.sess = conns[c].sess, y.st = conns[c].st, y.got = conns[c].got,
           y.q = Append(conns[c].q, r), conns' = [conns EXCEPT ![c] = y]
    PROVE  PageInv' /\ Answered' \subseteq Answered
<1> USE DEF PageInv
<1>1. /\ conns' \in Seq(Conn) /\ Len(conns') = Len(conns)
      /\ conns'[c] = y
      /\ \A d \in 1..Len(conns) : d # c => conns'[d] = conns[d]
  BY ReplaceConn
<1>2. r \in Result /\ conns[c].q \in Seq(Result)
  BY ConnFacts DEF PageTypes
<1> DEFINE last == Len(conns[c].q) + 1
<1>3. \A i \in 1..Len(y.q) : \/ i = last /\ y.q[i] = r
                             \/ i \in 1..Len(conns[c].q) /\ y.q[i] = conns[c].q[i]
  BY <1>2, AppendFacts
<1> HIDE DEF last
<1>4. \A d \in 1..Len(conns) : \A i \in 1..Len(conns'[d].q) :
        \/ d = c /\ i = last /\ conns'[d].q[i] = r
        \/ i \in 1..Len(conns[d].q) /\ conns'[d].q[i] = conns[d].q[i]
  <2> TAKE d \in 1..Len(conns)
  <2>1. CASE d = c
    <3>1. conns'[d].q = y.q
      BY <1>1, <2>1
    <3> QED
      BY <1>3, <2>1, <3>1, Zenon
  <2>2. CASE d # c
    <3>1. conns'[d].q = conns[d].q
      BY <1>1, <2>2
    <3> QED
      BY <3>1, Zenon
  <2> QED
    BY <2>1, <2>2
<1>5. \A d \in 1..Len(conns) :
        /\ conns'[d].sess = conns[d].sess /\ conns'[d].got = conns[d].got
        /\ conns'[d].st = conns[d].st
  BY <1>1
<1>6. PageTypes'
  BY <1>1 DEF PageTypes
<1>7. NewestRegistered'
  BY <1>1, <1>5, SameOwnersKeepNewest
<1>8. SessionInv'
  <2>1. \A d \in 1..Len(conns) :
             /\ \A i \in 1..Len(conns'[d].q) : conns'[d].q[i].session = conns[d].sess
             /\ \A i \in 1..Len(conns'[d].got) : conns'[d].got[i].session = conns[d].sess
    <3> TAKE d \in 1..Len(conns)
    <3>1. ASSUME NEW i \in 1..Len(conns'[d].q) PROVE conns'[d].q[i].session = conns[d].sess
      <4>1. CASE d = c /\ i = last /\ conns'[d].q[i] = r
        BY <4>1
      <4>2. CASE i \in 1..Len(conns[d].q) /\ conns'[d].q[i] = conns[d].q[i]
        BY <4>2 DEF SessionInv
      <4> QED
        BY <1>4, <4>1, <4>2
    <3>2. ASSUME NEW i \in 1..Len(conns'[d].got) PROVE conns'[d].got[i].session = conns[d].sess
      BY <1>5 DEF SessionInv
    <3> QED
      BY <3>1, <3>2
  <2> QED
    BY <1>1, <1>5, <2>1, SameOwnersKeepSessions
<1>10. Answered' \subseteq Answered
  <2>1. \A x \in posted' : x.id \in Answered
    BY AnsweredHolds
  <2>2. \A d \in 1..Len(conns') : \A i \in 1..Len(conns'[d].q) : conns'[d].q[i].id \in Answered
    BY <1>1, <1>4, AnsweredHolds
  <2>3. \A d \in 1..Len(conns') : \A i \in 1..Len(conns'[d].got) : conns'[d].got[i].id \in Answered
    BY <1>1, <1>5, AnsweredHolds
  <2> QED
    BY <2>1, <2>2, <2>3, AnsweredWithin
<1>11. \A x \in posted' : x \in posted /\ x.id # r.id
  BY DEF PlaceInv
<1>12. (\A x, z \in posted : x.id = z.id => x = z)'
  BY DEF PlaceInv
<1>13. (\A x \in posted : \A d \in 1..Len(conns) :
        /\ \A i \in 1..Len(conns[d].q) : conns[d].q[i].id # x.id
        /\ \A i \in 1..Len(conns[d].got) : conns[d].got[i].id # x.id)'
  BY <1>1, <1>4, <1>5, <1>11 DEF PlaceInv
<1>14. (\A d, e \in 1..Len(conns) : \A i \in 1..Len(conns[d].q), j \in 1..Len(conns[e].q) :
        conns[d].q[i].id = conns[e].q[j].id => d = e /\ i = j)'
  <2> SUFFICES ASSUME NEW d \in 1..Len(conns), NEW e \in 1..Len(conns),
                      NEW i \in 1..Len(conns'[d].q), NEW j \in 1..Len(conns'[e].q),
                      conns'[d].q[i].id = conns'[e].q[j].id
               PROVE  d = e /\ i = j
    BY <1>1
  <2>1. \/ d = c /\ i = last /\ conns'[d].q[i] = r
        \/ i \in 1..Len(conns[d].q) /\ conns'[d].q[i] = conns[d].q[i]
    BY <1>4
  <2>2. \/ e = c /\ j = last /\ conns'[e].q[j] = r
        \/ j \in 1..Len(conns[e].q) /\ conns'[e].q[j] = conns[e].q[j]
    BY <1>4
  <2>3. CASE conns'[d].q[i] = r /\ conns'[e].q[j] = r
    <3>1. ~(i \in 1..Len(conns[d].q) /\ r = conns[d].q[i])
      BY DEF PlaceInv
    <3>2. ~(j \in 1..Len(conns[e].q) /\ r = conns[e].q[j])
      BY DEF PlaceInv
    <3> QED
      BY <2>1, <2>2, <2>3, <3>1, <3>2
  <2>4. CASE conns'[d].q[i] = r /\ conns'[e].q[j] # r
    <3>1. j \in 1..Len(conns[e].q) /\ r.id = conns[e].q[j].id
      BY <2>2, <2>4
    <3> QED
      BY <3>1 DEF PlaceInv
  <2>5. CASE conns'[d].q[i] # r /\ conns'[e].q[j] = r
    <3>1. i \in 1..Len(conns[d].q) /\ r.id = conns[d].q[i].id
      BY <2>1, <2>5
    <3> QED
      BY <3>1 DEF PlaceInv
  <2>6. CASE conns'[d].q[i] # r /\ conns'[e].q[j] # r
    <3>1. /\ i \in 1..Len(conns[d].q) /\ j \in 1..Len(conns[e].q)
          /\ conns[d].q[i].id = conns[e].q[j].id
      BY <2>1, <2>2, <2>6
    <3> QED
      BY <3>1 DEF PlaceInv
  <2> QED
    BY <2>3, <2>4, <2>5, <2>6
<1>15. (\A d, e \in 1..Len(conns) : \A i \in 1..Len(conns[d].q), j \in 1..Len(conns[e].got) :
        conns[d].q[i].id # conns[e].got[j].id)'
  <2> SUFFICES ASSUME NEW d \in 1..Len(conns), NEW e \in 1..Len(conns),
                      NEW i \in 1..Len(conns'[d].q), NEW j \in 1..Len(conns'[e].got)
               PROVE  conns'[d].q[i].id # conns'[e].got[j].id
    BY <1>1
  <2>0. j \in 1..Len(conns[e].got) /\ conns'[e].got = conns[e].got
    BY <1>5
  <2>1. \/ d = c /\ i = last /\ conns'[d].q[i] = r
        \/ i \in 1..Len(conns[d].q) /\ conns'[d].q[i] = conns[d].q[i]
    BY <1>4
  <2>2. r.id # conns[e].got[j].id
    BY <2>0 DEF PlaceInv
  <2>3. CASE i \in 1..Len(conns[d].q) /\ conns'[d].q[i] = conns[d].q[i]
    BY <2>0, <2>3 DEF PlaceInv
  <2> QED
    BY <2>0, <2>1, <2>2, <2>3
<1>16. (\A d, e \in 1..Len(conns) : \A i \in 1..Len(conns[d].got), j \in 1..Len(conns[e].got) :
        conns[d].got[i].id = conns[e].got[j].id => d = e /\ i = j)'
  BY <1>1, <1>5 DEF PlaceInv
<1>17. PlaceInv'
  BY <1>12, <1>13, <1>14, <1>15, <1>16 DEF PlaceInv
<1> QED
  BY <1>6, <1>7, <1>8, <1>10, <1>17

LEMMA BroadcastKeepsPage ==
    ASSUME PageInv, DepthBroadcast
    PROVE  PageInv' /\ Answered' \subseteq Answered
<1> USE DEF PageInv
<1>1. PICK r \in posted : /\ posted' = posted \ {r} /\ subs' = subs
                          /\ conns' = IF subs[r.session] = 0 THEN conns
                                      ELSE Offered(subs[r.session], r)
  BY DEF DepthBroadcast
<1>2. r \in Result /\ r.session \in Sessions
  BY DEF PageTypes, Result
<1>3. CASE conns' = conns
  <2>1. Shrinks
    BY <1>1, <1>3 DEF Shrinks
  <2>2. PageTypes' /\ SessionInv' /\ NewestRegistered'
    BY <1>1, <1>3 DEF PageTypes, SessionInv, NewestRegistered
  <2> QED
    BY <2>1, <2>2, ShrinkingKeepsPlaces
<1>4. CASE subs[r.session] # 0
  <2> DEFINE c == subs[r.session]
             next == IF Len(conns[c].q) < SubQueueMax THEN Append(conns[c].q, r)
                     ELSE conns[c].q
             y == [conns[c] EXCEPT !.q = next]
  <2>1. /\ c \in 1..Len(conns) /\ conns[c].sess = r.session /\ conns[c] \in Conn
        /\ DOMAIN conns = 1..Len(conns) /\ conns[c].q \in Seq(Result)
    <3>1. c \in 1..Len(conns)
      BY <1>2, <1>4, ConnFacts DEF PageTypes
    <3> QED
      BY <3>1, <1>2, <1>4, ConnFacts DEF SessionInv
  <2>2. conns' = [conns EXCEPT ![c] = y]
    BY <1>1, <1>4, <2>1 DEF Offered
  <2>3. next \in Seq(Result)
    BY <1>2, <2>1, AppendFacts
  <2>4. CASE Len(conns[c].q) < SubQueueMax
    <3>1. next = Append(conns[c].q, r)
      BY <2>4
    <3> HIDE DEF next
    <3>2. /\ y \in Conn /\ y.sess = conns[c].sess /\ y.st = conns[c].st
          /\ y.got = conns[c].got /\ y.q = next
      BY <2>1, <2>3 DEF Conn
    <3> HIDE DEF y, c
    <3> QED
      BY <1>1, <2>1, <2>2, <3>1, <3>2, OfferKeepsPage
  <2>5. CASE ~(Len(conns[c].q) < SubQueueMax)
    <3>1. y = conns[c]
      BY <2>1, <2>5 DEF Conn
    <3>2. conns' = conns
      BY <2>1, <2>2, <3>1 DEF PageTypes
    <3> QED
      BY <1>3, <3>2
  <2> QED
    BY <2>4, <2>5
<1> QED
  BY <1>1, <1>3, <1>4

\* stream() takes the first result of its queue and the browser gets it, or
\* nobody does.
LEMMA YieldKeepsPage ==
    ASSUME PageInv, NEW c \in 1..Len(conns), StreamYields(c)
    PROVE  PageInv' /\ Answered' \subseteq Answered
<1> USE DEF PageInv
<1> DEFINE rest == Tail(conns[c].q)
           more == IF conns[c].st = "open" THEN Append(conns[c].got, Head(conns[c].q))
                   ELSE conns[c].got
           y == [conns[c] EXCEPT !.q = rest, !.got = more]
           last == Len(conns[c].got) + 1
<1>1. /\ conns[c] \in Conn /\ DOMAIN conns = 1..Len(conns)
      /\ conns[c].q \in Seq(Result) /\ conns[c].got \in Seq(Result) /\ conns[c].q # <<>>
  BY ConnFacts DEF StreamYields
<1>2. conns' = [conns EXCEPT ![c] = y] /\ posted' = posted /\ subs' = subs
  BY <1>1 DEF StreamYields
<1>3. /\ rest \in Seq(Result) /\ Head(conns[c].q) = conns[c].q[1]
      /\ conns[c].q[1] \in Result /\ 1 \in 1..Len(conns[c].q)
      /\ \A i \in 1..Len(rest) : /\ rest[i] = conns[c].q[i + 1]
                                 /\ i + 1 \in 1..Len(conns[c].q) /\ i + 1 # 1
  BY <1>1, TailFacts
<1>4. /\ more \in Seq(Result)
      /\ \A i \in 1..Len(more) :
           \/ i = last /\ more[i] = conns[c].q[1]
           \/ i \in 1..Len(conns[c].got) /\ more[i] = conns[c].got[i]
  <2>1. CASE conns[c].st = "open"
    <3>1. more = Append(conns[c].got, conns[c].q[1])
      BY <2>1, <1>3
    <3> HIDE DEF more
    <3> QED
      BY <1>1, <1>3, <3>1, AppendFacts
  <2>2. CASE conns[c].st # "open"
    BY <2>2, <1>1
  <2> QED
    BY <2>1, <2>2
<1> HIDE DEF rest, more, last
<1>5. /\ y \in Conn /\ y.sess = conns[c].sess /\ y.st = conns[c].st
      /\ y.q = rest /\ y.got = more
  BY <1>1, <1>3, <1>4 DEF Conn
<1> HIDE DEF y
<1>6. /\ conns' \in Seq(Conn) /\ Len(conns') = Len(conns)
      /\ conns'[c] = y
      /\ \A d \in 1..Len(conns) : d # c => conns'[d] = conns[d]
  BY <1>2, <1>5, ReplaceConn
\* Where the results at the new positions were.
<1>7. \A d \in 1..Len(conns) : \A i \in 1..Len(conns'[d].q) :
        LET j == IF d = c THEN i + 1 ELSE i
        IN  /\ j \in 1..Len(conns[d].q) /\ conns'[d].q[i] = conns[d].q[j]
            /\ d = c => j # 1
  BY <1>3, <1>5, <1>6
<1>8. \A d \in 1..Len(conns) : \A i \in 1..Len(conns'[d].got) :
        \/ d = c /\ i = last /\ conns'[d].got[i] = conns[c].q[1]
        \/ i \in 1..Len(conns[d].got) /\ conns'[d].got[i] = conns[d].got[i]
  BY <1>4, <1>5, <1>6
<1>9. \A d \in 1..Len(conns) : \A i \in 1..Len(conns'[d].q) :
        \E j \in 1..Len(conns[d].q) :
            conns'[d].q[i] = conns[d].q[j] /\ (d = c => j # 1)
  <2> TAKE d \in 1..Len(conns)
  <2> TAKE i \in 1..Len(conns'[d].q)
  <2>1. CASE d = c
    BY <2>1, <1>7
  <2>2. CASE d # c
    BY <2>2, <1>7
  <2> QED
    BY <2>1, <2>2
<1>10. \A d \in 1..Len(conns) : conns'[d].sess = conns[d].sess /\ conns'[d].st = conns[d].st
  BY <1>5, <1>6
<1>11. PageTypes'
  BY <1>2, <1>6 DEF PageTypes
<1>12. NewestRegistered'
  BY <1>2, <1>6, <1>10, SameOwnersKeepNewest
<1>13. \A d \in 1..Len(conns) : \A i \in 1..Len(conns'[d].q) :
         /\ conns'[d].q[i].session = conns[d].sess
         /\ conns'[d].q[i].id \in Answered
         /\ \A r \in posted : conns'[d].q[i].id # r.id
         /\ \A e \in 1..Len(conns) : \A j \in 1..Len(conns[e].got) :
              conns'[d].q[i].id # conns[e].got[j].id
         /\ conns'[d].q[i].id # conns[c].q[1].id
  <2> TAKE d \in 1..Len(conns)
  <2> TAKE i \in 1..Len(conns'[d].q)
  <2>1. PICK j \in 1..Len(conns[d].q) :
            conns'[d].q[i] = conns[d].q[j] /\ (d = c => j # 1)
    BY <1>9
  <2>2. conns[d].q[j].session = conns[d].sess
        /\ conns[d].q[j].id \in Answered
    BY AnsweredHolds DEF SessionInv
  <2>3. /\ \A r \in posted : conns[d].q[j].id # r.id
        /\ \A e \in 1..Len(conns) : \A m \in 1..Len(conns[e].got) :
              conns[d].q[j].id # conns[e].got[m].id
    BY DEF PlaceInv
  <2>4. conns[d].q[j].id # conns[c].q[1].id
    BY <1>3, <2>1 DEF PlaceInv
  <2> QED
    BY <2>1, <2>2, <2>3, <2>4
<1>14. \A d \in 1..Len(conns) : \A i \in 1..Len(conns'[d].got) :
         /\ conns'[d].got[i].session = conns[d].sess
         /\ conns'[d].got[i].id \in Answered
         /\ \A r \in posted : conns'[d].got[i].id # r.id
  <2> TAKE d \in 1..Len(conns)
  <2> TAKE i \in 1..Len(conns'[d].got)
  <2>1. CASE d = c /\ i = last /\ conns'[d].got[i] = conns[c].q[1]
    <3>1. conns[c].q[1].session = conns[c].sess
      BY <1>3 DEF SessionInv
    <3>2. conns[c].q[1].id \in Answered
      BY <1>3, AnsweredHolds
    <3>3. \A r \in posted : conns[c].q[1].id # r.id
      BY <1>3 DEF PlaceInv
    <3> QED
      BY <2>1, <3>1, <3>2, <3>3
  <2>2. CASE i \in 1..Len(conns[d].got) /\ conns'[d].got[i] = conns[d].got[i]
    BY <2>2, AnsweredHolds DEF SessionInv, PlaceInv
  <2> QED
    BY <2>1, <2>2, <1>8
<1>15. SessionInv'
  BY <1>2, <1>6, <1>10, <1>13, <1>14, SameOwnersKeepSessions
<1>17. Answered' \subseteq Answered
  BY <1>2, <1>6, <1>13, <1>14, AnsweredHolds, AnsweredWithin
<1>18. (\A d, e \in 1..Len(conns) : \A i \in 1..Len(conns[d].q), j \in 1..Len(conns[e].q) :
        conns[d].q[i].id = conns[e].q[j].id => d = e /\ i = j)'
  <2> SUFFICES ASSUME NEW d \in 1..Len(conns), NEW e \in 1..Len(conns),
                      NEW i \in 1..Len(conns'[d].q), NEW j \in 1..Len(conns'[e].q),
                      conns'[d].q[i].id = conns'[e].q[j].id
               PROVE  d = e /\ i = j
    BY <1>6
  <2> DEFINE a == IF d = c THEN i + 1 ELSE i
             b == IF e = c THEN j + 1 ELSE j
  <2>1. a \in 1..Len(conns[d].q) /\ b \in 1..Len(conns[e].q)
        /\ conns[d].q[a].id = conns[e].q[b].id
    BY <1>7
  <2>2. d = e /\ a = b
    BY <2>1 DEF PlaceInv
  <2> QED
    BY <2>2
<1>19. (\A d, e \in 1..Len(conns) : \A i \in 1..Len(conns[d].q), j \in 1..Len(conns[e].got) :
        conns[d].q[i].id # conns[e].got[j].id)'
  <2> SUFFICES ASSUME NEW d \in 1..Len(conns), NEW e \in 1..Len(conns),
                      NEW i \in 1..Len(conns'[d].q), NEW j \in 1..Len(conns'[e].got)
               PROVE  conns'[d].q[i].id # conns'[e].got[j].id
    BY <1>6
  <2>1. /\ \A f \in 1..Len(conns) : \A m \in 1..Len(conns[f].got) :
              conns'[d].q[i].id # conns[f].got[m].id
        /\ conns'[d].q[i].id # conns[c].q[1].id
    BY <1>13
  <2>2. \/ conns'[e].got[j] = conns[c].q[1]
        \/ j \in 1..Len(conns[e].got) /\ conns'[e].got[j] = conns[e].got[j]
    BY <1>8
  <2>3. CASE conns'[e].got[j] = conns[c].q[1]
    BY <2>1, <2>3
  <2>4. CASE j \in 1..Len(conns[e].got) /\ conns'[e].got[j] = conns[e].got[j]
    BY <2>1, <2>4
  <2> QED
    BY <2>2, <2>3, <2>4
<1>20. (\A d, e \in 1..Len(conns) : \A i \in 1..Len(conns[d].got), j \in 1..Len(conns[e].got) :
        conns[d].got[i].id = conns[e].got[j].id => d = e /\ i = j)'
  <2> SUFFICES ASSUME NEW d \in 1..Len(conns), NEW e \in 1..Len(conns),
                      NEW i \in 1..Len(conns'[d].got), NEW j \in 1..Len(conns'[e].got),
                      conns'[d].got[i].id = conns'[e].got[j].id
               PROVE  d = e /\ i = j
    BY <1>6
  <2>1. \/ d = c /\ i = last /\ conns'[d].got[i] = conns[c].q[1]
        \/ i \in 1..Len(conns[d].got) /\ conns'[d].got[i] = conns[d].got[i]
    BY <1>8
  <2>2. \/ e = c /\ j = last /\ conns'[e].got[j] = conns[c].q[1]
        \/ j \in 1..Len(conns[e].got) /\ conns'[e].got[j] = conns[e].got[j]
    BY <1>8
  <2>3. \A f \in 1..Len(conns) : \A m \in 1..Len(conns[f].got) :
          conns[c].q[1].id # conns[f].got[m].id
    BY <1>3 DEF PlaceInv
  <2>4. CASE d = c /\ i = last /\ conns'[d].got[i] = conns[c].q[1]
    BY <2>2, <2>3, <2>4
  <2>5. CASE i \in 1..Len(conns[d].got) /\ conns'[d].got[i] = conns[d].got[i]
    <3>1. CASE e = c /\ j = last /\ conns'[e].got[j] = conns[c].q[1]
      BY <2>3, <2>5, <3>1
    <3>2. CASE j \in 1..Len(conns[e].got) /\ conns'[e].got[j] = conns[e].got[j]
      BY <2>5, <3>2 DEF PlaceInv
    <3> QED
      BY <2>2, <3>1, <3>2
  <2> QED
    BY <2>1, <2>4, <2>5
<1>21. (\A r, x \in posted : r.id = x.id => r = x)'
  BY <1>2 DEF PlaceInv
<1>22. (\A r \in posted : \A d \in 1..Len(conns) :
        /\ \A i \in 1..Len(conns[d].q) : conns[d].q[i].id # r.id
        /\ \A i \in 1..Len(conns[d].got) : conns[d].got[i].id # r.id)'
  BY <1>2, <1>6, <1>13, <1>14
<1>23. PlaceInv'
  BY <1>18, <1>19, <1>20, <1>21, <1>22 DEF PlaceInv
<1> QED
  BY <1>11, <1>12, <1>15, <1>17, <1>23

-----------------------------------------------------------------------------
(* The system                                                              *)

LEMMA InitDepth == DepthInit => DepthInv
<1> SUFFICES ASSUME DepthInit PROVE DepthInv
  OBVIOUS
<1> USE DEF DepthInit
<1>2. /\ conns = <<>> /\ Len(conns) = 0 /\ posted = {} /\ sent = 0
      /\ 1..Len(conns) = {} /\ \A t \in Topics : queue[t] = <<>> /\ worker[t] = IdleWorker
  OBVIOUS
<1>3. PageTypes
  <2>1. 0 \in 0..Len(conns) /\ conns \in Seq(Conn)
    BY <1>2
  <2>2. subs \in [Sessions -> 0..Len(conns)]
    BY <2>1, Zenon
  <2> QED
    BY <1>2, <2>1, <2>2 DEF PageTypes
<1>4. \A t \in Topics : ~Posting(t) /\ worker[t] = [st |-> worker[t].st, msg |-> worker[t].msg]
                         /\ 1..Len(queue[t]) = {}
  BY <1>2 DEF Posting, IdleWorker
<1>5. RelayTypes
  BY <1>4 DEF RelayTypes
<1>6. NewestRegistered /\ PlaceInv
  BY <1>2 DEF NewestRegistered, PlaceInv
<1>7. SessionInv
  BY <1>2 DEF SessionInv
<1>8. Answered = {}
  BY <1>2 DEF Answered
<1>9. WaitingInv /\ AnsweredInv
  BY <1>4, <1>8 DEF WaitingInv, AnsweredInv
<1> QED
  BY <1>3, <1>5, <1>6, <1>7, <1>9 DEF DepthInv, DepthTypes, IdsInv

\* The page is not involved in most of what the relay does.
LEMMA PageUntouched ==
    ASSUME PageInv, UNCHANGED <<posted, pageVars>>
    PROVE  PageInv' /\ Answered' = Answered
  BY DEF pageVars, PageInv, PageTypes, SessionInv, NewestRegistered, PlaceInv, Answered

LEMMA SinkKeepsInv ==
    ASSUME RelayInv, PageInv, NEW t \in Topics, SinkAnswers(t)
    PROVE  RelayInv' /\ PageInv'
<1>1. CASE t \notin Answering
  <2>1. TaskDone(t, 1) /\ UNCHANGED <<posted, pageVars>> /\ queue' = queue /\ sent' = sent
    BY <1>1 DEF SinkAnswers
  <2>2. PageInv' /\ Answered' = Answered
    BY <2>1, PageUntouched
  <2> QED
    BY <2>1, <2>2, DoneKeepsRelay
<1>2. CASE t \in Answering
  <2> DEFINE m == worker[t].msg
  <2>1. /\ Posting(t) /\ queue' = queue /\ sent' = sent /\ UNCHANGED pageVars
        /\ worker' = [worker EXCEPT ![t].st = "publishing"]
    BY <1>2 DEF SinkAnswers, Posting
  <2> DEFINE x == [id |-> m.id, session |-> m.session]
  <2>2. posted' = posted \cup {x}
    BY <1>2 DEF SinkAnswers
  <2>4. m \in Message /\ m.id \notin Answered
    BY <2>1 DEF RelayInv, RelayTypes, AnsweredInv
  <2>5. x \in Result
    BY <2>4, Zenon DEF Result, Message
  <2>6. x.id = m.id
    OBVIOUS
  <2>7. PageInv' /\ Answered' = Answered \cup {m.id}
    <3> HIDE DEF x, m
    <3>1. posted' = posted \cup {x}
      BY <2>2 DEF x
    <3> QED
      BY <2>1, <2>4, <2>5, <2>6, <3>1, AnswerKeepsPage
  <2>8. /\ DOMAIN worker' = Topics /\ \A u \in Topics \ {t} : worker'[u] = worker[u]
        /\ worker'[t].st = "publishing"
        /\ worker'[t] = [st |-> worker'[t].st, msg |-> worker'[t].msg]
    <3>1. worker[t] = [st |-> worker[t].st, msg |-> worker[t].msg] /\ DOMAIN worker = Topics
      BY DEF RelayInv, RelayTypes
    <3> QED
      BY <2>1, <3>1
  <2>9. ~Posting(t)'
    BY <2>8 DEF Posting
  <2> QED
    BY <2>1, <2>7, <2>8, <2>9, AnswerKeepsRelay
<1> QED
  BY <1>1, <1>2

LEMMA RelayStep ==
    ASSUME RelayInv, PageInv, NEW t \in Topics, Relay(t)
    PROVE  RelayInv' /\ PageInv'
<1>1. CASE SinkAnswers(t)
  BY <1>1, SinkKeepsInv
<1>2. ASSUME UNCHANGED <<posted, pageVars>>
      PROVE  PageInv' /\ Answered' = Answered
  BY <1>2, PageUntouched
<1>3. ASSUME NEW s \in Sessions, NEW ts \in Stamps, TextroomHook(t, s, ts)
      PROVE  RelayInv' /\ PageInv'
  <2>1. UNCHANGED <<posted, pageVars>>
    BY <1>3 DEF TextroomHook
  <2> QED
    BY <1>2, <1>3, <2>1, HookKeepsRelay
<1>4. CASE WorkerSkips(t)
  <2>1. UNCHANGED <<posted, pageVars>>
    BY <1>4 DEF WorkerSkips
  <2> QED
    BY <1>2, <1>4, <2>1, SkipKeepsRelay
<1>5. CASE WorkerTakes(t)
  <2>1. UNCHANGED <<posted, pageVars>>
    BY <1>5 DEF WorkerTakes
  <2> QED
    BY <1>2, <1>5, <2>1, TakeKeepsRelay
<1>6. CASE SinkFails(t) \/ PublishEnds(t)
  <2>1. UNCHANGED <<posted, pageVars>> /\ TaskDone(t, 1) /\ queue' = queue /\ sent' = sent
    BY <1>6 DEF SinkFails, PublishEnds
  <2> QED
    BY <1>2, <2>1, DoneKeepsRelay
<1>7. CASE IntervalPasses(t)
  <2>1. /\ UNCHANGED <<posted, pageVars>> /\ queue' = queue /\ worker' = worker
        /\ sent' = sent
    BY <1>7 DEF IntervalPasses
  <2>2. PageInv' /\ Answered' = Answered
    BY <1>2, <2>1
  <2>3. RelayInv'
    BY <2>1, <2>2 DEF RelayInv, RelayTypes, WaitingInv, AnsweredInv, Posting
  <2> QED
    BY <2>2, <2>3
<1> QED
  BY <1>1, <1>3, <1>4, <1>5, <1>6, <1>7 DEF Relay

LEMMA PageStep ==
    ASSUME RelayInv, PageInv,
           \/ \E s \in Sessions : Connect(s)
           \/ DepthBroadcast \/ PublishLost
           \/ \E c \in 1..Len(conns) : StreamYields(c) \/ BrowserLeaves(c) \/ StreamEnds(c)
           \/ PageRestarts
    PROVE  RelayInv' /\ PageInv'
<1>1. UNCHANGED <<relayVars, sent>>
  BY DEF Connect, DepthBroadcast, PublishLost, StreamYields, BrowserLeaves, StreamEnds,
         PageRestarts
<1>2. PageInv' /\ Answered' \subseteq Answered
  BY ConnectKeepsPage, BroadcastKeepsPage, LostKeepsPage, YieldKeepsPage, LeaveKeepsPage,
     EndKeepsPage, PageRestartKeepsPage
<1> QED
  BY <1>1, <1>2, PageKeepsRelay

LEMMA StepKeepsDepth == DepthInv /\ [DepthNext]_depthVars => DepthInv'
<1> SUFFICES ASSUME DepthInv, [DepthNext]_depthVars PROVE DepthInv'
  OBVIOUS
<1>1. RelayInv /\ PageInv
  BY DEF DepthInv, DepthTypes, IdsInv, RelayInv, PageInv
<1>3. ASSUME UNCHANGED <<relayVars, posted, pageVars, sent>>
      PROVE  RelayInv' /\ PageInv'
  <2>1. PageInv' /\ Answered' = Answered
    BY <1>1, <1>3, PageUntouched
  <2>2. RelayInv'
    BY <1>1, <1>3, <2>1, PageKeepsRelay
  <2> QED
    BY <2>1, <2>2
<1>4. CASE SampleFrameset \/ MuxStops \/ MuxStarts \/ UNCHANGED depthVars
  <2>1. UNCHANGED <<relayVars, posted, pageVars, sent>>
    BY <1>4 DEF SampleFrameset, MuxStops, MuxStarts, depthVars, relayVars, pageVars
  <2> QED
    BY <1>3, <2>1 DEF DepthInv, DepthTypes, IdsInv, RelayInv, PageInv
<1>5. ASSUME NEW t \in Topics, Relay(t) PROVE RelayInv' /\ PageInv'
  BY <1>1, <1>5, RelayStep
<1>6. CASE RelayRestarts
  <2>1. PageInv' /\ Answered' = Answered
    BY <1>1, <1>6, PageUntouched DEF RelayRestarts
  <2>2. RelayInv'
    BY <1>1, <1>6, <2>1, RestartKeepsRelay
  <2> QED
    BY <2>1, <2>2 DEF DepthInv, DepthTypes, IdsInv, RelayInv, PageInv
<1>7. CASE \/ \E s \in Sessions : Connect(s)
           \/ DepthBroadcast \/ PublishLost
           \/ \E c \in 1..Len(conns) : StreamYields(c) \/ BrowserLeaves(c) \/ StreamEnds(c)
           \/ PageRestarts
  <2>1. RelayInv' /\ PageInv'
    BY <1>1, <1>7, PageStep
  <2> QED
    BY <2>1 DEF DepthInv, DepthTypes, IdsInv, RelayInv, PageInv
<1>8. CASE \E t \in Topics : Relay(t)
  <2>1. RelayInv' /\ PageInv'
    BY <1>5, <1>8
  <2> QED
    BY <2>1 DEF DepthInv, DepthTypes, IdsInv, RelayInv, PageInv
<1> QED
  BY <1>4, <1>6, <1>7, <1>8 DEF DepthNext

\* DepthInv holds in every reachable state, for any number of sessions, topics,
\* messages, connections and restarts of mux, relay and page.
THEOREM DepthInvariant == DepthSpec => []DepthInv
  BY InitDepth, StepKeepsDepth, PTL DEF DepthSpec

\* The newest stream of a session stays registered until it ends itself
\* (depth_events.py, stream()'s finally clause), whichever older streams of
\* the session end before or after it.
THEOREM NewestStaysRegistered == DepthSpec => []NewestRegistered
<1>1. DepthInv => NewestRegistered
  BY DEF DepthInv
<1> QED
  BY <1>1, DepthInvariant, PTL

\* Answers reach their own session and none reaches a browser twice
\* (textroom_relay.py's forward and publish, depth_events.py's broadcast),
\* whichever calls are lost, late or cut by a restart.
THEOREM AnswersReachTheirOwnerOnce == DepthSpec => []OwnAnswersOnce
<1>1. ASSUME DepthInv PROVE OwnAnswersOnce
  <2>1. \A c \in 1..Len(conns) : \A i \in 1..Len(conns[c].got) :
          conns[c].got[i].session = conns[c].sess
    BY <1>1 DEF DepthInv, SessionInv
  <2>2. \A c, d \in 1..Len(conns) :
          \A i \in 1..Len(conns[c].got), j \in 1..Len(conns[d].got) :
            conns[c].got[i].id = conns[d].got[j].id => c = d /\ i = j
    BY <1>1 DEF DepthInv, IdsInv, PlaceInv
  <2> QED
    BY <2>1, <2>2 DEF OwnAnswersOnce
<1> QED
  BY <1>1, DepthInvariant, PTL

-----------------------------------------------------------------------------
(* The workers                                                             *)

\* The topics whose messages are never skipped.
Steady == Topics \ (Limited \cup Deduped)
InHand(t) == IF worker[t].st \in {"posting", "publishing"} THEN 1 ELSE 0

\* A queue counts as unfinished what waits in it and what its worker has in
\* hand, so that no task_done() comes too often.
CountInv ==
    /\ DOMAIN unfinished = Topics
    /\ \A t \in Steady :
        /\ worker[t].st \in {"idle", "posting", "publishing"}
        /\ unfinished[t] = Len(queue[t]) + InHand(t)

\* One task_done() ends the message in hand and leaves the worker alive.
LEMMA DoneKeepsCount ==
    ASSUME RelayTypes, CountInv, NEW t \in Topics, TaskDone(t, 1), queue' = queue,
           t \in Steady => InHand(t) = 1
    PROVE  CountInv'
<1>1. DOMAIN unfinished = Topics /\ DOMAIN worker = Topics
  BY DEF CountInv, RelayTypes
<1>2. DOMAIN unfinished' = Topics
  BY <1>1 DEF TaskDone
<1>3. ASSUME NEW u \in Steady
      PROVE  /\ worker'[u].st \in {"idle", "posting", "publishing"}
             /\ unfinished'[u] = Len(queue'[u]) + InHand(u)'
  <2>1. CASE u = t
    <3>1. unfinished[t] = Len(queue[t]) + 1 /\ Len(queue[t]) \in Nat
      BY <1>3, <2>1 DEF CountInv, RelayTypes, Steady
    <3>2. unfinished'[t] = unfinished[t] - 1 /\ worker'[t].st = "idle"
      BY <1>1, <3>1 DEF TaskDone, IdleWorker
    <3> QED
      BY <2>1, <3>1, <3>2 DEF InHand
  <2>2. CASE u # t
    <3>1. u \in Topics /\ unfinished'[u] = unfinished[u] /\ worker'[u] = worker[u]
      BY <1>1, <1>3, <2>2 DEF TaskDone, Steady
    <3> QED
      BY <1>3, <3>1 DEF CountInv, InHand
  <2> QED
    BY <2>1, <2>2
<1> QED
  BY <1>2, <1>3 DEF CountInv

\* A drop from a full queue ends one task and the new message begins one.
LEMMA HookKeepsCount ==
    ASSUME RelayTypes, CountInv, NEW t \in Topics, NEW s, NEW ts, TextroomHook(t, s, ts)
    PROVE  CountInv'
<1> DEFINE full == Len(queue[t]) >= QueueMax
           left == IF full THEN Tail(queue[t]) ELSE queue[t]
           count == IF full /\ unfinished[t] > 0 THEN unfinished[t] - 1 ELSE unfinished[t]
           m == [id |-> sent + 1, session |-> s, ts |-> ts]
<1>1. /\ queue' = [queue EXCEPT ![t] = Append(left, m)]
      /\ unfinished' = [unfinished EXCEPT ![t] = count + 1] /\ worker' = worker
  BY DEF TextroomHook
<1>2. DOMAIN unfinished = Topics /\ DOMAIN queue = Topics /\ queue[t] \in Seq(Message)
  BY DEF CountInv, RelayTypes
<1>3. DOMAIN unfinished' = Topics
  BY <1>1, <1>2
<1>4. ASSUME NEW u \in Steady
      PROVE  /\ worker'[u].st \in {"idle", "posting", "publishing"}
             /\ unfinished'[u] = Len(queue'[u]) + InHand(u)'
  <2>1. CASE u = t
    <3>1. InHand(t) \in {0, 1} /\ InHand(t)' = InHand(t)
      BY <1>1 DEF InHand
    <3>2. unfinished[t] = Len(queue[t]) + InHand(t) /\ Len(queue[t]) \in Nat
      BY <1>2, <1>4, <2>1 DEF CountInv
    <3>3. /\ left \in Seq(Message)
          /\ Len(left) = IF full THEN Len(queue[t]) - 1 ELSE Len(queue[t])
      <4>1. full => queue[t] # <<>>
        BY <1>2, DepthAssumption
      <4> QED
        BY <1>2, <4>1, TailFacts
    <3>4. Len(queue'[t]) = Len(left) + 1
      <4>1. queue'[t] = Append(left, m)
        BY <1>1, <1>2
      <4> HIDE DEF left, m
      <4> QED
        BY <3>3, <4>1
    <3>5. unfinished'[t] = count + 1
      BY <1>1, <1>2
    <3>6. full => Len(queue[t]) > 0
      BY <3>2, DepthAssumption
    <3>7. count = Len(left) + InHand(t)
      <4> HIDE DEF left, full
      <4> QED
        BY <3>1, <3>2, <3>3, <3>6
    <3> HIDE DEF count, left, full
    <3>8. Len(left) \in Nat
      BY <3>3
    <3>9. unfinished'[t] = Len(queue'[t]) + InHand(t)'
      BY <3>1, <3>4, <3>5, <3>7, <3>8
    <3> QED
      BY <1>1, <1>4, <2>1, <3>9 DEF CountInv
  <2>2. CASE u # t
    <3>1. /\ u \in Topics /\ unfinished'[u] = unfinished[u] /\ worker'[u] = worker[u]
          /\ queue'[u] = queue[u]
      BY <1>1, <1>2, <1>4, <2>2 DEF Steady
    <3> QED
      BY <1>4, <3>1 DEF CountInv, InHand
  <2> QED
    BY <2>1, <2>2
<1> QED
  BY <1>3, <1>4 DEF CountInv

\* What the worker takes is unfinished still; a skip is no matter of Steady.
LEMMA TakeKeepsCount ==
    ASSUME RelayTypes, CountInv, NEW t \in Topics, WorkerTakes(t) \/ WorkerSkips(t)
    PROVE  CountInv'
<1>1. /\ DOMAIN unfinished = Topics /\ DOMAIN queue = Topics /\ DOMAIN worker = Topics
      /\ queue[t] \in Seq(Message) /\ queue[t] # <<>>
      /\ queue' = [queue EXCEPT ![t] = Tail(queue[t])]
  BY DEF CountInv, RelayTypes, WorkerTakes, WorkerSkips
<1>2. DOMAIN unfinished' = Topics
  BY <1>1 DEF WorkerTakes, WorkerSkips, TaskDone
<1>3. WorkerSkips(t) => t \notin Steady
  BY DEF WorkerSkips, RateLimited, Duplicate, Steady
<1>4. ASSUME NEW u \in Steady
      PROVE  /\ worker'[u].st \in {"idle", "posting", "publishing"}
             /\ unfinished'[u] = Len(queue'[u]) + InHand(u)'
  <2>1. CASE u = t
    <3>1. WorkerTakes(t)
      BY <1>3, <1>4, <2>1
    <3>2. worker[t].st = "idle" /\ worker'[t].st = "posting" /\ unfinished' = unfinished
      BY <1>1, <3>1 DEF WorkerTakes
    <3>3. InHand(t) = 0 /\ InHand(t)' = 1
      BY <3>2 DEF InHand
    <3>4. queue'[t] = Tail(queue[t]) /\ Len(queue[t]) \in Nat
          /\ Len(Tail(queue[t])) = Len(queue[t]) - 1
      BY <1>1, TailFacts
    <3>5. unfinished[t] = Len(queue[t]) + InHand(t)
      BY <1>4, <2>1 DEF CountInv
    <3> QED
      BY <2>1, <3>2, <3>3, <3>4, <3>5
  <2>2. CASE u # t
    <3>1. u \in Topics /\ queue'[u] = queue[u]
      BY <1>1, <1>4, <2>2 DEF Steady
    <3>2. unfinished'[u] = unfinished[u] /\ worker'[u] = worker[u]
      BY <1>1, <3>1, <2>2 DEF WorkerTakes, WorkerSkips, TaskDone
    <3> QED
      BY <1>4, <3>1, <3>2 DEF CountInv, InHand
  <2> QED
    BY <2>1, <2>2
<1> QED
  BY <1>2, <1>4 DEF CountInv

LEMMA AnswerKeepsCount ==
    ASSUME RelayTypes, CountInv, NEW t \in Topics, SinkAnswers(t)
    PROVE  CountInv'
<1>1. InHand(t) = 1 /\ queue' = queue
  BY DEF SinkAnswers, InHand
<1>2. CASE TaskDone(t, 1)
  BY <1>1, <1>2, DoneKeepsCount
<1>3. CASE worker' = [worker EXCEPT ![t].st = "publishing"] /\ UNCHANGED unfinished
  <2>1. DOMAIN worker = Topics /\ worker[t] = [st |-> worker[t].st, msg |-> worker[t].msg]
    BY DEF RelayTypes
  <2>2. worker'[t].st = "publishing" /\ \A u \in Topics \ {t} : worker'[u] = worker[u]
    BY <1>3, <2>1
  <2>3. InHand(t)' = InHand(t) /\ \A u \in Topics \ {t} : InHand(u)' = InHand(u)
    BY <1>1, <2>2 DEF InHand
  <2> QED
    BY <1>1, <1>3, <2>2, <2>3 DEF CountInv, Steady
<1> QED
  BY <1>2, <1>3 DEF SinkAnswers

LEMMA StepKeepsCount ==
    ASSUME RelayTypes, CountInv, [DepthNext]_depthVars
    PROVE  CountInv'
<1>1. ASSUME NEW t \in Topics, Relay(t) PROVE CountInv'
  <2>1. CASE SinkFails(t) \/ PublishEnds(t)
    <3>1. InHand(t) = 1 /\ TaskDone(t, 1) /\ queue' = queue
      BY <2>1 DEF SinkFails, PublishEnds, InHand
    <3> QED
      BY <3>1, DoneKeepsCount
  <2>2. CASE IntervalPasses(t)
    BY <2>2 DEF IntervalPasses, CountInv, InHand
  <2> QED
    BY <1>1, <2>1, <2>2, HookKeepsCount, TakeKeepsCount, AnswerKeepsCount DEF Relay
<1>2. ASSUME UNCHANGED relayVars PROVE CountInv'
  BY <1>2 DEF relayVars, CountInv, InHand
<1>3. CASE RelayRestarts
  <2>1. /\ unfinished' = [t \in Topics |-> 0]
        /\ \A t \in Topics : queue'[t] = <<>> /\ worker'[t] = IdleWorker
    BY <1>3 DEF RelayRestarts
  <2>2. \A t \in Topics : Len(queue'[t]) = 0 /\ worker'[t].st = "idle" /\ InHand(t)' = 0
    BY <2>1 DEF IdleWorker, InHand
  <2> QED
    BY <2>1, <2>2 DEF CountInv, Steady
<1>4. UNCHANGED relayVars \/ RelayRestarts \/ \E t \in Topics : Relay(t)
  <2>1. /\ SampleFrameset \/ MuxStops \/ MuxStarts \/ UNCHANGED depthVars => UNCHANGED relayVars
        /\ DepthBroadcast \/ PublishLost \/ PageRestarts => UNCHANGED relayVars
    BY DEF SampleFrameset, MuxStops, MuxStarts, depthVars, relayVars, DepthBroadcast,
           PublishLost, PageRestarts
  <2>2. /\ \A s : Connect(s) => UNCHANGED relayVars
        /\ \A c : StreamYields(c) \/ BrowserLeaves(c) \/ StreamEnds(c) => UNCHANGED relayVars
    BY DEF Connect, StreamYields, BrowserLeaves, StreamEnds
  <2> QED
    BY <2>1, <2>2 DEF DepthNext
<1> QED
  BY <1>1, <1>2, <1>3, <1>4

\* A worker whose messages are never skipped never ends (textroom_relay.py,
\* textroom_hook's drop and _forward_worker's finally clause), for any queue
\* length, any bursts and any failures of the sink and of the page.
THEOREM BurstsSpareTheWorker == DepthSpec => []BurstSpares
<1>1. DepthInit => CountInv
  <2> SUFFICES ASSUME DepthInit PROVE CountInv
    OBVIOUS
  <2>1. /\ unfinished = [t \in Topics |-> 0]
        /\ \A t \in Topics : Len(queue[t]) = 0 /\ worker[t].st = "idle"
    BY DEF DepthInit, IdleWorker
  <2>2. \A t \in Topics : unfinished[t] = 0 /\ InHand(t) = 0
    BY <2>1 DEF InHand
  <2> QED
    BY <2>1, <2>2 DEF CountInv, Steady
<1>2. DepthInv => RelayTypes
  BY DEF DepthInv, DepthTypes
<1>3. RelayTypes /\ CountInv /\ [DepthNext]_depthVars => CountInv'
  BY StepKeepsCount
<1>4. CountInv => BurstSpares
  BY DEF CountInv, BurstSpares, Steady
<1> QED
  BY <1>1, <1>2, <1>3, <1>4, DepthInvariant, PTL DEF DepthSpec

-----------------------------------------------------------------------------
(***************************************************************************)
(* The player, proved for any number of generations, attempts, runs and    *)
(* orphaned timers, any alarms and any order of callbacks.                 *)
(*                                                                         *)
(* A handler maps a player to a player, and the late callbacks that        *)
(* interleave with it read nothing but the player's fields.  So the proof  *)
(* has two layers.  The operators are shown, one by one, to take a player  *)
(* that is all right (PlayerOK) to one that is all right and that hands on *)
(* what kept a reconnect alive (Follows); both compose, so a handler made  *)
(* of three operators needs no more than their three lemmas.  Above them   *)
(* the inductive invariant adds the runs, the only thing besides the       *)
(* fields that can keep a reconnect alive: an attempt in flight has a run  *)
(* at work or one of its two timers armed, or else the latch that          *)
(* suppresses the next attempt would never be released.                    *)
(***************************************************************************)

\* The fields of the player's record.
PlayerFields ==
    {"state", "token", "desired", "up", "frame", "notified", "latch", "dog", "alarms",
     "retry", "attempt", "pending", "inFlight", "expected", "sched", "start", "settle",
     "lost", "subscribed", "hidden"}

\* What every handler preserves of the fields alone.
PlayerOK(q) ==
    /\ DOMAIN q = PlayerFields
    /\ q.state \in Rest \cup Active /\ q.token \in Nat
    /\ q.desired \in BOOLEAN /\ q.up \in BOOLEAN /\ q.frame \in BOOLEAN
    /\ q.dog \in BOOLEAN /\ q.latch \in BOOLEAN /\ q.pending \in BOOLEAN
    /\ q.inFlight \in BOOLEAN /\ q.hidden \in BOOLEAN
    /\ q.desired <=> q.state \in Active
    /\ q.state = "PLAYING" => q.up /\ q.frame
    /\ q.state \in {"CONNECTING", "PLAYING"} => q.dog
    /\ q.state \in Rest => ~q.dog /\ ~q.latch /\ q.sched = 0 /\ q.settle = 0
    /\ q.state = "RECONNECTING" => q.pending
    /\ q.sched \in {0, q.token} /\ q.settle \in {0, q.token}

\* What a handler makes of q that does not start a generation: an attempt that
\* is still in flight keeps its timer, leaving ends it, and a visible player
\* reconnects with a backoff timer or with what it had before.
Follows(q, r) ==
    /\ r.inFlight => /\ q.inFlight /\ r.token = q.token
                     /\ q.token \in {q.start, q.settle} => r.token \in {r.start, r.settle}
                     /\ q.state \in Active => r.state \in Active
    /\ q.state \in Rest => r.state \in Rest
    /\ r.state = "RECONNECTING" /\ ~r.hidden /\ ~r.inFlight =>
         \/ r.token \in {r.sched, r.start, r.settle}
         \/ /\ q.state = "RECONNECTING" /\ ~q.hidden /\ ~q.inFlight
            /\ q.token \notin {q.sched, q.start, q.settle}
            /\ r.token = q.token /\ r.lost = q.lost

Keeps(q, r) == PlayerOK(r) /\ Follows(q, r)

LEMMA FollowsTrans ==
    ASSUME NEW q, NEW r, NEW u, PlayerOK(q), Keeps(q, r), Keeps(r, u)
    PROVE  Keeps(q, u)
<1>1. u.inFlight => /\ q.inFlight /\ u.token = q.token
                    /\ q.token \in {q.start, q.settle} => u.token \in {u.start, u.settle}
                    /\ q.state \in Active => u.state \in Active
  BY DEF Keeps, Follows
<1>2. q.state \in Rest => u.state \in Rest
  BY DEF Keeps, Follows
<1>3. ASSUME u.state = "RECONNECTING", ~u.hidden, ~u.inFlight,
             u.token \notin {u.sched, u.start, u.settle}
      PROVE  /\ q.state = "RECONNECTING" /\ ~q.hidden /\ ~q.inFlight
             /\ q.token \notin {q.sched, q.start, q.settle}
             /\ u.token = q.token /\ u.lost = q.lost
  <2>1. /\ r.state = "RECONNECTING" /\ ~r.hidden /\ ~r.inFlight
        /\ r.token \notin {r.sched, r.start, r.settle}
        /\ u.token = r.token /\ u.lost = r.lost
    BY <1>3 DEF Keeps, Follows
  <2> QED
    BY <2>1 DEF Keeps, Follows
<1> QED
  BY <1>1, <1>2, <1>3 DEF Keeps, Follows

LEMMA FollowsSelf ==
    ASSUME NEW q, PlayerOK(q) PROVE Keeps(q, q)
  BY DEF Keeps, Follows, PlayerOK, Rest, Active

\* The player at rest.
Halted(q, r) ==
    /\ DOMAIN r = PlayerFields /\ r.state \in Rest
    /\ r.desired = FALSE /\ r.up = FALSE /\ r.frame = FALSE
    /\ r.dog = FALSE /\ r.latch = FALSE /\ r.pending = FALSE /\ r.inFlight = FALSE
    /\ r.sched = 0 /\ r.start = 0 /\ r.settle = 0 /\ r.hidden = q.hidden

LEMMA HaltedKeeps ==
    ASSUME NEW q, NEW r, PlayerOK(q), Halted(q, r), r.token \in Nat
    PROVE  Keeps(q, r)
  BY DEF Keeps, Follows, PlayerOK, Halted, Rest, Active

LEMMA ToErrorHalts ==
    ASSUME NEW q, DOMAIN q = PlayerFields, NEW t
    PROVE  Halted(q, ToError(q, t)) /\ ToError(q, t).token = t /\ ToError(q, t).state = "ERROR"
  BY DEF Halted, ToError, StopStreaming, StopAll, ResetReconnect, ClearTimers, PlayerFields, Rest

LEMMA ToIdleHalts ==
    ASSUME NEW q, DOMAIN q = PlayerFields
    PROVE  Halted(q, ToIdle(q)) /\ ToIdle(q).token = q.token
  BY DEF Halted, ToIdle, StopStreaming, StopAll, ResetReconnect, ClearTimers, PlayerFields, Rest

LEMMA FailClosedKeeps ==
    ASSUME NEW q, PlayerOK(q) PROVE Keeps(q, FailClosed(q))
<1>1. Halted(q, FailClosed(q)) /\ FailClosed(q).token = q.token
  BY ToErrorHalts DEF FailClosed, PlayerOK
<1> QED
  BY <1>1, HaltedKeeps DEF PlayerOK

LEMMA FailKeeps ==
    ASSUME NEW q, PlayerOK(q)
    PROVE  Keeps(q, Fail(q)) /\ Halted(q, Fail(q)) /\ Fail(q).state = "ERROR"
<1>1. Halted(q, Fail(q)) /\ Fail(q).token = q.token + 1 /\ Fail(q).state = "ERROR"
  BY ToErrorHalts DEF Fail, PlayerOK
<1> QED
  BY <1>1, HaltedKeeps DEF PlayerOK

LEMMA StopKeeps ==
    ASSUME NEW q, PlayerOK(q) PROVE Keeps(q, ToIdle(q))
  BY ToIdleHalts, HaltedKeeps DEF PlayerOK

-----------------------------------------------------------------------------
(* The coordinator.                                                        *)

\* What asking for the next attempt makes of q.
Scheduled(q, r) ==
    /\ PlayerOK(r)
    /\ \/ q.state \in Active /\ r.state = "ERROR" /\ r.inFlight = FALSE
       \/ /\ r.state = q.state /\ r.token = q.token /\ r.hidden = q.hidden
          /\ r.inFlight = q.inFlight /\ r.start = q.start /\ r.settle = q.settle
          /\ q.state = "RECONNECTING" /\ ~q.hidden /\ ~q.inFlight => r.sched = r.token

LEMMA ScheduledFollows ==
    ASSUME NEW q, PlayerOK(q), NEW r, Scheduled(q, r) PROVE Keeps(q, r)
  BY DEF Keeps, Follows, Scheduled, PlayerOK, Rest, Active

\* The same after the attempt in flight was given up.
LEMMA GivenUpFollows ==
    ASSUME NEW q, PlayerOK(q), NEW p, PlayerOK(p), NEW r, Scheduled(p, r),
           p.state = q.state, p.inFlight = FALSE
    PROVE  Keeps(q, r)
  BY DEF Keeps, Follows, Scheduled, PlayerOK, Rest, Active

LEMMA ScheduleNextDoes ==
    ASSUME NEW q, PlayerOK(q) PROVE Scheduled(q, ScheduleNext(q))
<1> DEFINE timed == [q EXCEPT !.sched = q.token,
                              !.lost = IF q.sched = 0 THEN @ ELSE [@ EXCEPT ![q.sched] = @ + 1]]
<1>1. CASE ~q.pending \/ ~ShouldContinue(q)
  <2>1. ScheduleNext(q) = q
    BY <1>1 DEF ScheduleNext
  <2> QED
    BY <1>1, <2>1 DEF Scheduled, ShouldContinue, PlayerOK, Active, Rest
<1>2. CASE q.pending /\ ShouldContinue(q) /\ q.attempt >= MaxAttempts
  <2>1. ScheduleNext(q) = Fail(q)
    BY <1>2 DEF ScheduleNext
  <2>2. PICK r : r = Fail(q)
    OBVIOUS
  <2>3. PlayerOK(r) /\ r.state = "ERROR" /\ r.inFlight = FALSE
    BY <2>2, FailKeeps DEF Keeps, Halted
  <2>4. q.state \in Active
    BY <1>2 DEF ShouldContinue, PlayerOK
  <2> QED
    BY <2>1, <2>2, <2>3, <2>4 DEF Scheduled
<1>3. CASE q.pending /\ ShouldContinue(q) /\ ~(q.attempt >= MaxAttempts)
  <2>1. ScheduleNext(q) = timed
    BY <1>3 DEF ScheduleNext
  <2>2. /\ DOMAIN timed = PlayerFields /\ timed.sched = q.token
        /\ \A f \in PlayerFields \ {"sched", "lost"} : timed[f] = q[f]
    BY DEF PlayerOK, PlayerFields
  <2> HIDE DEF timed
  <2>3. PlayerOK(timed)
    BY <1>3, <2>2 DEF PlayerOK, PlayerFields, ShouldContinue, Active, Rest
  <2> QED
    BY <2>1, <2>2, <2>3 DEF Scheduled, PlayerFields
<1> QED
  BY <1>1, <1>2, <1>3

LEMMA RequestDoes ==
    ASSUME NEW q, DOMAIN q = PlayerFields, PlayerOK([q EXCEPT !.pending = TRUE])
    PROVE  Scheduled([q EXCEPT !.pending = TRUE], Request(q))
<1> DEFINE r == [q EXCEPT !.pending = TRUE]
<1>1. Request(q) = IF r.inFlight \/ r.sched # 0 THEN r ELSE ScheduleNext(r)
  BY DEF Request
<1> HIDE DEF r
<1>2. PlayerOK(r)
  BY DEF r
<1>3. Scheduled(r, Request(q))
  <2>1. CASE r.inFlight \/ r.sched # 0
    BY <1>1, <1>2, <2>1 DEF Scheduled, PlayerOK
  <2>2. CASE ~(r.inFlight \/ r.sched # 0)
    BY <1>1, <1>2, <2>2, ScheduleNextDoes
  <2> QED
    BY <2>1, <2>2
<1> QED
  BY <1>3 DEF r

LEMMA ResumeDoes ==
    ASSUME NEW q, PlayerOK(q) PROVE Scheduled(q, ResumeIfPending(q))
<1>1. CASE q.inFlight \/ q.sched # 0
  BY <1>1 DEF ResumeIfPending, Scheduled, PlayerOK
<1>2. CASE ~(q.inFlight \/ q.sched # 0)
  BY <1>2, ScheduleNextDoes DEF ResumeIfPending
<1> QED
  BY <1>1, <1>2

LEMMA NotifyAttemptFailedKeeps ==
    ASSUME NEW q, PlayerOK(q) PROVE Keeps(q, NotifyAttemptFailed(q))
<1> DEFINE p == [ClearTimers(q) EXCEPT !.pending = TRUE, !.inFlight = FALSE]
<1>1. /\ DOMAIN p = PlayerFields /\ p.sched = 0 /\ p.start = 0 /\ p.settle = 0
      /\ p.pending = TRUE /\ p.inFlight = FALSE
      /\ \A f \in PlayerFields \ {"sched", "start", "settle", "pending", "inFlight"} : p[f] = q[f]
  BY DEF PlayerOK, PlayerFields, ClearTimers
<1>2. NotifyAttemptFailed(q) = ScheduleNext(p)
  BY DEF NotifyAttemptFailed
<1> HIDE DEF p
<1>3. PlayerOK(p) /\ p.state = q.state
  BY <1>1 DEF PlayerOK, PlayerFields, Active, Rest
<1> QED
  BY <1>1, <1>2, <1>3, ScheduleNextDoes, GivenUpFollows

LEMMA StartSettleKeeps ==
    ASSUME NEW q, PlayerOK(q), q.state = "RECONNECTING" PROVE Keeps(q, StartSettleWindow(q))
<1>1. CASE ~q.inFlight \/ q.settle # 0
  BY <1>1, FollowsSelf DEF StartSettleWindow
<1>2. CASE ~(~q.inFlight \/ q.settle # 0)
  <2> DEFINE p == [q EXCEPT !.start = 0, !.settle = q.token]
  <2>1. /\ DOMAIN p = PlayerFields /\ p.start = 0 /\ p.settle = q.token
        /\ \A f \in PlayerFields \ {"start", "settle"} : p[f] = q[f]
    BY DEF PlayerOK, PlayerFields
  <2>2. StartSettleWindow(q) = p
    BY <1>2 DEF StartSettleWindow
  <2> HIDE DEF p
  <2>3. PlayerOK(p)
    BY <2>1 DEF PlayerOK, PlayerFields, Active, Rest
  <2>4. p.state = q.state /\ p.token = q.token /\ p.inFlight = q.inFlight
    BY <2>1 DEF PlayerFields
  <2> QED
    BY <1>2, <2>1, <2>2, <2>3, <2>4 DEF Keeps, Follows, Rest, Active
<1> QED
  BY <1>1, <1>2

-----------------------------------------------------------------------------
(* The transitions.                                                        *)

\* A handler that changes nothing an attempt depends on.
LEMMA SameAttempt ==
    ASSUME NEW q, PlayerOK(q), NEW r, PlayerOK(r), r.state = q.state, r.token = q.token,
           r.inFlight = q.inFlight, r.sched = q.sched, r.start = q.start, r.settle = q.settle,
           r.lost = q.lost, r.hidden = q.hidden
    PROVE  Keeps(q, r)
  BY DEF Keeps, Follows, PlayerOK, Rest, Active

\* The player plays, no attempt is left.
LEMMA PlaysKeeps ==
    ASSUME NEW q, PlayerOK(q), q.state \in Active, NEW r, PlayerOK(r), r.state = "PLAYING",
           r.inFlight = FALSE
    PROVE  Keeps(q, r)
  BY DEF Keeps, Follows, PlayerOK, Rest, Active

LEMMA WatchedFields ==
    ASSUME NEW q, DOMAIN q = PlayerFields
    PROVE  /\ DOMAIN Watched(q) = PlayerFields
           /\ \A f \in PlayerFields \ {"dog"} : Watched(q)[f] = q[f]
           /\ q.state \in {"CONNECTING", "PLAYING"} => Watched(q).dog = TRUE
           /\ q.state \notin {"CONNECTING", "PLAYING"} => Watched(q) = q
  BY DEF Watched, PlayerFields

LEMMA WatchedKeeps ==
    ASSUME NEW q, PlayerOK(q) PROVE Keeps(q, Watched(q))
<1>1. DOMAIN q = PlayerFields
  BY DEF PlayerOK
<1>2. PICK r : r = Watched(q)
  OBVIOUS
<1>3. /\ DOMAIN r = PlayerFields
      /\ \A f \in PlayerFields \ {"dog"} : r[f] = q[f]
      /\ q.state \in {"CONNECTING", "PLAYING"} => r.dog = TRUE
      /\ q.state \notin {"CONNECTING", "PLAYING"} => r = q
  BY <1>1, <1>2, WatchedFields
<1>4. PlayerOK(r)
  BY <1>3 DEF PlayerOK, PlayerFields, Rest, Active
<1>5. Keeps(q, r)
  BY <1>3, <1>4, SameAttempt DEF PlayerFields
<1> QED
  BY <1>2, <1>5

LEMMA ToReconnectingKeeps ==
    ASSUME NEW q, PlayerOK(q), q.state \in {"CONNECTING", "PLAYING"}
    PROVE  Keeps(q, ToReconnecting(q))
<1>1. PICK u \in BOOLEAN : u = (q.up /\ q.state = "CONNECTING")
  BY DEF PlayerOK
<1> DEFINE p == [q EXCEPT !.state = "RECONNECTING", !.up = u, !.notified = FALSE]
           p2 == [p EXCEPT !.pending = TRUE]
<1>2. /\ DOMAIN p = PlayerFields /\ DOMAIN p2 = PlayerFields
      /\ p2.state = "RECONNECTING" /\ p2.up = u /\ p2.pending = TRUE
      /\ \A f \in PlayerFields \ {"state", "up", "notified", "pending"} : p2[f] = q[f]
  BY DEF PlayerOK, PlayerFields
<1>3. ToReconnecting(q) = Request(p)
  BY <1>1 DEF ToReconnecting
<1>4. PICK r : r = Request(p)
  OBVIOUS
<1>5. p2 = [p EXCEPT !.pending = TRUE]
  OBVIOUS
<1> HIDE DEF p, p2
<1>6. PlayerOK(p2)
  BY <1>2 DEF PlayerOK, PlayerFields, Active, Rest
<1>7. Scheduled(p2, r)
  BY <1>2, <1>4, <1>5, <1>6, RequestDoes
<1>8. /\ p2.token = q.token /\ p2.inFlight = q.inFlight /\ p2.start = q.start
      /\ p2.settle = q.settle
  BY <1>2 DEF PlayerFields
<1>9. Keeps(q, r)
  BY <1>2, <1>7, <1>8 DEF Scheduled, Keeps, Follows, PlayerOK, Rest, Active
<1> QED
  BY <1>3, <1>4, <1>9

\* RECONNECTING ends well.
LEMMA ReconnectedKeeps ==
    ASSUME NEW q, PlayerOK(q), NEW p, DOMAIN p = PlayerFields, p.state = "RECONNECTING",
           p.desired = TRUE, q.state = "RECONNECTING", p.token = q.token,
           \A f \in {"latch", "hidden"} : p[f] = q[f]
    PROVE  Keeps(q, Recovered(p)) /\ Recovered(p).state = "PLAYING"
<1> DEFINE p1 == ResetReconnect([p EXCEPT !.state = "PLAYING", !.up = TRUE, !.frame = TRUE])
<1>1. /\ DOMAIN p1 = PlayerFields
      /\ p1.state = "PLAYING" /\ p1.up = TRUE /\ p1.frame = TRUE /\ p1.sched = 0
      /\ p1.start = 0 /\ p1.settle = 0 /\ p1.pending = FALSE /\ p1.inFlight = FALSE
      /\ p1.token = q.token /\ p1.desired = TRUE /\ p1.latch = q.latch /\ p1.hidden = q.hidden
  BY DEF PlayerFields, ResetReconnect, ClearTimers
<1>2. Recovered(p) = Watched(p1)
  BY DEF Recovered
<1> HIDE DEF p1
<1>3. PICK r : r = Watched(p1)
  OBVIOUS
<1>4. /\ DOMAIN r = PlayerFields /\ r.dog = TRUE
      /\ \A f \in PlayerFields \ {"dog"} : r[f] = p1[f]
  BY <1>1, <1>3, WatchedFields
<1>5. /\ r.state = "PLAYING" /\ r.up = TRUE /\ r.frame = TRUE /\ r.sched = 0
      /\ r.settle = 0 /\ r.pending = FALSE /\ r.inFlight = FALSE
      /\ r.token = q.token /\ r.desired = TRUE /\ r.latch = q.latch /\ r.hidden = q.hidden
  BY <1>1, <1>4 DEF PlayerFields
<1>6. q.token \in Nat /\ q.latch \in BOOLEAN /\ q.hidden \in BOOLEAN
  BY DEF PlayerOK
<1>7. PlayerOK(r)
  BY <1>4, <1>5, <1>6 DEF PlayerOK, Active, Rest
<1> QED
  BY <1>2, <1>3, <1>5, <1>7, PlaysKeeps DEF Active

LEMMA RecoveredKeeps ==
    ASSUME NEW q, PlayerOK(q) PROVE Keeps(q, Recovered(q))
<1>1. CASE q.state = "RECONNECTING"
  <2>1. q.desired = TRUE /\ DOMAIN q = PlayerFields
    BY <1>1 DEF PlayerOK, Active
  <2> QED
    BY <1>1, <2>1, ReconnectedKeeps
<1>2. CASE q.state = "CONNECTING"
  <2> DEFINE p == StopAll([q EXCEPT !.state = "PLAYING", !.up = TRUE])
  <2>1. /\ DOMAIN p = PlayerFields
        /\ p.state = "PLAYING" /\ p.up = TRUE /\ p.frame = q.frame /\ p.sched = 0
        /\ p.start = 0 /\ p.settle = 0 /\ p.pending = FALSE /\ p.inFlight = FALSE
        /\ p.token = q.token /\ p.desired = q.desired /\ p.latch = FALSE /\ p.hidden = q.hidden
    BY DEF PlayerOK, PlayerFields, StopAll, ResetReconnect, ClearTimers
  <2>2. Recovered(q) = Watched(Gate(q, p))
    BY <1>2 DEF Recovered
  <2> HIDE DEF p
  <2>3. CASE q.frame
    <3>1. PICK r : r = Watched(p)
      OBVIOUS
    <3>2. Recovered(q) = r
      BY <2>1, <2>2, <2>3, <3>1 DEF Gate
    <3>3. /\ DOMAIN r = PlayerFields /\ r.dog = TRUE
          /\ \A f \in PlayerFields \ {"dog"} : r[f] = p[f]
      BY <2>1, <3>1, WatchedFields
    <3>4. PlayerOK(r) /\ r.state = "PLAYING" /\ r.inFlight = FALSE
      <4>1. /\ r.state = "PLAYING" /\ r.up = TRUE /\ r.frame = q.frame /\ r.sched = 0
            /\ r.settle = 0 /\ r.pending = FALSE /\ r.inFlight = FALSE
            /\ r.token = q.token /\ r.desired = q.desired /\ r.latch = FALSE
            /\ r.hidden = q.hidden
        BY <2>1, <3>3 DEF PlayerFields
      <4>2. r.state \in Active /\ r.state \notin Rest /\ q.desired
        BY <1>2, <4>1 DEF PlayerOK, Active, Rest
      <4> QED
        BY <2>3, <3>3, <4>1, <4>2 DEF PlayerOK
    <3> QED
      BY <1>2, <3>2, <3>4, PlaysKeeps DEF Active
  <2>4. CASE ~q.frame
    <3>1. Recovered(q) = Watched(FailClosed(q))
      BY <2>1, <2>2, <2>4 DEF Gate
    <3>2. Keeps(q, FailClosed(q))
      BY FailClosedKeeps
    <3>3. Keeps(FailClosed(q), Watched(FailClosed(q)))
      BY <3>2, WatchedKeeps DEF Keeps
    <3> QED
      BY <3>1, <3>2, <3>3, FollowsTrans
  <2> QED
    BY <2>3, <2>4
<1>3. CASE q.state = "PLAYING"
  BY <1>3, WatchedKeeps DEF Recovered
<1>4. CASE q.state \in Rest
  BY <1>4, FailClosedKeeps DEF Recovered, Rest
<1> QED
  BY <1>1, <1>2, <1>3, <1>4 DEF PlayerOK, Rest, Active

LEMMA ReportKeeps ==
    ASSUME NEW q, PlayerOK(q), NEW up \in BOOLEAN PROVE Keeps(q, Report(q, up))
<1> DEFINE p == [q EXCEPT !.up = up]
<1>1. /\ DOMAIN p = PlayerFields /\ p.up = up
      /\ \A f \in PlayerFields \ {"up"} : p[f] = q[f]
  BY DEF PlayerOK, PlayerFields
<1>2. Report(q, up) = Watched(Gate(q, p))
  BY DEF Report
<1> HIDE DEF p
<1>3. PICK g : g = Gate(q, p)
  OBVIOUS
<1>4. CASE p.state = "PLAYING" /\ ~(p.up /\ p.frame)
  BY <1>2, <1>3, <1>4, FailClosedKeeps, WatchedKeeps, FollowsTrans DEF Gate, Keeps
<1>5. CASE ~(p.state = "PLAYING" /\ ~(p.up /\ p.frame))
  <2>1. g = p
    BY <1>3, <1>5 DEF Gate
  <2>2. PlayerOK(p)
    BY <1>1, <1>5 DEF PlayerOK, PlayerFields, Active, Rest
  <2>3. Keeps(q, p)
    BY <1>1, <2>2, SameAttempt DEF PlayerFields
  <2> QED
    BY <1>2, <1>3, <2>1, <2>3, WatchedKeeps, FollowsTrans DEF Keeps
<1> QED
  BY <1>4, <1>5

LEMMA RequestRecoveryKeeps ==
    ASSUME NEW q, PlayerOK(q) PROVE Keeps(q, RequestRecovery(q))
<1>1. CASE q.desired /\ q.state \in {"CONNECTING", "PLAYING"}
  BY <1>1, ToReconnectingKeeps DEF RequestRecovery
<1>2. CASE ~(q.desired /\ q.state \in {"CONNECTING", "PLAYING"})
  BY <1>2, FollowsSelf DEF RequestRecovery
<1> QED
  BY <1>1, <1>2

LEMMA RecoverKeeps ==
    ASSUME NEW q, PlayerOK(q) PROVE Keeps(q, Recover(q))
<1>1. CASE q.state = "RECONNECTING" /\ q.inFlight
  BY <1>1, NotifyAttemptFailedKeeps DEF Recover
<1>2. CASE ~(q.state = "RECONNECTING" /\ q.inFlight)
  BY <1>2, RequestRecoveryKeeps DEF Recover
<1> QED
  BY <1>1, <1>2

LEMMA TryNotifyRecoveredKeeps ==
    ASSUME NEW q, PlayerOK(q) PROVE Keeps(q, TryNotifyRecovered(q))
<1>1. CASE q.state = "RECONNECTING" /\ IsConnected(q) /\ q.inFlight /\ q.settle # 0
  <2> DEFINE p == ResetReconnect(q)
  <2>1. /\ DOMAIN p = PlayerFields /\ p.state = "RECONNECTING" /\ p.desired = TRUE
        /\ p.token = q.token /\ p.latch = q.latch /\ p.hidden = q.hidden
    BY <1>1 DEF PlayerOK, PlayerFields, ResetReconnect, ClearTimers, Active
  <2>2. TryNotifyRecovered(q) = ReconnectSuccess(p)
    BY <1>1 DEF TryNotifyRecovered, NotifyRecovered
  <2> HIDE DEF p
  <2>3. ReconnectSuccess(p) = Recovered(p)
    BY <2>1 DEF ReconnectSuccess
  <2> QED
    BY <1>1, <2>1, <2>2, <2>3, ReconnectedKeeps
<1>2. CASE ~(q.state = "RECONNECTING" /\ IsConnected(q) /\ q.inFlight /\ q.settle # 0)
  <2>1. TryNotifyRecovered(q) = q
    BY <1>2 DEF TryNotifyRecovered, NotifyRecovered
  <2> QED
    BY <2>1, FollowsSelf
<1> QED
  BY <1>1, <1>2

-----------------------------------------------------------------------------
(* The inductive invariant and the steps.                                  *)

RunRecords == [token : Nat, pc : {"free", "health", "work"}, raced : BOOLEAN]

\* An attempt in flight is waited for: its run works, or one of its two timers
\* is armed.
InFlightAwaited ==
    player.inFlight /\ ~crossed =>
        \/ player.token \in {player.start, player.settle}
        \/ \E s \in Slots : Live(s) /\ runs[s].pc = "work"

\* The inductive invariant.
PlayerInv ==
    /\ PlayerOK(player)
    /\ runs \in [Slots -> RunRecords] /\ crossed \in BOOLEAN
    /\ \A s \in Slots : runs[s].pc # "work" => ~runs[s].raced
    /\ player.state \in Rest /\ ~crossed => ~player.inFlight
    /\ InFlightAwaited /\ ReconnectAlive

\* What a step does that starts nothing.
FreshStep ==
    player.state \in Rest /\ player'.state \in Active =>
        player'.token > player.token /\ player'.token \in flows'

\* A step that is one handler.
Moves(r) ==
    /\ player' = r /\ runs' = runs /\ crossed' \in BOOLEAN
    /\ ~crossed' => ~crossed \/ (player.state \in Active /\ r.state \in Rest)

LEMMA MovesKeep ==
    ASSUME PlayerInv, NEW r, Keeps(player, r), Moves(r)
    PROVE  PlayerInv' /\ FreshStep
<1>1. PlayerOK(player)' /\ (runs \in [Slots -> RunRecords])' /\ (crossed \in BOOLEAN)'
  BY DEF Moves, Keeps, PlayerInv
<1>2. (\A s \in Slots : runs[s].pc # "work" => ~runs[s].raced)'
  BY DEF Moves, PlayerInv
<1>3. (player.state \in Rest /\ ~crossed => ~player.inFlight)'
  BY DEF Moves, Keeps, Follows, PlayerOK, PlayerInv, Rest, Active
<1>4. InFlightAwaited'
  <2> SUFFICES ASSUME r.inFlight, ~crossed'
               PROVE  \/ r.token \in {r.start, r.settle}
                      \/ (\E s \in Slots : Live(s) /\ runs[s].pc = "work")'
    BY DEF InFlightAwaited, Moves
  <2>1. player.inFlight /\ r.token = player.token /\ ~crossed
    BY DEF Moves, Keeps, Follows, Rest, Active
  <2>2. CASE player.token \in {player.start, player.settle}
    BY <2>2 DEF Keeps, Follows
  <2>3. CASE \E s \in Slots : Live(s) /\ runs[s].pc = "work"
    BY <2>1, <2>3 DEF Moves, Live
  <2> QED
    BY <2>1, <2>2, <2>3 DEF PlayerInv, InFlightAwaited
<1>5. ReconnectAlive'
  <2> SUFFICES ASSUME r.state = "RECONNECTING", ~r.hidden, ~crossed'
               PROVE  \/ r.token \in {r.sched, r.start, r.settle}
                      \/ r.lost[r.token] > 0
                      \/ (\E s \in Slots : Live(s))'
    BY DEF ReconnectAlive, Moves
  <2>1. CASE r.inFlight
    <3>1. \/ r.token \in {r.start, r.settle}
          \/ (\E s \in Slots : Live(s))'
      BY <1>4, <2>1 DEF InFlightAwaited, Moves
    <3> QED
      BY <3>1
  <2>2. CASE ~r.inFlight
    <3>1. \/ r.token \in {r.sched, r.start, r.settle}
          \/ /\ player.state = "RECONNECTING" /\ ~player.hidden /\ ~player.inFlight
             /\ player.token \notin {player.sched, player.start, player.settle}
             /\ r.token = player.token /\ r.lost = player.lost
      BY <2>2 DEF Keeps, Follows
    <3>2. ~crossed
      BY DEF Moves, Rest
    <3>3. CASE r.token = player.token /\ (\E s \in Slots : Live(s))
      BY <3>3 DEF Moves, Live
    <3> QED
      BY <3>1, <3>2, <3>3 DEF PlayerInv, ReconnectAlive
  <2> QED
    BY <2>1, <2>2
<1>6. FreshStep
  BY DEF FreshStep, Moves, Keeps, Follows, Rest, Active
<1> QED
  BY <1>1, <1>2, <1>3, <1>4, <1>5, <1>6 DEF PlayerInv

LEMMA HandlerMoves ==
    ASSUME PlayerInv, NEW r, Handler(r) PROVE Moves(r)
  BY DEF Handler, Step, Moves, PlayerInv

\* A generation begins.
LEMMA BeginKeeps ==
    ASSUME PlayerInv, NEW q, PlayerOK(q), q.state \in Rest, ~crossed => ~q.inFlight,
           player.state \in Rest => q.token = player.token, Begin(q)
    PROVE  PlayerInv' /\ FreshStep
<1>1. PICK r : r = ToConnecting(q)
  OBVIOUS
<1> DEFINE p == [q EXCEPT !.state = "CONNECTING", !.token = @ + 1, !.desired = TRUE,
                          !.up = FALSE, !.frame = FALSE, !.latch = TRUE]
<1>2. /\ DOMAIN p = PlayerFields /\ p.state = "CONNECTING" /\ p.token = q.token + 1
      /\ p.desired = TRUE /\ p.up = FALSE /\ p.frame = FALSE /\ p.latch = TRUE
      /\ \A f \in PlayerFields \ {"state", "token", "desired", "up", "frame", "latch"} : p[f] = q[f]
  BY DEF PlayerOK, PlayerFields
<1>3. r = Watched(p)
  BY <1>1 DEF ToConnecting
<1> HIDE DEF p
<1>4. /\ DOMAIN r = PlayerFields /\ r.dog = TRUE
      /\ \A f \in PlayerFields \ {"dog"} : r[f] = p[f]
  BY <1>2, <1>3, WatchedFields
<1>5. /\ r.state = "CONNECTING" /\ r.token = q.token + 1 /\ r.desired = TRUE
      /\ r.up = FALSE /\ r.frame = FALSE /\ r.latch = TRUE /\ r.pending = q.pending
      /\ r.inFlight = q.inFlight /\ r.hidden = q.hidden /\ r.sched = q.sched
      /\ r.settle = q.settle
  BY <1>2, <1>4 DEF PlayerFields
<1>6. PlayerOK(r)
  <2>1. /\ q.token \in Nat /\ q.pending \in BOOLEAN /\ q.inFlight \in BOOLEAN
        /\ q.hidden \in BOOLEAN /\ q.sched = 0 /\ q.settle = 0
    BY DEF PlayerOK
  <2>2. DOMAIN r = PlayerFields /\ r.dog = TRUE /\ r.token \in Nat
    BY <1>4, <1>5, <2>1
  <2>3. r.state = "CONNECTING" /\ r.state \notin Rest /\ r.state \in Active
    BY <1>5 DEF Rest, Active
  <2>4. /\ r.desired = TRUE /\ r.up = FALSE /\ r.frame = FALSE /\ r.latch = TRUE
        /\ r.pending \in BOOLEAN /\ r.inFlight \in BOOLEAN /\ r.hidden \in BOOLEAN
        /\ r.sched = 0 /\ r.settle = 0
    BY <1>5, <2>1
  <2> QED
    BY <2>2, <2>3, <2>4 DEF PlayerOK
<1>7. /\ player' = r /\ runs' = runs /\ flows' = flows \cup {r.token}
      /\ crossed' = crossed
  BY <1>1, <1>5 DEF Begin, Step, PlayerOK, PlayerInv, Rest
<1>8. PlayerInv'
  BY <1>5, <1>6, <1>7 DEF PlayerInv, InFlightAwaited, ReconnectAlive, Rest
<1>9. FreshStep
  BY <1>5, <1>7 DEF FreshStep, PlayerOK
<1> QED
  BY <1>8, <1>9

LEMMA StopAllFields ==
    ASSUME NEW q, PlayerOK(q)
    PROVE  /\ DOMAIN StopAll(q) = PlayerFields
           /\ StopAll(q).dog = FALSE /\ StopAll(q).latch = FALSE /\ StopAll(q).sched = 0
           /\ StopAll(q).start = 0 /\ StopAll(q).settle = 0 /\ StopAll(q).pending = FALSE
           /\ StopAll(q).inFlight = FALSE
           /\ \A f \in {"state", "token", "desired", "up", "frame", "hidden"} : StopAll(q)[f] = q[f]
  BY DEF PlayerOK, PlayerFields, StopAll, ResetReconnect, ClearTimers

LEMMA RetryKeeps ==
    ASSUME PlayerInv, NEW q, Keeps(player, q),
           player.state \in Rest => q.token = player.token, Retry(q)
    PROVE  PlayerInv' /\ FreshStep
<1>1. CASE q.state = "ERROR"
  <2>1. PICK p : p = StopAll(q)
    OBVIOUS
  <2>2. /\ DOMAIN p = PlayerFields /\ p.dog = FALSE /\ p.latch = FALSE /\ p.sched = 0
        /\ p.start = 0 /\ p.settle = 0 /\ p.pending = FALSE /\ p.inFlight = FALSE
        /\ p.state = "ERROR" /\ p.token = q.token /\ p.desired = q.desired /\ p.up = q.up
        /\ p.frame = q.frame /\ p.hidden = q.hidden
    BY <1>1, <2>1, StopAllFields DEF Keeps
  <2>3. PlayerOK(p)
    BY <1>1, <2>2 DEF Keeps, PlayerOK, Rest, Active
  <2>4. Begin(p)
    BY <1>1, <2>1 DEF Retry, Begin, Step
  <2> QED
    BY <2>2, <2>3, <2>4, BeginKeeps DEF Rest
<1>2. CASE q.state # "ERROR"
  <2>1. PICK r : r = FailClosed(q)
    OBVIOUS
  <2>2. Keeps(player, r)
    BY <2>1, FailClosedKeeps, FollowsTrans DEF PlayerInv, Keeps
  <2>3. Handler(r)
    BY <1>2, <2>1 DEF Retry, Handler, Step
  <2> QED
    BY <2>2, <2>3, HandlerMoves, MovesKeep
<1> QED
  BY <1>1, <1>2

LEMMA HandlerKeeps ==
    ASSUME PlayerInv, NEW r, Keeps(player, r), Handler(r)
    PROVE  PlayerInv' /\ FreshStep
  BY HandlerMoves, MovesKeep

\* Fields that nothing proved here depends on.
Loose == {"retry", "alarms", "notified", "expected", "subscribed", "attempt"}

LEMMA LooseKeeps ==
    ASSUME NEW q, PlayerOK(q), NEW p, DOMAIN p = PlayerFields,
           \A f \in PlayerFields \ Loose : p[f] = q[f]
    PROVE  Keeps(q, p)
<1>1. /\ p.state = q.state /\ p.token = q.token /\ p.desired = q.desired /\ p.up = q.up
      /\ p.frame = q.frame /\ p.latch = q.latch /\ p.dog = q.dog /\ p.pending = q.pending
      /\ p.inFlight = q.inFlight /\ p.sched = q.sched /\ p.start = q.start
      /\ p.settle = q.settle /\ p.lost = q.lost /\ p.hidden = q.hidden
  BY DEF PlayerFields, Loose
<1>2. PlayerOK(p)
  BY <1>1 DEF PlayerOK
<1> QED
  BY <1>1, <1>2, SameAttempt

LEMMA HiddenFields ==
    ASSUME NEW q, PlayerOK(q), NEW b \in BOOLEAN, NEW p, p = [q EXCEPT !.hidden = b]
    PROVE  /\ PlayerOK(p) /\ p.hidden = b /\ p.state = q.state /\ p.token = q.token
           /\ p.inFlight = q.inFlight /\ p.start = q.start /\ p.settle = q.settle
           /\ b \/ q.state # "RECONNECTING" => Keeps(q, p)
<1>1. /\ DOMAIN p = PlayerFields /\ p.hidden = b
      /\ \A f \in PlayerFields \ {"hidden"} : p[f] = q[f]
  BY DEF PlayerOK, PlayerFields
<1>2. /\ p.state = q.state /\ p.token = q.token /\ p.desired = q.desired /\ p.up = q.up
      /\ p.frame = q.frame /\ p.latch = q.latch /\ p.dog = q.dog /\ p.pending = q.pending
      /\ p.inFlight = q.inFlight /\ p.sched = q.sched /\ p.start = q.start
      /\ p.settle = q.settle
  BY <1>1 DEF PlayerFields
<1>3. PlayerOK(p)
  BY <1>1, <1>2 DEF PlayerOK
<1> QED
  BY <1>1, <1>2, <1>3 DEF Keeps, Follows, Rest, Active

-----------------------------------------------------------------------------
(* The user and the page.                                                  *)

LEMMA PlayStep ==
    ASSUME PlayerInv, Play PROVE PlayerInv' /\ FreshStep
<1>1. PICK q : q = player
  OBVIOUS
<1>2. Begin(q)
  BY <1>1 DEF Play, Begin, Step
<1>3. /\ PlayerOK(q) /\ q.state \in Rest /\ (~crossed => ~q.inFlight)
      /\ (player.state \in Rest => q.token = player.token)
  BY <1>1 DEF PlayerInv, Play, Rest
<1> QED
  BY <1>2, <1>3, BeginKeeps

LEMMA PressRetryStep ==
    ASSUME PlayerInv, PressRetry PROVE PlayerInv' /\ FreshStep
<1>1. PICK q : q = player
  OBVIOUS
<1>2. Retry(q)
  BY <1>1 DEF PressRetry, Retry, Begin, Handler, Step
<1>3. Keeps(player, q)
  BY <1>1, FollowsSelf DEF PlayerInv
<1> QED
  BY <1>1, <1>2, <1>3, RetryKeeps

LEMMA StopStep ==
    ASSUME PlayerInv, Stop PROVE PlayerInv' /\ FreshStep
<1>1. PICK r : r = ToIdle(player)
  OBVIOUS
<1>2. Keeps(player, r)
  BY <1>1, StopKeeps DEF PlayerInv
<1>3. Handler(r)
  BY <1>1 DEF Stop, Handler, Step
<1> QED
  BY <1>2, <1>3, HandlerKeeps

LEMMA HideStep ==
    ASSUME PlayerInv, Hide PROVE PlayerInv' /\ FreshStep
<1>1. PICK r : r = [player EXCEPT !.hidden = TRUE]
  OBVIOUS
<1>2. Keeps(player, r)
  BY <1>1, HiddenFields DEF PlayerInv
<1>3. Handler(r)
  BY <1>1 DEF Hide, Handler, Step
<1> QED
  BY <1>2, <1>3, HandlerKeeps

\* Coming back into view resumes.
LEMMA ResumedKeeps ==
    ASSUME NEW q, PlayerOK(q), NEW b \in BOOLEAN, NEW p, p = [q EXCEPT !.hidden = b],
           NEW r, r = ResumeIfPending(p)
    PROVE  Keeps(q, r)
<1>1. /\ PlayerOK(p) /\ p.hidden = b /\ p.state = q.state /\ p.token = q.token
      /\ p.inFlight = q.inFlight /\ p.start = q.start /\ p.settle = q.settle
  BY HiddenFields
<1>2. Scheduled(p, r)
  BY <1>1, ResumeDoes
<1> QED
  BY <1>1, <1>2 DEF Scheduled, Keeps, Follows, PlayerOK, Rest, Active

LEMMA ShowTabStep ==
    ASSUME PlayerInv, NEW v \in BOOLEAN, ShowTab(v) PROVE PlayerInv' /\ FreshStep
<1>1. PICK b \in BOOLEAN : b = ~v
  OBVIOUS
<1>2. PICK q : q = [player EXCEPT !.hidden = b]
  OBVIOUS
<1>3. PICK r : r = ResumeIfPending(q)
  OBVIOUS
<1>4. /\ PlayerOK(player) /\ PlayerOK(q) /\ q.state = player.state /\ q.token = player.token
      /\ b \/ player.state # "RECONNECTING" => Keeps(player, q)
  BY <1>2, HiddenFields DEF PlayerInv
<1>5. Keeps(player, r)
  BY <1>2, <1>3, <1>4, ResumedKeeps
<1>6. \/ q.state = "ERROR" /\ Retry(q)
      \/ q.state = "RECONNECTING" /\ IF r.pending \/ r.inFlight THEN Handler(r) ELSE Retry(r)
      \/ q.state \in {"CONNECTING", "PLAYING"} /\ Handler(RequestRecovery(q))
      \/ q.state \in {"IDLE", "CONNECTING", "PLAYING"} /\ Handler(q)
  BY <1>1, <1>2, <1>3 DEF ShowTab, Retry, Begin, Handler, Step
<1>7. CASE q.state = "ERROR" /\ Retry(q)
  BY <1>4, <1>7, RetryKeeps
<1>8. CASE q.state = "RECONNECTING" /\ Handler(r)
  BY <1>5, <1>8, HandlerKeeps
<1>9. CASE q.state = "RECONNECTING" /\ Retry(r)
  BY <1>4, <1>5, <1>9, RetryKeeps DEF Rest
<1>10. CASE q.state \in {"CONNECTING", "PLAYING"} /\ Handler(RequestRecovery(q))
  <2>1. PICK u : u = RequestRecovery(q)
    OBVIOUS
  <2>2. Keeps(player, u)
    BY <1>4, <1>10, <2>1, RequestRecoveryKeeps, FollowsTrans
  <2>3. Handler(u)
    BY <1>10, <2>1 DEF Handler, Step
  <2> QED
    BY <2>2, <2>3, HandlerKeeps
<1>11. CASE q.state \in {"IDLE", "CONNECTING", "PLAYING"} /\ Handler(q)
  BY <1>4, <1>11, HandlerKeeps
<1> QED
  BY <1>6, <1>7, <1>8, <1>9, <1>10, <1>11

LEMMA ShowElementStep ==
    ASSUME PlayerInv, NEW v \in BOOLEAN, ShowElement(v) PROVE PlayerInv' /\ FreshStep
<1>1. PICK b \in BOOLEAN : b = ~v
  OBVIOUS
<1>2. PICK q : q = [player EXCEPT !.hidden = b]
  OBVIOUS
<1>3. PICK r : r = IF q.state = "RECONNECTING" THEN ResumeIfPending(q) ELSE q
  OBVIOUS
<1>4. /\ PlayerOK(player) /\ q.state = player.state
      /\ b \/ player.state # "RECONNECTING" => Keeps(player, q)
  BY <1>2, HiddenFields DEF PlayerInv
<1>5. Keeps(player, r)
  BY <1>2, <1>3, <1>4, ResumedKeeps
<1>6. Handler(r)
  BY <1>1, <1>2, <1>3 DEF ShowElement, Handler, Step
<1> QED
  BY <1>5, <1>6, HandlerKeeps

LEMMA NetworkOnlineStep ==
    ASSUME PlayerInv, NetworkOnline PROVE PlayerInv' /\ FreshStep
<1>1. CASE player.state = "ERROR" /\ Handler([player EXCEPT !.retry = TRUE])
  <2>1. PICK r : r = [player EXCEPT !.retry = TRUE]
    OBVIOUS
  <2>2. Keeps(player, r)
    BY <2>1, LooseKeeps DEF PlayerInv, PlayerOK, PlayerFields, Loose
  <2>3. Handler(r)
    BY <1>1, <2>1 DEF Handler, Step
  <2> QED
    BY <2>2, <2>3, HandlerKeeps
<1>2. CASE player.state = "RECONNECTING" /\ Handler(Request(ResetReconnect(player)))
  <2>1. PICK q : q = player
    OBVIOUS
  <2>2. PICK p : p = ResetReconnect(q)
    OBVIOUS
  <2>3. PICK p2 : p2 = [p EXCEPT !.pending = TRUE]
    OBVIOUS
  <2>4. PICK r : r = Request(p)
    OBVIOUS
  <2>5. PlayerOK(q)
    BY <2>1 DEF PlayerInv
  <2>6. /\ DOMAIN p = PlayerFields /\ DOMAIN p2 = PlayerFields /\ p2.pending = TRUE
        /\ p2.inFlight = FALSE /\ p2.sched = 0 /\ p2.settle = 0
        /\ \A f \in {"state", "token", "desired", "up", "frame", "latch", "dog", "hidden"} :
             p2[f] = q[f]
    BY <2>2, <2>3, <2>5 DEF PlayerOK, PlayerFields, ResetReconnect, ClearTimers
  <2>7. /\ p2.state = q.state /\ p2.token = q.token /\ p2.desired = q.desired /\ p2.up = q.up
        /\ p2.frame = q.frame /\ p2.latch = q.latch /\ p2.dog = q.dog /\ p2.hidden = q.hidden
    BY <2>6
  <2>8. PlayerOK(p2)
    BY <2>5, <2>6, <2>7 DEF PlayerOK
  <2>9. Scheduled(p2, r)
    BY <2>3, <2>4, <2>6, <2>8, RequestDoes
  <2>10. Keeps(player, r)
    BY <2>1, <2>5, <2>6, <2>7, <2>8, <2>9, GivenUpFollows
  <2>11. Handler(r)
    BY <1>2, <2>1, <2>2, <2>4 DEF Handler, Step
  <2> QED
    BY <2>10, <2>11, HandlerKeeps
<1>3. CASE player.state = "PLAYING" /\ Handler(RequestRecovery(player))
  <2>1. PICK r : r = RequestRecovery(player)
    OBVIOUS
  <2>2. Keeps(player, r)
    BY <2>1, RequestRecoveryKeeps DEF PlayerInv
  <2>3. Handler(r)
    BY <1>3, <2>1 DEF Handler, Step
  <2> QED
    BY <2>2, <2>3, HandlerKeeps
<1> QED
  BY <1>1, <1>2, <1>3 DEF NetworkOnline

LEMMA ErrorRetryTimerStep ==
    ASSUME PlayerInv, ErrorRetryTimer PROVE PlayerInv' /\ FreshStep
<1>1. PICK q : q = [player EXCEPT !.retry = FALSE]
  OBVIOUS
<1>2. Keeps(player, q) /\ q.token = player.token
  BY <1>1, LooseKeeps DEF PlayerInv, PlayerOK, PlayerFields, Loose
<1>3. (q.state = "ERROR" /\ Retry(q)) \/ Handler(q)
  BY <1>1 DEF ErrorRetryTimer, Retry, Begin, Handler, Step
<1> QED
  BY <1>2, <1>3, RetryKeeps, HandlerKeeps

-----------------------------------------------------------------------------
(* The stream.                                                             *)

LEMMA FrameKeeps ==
    ASSUME NEW q, PlayerOK(q), NEW p, p = [q EXCEPT !.frame = TRUE]
    PROVE  Keeps(q, p)
<1>1. /\ DOMAIN p = PlayerFields /\ p.frame = TRUE
      /\ \A f \in PlayerFields \ {"frame"} : p[f] = q[f]
  BY DEF PlayerOK, PlayerFields
<1>2. /\ p.state = q.state /\ p.token = q.token /\ p.desired = q.desired /\ p.up = q.up
      /\ p.latch = q.latch /\ p.dog = q.dog /\ p.pending = q.pending
      /\ p.inFlight = q.inFlight /\ p.sched = q.sched /\ p.start = q.start
      /\ p.settle = q.settle /\ p.lost = q.lost /\ p.hidden = q.hidden
  BY <1>1 DEF PlayerFields
<1>3. PlayerOK(p)
  BY <1>1, <1>2 DEF PlayerOK
<1> QED
  BY <1>2, <1>3, SameAttempt

LEMMA FrameReceivedStep ==
    ASSUME PlayerInv, FrameReceived PROVE PlayerInv' /\ FreshStep
<1> DEFINE can(q) == q.state = "CONNECTING" \/ (q.state = "RECONNECTING" /\ q.up)
<1>1. PICK p : p = [player EXCEPT !.frame = TRUE]
  OBVIOUS
<1>2. PICK q : q = IF player.up /\ can(player) THEN Watched(p) ELSE player
  OBVIOUS
<1>3. PICK n : n = [q EXCEPT !.notified = TRUE]
  OBVIOUS
<1>4. PICK u : u = TryNotifyRecovered(n)
  OBVIOUS
<1>5. PICK r : r = IF q.desired /\ IsConnected(q) /\ can(q) /\ ~q.notified THEN Recovered(u) ELSE q
  OBVIOUS
<1>6. Handler(r)
  BY <1>1, <1>2, <1>3, <1>4, <1>5 DEF FrameReceived, Handler, Step
<1> HIDE DEF can
<1>7. PlayerOK(player) /\ Keeps(player, p)
  BY <1>1, FrameKeeps DEF PlayerInv
<1>8. Keeps(player, Watched(p))
  BY <1>7, WatchedKeeps, FollowsTrans DEF Keeps
<1>9. Keeps(player, q)
  BY <1>2, <1>7, <1>8, FollowsSelf
<1>10. Keeps(q, n)
  BY <1>3, <1>9, LooseKeeps DEF Keeps, PlayerOK, PlayerFields, Loose
<1>11. Keeps(n, u)
  BY <1>4, <1>10, TryNotifyRecoveredKeeps DEF Keeps
<1>12. Keeps(u, Recovered(u))
  BY <1>11, RecoveredKeeps DEF Keeps
<1>13. Keeps(player, n)
  BY <1>7, <1>9, <1>10, FollowsTrans
<1>14. Keeps(player, u)
  BY <1>7, <1>11, <1>13, FollowsTrans
<1>15. Keeps(player, r)
  BY <1>5, <1>7, <1>9, <1>12, <1>14, FollowsTrans
<1> QED
  BY <1>6, <1>15, HandlerKeeps

LEMMA WebrtcUpStep ==
    ASSUME PlayerInv, WebrtcUp PROVE PlayerInv' /\ FreshStep
<1>1. PICK p : p = Report(player, TRUE)
  OBVIOUS
<1>2. PICK r : r = TryNotifyRecovered(p)
  OBVIOUS
<1>3. PlayerOK(player) /\ Keeps(player, p)
  BY <1>1, ReportKeeps DEF PlayerInv
<1>4. Keeps(player, r)
  BY <1>2, <1>3, TryNotifyRecoveredKeeps, FollowsTrans DEF Keeps
<1>5. Handler(r)
  BY <1>1, <1>2 DEF WebrtcUp, StreamEvent, Handler, Step
<1> QED
  BY <1>4, <1>5, HandlerKeeps

LEMMA WebrtcDownStep ==
    ASSUME PlayerInv, WebrtcDown PROVE PlayerInv' /\ FreshStep
<1>1. PICK q : q = IF player.state = "PLAYING" THEN player ELSE Report(player, FALSE)
  OBVIOUS
<1>2. PICK r : r = Recover(q)
  OBVIOUS
<1>3. PlayerOK(player) /\ Keeps(player, q)
  BY <1>1, ReportKeeps, FollowsSelf DEF PlayerInv
<1>4. Keeps(player, r)
  BY <1>2, <1>3, RecoverKeeps, FollowsTrans DEF Keeps
<1>5. Handler(r) \/ Handler(q)
  BY <1>1, <1>2 DEF WebrtcDown, StreamEvent, Handler, Step
<1> QED
  BY <1>3, <1>4, <1>5, HandlerKeeps

LEMMA StreamFailureStep ==
    ASSUME PlayerInv, StreamFailure PROVE PlayerInv' /\ FreshStep
<1>1. PICK r : r = Recover(player)
  OBVIOUS
<1>2. Keeps(player, r)
  BY <1>1, RecoverKeeps DEF PlayerInv
<1>3. Handler(r)
  BY <1>1 DEF StreamFailure, StreamEvent, Handler, Step
<1> QED
  BY <1>2, <1>3, HandlerKeeps

LEMMA IceFailedStep ==
    ASSUME PlayerInv, IceFailed PROVE PlayerInv' /\ FreshStep
<1>1. PICK r : r = IF player.state = "RECONNECTING" THEN FailClosed(player)
                   ELSE ToReconnecting(player)
  OBVIOUS
<1>2. player.state \in Active /\ Handler(r)
  BY <1>1 DEF IceFailed, StreamEvent, Handler, Step
<1>3. Keeps(player, r)
  BY <1>1, <1>2, FailClosedKeeps, ToReconnectingKeeps DEF PlayerInv, Active
<1> QED
  BY <1>2, <1>3, HandlerKeeps

LEMMA AlarmsKeep ==
    ASSUME NEW q, PlayerOK(q), NEW v, NEW p, p = [q EXCEPT !.alarms = v]
    PROVE  Keeps(q, p) /\ Keeps(q, Watched(p))
<1>1. Keeps(q, p)
  BY LooseKeeps DEF PlayerOK, PlayerFields, Loose
<1> QED
  BY <1>1, WatchedKeeps, FollowsTrans DEF Keeps

LEMMA SetAlarmStep ==
    ASSUME PlayerInv, NEW a, SetAlarm(a) \/ ClearAlarm(a) PROVE PlayerInv' /\ FreshStep
<1>1. PICK p : /\ p = [player EXCEPT !.alarms = player.alarms \cup {a}]
                  \/ p = [player EXCEPT !.alarms = player.alarms \ {a}]
               /\ player' = Watched(p) /\ Handler(Watched(p))
  <2>1. CASE SetAlarm(a)
    <3>1. PICK p : p = [player EXCEPT !.alarms = player.alarms \cup {a}]
      OBVIOUS
    <3>2. player' = Watched(p) /\ Handler(Watched(p))
      BY <2>1, <3>1 DEF SetAlarm, StreamEvent, Handler, Step
    <3> QED
      BY <3>1, <3>2
  <2>2. CASE ClearAlarm(a)
    <3>1. PICK p : p = [player EXCEPT !.alarms = player.alarms \ {a}]
      OBVIOUS
    <3>2. player' = Watched(p) /\ Handler(Watched(p))
      BY <2>2, <3>1 DEF ClearAlarm, StreamEvent, Handler, Step
    <3> QED
      BY <3>1, <3>2
  <2> QED
    BY <2>1, <2>2
<1>2. PICK r : r = Watched(p)
  OBVIOUS
<1>3. Handler(r)
  BY <1>1, <1>2 DEF Handler, Step
<1>4. Keeps(player, r)
  BY <1>1, <1>2, AlarmsKeep DEF PlayerInv
<1> QED
  BY <1>3, <1>4, HandlerKeeps

LEMMA OfferStep ==
    ASSUME PlayerInv, Offer PROVE PlayerInv' /\ FreshStep
<1>1. PICK p : p = IF player.state = "RECONNECTING" THEN StartSettleWindow(player) ELSE player
  OBVIOUS
<1>2. PICK r : r = Watched(p)
  OBVIOUS
<1>3. PlayerOK(player) /\ Keeps(player, p)
  BY <1>1, StartSettleKeeps, FollowsSelf DEF PlayerInv
<1>4. Keeps(player, r)
  BY <1>2, <1>3, WatchedKeeps, FollowsTrans DEF Keeps
<1>5. Handler(r)
  BY <1>1, <1>2 DEF Offer, StreamEvent, Handler, Step
<1> QED
  BY <1>4, <1>5, HandlerKeeps

LEMMA SessionResetStep ==
    ASSUME PlayerInv, SessionReset PROVE PlayerInv' /\ FreshStep
<1>1. PICK p : p = [player EXCEPT !.expected = player.expected - 1]
  OBVIOUS
<1>2. PICK q : q = Report(player, FALSE)
  OBVIOUS
<1>3. PICK r : r = Recover(q)
  OBVIOUS
<1>4. Keeps(player, p)
  BY <1>1, LooseKeeps DEF PlayerInv, PlayerOK, PlayerFields, Loose
<1>5. PlayerOK(player) /\ Keeps(player, q)
  BY <1>2, ReportKeeps DEF PlayerInv
<1>6. Keeps(player, r)
  BY <1>3, <1>5, RecoverKeeps, FollowsTrans DEF Keeps
<1>7. Handler(p) \/ Handler(r)
  BY <1>1, <1>2, <1>3 DEF SessionReset, StreamEvent, Handler, Step
<1> QED
  BY <1>4, <1>6, <1>7, HandlerKeeps

LEMMA AlarmFiresStep ==
    ASSUME PlayerInv, AlarmFires PROVE PlayerInv' /\ FreshStep
<1>1. PICK a \in player.alarms :
        \/ Handler(Recover([player EXCEPT !.alarms = player.alarms \ {a}]))
        \/ Handler([player EXCEPT !.alarms = player.alarms \ {a}])
  BY DEF AlarmFires
<1>2. PICK q : q = [player EXCEPT !.alarms = player.alarms \ {a}]
  OBVIOUS
<1>3. PICK r : r = Recover(q)
  OBVIOUS
<1>4. PlayerOK(player) /\ Keeps(player, q)
  BY <1>2, AlarmsKeep DEF PlayerInv
<1>5. Keeps(player, r)
  BY <1>3, <1>4, RecoverKeeps, FollowsTrans DEF Keeps
<1>6. Handler(r) \/ Handler(q)
  BY <1>1, <1>2, <1>3 DEF Handler, Step
<1> QED
  BY <1>4, <1>5, <1>6, HandlerKeeps

LEMMA WatchdogFiresStep ==
    ASSUME PlayerInv, WatchdogFires PROVE PlayerInv' /\ FreshStep
<1>1. PICK r : r = Recover(player)
  OBVIOUS
<1>2. Keeps(player, r)
  BY <1>1, RecoverKeeps DEF PlayerInv
<1>3. Handler(r)
  BY <1>1 DEF WatchdogFires, Handler, Step
<1> QED
  BY <1>2, <1>3, HandlerKeeps

-----------------------------------------------------------------------------
(* The connect flow.                                                       *)

LEMMA FlowAttachesStep ==
    ASSUME PlayerInv, NEW g, FlowAttaches(g) PROVE PlayerInv' /\ FreshStep
<1>1. PICK r : r = player
  OBVIOUS
<1>2. Keeps(player, r)
  BY <1>1, FollowsSelf DEF PlayerInv
<1>3. Moves(r)
  BY <1>1 DEF FlowAttaches, Moves, PlayerInv
<1> QED
  BY <1>2, <1>3, MovesKeep

LEMMA FlowEndsStep ==
    ASSUME PlayerInv, NEW g, FlowEnds(g) PROVE PlayerInv' /\ FreshStep
<1>1. PICK q : q = player
  OBVIOUS
<1>2. PICK done : done = [q EXCEPT !.latch = FALSE]
  OBVIOUS
<1>3. PICK watched : watched = [done EXCEPT !.dog = TRUE]
  OBVIOUS
<1>4. PlayerOK(q)
  BY <1>1 DEF PlayerInv
<1>5. /\ DOMAIN done = PlayerFields /\ done.latch = FALSE
      /\ \A f \in PlayerFields \ {"latch"} : done[f] = q[f]
  BY <1>2, <1>4 DEF PlayerOK, PlayerFields
<1>6. /\ done.state = q.state /\ done.token = q.token /\ done.desired = q.desired
      /\ done.up = q.up /\ done.frame = q.frame /\ done.dog = q.dog
      /\ done.pending = q.pending /\ done.inFlight = q.inFlight /\ done.sched = q.sched
      /\ done.start = q.start /\ done.settle = q.settle /\ done.lost = q.lost
      /\ done.hidden = q.hidden
  BY <1>5 DEF PlayerFields
<1>7. PlayerOK(done)
  BY <1>4, <1>5, <1>6 DEF PlayerOK
<1>8. Keeps(q, done)
  BY <1>4, <1>6, <1>7, SameAttempt
<1>9. ASSUME q.desired PROVE Keeps(q, watched)
  <2>1. /\ DOMAIN watched = PlayerFields /\ watched.dog = TRUE
        /\ \A f \in PlayerFields \ {"dog"} : watched[f] = done[f]
    BY <1>3, <1>5 DEF PlayerFields
  <2>2. /\ watched.state = q.state /\ watched.token = q.token /\ watched.desired = q.desired
        /\ watched.up = q.up /\ watched.frame = q.frame /\ watched.latch = FALSE
        /\ watched.pending = q.pending /\ watched.inFlight = q.inFlight
        /\ watched.sched = q.sched /\ watched.start = q.start /\ watched.settle = q.settle
        /\ watched.lost = q.lost /\ watched.hidden = q.hidden
    BY <1>5, <1>6, <2>1 DEF PlayerFields
  <2>3. PlayerOK(watched)
    BY <1>4, <1>9, <2>1, <2>2 DEF PlayerOK, Rest, Active
  <2> QED
    BY <1>4, <2>2, <2>3, SameAttempt
<1>10. PICK failed : failed = Fail(q)
  OBVIOUS
<1>11. Keeps(q, failed)
  BY <1>4, <1>10, FailKeeps
<1>12. \/ Moves(done)
       \/ q.desired /\ Moves(watched)
       \/ Moves(failed)
  BY <1>1, <1>2, <1>3, <1>10 DEF FlowEnds, Stale, Step, Moves, PlayerInv
<1> QED
  BY <1>1, <1>8, <1>9, <1>11, <1>12, MovesKeep

-----------------------------------------------------------------------------
(* Reconnect timers and runs.                                              *)

LEMMA SettleStartTimerStep ==
    ASSUME PlayerInv, SettleStartTimer PROVE PlayerInv' /\ FreshStep
<1>1. PICK q : q = player
  OBVIOUS
<1>2. PICK p : p = [q EXCEPT !.start = 0]
  OBVIOUS
<1>3. PICK idle : idle = [p EXCEPT !.inFlight = FALSE]
  OBVIOUS
<1>4. PICK r : r = ScheduleNext(idle)
  OBVIOUS
<1>5. PlayerOK(q)
  BY <1>1 DEF PlayerInv
<1>6. /\ DOMAIN p = PlayerFields /\ p.start = 0
      /\ \A f \in PlayerFields \ {"start"} : p[f] = q[f]
  BY <1>2, <1>5 DEF PlayerOK, PlayerFields
<1>7. /\ p.state = q.state /\ p.token = q.token /\ p.desired = q.desired /\ p.up = q.up
      /\ p.frame = q.frame /\ p.latch = q.latch /\ p.dog = q.dog /\ p.pending = q.pending
      /\ p.inFlight = q.inFlight /\ p.sched = q.sched /\ p.settle = q.settle
      /\ p.lost = q.lost /\ p.hidden = q.hidden
  BY <1>6 DEF PlayerFields
<1>8. PlayerOK(p)
  BY <1>5, <1>6, <1>7 DEF PlayerOK
<1>9. ASSUME p.settle # 0 \/ q.start # q.token PROVE Keeps(q, p)
  BY <1>5, <1>7, <1>8, <1>9 DEF Keeps, Follows, PlayerOK, Rest, Active
<1>10. /\ DOMAIN idle = PlayerFields /\ idle.inFlight = FALSE
       /\ \A f \in PlayerFields \ {"inFlight"} : idle[f] = p[f]
  BY <1>3, <1>6 DEF PlayerFields
<1>11. /\ idle.state = q.state /\ idle.token = q.token /\ idle.desired = q.desired
       /\ idle.up = q.up /\ idle.frame = q.frame /\ idle.latch = q.latch /\ idle.dog = q.dog
       /\ idle.pending = q.pending /\ idle.sched = q.sched /\ idle.settle = q.settle
       /\ idle.hidden = q.hidden
  BY <1>7, <1>10 DEF PlayerFields
<1>12. PlayerOK(idle)
  BY <1>5, <1>10, <1>11 DEF PlayerOK
<1>13. Keeps(q, r)
  BY <1>4, <1>5, <1>10, <1>11, <1>12, ScheduleNextDoes, GivenUpFollows
<1>14. \/ (p.settle # 0 \/ q.start # q.token) /\ Handler(p)
       \/ Handler(r)
  BY <1>1, <1>2, <1>3, <1>4, <1>7 DEF SettleStartTimer, Handler, Step
<1> QED
  BY <1>1, <1>9, <1>13, <1>14, HandlerKeeps

LEMMA SettleTimerStep ==
    ASSUME PlayerInv, SettleTimer PROVE PlayerInv' /\ FreshStep
<1>1. PICK q : q = player
  OBVIOUS
<1>2. PICK p : p = [q EXCEPT !.settle = 0, !.inFlight = FALSE]
  OBVIOUS
<1>3. PICK r : r = ScheduleNext(p)
  OBVIOUS
<1>4. PlayerOK(q)
  BY <1>1 DEF PlayerInv
<1>5. /\ DOMAIN p = PlayerFields /\ p.settle = 0 /\ p.inFlight = FALSE
      /\ \A f \in PlayerFields \ {"settle", "inFlight"} : p[f] = q[f]
  BY <1>2, <1>4 DEF PlayerOK, PlayerFields
<1>6. /\ p.state = q.state /\ p.token = q.token /\ p.desired = q.desired /\ p.up = q.up
      /\ p.frame = q.frame /\ p.latch = q.latch /\ p.dog = q.dog /\ p.pending = q.pending
      /\ p.sched = q.sched /\ p.hidden = q.hidden
  BY <1>5 DEF PlayerFields
<1>7. PlayerOK(p)
  BY <1>4, <1>5, <1>6 DEF PlayerOK
<1>8. Keeps(q, r)
  BY <1>3, <1>4, <1>5, <1>6, <1>7, ScheduleNextDoes, GivenUpFollows
<1>9. q.settle = p.token
  BY <1>1, <1>4, <1>6 DEF SettleTimer, PlayerOK
<1>10. Handler(r)
  BY <1>1, <1>2, <1>3, <1>9 DEF SettleTimer, Handler, Step
<1> QED
  BY <1>1, <1>8, <1>10, HandlerKeeps

\* A run or a timer of a connection given up came back: only the fields count.
LEMMA CrossedKeeps ==
    ASSUME PlayerInv, NEW r, PlayerOK(r), player.state \in Rest => r.state \in Rest,
           player' = r, crossed' = TRUE,
           runs' \in [Slots -> RunRecords],
           (\A s \in Slots : runs[s].pc # "work" => ~runs[s].raced)'
    PROVE  PlayerInv' /\ FreshStep
  BY DEF PlayerInv, InFlightAwaited, ReconnectAlive, FreshStep, PlayerOK, Rest, Active

\* One run ends or is given up while a handler runs.
LEMMA RunEndsKeeps ==
    ASSUME PlayerInv, NEW s \in Slots, NEW r, Keeps(player, r), player' = r,
           runs' \in [Slots -> RunRecords],
           (\A u \in Slots : runs[u].pc # "work" => ~runs[u].raced)',
           \A u \in Slots \ {s} : runs'[u] = runs[u],
           crossed' \in BOOLEAN,
           ~crossed' => ~crossed \/ (player.state \in Active /\ r.state \in Rest),
           r.inFlight => \/ ~(Live(s) /\ runs[s].pc = "work")
                         \/ r.token \in {r.start, r.settle},
           r.state = "RECONNECTING" /\ ~r.hidden /\ ~r.inFlight =>
             ~Live(s) \/ r.token \in {r.sched, r.start, r.settle}
    PROVE  PlayerInv' /\ FreshStep
<1>1. PlayerOK(player)'
  BY DEF Keeps
<1>2. (player.state \in Rest /\ ~crossed => ~player.inFlight)'
  BY DEF Keeps, Follows, PlayerOK, PlayerInv, Rest, Active
<1>3. InFlightAwaited'
  <2> SUFFICES ASSUME r.inFlight, ~crossed'
               PROVE  \/ r.token \in {r.start, r.settle}
                      \/ (\E u \in Slots : Live(u) /\ runs[u].pc = "work")'
    BY DEF InFlightAwaited
  <2>1. player.inFlight /\ r.token = player.token /\ ~crossed
    BY DEF Keeps, Follows, Rest, Active
  <2>2. CASE player.token \in {player.start, player.settle}
    BY <2>2 DEF Keeps, Follows
  <2>3. CASE \E u \in Slots : Live(u) /\ runs[u].pc = "work"
    <3>1. PICK u \in Slots : Live(u) /\ runs[u].pc = "work"
      BY <2>3
    <3>2. CASE u = s
      BY <3>1, <3>2
    <3>3. CASE u # s
      BY <2>1, <3>1, <3>3 DEF Live
    <3> QED
      BY <3>2, <3>3
  <2> QED
    BY <2>1, <2>2, <2>3 DEF PlayerInv, InFlightAwaited
<1>4. ReconnectAlive'
  <2> SUFFICES ASSUME r.state = "RECONNECTING", ~r.hidden, ~crossed'
               PROVE  \/ r.token \in {r.sched, r.start, r.settle}
                      \/ r.lost[r.token] > 0
                      \/ (\E u \in Slots : Live(u))'
    BY DEF ReconnectAlive
  <2>1. CASE r.inFlight
    <3>1. \/ r.token \in {r.start, r.settle}
          \/ (\E u \in Slots : Live(u))'
      BY <1>3, <2>1 DEF InFlightAwaited
    <3> QED
      BY <3>1
  <2>2. CASE ~r.inFlight
    <3>1. \/ r.token \in {r.sched, r.start, r.settle}
          \/ /\ player.state = "RECONNECTING" /\ ~player.hidden /\ ~player.inFlight
             /\ player.token \notin {player.sched, player.start, player.settle}
             /\ r.token = player.token /\ r.lost = player.lost
      BY <2>2 DEF Keeps, Follows
    <3>2. ~crossed
      BY DEF Rest
    <3>3. CASE r.token = player.token /\ (\E u \in Slots : Live(u))
      <4>1. PICK u \in Slots : Live(u)
        BY <3>3
      <4>2. CASE u = s
        BY <2>2, <4>1, <4>2
      <4>3. CASE u # s
        BY <3>3, <4>1, <4>3 DEF Live
      <4> QED
        BY <4>2, <4>3
    <3> QED
      BY <3>1, <3>2, <3>3 DEF PlayerInv, ReconnectAlive
  <2> QED
    BY <2>1, <2>2
<1>5. FreshStep
  BY DEF FreshStep, Keeps, Follows, Rest, Active
<1> QED
  BY <1>1, <1>2, <1>3, <1>4, <1>5 DEF PlayerInv

\* What RunScheduled starts from: the player with its backoff timer down.
Fired(q) ==
    /\ DOMAIN q = PlayerFields /\ q.sched = 0
    /\ \A f \in PlayerFields \ {"sched", "lost"} : q[f] = player[f]

LEMMA FiredFields ==
    ASSUME PlayerOK(player), NEW q, Fired(q)
    PROVE  /\ PlayerOK(q) /\ DOMAIN q = PlayerFields /\ q.sched = 0
           /\ q.state = player.state /\ q.token = player.token /\ q.desired = player.desired
           /\ q.up = player.up /\ q.frame = player.frame /\ q.latch = player.latch
           /\ q.dog = player.dog /\ q.pending = player.pending /\ q.inFlight = player.inFlight
           /\ q.start = player.start /\ q.settle = player.settle /\ q.hidden = player.hidden
<1>1. /\ q.state = player.state /\ q.token = player.token /\ q.desired = player.desired
      /\ q.up = player.up /\ q.frame = player.frame /\ q.latch = player.latch
      /\ q.dog = player.dog /\ q.pending = player.pending /\ q.inFlight = player.inFlight
      /\ q.start = player.start /\ q.settle = player.settle /\ q.hidden = player.hidden
      /\ DOMAIN q = PlayerFields /\ q.sched = 0
  BY DEF Fired, PlayerFields
<1>2. PlayerOK(q)
  BY <1>1 DEF PlayerOK
<1> QED
  BY <1>1, <1>2

\* The run finds the connection recovered.
LEMMA RecoveredMeanwhileKeeps ==
    ASSUME PlayerOK(player), NEW q, Fired(q), q.desired, ~q.inFlight, IsConnected(q),
           NEW r, r = ReconnectSuccess([ClearTimers(q) EXCEPT !.attempt = 0, !.pending = FALSE])
    PROVE  Keeps(player, r)
<1> DEFINE p == [ClearTimers(q) EXCEPT !.attempt = 0, !.pending = FALSE]
<1>1. /\ PlayerOK(q) /\ DOMAIN q = PlayerFields
      /\ q.state = player.state /\ q.token = player.token /\ q.latch = player.latch
      /\ q.hidden = player.hidden
  BY FiredFields
<1>2. /\ DOMAIN p = PlayerFields /\ p.sched = 0 /\ p.start = 0 /\ p.settle = 0
      /\ p.pending = FALSE
      /\ \A f \in PlayerFields \ {"sched", "start", "settle", "attempt", "pending"} : p[f] = q[f]
  BY <1>1 DEF ClearTimers, PlayerFields
<1>3. r = ReconnectSuccess(p)
  OBVIOUS
<1> HIDE DEF p
<1>4. /\ p.state = q.state /\ p.token = q.token /\ p.desired = q.desired /\ p.up = q.up
      /\ p.frame = q.frame /\ p.latch = q.latch /\ p.dog = q.dog
      /\ p.inFlight = q.inFlight /\ p.hidden = q.hidden
  BY <1>2 DEF PlayerFields
<1>5. /\ q.state \in Active /\ q.desired = TRUE /\ q.inFlight = FALSE
      /\ q.token \in Nat
  BY <1>1 DEF PlayerOK
<1>6. CASE q.state = "RECONNECTING"
  <2>1. r = Recovered(p)
    BY <1>3, <1>4, <1>6 DEF ReconnectSuccess
  <2> QED
    BY <1>1, <1>2, <1>4, <1>5, <1>6, <2>1, ReconnectedKeeps
<1>7. CASE q.state = "CONNECTING"
  <2>1. r = FailClosed(p)
    BY <1>3, <1>4, <1>7 DEF ReconnectSuccess
  <2>2. Halted(p, r) /\ r.token = p.token
    BY <1>2, <2>1, ToErrorHalts DEF FailClosed
  <2>3. Halted(player, r) /\ r.token \in Nat
    BY <1>1, <1>4, <1>5, <2>2 DEF Halted
  <2> QED
    BY <2>3, HaltedKeeps
<1>8. CASE q.state = "PLAYING"
  <2>1. PlayerOK(p)
    BY <1>1, <1>2, <1>4, <1>8 DEF PlayerOK, Rest, Active
  <2>2. r = Watched(p)
    BY <1>3, <1>4, <1>8 DEF ReconnectSuccess, Recovered
  <2>3. PlayerOK(r) /\ r.state = "PLAYING" /\ r.inFlight = FALSE
    <3>1. PlayerOK(r)
      BY <2>1, <2>2, WatchedKeeps DEF Keeps
    <3>2. DOMAIN p = PlayerFields
      BY <1>2
    <3>3. \A f \in PlayerFields \ {"dog"} : Watched(p)[f] = p[f]
      BY <3>2, WatchedFields
    <3> QED
      BY <1>4, <1>5, <1>8, <2>2, <3>1, <3>3 DEF PlayerFields
  <2> QED
    BY <1>1, <1>5, <2>3, PlaysKeeps
<1> QED
  BY <1>5, <1>6, <1>7, <1>8 DEF Active

LEMMA RunScheduledKeeps ==
    ASSUME PlayerInv, NEW q, Fired(q), NEW t \in Nat, RunScheduled(q, t)
    PROVE  PlayerInv' /\ FreshStep
<1>1. PlayerOK(player)
  BY DEF PlayerInv
<1>2. /\ PlayerOK(q) /\ q.sched = 0
      /\ q.state = player.state /\ q.token = player.token /\ q.desired = player.desired
      /\ q.inFlight = player.inFlight /\ q.start = player.start /\ q.settle = player.settle
      /\ q.hidden = player.hidden
  BY <1>1, FiredFields
<1> DEFINE go == ShouldContinue(q) /\ t = q.token /\ ~q.inFlight
<1>3. CASE ~go /\ Step(q, Stale(t)) /\ UNCHANGED runs
  <2>1. player' = q /\ runs' = runs
    BY <1>3 DEF Step
  <2>2. crossed' = (crossed \/ Stale(t))
    BY <1>2, <1>3 DEF Step, Rest, Active
  <2>3. crossed' \in BOOLEAN
    BY <2>2 DEF Stale
  <2>4. ~crossed' => ~crossed /\ t = player.token /\ player.desired
    BY <2>2 DEF Stale
  <2>5. InFlightAwaited'
    BY <1>2, <2>1, <2>4 DEF PlayerInv, InFlightAwaited, Live
  <2>6. ReconnectAlive'
    <3> SUFFICES ASSUME q.state = "RECONNECTING", ~q.hidden, ~crossed'
                 PROVE  \/ q.token \in {q.start, q.settle}
                        \/ (\E s \in Slots : Live(s))'
      BY <2>1 DEF ReconnectAlive
    <3>1. q.inFlight
      BY <1>2, <1>3, <2>4 DEF ShouldContinue
    <3> QED
      BY <2>1, <2>5, <3>1 DEF InFlightAwaited
  <2>7. (player.state \in Rest /\ ~crossed => ~player.inFlight)'
    BY <1>2, <2>1, <2>4 DEF PlayerInv
  <2>8. FreshStep
    BY <1>2, <2>1 DEF FreshStep, Rest, Active
  <2> QED
    BY <1>2, <2>1, <2>3, <2>5, <2>6, <2>7, <2>8 DEF PlayerInv
<1>4. CASE /\ go /\ IsConnected(q) /\ UNCHANGED runs
           /\ Step(ReconnectSuccess([ClearTimers(q) EXCEPT !.attempt = 0, !.pending = FALSE]),
                   FALSE)
  <2>1. PICK r : r = ReconnectSuccess([ClearTimers(q) EXCEPT !.attempt = 0, !.pending = FALSE])
    OBVIOUS
  <2>2. Keeps(player, r)
    BY <1>1, <1>4, <2>1, RecoveredMeanwhileKeeps DEF ShouldContinue
  <2>3. Moves(r)
    BY <1>4, <2>1 DEF Step, Moves, PlayerInv
  <2> QED
    BY <2>2, <2>3, MovesKeep
<1>5. CASE /\ go /\ ~IsConnected(q) /\ Step(q, FALSE)
           /\ \E s \in Slots :
                /\ runs[s] = NoRun
                /\ runs' = [runs EXCEPT ![s] = [NoRun EXCEPT !.token = t, !.pc = "health"]]
  <2>1. PICK s \in Slots :
          runs' = [runs EXCEPT ![s] = [NoRun EXCEPT !.token = t, !.pc = "health"]]
    BY <1>5
  <2>2. PICK new : new = [NoRun EXCEPT !.token = t, !.pc = "health"]
    OBVIOUS
  <2>3. new \in RunRecords /\ new.token = t /\ new.pc = "health" /\ new.raced = FALSE
    BY <2>2 DEF NoRun, RunRecords
  <2>4. /\ runs' \in [Slots -> RunRecords] /\ runs'[s] = new
        /\ \A u \in Slots \ {s} : runs'[u] = runs[u]
    BY <2>1, <2>2, <2>3 DEF PlayerInv
  <2>5. player' = q /\ crossed' = crossed /\ t = q.token /\ q.inFlight = FALSE
    BY <1>2, <1>5 DEF Step, PlayerInv, PlayerOK, Rest, Active
  <2>6. (\A u \in Slots : runs[u].pc # "work" => ~runs[u].raced)'
    BY <2>3, <2>4 DEF PlayerInv
  <2>7. Live(s)'
    BY <2>3, <2>4, <2>5 DEF Live
  <2>8. FreshStep
    BY <1>2, <2>5 DEF FreshStep, Rest, Active
  <2> QED
    BY <1>2, <2>4, <2>5, <2>6, <2>7, <2>8 DEF PlayerInv, InFlightAwaited, ReconnectAlive
<1> QED
  BY <1>3, <1>4, <1>5 DEF RunScheduled

LEMMA ScheduleTimerStep ==
    ASSUME PlayerInv, ScheduleTimer PROVE PlayerInv' /\ FreshStep
<1>1. PICK q : q = [player EXCEPT !.sched = 0]
  OBVIOUS
<1>2. PICK t : t = player.sched
  OBVIOUS
<1>3. t \in Nat
  BY <1>2 DEF PlayerInv, PlayerOK
<1>4. Fired(q)
  BY <1>1 DEF Fired, PlayerInv, PlayerOK, PlayerFields
<1>5. RunScheduled(q, t)
  BY <1>1, <1>2 DEF ScheduleTimer, RunScheduled, Step
<1> QED
  BY <1>3, <1>4, <1>5, RunScheduledKeeps

LEMMA LostTimerStep ==
    ASSUME PlayerInv, LostTimer PROVE PlayerInv' /\ FreshStep
<1>1. PICK g \in Gens :
        RunScheduled([player EXCEPT !.lost[g] = @ - 1, !.sched = 0], g)
  BY DEF LostTimer
<1>2. PICK q : q = [player EXCEPT !.lost[g] = @ - 1, !.sched = 0]
  OBVIOUS
<1>3. g \in Nat
  BY PlayerAssumption DEF Gens
<1>4. Fired(q)
  BY <1>2 DEF Fired, PlayerInv, PlayerOK, PlayerFields
<1>5. RunScheduled(q, g)
  BY <1>1, <1>2 DEF RunScheduled, Step
<1> QED
  BY <1>3, <1>4, <1>5, RunScheduledKeeps

LEMMA EndsFields ==
    ASSUME PlayerInv, NEW s \in Slots, Ends(s)
    PROVE  /\ runs' \in [Slots -> RunRecords]
           /\ (\A u \in Slots : runs[u].pc # "work" => ~runs[u].raced)'
           /\ \A u \in Slots \ {s} : runs'[u] = runs[u]
<1>1. NoRun \in RunRecords /\ NoRun.raced = FALSE
  BY DEF NoRun, RunRecords
<1>2. /\ runs' \in [Slots -> RunRecords] /\ runs'[s] = NoRun
      /\ \A u \in Slots \ {s} : runs'[u] = runs[u]
  BY <1>1 DEF Ends, PlayerInv
<1> QED
  BY <1>1, <1>2 DEF PlayerInv

LEMMA HealthFailsStep ==
    ASSUME PlayerInv, NEW s \in Slots, HealthFails(s) PROVE PlayerInv' /\ FreshStep
<1>1. PICK r : r = ScheduleNext(player)
  OBVIOUS
<1>2. RunStep(s, "health", r) /\ Ends(s)
  BY <1>1 DEF HealthFails, RunStep, Step
<1>3. Scheduled(player, r) /\ Keeps(player, r)
  BY <1>1, ScheduleNextDoes, ScheduledFollows DEF PlayerInv
<1>4. r.state = "RECONNECTING" /\ ~r.hidden /\ ~r.inFlight => r.sched = r.token
  BY <1>3 DEF Scheduled
<1>5. /\ runs' \in [Slots -> RunRecords]
      /\ (\A u \in Slots : runs[u].pc # "work" => ~runs[u].raced)'
      /\ \A u \in Slots \ {s} : runs'[u] = runs[u]
  BY <1>2, EndsFields
<1>6. /\ player' = r /\ crossed' \in BOOLEAN /\ runs[s].pc = "health"
      /\ ~crossed' => ~crossed \/ (player.state \in Active /\ r.state \in Rest)
  BY <1>2 DEF PlayerInv, RunStep, Step, Stale
<1>7. r.inFlight => \/ ~(Live(s) /\ runs[s].pc = "work")
                    \/ r.token \in {r.start, r.settle}
  BY <1>6
<1>8. r.state = "RECONNECTING" /\ ~r.hidden /\ ~r.inFlight =>
        ~Live(s) \/ r.token \in {r.sched, r.start, r.settle}
  BY <1>4
<1> QED
  BY <1>3, <1>5, <1>6, <1>7, <1>8, RunEndsKeeps

\* The attempt is given up and the next one scheduled.
LEMMA AttemptFailedKeeps ==
    ASSUME NEW q, PlayerOK(q)
    PROVE  LET r == AttemptFailed(q)
           IN /\ Keeps(q, r) /\ r.inFlight = FALSE
              /\ r.state = "RECONNECTING" /\ ~r.hidden => r.sched = r.token
<1>1. PICK p : p = [q EXCEPT !.start = 0, !.inFlight = FALSE]
  OBVIOUS
<1>2. /\ DOMAIN p = PlayerFields /\ p.start = 0 /\ p.inFlight = FALSE
      /\ \A f \in PlayerFields \ {"start", "inFlight"} : p[f] = q[f]
  BY <1>1 DEF PlayerOK, PlayerFields
<1>3. /\ p.state = q.state /\ p.token = q.token /\ p.desired = q.desired /\ p.up = q.up
      /\ p.frame = q.frame /\ p.latch = q.latch /\ p.dog = q.dog /\ p.pending = q.pending
      /\ p.sched = q.sched /\ p.settle = q.settle /\ p.hidden = q.hidden
  BY <1>2 DEF PlayerFields
<1>4. PlayerOK(p)
  BY <1>2, <1>3 DEF PlayerOK
<1>5. PICK r : r = AttemptFailed(q)
  OBVIOUS
<1>6. Scheduled(p, r)
  BY <1>1, <1>4, <1>5, ScheduleNextDoes DEF AttemptFailed
<1>7. Keeps(q, r)
  BY <1>2, <1>3, <1>4, <1>6, GivenUpFollows
<1>8. r.inFlight = FALSE /\ (r.state = "RECONNECTING" /\ ~r.hidden => r.sched = r.token)
  BY <1>2, <1>6 DEF Scheduled
<1> QED
  BY <1>5, <1>7, <1>8

LEMMA WorkTimesOutStep ==
    ASSUME PlayerInv, NEW s \in Slots, WorkTimesOut(s) PROVE PlayerInv' /\ FreshStep
<1>1. PICK r : r = AttemptFailed(player)
  OBVIOUS
<1>2. RunStep(s, "work", r) /\ runs' = [runs EXCEPT ![s].raced = TRUE]
  BY <1>1 DEF WorkTimesOut, RunStep, Step
<1>3. /\ Keeps(player, r) /\ r.inFlight = FALSE
      /\ r.state = "RECONNECTING" /\ ~r.hidden => r.sched = r.token
  BY <1>1, AttemptFailedKeeps DEF PlayerInv
<1>4. runs[s] \in RunRecords /\ runs[s].pc = "work"
  BY <1>2 DEF PlayerInv, RunStep
<1>5. PICK new : new = [runs[s] EXCEPT !.raced = TRUE]
  OBVIOUS
<1>6. new \in RunRecords /\ new.pc = "work"
  BY <1>4, <1>5 DEF RunRecords
<1>7. /\ runs' \in [Slots -> RunRecords] /\ runs'[s] = new
      /\ \A u \in Slots \ {s} : runs'[u] = runs[u]
  BY <1>2, <1>5, <1>6 DEF PlayerInv
<1>8. (\A u \in Slots : runs[u].pc # "work" => ~runs[u].raced)'
  BY <1>6, <1>7 DEF PlayerInv
<1>9. /\ player' = r /\ crossed' \in BOOLEAN
      /\ ~crossed' => ~crossed \/ (player.state \in Active /\ r.state \in Rest)
  BY <1>2 DEF PlayerInv, RunStep, Step, Stale
<1>10. r.inFlight => \/ ~(Live(s) /\ runs[s].pc = "work")
                     \/ r.token \in {r.start, r.settle}
  BY <1>3
<1>11. r.state = "RECONNECTING" /\ ~r.hidden /\ ~r.inFlight =>
         ~Live(s) \/ r.token \in {r.sched, r.start, r.settle}
  BY <1>3
<1> QED
  BY <1>3, <1>7, <1>8, <1>9, <1>10, <1>11, RunEndsKeeps

LEMMA ReturnedFields ==
    ASSUME NEW q, PlayerOK(q), NEW t, NEW r, r = Returned(q, t)
    PROVE  /\ PlayerOK(r) /\ r.state = q.state /\ r.token = q.token
           /\ r.inFlight = q.inFlight /\ r.sched = q.sched /\ r.settle = q.settle
           /\ r.lost = q.lost /\ r.hidden = q.hidden
           /\ q.settle # 0 \/ r.start = t
<1>1. /\ DOMAIN r = PlayerFields /\ (q.settle # 0 \/ r.start = t)
      /\ \A f \in PlayerFields \ {"start"} : r[f] = q[f]
  BY DEF Returned, PlayerOK, PlayerFields
<1>2. /\ r.state = q.state /\ r.token = q.token /\ r.desired = q.desired /\ r.up = q.up
      /\ r.frame = q.frame /\ r.latch = q.latch /\ r.dog = q.dog /\ r.pending = q.pending
      /\ r.inFlight = q.inFlight /\ r.sched = q.sched /\ r.settle = q.settle
      /\ r.lost = q.lost /\ r.hidden = q.hidden
  BY <1>1 DEF PlayerFields
<1>3. PlayerOK(r)
  BY <1>1, <1>2 DEF PlayerOK
<1> QED
  BY <1>1, <1>2, <1>3

LEMMA WorkEndsStep ==
    ASSUME PlayerInv, NEW s \in Slots, WorkEnds(s) PROVE PlayerInv' /\ FreshStep
<1>1. PICK t : t = runs[s].token
  OBVIOUS
<1>2. PICK q : q = IF Stale(t) THEN player ELSE [player EXCEPT !.dog = TRUE]
  OBVIOUS
<1>3. PICK r : r = player'
  OBVIOUS
<1>4. /\ Ends(s) /\ runs[s].pc = "work"
      /\ \/ r = IF runs[s].raced THEN q ELSE Returned(q, t)
         \/ r = IF runs[s].raced THEN player ELSE AttemptFailed(player)
  BY <1>1, <1>2, <1>3 DEF WorkEnds, RunStep, Step
<1>5. /\ player' = r /\ crossed' \in BOOLEAN
      /\ ~crossed' => ~crossed \/ (player.state \in Active /\ r.state \in Rest)
      /\ Stale(t) => (player.state \in Active /\ r.state \in Rest) \/ crossed' = TRUE
  BY <1>1, <1>3 DEF WorkEnds, RunStep, Step, Stale, PlayerInv
<1>6. /\ runs' \in [Slots -> RunRecords]
      /\ (\A u \in Slots : runs[u].pc # "work" => ~runs[u].raced)'
      /\ \A u \in Slots \ {s} : runs'[u] = runs[u]
  BY <1>4, EndsFields
<1>7. PlayerOK(player)
  BY DEF PlayerInv
<1>8. PlayerOK(q) /\ Keeps(player, q) /\ q.state = player.state
  <2>1. CASE Stale(t)
    BY <1>2, <1>7, <2>1, FollowsSelf
  <2>2. CASE ~Stale(t)
    <3>1. player.desired /\ q = [player EXCEPT !.dog = TRUE]
      BY <1>2, <2>2 DEF Stale
    <3>2. /\ DOMAIN q = PlayerFields /\ q.dog = TRUE
          /\ \A f \in PlayerFields \ {"dog"} : q[f] = player[f]
      BY <1>7, <3>1 DEF PlayerOK, PlayerFields
    <3>3. /\ q.state = player.state /\ q.token = player.token /\ q.desired = player.desired
          /\ q.up = player.up /\ q.frame = player.frame /\ q.latch = player.latch
          /\ q.pending = player.pending /\ q.inFlight = player.inFlight
          /\ q.sched = player.sched /\ q.start = player.start /\ q.settle = player.settle
          /\ q.lost = player.lost /\ q.hidden = player.hidden
      BY <3>2 DEF PlayerFields
    <3>4. PlayerOK(q)
      BY <1>7, <3>1, <3>2, <3>3 DEF PlayerOK, Rest, Active
    <3> QED
      BY <1>7, <3>3, <3>4, SameAttempt
  <2> QED
    BY <2>1, <2>2
<1>9. CASE runs[s].raced
  <2>1. Keeps(player, r)
    BY <1>4, <1>7, <1>8, <1>9, FollowsSelf
  <2>2. ~Live(s)
    BY <1>9 DEF Live
  <2> QED
    BY <1>5, <1>6, <2>1, <2>2, RunEndsKeeps
<1>10. CASE ~runs[s].raced /\ r = AttemptFailed(player)
  <2>1. /\ Keeps(player, r) /\ r.inFlight = FALSE
        /\ r.state = "RECONNECTING" /\ ~r.hidden => r.sched = r.token
    BY <1>7, <1>10, AttemptFailedKeeps
  <2>2. r.inFlight => \/ ~(Live(s) /\ runs[s].pc = "work")
                      \/ r.token \in {r.start, r.settle}
    BY <2>1
  <2>3. r.state = "RECONNECTING" /\ ~r.hidden /\ ~r.inFlight =>
          ~Live(s) \/ r.token \in {r.sched, r.start, r.settle}
    BY <2>1
  <2> QED
    BY <1>5, <1>6, <2>1, <2>2, <2>3, RunEndsKeeps
<1>11. CASE ~runs[s].raced /\ r = Returned(q, t)
  <2>1. /\ PlayerOK(r) /\ r.state = q.state /\ r.token = q.token
        /\ r.inFlight = q.inFlight /\ r.sched = q.sched /\ r.settle = q.settle
        /\ r.lost = q.lost /\ r.hidden = q.hidden
        /\ q.settle # 0 \/ r.start = t
    BY <1>8, <1>11, ReturnedFields
  <2>2. CASE Stale(t)
    <3>1. crossed' = TRUE
      BY <1>5, <1>8, <2>1, <2>2 DEF Rest, Active
    <3>2. player.state \in Rest => r.state \in Rest
      BY <1>8, <2>1
    <3> QED
      BY <1>5, <1>6, <2>1, <3>1, <3>2, CrossedKeeps
  <2>3. CASE ~Stale(t)
    <3>1. t = q.token
      BY <1>2, <1>7, <2>3 DEF Stale, PlayerOK, PlayerFields
    <3>2. r.token \in {r.start, r.settle}
      BY <1>8, <2>1, <3>1 DEF PlayerOK
    <3>3. Keeps(q, r)
      BY <1>8, <2>1, <3>2 DEF Keeps, Follows, Rest, Active
    <3>4. Keeps(player, r)
      BY <1>7, <1>8, <3>3, FollowsTrans
    <3> QED
      BY <1>5, <1>6, <3>2, <3>4, RunEndsKeeps
  <2> QED
    BY <2>2, <2>3
<1> QED
  BY <1>4, <1>9, <1>10, <1>11

\* The attempt begins in a state that no longer waits for it.
LEMMA BegunHalted ==
    ASSUME NEW q, PlayerOK(q), NEW p, PlayerOK(p), q.hidden = p.hidden, q.token = p.token,
           NEW r, DOMAIN r = PlayerFields,
           \A f \in PlayerFields \ Loose : r[f] = FailClosed(p)[f]
    PROVE  Keeps(q, r) /\ r.inFlight = FALSE /\ r.state = "ERROR"
<1>1. PICK u : u = FailClosed(p)
  OBVIOUS
<1>2. Halted(p, u) /\ u.token = p.token /\ u.state = "ERROR"
  BY <1>1, ToErrorHalts DEF FailClosed, PlayerOK
<1>3. /\ r.state = u.state /\ r.token = u.token /\ r.desired = u.desired /\ r.up = u.up
      /\ r.frame = u.frame /\ r.latch = u.latch /\ r.dog = u.dog /\ r.pending = u.pending
      /\ r.inFlight = u.inFlight /\ r.sched = u.sched /\ r.start = u.start
      /\ r.settle = u.settle /\ r.hidden = u.hidden
  BY <1>1 DEF PlayerFields, Loose
<1>4. Halted(q, r) /\ r.token \in Nat /\ r.inFlight = FALSE /\ r.state = "ERROR"
  BY <1>2, <1>3 DEF Halted, PlayerOK
<1> QED
  BY <1>4, HaltedKeeps

LEMMA HealthPassesStep ==
    ASSUME PlayerInv, NEW s \in Slots, HealthPasses(s) PROVE PlayerInv' /\ FreshStep
<1>1. PICK t : t = runs[s].token
  OBVIOUS
<1>2. PICK q : q = [player EXCEPT !.inFlight = TRUE, !.attempt = player.attempt + 1]
  OBVIOUS
<1>3. PICK r : r = IF q.state = "RECONNECTING" THEN [q EXCEPT !.up = FALSE, !.frame = FALSE]
                   ELSE FailClosed(q)
  OBVIOUS
<1>4. PICK begun : begun = [r EXCEPT !.alarms = {}]
  OBVIOUS
<1>5. PICK n : n = player'
  OBVIOUS
<1>6. /\ runs[s].pc = "health"
      /\ \/ Stale(t) /\ n = Returned(q, t) /\ Ends(s)
         \/ /\ ~Stale(t) /\ runs' = [runs EXCEPT ![s].pc = "work"]
            /\ n \in {begun, StopStreaming(begun), [begun EXCEPT !.expected = 2]}
  BY <1>1, <1>2, <1>3, <1>4, <1>5 DEF HealthPasses, RunStep, Step
<1>7. /\ player' = n /\ crossed' \in BOOLEAN
      /\ ~crossed' => ~crossed \/ (player.state \in Active /\ n.state \in Rest)
      /\ Stale(t) => (player.state \in Active /\ n.state \in Rest) \/ crossed' = TRUE
  BY <1>1, <1>5 DEF HealthPasses, RunStep, Step, Stale, PlayerInv
<1>8. PlayerOK(player)
  BY DEF PlayerInv
<1>9. /\ DOMAIN q = PlayerFields /\ q.inFlight = TRUE
      /\ \A f \in PlayerFields \ {"inFlight", "attempt"} : q[f] = player[f]
  BY <1>2, <1>8 DEF PlayerOK, PlayerFields
<1>10. /\ q.state = player.state /\ q.token = player.token /\ q.desired = player.desired
       /\ q.up = player.up /\ q.frame = player.frame /\ q.latch = player.latch
       /\ q.dog = player.dog /\ q.pending = player.pending
       /\ q.sched = player.sched /\ q.start = player.start /\ q.settle = player.settle
       /\ q.lost = player.lost /\ q.hidden = player.hidden
  BY <1>9 DEF PlayerFields
<1>11. PlayerOK(q)
  BY <1>8, <1>9, <1>10 DEF PlayerOK
<1>12. CASE Stale(t)
  <2>1. n = Returned(q, t) /\ Ends(s)
    BY <1>6, <1>12
  <2>2. PlayerOK(n) /\ n.state = player.state
    BY <1>10, <1>11, <2>1, ReturnedFields
  <2>3. crossed' = TRUE
    BY <1>7, <1>12, <2>2 DEF Rest, Active
  <2>4. /\ runs' \in [Slots -> RunRecords]
        /\ (\A u \in Slots : runs[u].pc # "work" => ~runs[u].raced)'
    BY <2>1, EndsFields
  <2> QED
    BY <1>7, <2>2, <2>3, <2>4, CrossedKeeps
<1>13. CASE ~Stale(t)
  <2>1. n \in {begun, StopStreaming(begun), [begun EXCEPT !.expected = 2]}
        /\ runs' = [runs EXCEPT ![s].pc = "work"]
    BY <1>6, <1>13
  <2>2. t = player.token /\ player.desired
    BY <1>13 DEF Stale
  <2>3. runs[s] \in RunRecords /\ runs[s].raced = FALSE
    <3>1. runs[s] \in RunRecords /\ ~runs[s].raced
      BY <1>6 DEF PlayerInv
    <3> QED
      BY <3>1 DEF RunRecords
  <2>4. PICK new : new = [runs[s] EXCEPT !.pc = "work"]
    OBVIOUS
  <2>5. new \in RunRecords /\ new.pc = "work" /\ new.raced = FALSE /\ new.token = t
    BY <1>1, <2>3, <2>4 DEF RunRecords
  <2>6. /\ runs' \in [Slots -> RunRecords] /\ runs'[s] = new
        /\ \A u \in Slots \ {s} : runs'[u] = runs[u]
    BY <2>1, <2>4, <2>5 DEF PlayerInv
  <2>7. (\A u \in Slots : runs[u].pc # "work" => ~runs[u].raced)'
    BY <2>5, <2>6 DEF PlayerInv
  <2>8. DOMAIN r = PlayerFields
    <3>1. DOMAIN FailClosed(q) = PlayerFields
      BY <1>9, ToErrorHalts DEF FailClosed, Halted
    <3> QED
      BY <1>3, <1>9, <3>1
  <2>9. DOMAIN n = PlayerFields /\ \A f \in PlayerFields \ Loose : n[f] = r[f]
    BY <1>4, <2>1, <2>8 DEF StopStreaming, PlayerFields, Loose
  <2>10. CASE player.state = "RECONNECTING"
    <3>1. r = [q EXCEPT !.up = FALSE, !.frame = FALSE]
      BY <1>3, <1>10, <2>10
    <3>2. /\ r.up = FALSE /\ r.frame = FALSE
          /\ \A f \in PlayerFields \ {"up", "frame"} : r[f] = q[f]
      BY <1>9, <3>1 DEF PlayerFields
    <3>3. /\ n.up = FALSE /\ n.frame = FALSE /\ n.inFlight = TRUE
          /\ n.state = q.state /\ n.token = q.token /\ n.desired = q.desired
          /\ n.latch = q.latch /\ n.dog = q.dog /\ n.pending = q.pending
          /\ n.sched = q.sched /\ n.start = q.start /\ n.settle = q.settle
          /\ n.hidden = q.hidden
      BY <1>9, <2>9, <3>2 DEF PlayerFields, Loose
    <3>4. PlayerOK(n)
      BY <1>10, <1>11, <2>9, <2>10, <3>3 DEF PlayerOK
    <3>5. Live(s)' /\ runs'[s].pc = "work"
      BY <1>7, <1>10, <2>2, <2>5, <2>6, <3>3 DEF Live
    <3>6. n.state = "RECONNECTING"
      BY <1>10, <2>10, <3>3
    <3>7. InFlightAwaited' /\ ReconnectAlive'
      BY <3>5 DEF InFlightAwaited, ReconnectAlive
    <3>8. FreshStep
      BY <2>10 DEF FreshStep, Rest
    <3> QED
      BY <1>7, <2>6, <2>7, <3>4, <3>6, <3>7, <3>8 DEF PlayerInv, Rest
  <2>11. CASE player.state # "RECONNECTING"
    <3>1. r = FailClosed(q)
      BY <1>3, <1>10, <2>11
    <3>2. Keeps(player, n) /\ n.inFlight = FALSE /\ n.state = "ERROR"
      <4>1. PICK p : p = player
        OBVIOUS
      <4>2. PlayerOK(p) /\ p.hidden = q.hidden /\ p.token = q.token
        BY <1>8, <1>10, <4>1
      <4>3. DOMAIN n = PlayerFields /\ \A f \in PlayerFields \ Loose : n[f] = FailClosed(q)[f]
        BY <2>9, <3>1
      <4>4. Keeps(p, n) /\ n.inFlight = FALSE /\ n.state = "ERROR"
        BY <1>11, <4>2, <4>3, BegunHalted
      <4> QED
        BY <4>1, <4>4
    <3>3. n.inFlight => \/ ~(Live(s) /\ runs[s].pc = "work")
                        \/ n.token \in {n.start, n.settle}
      BY <3>2
    <3>4. n.state = "RECONNECTING" /\ ~n.hidden /\ ~n.inFlight =>
            ~Live(s) \/ n.token \in {n.sched, n.start, n.settle}
      BY <3>2
    <3> QED
      BY <1>7, <2>6, <2>7, <3>2, <3>3, <3>4, RunEndsKeeps
  <2> QED
    BY <2>10, <2>11
<1> QED
  BY <1>12, <1>13

-----------------------------------------------------------------------------
(* The specification                                                       *)

LEMMA PlayerInitOK == PlayerInit => PlayerInv
<1> SUFFICES ASSUME PlayerInit PROVE PlayerInv
  OBVIOUS
<1>1. /\ player = NewPlayer /\ crossed = FALSE
      /\ \A s \in Slots : runs[s] = NoRun
      /\ runs = [s \in Slots |-> NoRun]
  BY DEF PlayerInit
<1>2. /\ DOMAIN player = PlayerFields /\ player.state = "IDLE" /\ player.token = 0
      /\ player.desired = FALSE /\ player.up = FALSE /\ player.frame = FALSE
      /\ player.latch = FALSE /\ player.dog = FALSE /\ player.pending = FALSE
      /\ player.inFlight = FALSE /\ player.hidden = FALSE
      /\ player.sched = 0 /\ player.start = 0 /\ player.settle = 0
  BY <1>1 DEF NewPlayer, PlayerFields
<1>3. PlayerOK(player)
  <2>1. PICK q : q = player
    OBVIOUS
  <2>2. /\ q.state \in Rest /\ q.state \notin Active
        /\ q.state \notin {"CONNECTING", "PLAYING", "RECONNECTING"} /\ q.token \in Nat
    BY <1>2, <2>1 DEF Rest, Active
  <2>3. PlayerOK(q)
    BY <1>2, <2>1, <2>2 DEF PlayerOK
  <2> QED
    BY <2>1, <2>3
<1>4. NoRun \in RunRecords /\ NoRun.raced = FALSE
  BY DEF NoRun, RunRecords
<1>5. runs \in [Slots -> RunRecords] /\ \A s \in Slots : ~runs[s].raced
  BY <1>1, <1>4
<1>6. InFlightAwaited /\ ReconnectAlive
  BY <1>2 DEF InFlightAwaited, ReconnectAlive
<1> QED
  BY <1>1, <1>2, <1>3, <1>5, <1>6 DEF PlayerInv

\* Every step keeps the invariant, and starts the player only afresh.
LEMMA PlayerNextOK ==
    PlayerInv /\ [PlayerNext]_playerVars => PlayerInv' /\ (FreshStep \/ UNCHANGED playerVars)
<1> SUFFICES ASSUME PlayerInv, [PlayerNext]_playerVars
             PROVE  PlayerInv' /\ (FreshStep \/ UNCHANGED playerVars)
  OBVIOUS
<1>1. CASE BrowserStep
  BY <1>1, PlayStep, PressRetryStep, StopStep, HideStep, ShowTabStep, ShowElementStep,
     NetworkOnlineStep, ErrorRetryTimerStep DEF BrowserStep
<1>2. CASE StreamStep
  BY <1>2, FrameReceivedStep, WebrtcUpStep, WebrtcDownStep, StreamFailureStep, IceFailedStep,
     SetAlarmStep, OfferStep, SessionResetStep, AlarmFiresStep, WatchdogFiresStep
     DEF StreamStep
<1>3. CASE FlowStep
  BY <1>3, FlowAttachesStep, FlowEndsStep DEF FlowStep
<1>4. CASE ReconnectStep
  BY <1>4, ScheduleTimerStep, LostTimerStep, SettleStartTimerStep, SettleTimerStep,
     HealthFailsStep, HealthPassesStep, WorkEndsStep, WorkTimesOutStep DEF ReconnectStep
<1>5. CASE UNCHANGED playerVars
  BY <1>5 DEF playerVars, PlayerInv, InFlightAwaited, ReconnectAlive, Live
<1> QED
  BY <1>1, <1>2, <1>3, <1>4, <1>5 DEF PlayerNext

\* The inductive invariant holds of every behaviour of the player.
THEOREM PlayerInvariant == PlayerSpec => []PlayerInv
  BY PlayerInitOK, PlayerNextOK, PTL DEF PlayerSpec

\* After every callback desiredPlaying, the connection flags and the watchdog agree
\* with the state, for any number of alarms, attempts, generations and runs: the
\* gate stops a PLAYING that is not connected, handleEvent's last lines keep the
\* watchdog running, and _dropIfStale keeps late flows and attempts from it.
THEOREM PlayerFlags == PlayerSpec => []FlagsFollowState
<1>1. PlayerInv => FlagsFollowState
  BY DEF PlayerInv, PlayerOK, FlagsFollowState, IsConnected
<1> QED
  BY <1>1, PlayerInvariant, PTL

\* The coordinator never forgets a reconnect: what was armed or awaited for the
\* present generation is handed on by every callback.
THEOREM PlayerReconnects == PlayerSpec => []ReconnectAlive
<1>1. PlayerInv => ReconnectAlive
  BY DEF PlayerInv
<1> QED
  BY <1>1, PlayerInvariant, PTL

\* Only a new generation with its own connect flow makes a resting player active.
THEOREM PlayerFresh == PlayerSpec => FreshStart
<1>1. PlayerInv /\ [PlayerNext]_playerVars =>
        [player.state \in Rest /\ player'.state \in Active =>
            player'.token > player.token /\ player'.token \in flows']_playerVars
  BY PlayerNextOK DEF FreshStep
<1> QED
  BY <1>1, PlayerInvariant, PTL DEF PlayerSpec, FreshStart

=============================================================================
