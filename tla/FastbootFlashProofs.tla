------------------------ MODULE FastbootFlashProofs ------------------------
(***************************************************************************)
(* Proofs about FastbootFlash, for every number of images and commands.    *)
(* While a new flash thread takes LockFlash before the fastboot loop goes  *)
(* on (or no threads are used), parallel download and flash implements the *)
(* queue of FlashQueue, keeps its two buffers apart, loses no command and  *)
(* comes to an end (Work falls with every step). Types, and without        *)
(* threads the report of failures, need no such condition.                 *)
(***************************************************************************)
EXTENDS FastbootFlash, TLAPS

\* What the code relies on: the kernel runs a resumed thread at once, and
\* without threads a command can always be put off.
Orderly ==
  /\ MultiThread => PromptThreads
  /\ ~MultiThread => "alloc" \notin Faults

Quiet == rx = NoCmd /\ deferred = NoCmd /\ ~okayDelayed
Owes == job.busy /\ job.answers

\* One command at a time: what the host waits for is in exactly one place.
Protocol ==
  /\ host \in {"ready", "sending"} => Quiet /\ ~Owes
  /\ mState = "ExpectData" <=> host = "sending"
  /\ rx # NoCmd => deferred = NoCmd /\ ~okayDelayed /\ ~Owes
  /\ deferred # NoCmd => deferred = "barrier" /\ ~okayDelayed /\ ~Owes
  /\ okayDelayed => ~Owes
  /\ rx \in Kinds => fresh
  /\ rx = "download" => sent < MaxImages
  /\ fresh => mState = "ExpectCmd" /\ buffer[mUsbDataBuffer] = sent
  /\ fresh \/ mState = "ExpectData" => sent \in Images

\* At most one image is in flight, in the buffer that does not receive.
Flight ==
  /\ \A i \in Images : /\ thread[i] # "ready"
                       /\ thread[i] = "flashing" <=> LockFlash = i
  /\ LockFlash # NoThread =>
       /\ MultiThread /\ ~job.busy /\ ~IsFlashComplete
       /\ threadBuf[LockFlash] # mUsbDataBuffer
       /\ ordered = Append(written, buffer[threadBuf[LockFlash]])
  /\ job.busy =>
       /\ job.buf # mUsbDataBuffer
       /\ ordered = Append(written, buffer[job.buf])
  /\ ~job.busy /\ LockFlash = NoThread => written = ordered

\* Without threads: USB is served, or a command waits, only during a flash
\* that is announced as incomplete, and no longer once the next image is in.
Timers ==
  /\ MultiThread => deferred = NoCmd /\ ~UsbTimerStarted
  /\ ~MultiThread /\ ~IsFlashComplete => job.busy /\ job.sparse
  /\ fresh => ~UsbTimerStarted
  /\ job.busy /\ ~MultiThread /\ (UsbTimerStarted \/ deferred # NoCmd) =>
       ~IsFlashComplete

FlashInv == TypeOK /\ Protocol /\ Flight /\ Timers

\* Appending to a sequence keeps its type.
LEMMA AppendType ==
  ASSUME NEW S, NEW s \in Seq(S), NEW e \in S
  PROVE  Append(s, e) \in Seq(S)
OBVIOUS

\* The other of the two buffers.
LEMMA OtherBuffer ==
  ASSUME NEW b \in {0, 1}
  PROVE  1 - b \in {0, 1} /\ 1 - b # b
OBVIOUS

\* The record of a flash in the main thread has its type.
LEMMA JobType ==
  ASSUME NEW b \in {0, 1}, NEW answers \in BOOLEAN, NEW sparse \in BOOLEAN
  PROVE  Job(b, answers, sparse) \in
           [busy : BOOLEAN, buf : {0, 1}, answers : BOOLEAN, sparse : BOOLEAN]
BY DEF Job

\* FlashInv holds when the fastboot loop starts.
LEMMA FlashInvInit == Init => FlashInv
<1> SUFFICES ASSUME Init PROVE FlashInv
  OBVIOUS
<1> USE KindsAssumption, BoundsAssumption
    DEF Init, Images, NoImage, NoThread, NoCmd, Barrier, Idle
<1>1. ordered \in Seq(Images \union {Barrier})
  OBVIOUS
<1>2. written \in Seq(Images \union {Barrier, NoImage})
  OBVIOUS
<1>3. TypeOK
  <2>1. buffer \in [{0, 1} -> Images \union {NoImage}]
    OBVIOUS
  <2>2. /\ thread \in [Images -> {"none", "ready", "flashing", "done"}]
        /\ threadBuf \in [Images -> {0, 1}]
    OBVIOUS
  <2>3. job \in [busy : BOOLEAN, buf : {0, 1}, answers : BOOLEAN, sparse : BOOLEAN]
    OBVIOUS
  <2>4. /\ sent \in 0..MaxImages /\ barriers \in 0..MaxBarriers
        /\ LockFlash \in Images \union {NoThread}
    OBVIOUS
  <2>5. {deferred, rx} \subseteq Kinds \union {"download", "barrier", NoCmd}
    OBVIOUS
  <2> QED
    BY <1>1, <1>2, <2>1, <2>2, <2>3, <2>4, <2>5 DEF TypeOK
<1>4. Protocol
  BY DEF Protocol, Quiet, Owes
<1>5. Flight
  BY DEF Flight
<1>6. Timers
  BY DEF Timers
<1> QED
  BY <1>3, <1>4, <1>5, <1>6 DEF FlashInv

\* A command on its way only moves the host out of its quiet states.
LEMMA HostSendsKeepsFlashInv ==
  ASSUME Orderly, FlashInv, NEW c \in Kinds \union {"download", "barrier"}, HostSends(c)
  PROVE  FlashInv'
<1> USE KindsAssumption, BoundsAssumption, ModeAssumption
    DEF usbVars, flashVars, hostVars, Images, NoImage, NoThread, NoCmd, Barrier
<1>1. TypeOK'
  BY DEF FlashInv, TypeOK, Protocol, Quiet, Owes, Flight, Timers,
       Orderly, HostSends
<1>2. Protocol'
  BY DEF FlashInv, TypeOK, Protocol, Quiet, Owes, Flight, Timers,
       Orderly, HostSends
<1>3. Flight'
  BY DEF FlashInv, TypeOK, Protocol, Quiet, Owes, Flight, Timers,
       Orderly, HostSends
<1>4. Timers'
  BY DEF FlashInv, TypeOK, Protocol, Quiet, Owes, Flight, Timers,
       Orderly, HostSends
<1> QED
  BY <1>1, <1>2, <1>3, <1>4 DEF FlashInv

\* A command is put off only while the main thread writes (Timers).
LEMMA AcceptCmdTimerInitKeepsFlashInv ==
  ASSUME Orderly, FlashInv, AcceptCmdTimerInit
  PROVE  FlashInv'
<1> USE KindsAssumption, BoundsAssumption, ModeAssumption
    DEF usbVars, flashVars, hostVars, Images, NoImage, NoThread, NoCmd, Barrier
<1>1. TypeOK'
  BY DEF FlashInv, TypeOK, Protocol, Quiet, Owes, Flight, Timers,
       Orderly, AcceptCmdTimerInit, StopUsbTimer, ServesUsb
<1>2. Protocol'
  BY DEF FlashInv, TypeOK, Protocol, Quiet, Owes, Flight, Timers,
       Orderly, AcceptCmdTimerInit, StopUsbTimer, ServesUsb
<1>3. Flight'
  BY DEF FlashInv, TypeOK, Protocol, Quiet, Owes, Flight, Timers,
       Orderly, AcceptCmdTimerInit, StopUsbTimer, ServesUsb
<1>4. Timers'
  BY DEF FlashInv, TypeOK, Protocol, Quiet, Owes, Flight, Timers,
       Orderly, AcceptCmdTimerInit, StopUsbTimer, ServesUsb
<1> QED
  BY <1>1, <1>2, <1>3, <1>4 DEF FlashInv

\* The FAIL for an earlier flash leaves buffers and queue alone.
LEMMA LastFlashFailedKeepsFlashInv ==
  ASSUME Orderly, FlashInv, NEW c \in Kinds \union {"download"}, LastFlashFailed(c)
  PROVE  FlashInv'
<1> USE KindsAssumption, BoundsAssumption, ModeAssumption
    DEF usbVars, flashVars, hostVars, Images, NoImage, NoThread, NoCmd, Barrier
<1>1. TypeOK'
  BY DEF FlashInv, TypeOK, Protocol, Quiet, Owes, Flight, Timers,
       Orderly, LastFlashFailed, Accepts, ServesUsb, FastbootFail,
       StopUsbTimer
<1>2. Protocol'
  BY DEF FlashInv, TypeOK, Protocol, Quiet, Owes, Flight, Timers,
       Orderly, LastFlashFailed, Accepts, ServesUsb, FastbootFail,
       StopUsbTimer
<1>3. Flight'
  BY DEF FlashInv, TypeOK, Protocol, Quiet, Owes, Flight, Timers,
       Orderly, LastFlashFailed, Accepts, ServesUsb, FastbootFail,
       StopUsbTimer
<1>4. Timers'
  BY DEF FlashInv, TypeOK, Protocol, Quiet, Owes, Flight, Timers,
       Orderly, LastFlashFailed, Accepts, ServesUsb, FastbootFail,
       StopUsbTimer
<1> QED
  BY <1>1, <1>2, <1>3, <1>4 DEF FlashInv

\* A download starts into the buffer nobody writes from (Flight).
LEMMA CmdDownloadKeepsFlashInv ==
  ASSUME Orderly, FlashInv, CmdDownload
  PROVE  FlashInv'
<1> USE KindsAssumption, BoundsAssumption, ModeAssumption
    DEF usbVars, flashVars, hostVars, Images, NoImage, NoThread, NoCmd, Barrier
<1>1. TypeOK'
  <2>1. sent' \in 0..MaxImages
    BY DEF FlashInv, TypeOK, Protocol, CmdDownload, Accepts
  <2>2. LockDownload' \in BOOLEAN
    BY DEF CmdDownload
  <2>3. {deferred', rx'} \subseteq Kinds \union {"download", "barrier", NoCmd}
    BY DEF FlashInv, TypeOK, CmdDownload, Accepts
  <2> QED
    BY <2>1, <2>2, <2>3 DEF FlashInv, TypeOK, CmdDownload
<1>2. Protocol'
  BY DEF FlashInv, TypeOK, Protocol, Quiet, Owes, Flight, Timers,
       Orderly, CmdDownload, Accepts, ServesUsb
<1>3. Flight'
  BY DEF FlashInv, TypeOK, Protocol, Quiet, Owes, Flight, Timers,
       Orderly, CmdDownload, Accepts, ServesUsb
<1>4. Timers'
  BY DEF FlashInv, TypeOK, Protocol, Quiet, Owes, Flight, Timers,
       Orderly, CmdDownload, Accepts, ServesUsb
<1> QED
  BY <1>1, <1>2, <1>3, <1>4 DEF FlashInv

\* Data in between overwrites the USB buffer only.
LEMMA AcceptSomeDataKeepsFlashInv ==
  ASSUME Orderly, FlashInv, AcceptSomeData
  PROVE  FlashInv'
<1> USE KindsAssumption, BoundsAssumption, ModeAssumption
    DEF usbVars, flashVars, hostVars, Images, NoImage, NoThread, NoCmd, Barrier
<1>1. TypeOK'
  BY DEF FlashInv, TypeOK, Protocol, Quiet, Owes, Flight, Timers,
       Orderly, AcceptSomeData, ServesUsb
<1>2. Protocol'
  BY DEF FlashInv, TypeOK, Protocol, Quiet, Owes, Flight, Timers,
       Orderly, AcceptSomeData, ServesUsb
<1>3. Flight'
  BY DEF FlashInv, TypeOK, Protocol, Quiet, Owes, Flight, Timers,
       Orderly, AcceptSomeData, ServesUsb
<1>4. Timers'
  BY DEF FlashInv, TypeOK, Protocol, Quiet, Owes, Flight, Timers,
       Orderly, AcceptSomeData, ServesUsb
<1> QED
  BY <1>1, <1>2, <1>3, <1>4 DEF FlashInv

\* The last data leaves a whole image, fresh, in the USB buffer.
LEMMA AcceptAllDataKeepsFlashInv ==
  ASSUME Orderly, FlashInv, AcceptAllData
  PROVE  FlashInv'
<1> USE KindsAssumption, BoundsAssumption, ModeAssumption
    DEF usbVars, flashVars, hostVars, Images, NoImage, NoThread, NoCmd, Barrier
<1>1. TypeOK'
  BY DEF FlashInv, TypeOK, Protocol, Quiet, Owes, Flight, Timers,
       Orderly, AcceptAllData, ServesUsb, FastbootOkay,
       FastbootFail, StopUsbTimer
<1>2. Protocol'
  BY DEF FlashInv, TypeOK, Protocol, Quiet, Owes, Flight, Timers,
       Orderly, AcceptAllData, ServesUsb, FastbootOkay,
       FastbootFail, StopUsbTimer
<1>3. Flight'
  BY DEF FlashInv, TypeOK, Protocol, Quiet, Owes, Flight, Timers,
       Orderly, AcceptAllData, ServesUsb, FastbootOkay,
       FastbootFail, StopUsbTimer
<1>4. Timers'
  BY DEF FlashInv, TypeOK, Protocol, Quiet, Owes, Flight, Timers,
       Orderly, AcceptAllData, ServesUsb, FastbootOkay,
       FastbootFail, StopUsbTimer
<1> QED
  BY <1>1, <1>2, <1>3, <1>4 DEF FlashInv

\* The delayed answer comes when nothing is being written, or is a FAIL.
LEMMA FlashCompleteHandlerKeepsFlashInv ==
  ASSUME Orderly, FlashInv, FlashCompleteHandler
  PROVE  FlashInv'
<1> USE KindsAssumption, BoundsAssumption, ModeAssumption
    DEF usbVars, flashVars, hostVars, Images, NoImage, NoThread, NoCmd, Barrier
<1>1. TypeOK'
  BY DEF FlashInv, TypeOK, Protocol, Quiet, Owes, Flight, Timers,
       Orderly, FlashCompleteHandler, FastbootOkay, FastbootFail
<1>2. Protocol'
  BY DEF FlashInv, TypeOK, Protocol, Quiet, Owes, Flight, Timers,
       Orderly, FlashCompleteHandler, FastbootOkay, FastbootFail
<1>3. Flight'
  BY DEF FlashInv, TypeOK, Protocol, Quiet, Owes, Flight, Timers,
       Orderly, FlashCompleteHandler, FastbootOkay, FastbootFail
<1>4. Timers'
  BY DEF FlashInv, TypeOK, Protocol, Quiet, Owes, Flight, Timers,
       Orderly, FlashCompleteHandler, FastbootOkay, FastbootFail
<1> QED
  BY <1>1, <1>2, <1>3, <1>4 DEF FlashInv

\* The swap hands the fresh image to one writer and frees the other buffer.
LEMMA CmdFlashKeepsFlashInv ==
  ASSUME Orderly, FlashInv, NEW c \in Kinds, CmdFlash(c)
  PROVE  FlashInv'
<1> USE KindsAssumption, BoundsAssumption, ModeAssumption
    DEF usbVars, flashVars, hostVars, Images, NoImage, NoThread, NoCmd, Barrier
<1>1. TypeOK'
  <2>1. mUsbDataBuffer' \in {0, 1}
    BY OtherBuffer DEF FlashInv, TypeOK, CmdFlash, ExchangeFlashAndUsbDataBuf
  <2>2. sent \in Images
    BY DEF FlashInv, Protocol, CmdFlash, Accepts
  <2>3. ordered' \in Seq(Images \union {Barrier})
    BY <2>2, AppendType DEF FlashInv, TypeOK, CmdFlash
  <2> DEFINE JobTypes ==
        [busy : BOOLEAN, buf : {0, 1}, answers : BOOLEAN, sparse : BOOLEAN]
  <2>4. job' \in JobTypes
    <3>1. /\ (c # "raw") \in BOOLEAN /\ (c # "equal") \in BOOLEAN
          /\ mUsbDataBuffer \in {0, 1}
      BY DEF FlashInv, TypeOK
    <3>2. /\ Job(mUsbDataBuffer, FALSE, c # "raw") \in JobTypes
          /\ Job(mUsbDataBuffer, TRUE, c # "raw") \in JobTypes
          /\ Job(mUsbDataBuffer, c # "equal", c # "raw") \in JobTypes
      BY <3>1, JobType, Zenon
    <3> HIDE DEF JobTypes
    <3>3. job' \in JobTypes
      <4>1. job \in JobTypes
        BY DEF FlashInv, TypeOK, JobTypes
      <4> QED
        BY <3>2, <4>1 DEF CmdFlash, FlashInMainThread
    <3> QED
      BY <3>3 DEF JobTypes
  <2>5. /\ thread' \in [Images -> {"none", "ready", "flashing", "done"}]
        /\ threadBuf' \in [Images -> {0, 1}]
        /\ LockFlash' \in Images \union {NoThread}
    BY <2>2 DEF FlashInv, TypeOK, CmdFlash, FlashInMainThread
  <2>6. {deferred', rx'} \subseteq Kinds \union {"download", "barrier", NoCmd}
    BY DEF FlashInv, TypeOK, CmdFlash, Accepts
  <2>7. /\ IsFlashComplete' \in BOOLEAN /\ UsbTimerStarted' \in BOOLEAN
        /\ host' \in {"ready", "waiting", "sending"}
    BY DEF FlashInv, TypeOK, CmdFlash, FastbootOkay, StopUsbTimer
  <2> QED
    BY <2>1, <2>3, <2>4, <2>5, <2>6, <2>7 DEF FlashInv, TypeOK, CmdFlash
<1>2. Protocol'
  BY DEF FlashInv, TypeOK, Protocol, Quiet, Owes, Flight, Timers,
       Orderly, CmdFlash, Accepts, ServesUsb, FastbootOkay,
       StopUsbTimer, FlashInMainThread, ExchangeFlashAndUsbDataBuf,
       Job
<1>3. Flight'
  BY DEF FlashInv, TypeOK, Protocol, Quiet, Owes, Flight, Timers,
       Orderly, CmdFlash, Accepts, ServesUsb, FastbootOkay,
       StopUsbTimer, FlashInMainThread, ExchangeFlashAndUsbDataBuf,
       Job
<1>4. Timers'
  BY DEF FlashInv, TypeOK, Protocol, Quiet, Owes, Flight, Timers,
       Orderly, CmdFlash, Accepts, ServesUsb, FastbootOkay,
       StopUsbTimer, FlashInMainThread, ExchangeFlashAndUsbDataBuf,
       Job
<1> QED
  BY <1>1, <1>2, <1>3, <1>4 DEF FlashInv

\* Giving up after the swap loses an image that was not yet accepted.
LEMMA CmdFlashGivesUpKeepsFlashInv ==
  ASSUME Orderly, FlashInv, CmdFlashGivesUp
  PROVE  FlashInv'
<1> USE KindsAssumption, BoundsAssumption, ModeAssumption
    DEF usbVars, flashVars, hostVars, Images, NoImage, NoThread, NoCmd, Barrier
<1>1. TypeOK'
  <2>1. mUsbDataBuffer' \in {0, 1}
    BY OtherBuffer
       DEF FlashInv, TypeOK, CmdFlashGivesUp, ExchangeFlashAndUsbDataBuf
  <2>2. {deferred', rx'} \subseteq Kinds \union {"download", "barrier", NoCmd}
    BY DEF FlashInv, TypeOK, CmdFlashGivesUp, Accepts
  <2>3. UsbTimerStarted' \in BOOLEAN /\ fresh' \in BOOLEAN
    BY DEF CmdFlashGivesUp, StopUsbTimer
  <2> QED
    BY <2>1, <2>2, <2>3 DEF FlashInv, TypeOK, CmdFlashGivesUp
<1>2. Protocol'
  BY DEF FlashInv, TypeOK, Protocol, Quiet, Owes, Flight, Timers,
       Orderly, CmdFlashGivesUp, Accepts, ServesUsb, StopUsbTimer,
       ExchangeFlashAndUsbDataBuf
<1>3. Flight'
  BY DEF FlashInv, TypeOK, Protocol, Quiet, Owes, Flight, Timers,
       Orderly, CmdFlashGivesUp, Accepts, ServesUsb, StopUsbTimer,
       ExchangeFlashAndUsbDataBuf
<1>4. Timers'
  BY DEF FlashInv, TypeOK, Protocol, Quiet, Owes, Flight, Timers,
       Orderly, CmdFlashGivesUp, Accepts, ServesUsb, StopUsbTimer,
       ExchangeFlashAndUsbDataBuf
<1> QED
  BY <1>1, <1>2, <1>3, <1>4 DEF FlashInv

\* A flash that is refused is one that is not accepted, and is answered.
LEMMA CmdFlashRefusedKeepsFlashInv ==
  ASSUME Orderly, FlashInv, NEW c \in Kinds, CmdFlashRefused(c)
  PROVE  FlashInv'
<1> USE KindsAssumption, BoundsAssumption, ModeAssumption
    DEF usbVars, flashVars, hostVars, Images, NoImage, NoThread, NoCmd, Barrier
<1>1. TypeOK'
  <2>1. mUsbDataBuffer' \in {0, 1}
    BY OtherBuffer
       DEF FlashInv, TypeOK, CmdFlashRefused, ExchangeFlashAndUsbDataBuf
  <2>2. {deferred', rx'} \subseteq Kinds \union {"download", "barrier", NoCmd}
    BY DEF FlashInv, TypeOK, CmdFlashRefused, Accepts
  <2>3. /\ UsbTimerStarted' \in BOOLEAN /\ fresh' \in BOOLEAN
        /\ host' \in {"ready", "waiting", "sending"}
    BY DEF CmdFlashRefused, StopUsbTimer
  <2> QED
    BY <2>1, <2>2, <2>3 DEF FlashInv, TypeOK, CmdFlashRefused
<1>2. Protocol'
  BY DEF FlashInv, TypeOK, Protocol, Quiet, Owes, Flight, Timers,
       Orderly, CmdFlashRefused, Accepts, ServesUsb, StopUsbTimer,
       ExchangeFlashAndUsbDataBuf
<1>3. Flight'
  BY DEF FlashInv, TypeOK, Protocol, Quiet, Owes, Flight, Timers,
       Orderly, CmdFlashRefused, Accepts, ServesUsb, StopUsbTimer,
       ExchangeFlashAndUsbDataBuf
<1>4. Timers'
  BY DEF FlashInv, TypeOK, Protocol, Quiet, Owes, Flight, Timers,
       Orderly, CmdFlashRefused, Accepts, ServesUsb, StopUsbTimer,
       ExchangeFlashAndUsbDataBuf
<1> QED
  BY <1>1, <1>2, <1>3, <1>4 DEF FlashInv

\* The main thread writes the image it was given, and the flight is over.
LEMMA FinishFlashKeepsFlashInv ==
  ASSUME Orderly, FlashInv, FinishFlash
  PROVE  FlashInv'
<1> USE KindsAssumption, BoundsAssumption, ModeAssumption
    DEF usbVars, flashVars, hostVars, Images, NoImage, NoThread, NoCmd, Barrier
<1>1. TypeOK'
  <2>1. written' \in Seq(Images \union {Barrier, NoImage})
    <3>1. buffer[job.buf] \in Images \union {Barrier, NoImage}
      BY DEF FlashInv, TypeOK
    <3> QED
      BY <3>1, AppendType DEF FlashInv, TypeOK, FinishFlash
  <2>2. job' \in [busy : BOOLEAN, buf : {0, 1}, answers : BOOLEAN, sparse : BOOLEAN]
    BY DEF FinishFlash, Idle
  <2>3. FlashResult' \in BOOLEAN /\ unreported' \in BOOLEAN
    BY DEF FlashInv, TypeOK, FinishFlash, WriteResults, ResultKept
  <2>4. /\ IsFlashComplete' \in BOOLEAN /\ UsbTimerStarted' \in BOOLEAN
        /\ host' \in {"ready", "waiting", "sending"}
    BY DEF FlashInv, TypeOK, FinishFlash, StopUsbTimer
  <2> QED
    BY <2>1, <2>2, <2>3, <2>4 DEF FlashInv, TypeOK, FinishFlash
<1>2. Protocol'
  BY DEF FlashInv, TypeOK, Protocol, Quiet, Owes, Flight, Timers,
       Orderly, FinishFlash, WriteResults, ResultKept, StopUsbTimer,
       Idle
<1>3. Flight'
  BY DEF FlashInv, TypeOK, Protocol, Quiet, Owes, Flight, Timers,
       Orderly, FinishFlash, WriteResults, ResultKept, StopUsbTimer,
       Idle
<1>4. Timers'
  BY DEF FlashInv, TypeOK, Protocol, Quiet, Owes, Flight, Timers,
       Orderly, FinishFlash, WriteResults, ResultKept, StopUsbTimer,
       Idle
<1> QED
  BY <1>1, <1>2, <1>3, <1>4 DEF FlashInv

\* A command that waits for flashing finds nothing in flight.
LEMMA CmdBarrierKeepsFlashInv ==
  ASSUME Orderly, FlashInv, CmdBarrier
  PROVE  FlashInv'
<1> USE KindsAssumption, BoundsAssumption, ModeAssumption
    DEF usbVars, flashVars, hostVars, Images, NoImage, NoThread, NoCmd, Barrier
<1>1. TypeOK'
  <2>1. ordered' \in Seq(Images \union {Barrier})
    BY AppendType DEF FlashInv, TypeOK, CmdBarrier
  <2>2. written' \in Seq(Images \union {Barrier, NoImage})
    BY AppendType DEF FlashInv, TypeOK, CmdBarrier
  <2>3. {deferred', rx'} \subseteq Kinds \union {"download", "barrier", NoCmd}
    BY DEF FlashInv, TypeOK, CmdBarrier, Accepts
  <2>4. UsbTimerStarted' \in BOOLEAN /\ host' \in {"ready", "waiting", "sending"}
    BY DEF CmdBarrier, StopUsbTimer, FastbootOkay
  <2> QED
    BY <2>1, <2>2, <2>3, <2>4 DEF FlashInv, TypeOK, CmdBarrier
<1>2. Protocol'
  BY DEF FlashInv, TypeOK, Protocol, Quiet, Owes, Flight, Timers,
       Orderly, CmdBarrier, Accepts, ServesUsb, FastbootOkay,
       StopUsbTimer
<1>3. Flight'
  BY DEF FlashInv, TypeOK, Protocol, Quiet, Owes, Flight, Timers,
       Orderly, CmdBarrier, Accepts, ServesUsb, FastbootOkay,
       StopUsbTimer
<1>4. Timers'
  BY DEF FlashInv, TypeOK, Protocol, Quiet, Owes, Flight, Timers,
       Orderly, CmdBarrier, Accepts, ServesUsb, FastbootOkay,
       StopUsbTimer
<1> QED
  BY <1>1, <1>2, <1>3, <1>4 DEF FlashInv

\* Prompt threads never wait for LockFlash.
LEMMA ThreadAcquiresKeepsFlashInv ==
  ASSUME Orderly, FlashInv, NEW i \in Images, ThreadAcquires(i)
  PROVE  FlashInv'
<1> USE KindsAssumption, BoundsAssumption, ModeAssumption
    DEF usbVars, flashVars, hostVars, Images, NoImage, NoThread, NoCmd, Barrier
<1>1. TypeOK'
  BY DEF FlashInv, TypeOK, Protocol, Quiet, Owes, Flight, Timers,
       Orderly, ThreadAcquires
<1>2. Protocol'
  BY DEF FlashInv, TypeOK, Protocol, Quiet, Owes, Flight, Timers,
       Orderly, ThreadAcquires
<1>3. Flight'
  BY DEF FlashInv, TypeOK, Protocol, Quiet, Owes, Flight, Timers,
       Orderly, ThreadAcquires
<1>4. Timers'
  BY DEF FlashInv, TypeOK, Protocol, Quiet, Owes, Flight, Timers,
       Orderly, ThreadAcquires
<1> QED
  BY <1>1, <1>2, <1>3, <1>4 DEF FlashInv

\* A thread writes the image it was given, and releases LockFlash.
LEMMA ThreadFinishesKeepsFlashInv ==
  ASSUME Orderly, FlashInv, NEW i \in Images, ThreadFinishes(i)
  PROVE  FlashInv'
<1> USE KindsAssumption, BoundsAssumption, ModeAssumption
    DEF usbVars, flashVars, hostVars, Images, NoImage, NoThread, NoCmd, Barrier
<1>1. TypeOK'
  BY DEF FlashInv, TypeOK, Protocol, Quiet, Owes, Flight, Timers,
       Orderly, ThreadFinishes, WriteResults
<1>2. Protocol'
  BY DEF FlashInv, TypeOK, Protocol, Quiet, Owes, Flight, Timers,
       Orderly, ThreadFinishes, WriteResults
<1>3. Flight'
  BY DEF FlashInv, TypeOK, Protocol, Quiet, Owes, Flight, Timers,
       Orderly, ThreadFinishes, WriteResults
<1>4. Timers'
  BY DEF FlashInv, TypeOK, Protocol, Quiet, Owes, Flight, Timers,
       Orderly, ThreadFinishes, WriteResults
<1> QED
  BY <1>1, <1>2, <1>3, <1>4 DEF FlashInv

-----------------------------------------------------------------------------
(***************************************************************************)
(* The invariant holds, and every step is a step of the queue.             *)
(***************************************************************************)
\* Every action keeps FlashInv.
LEMMA FlashInvStep ==
  ASSUME Orderly, FlashInv, [Next]_vars
  PROVE  FlashInv'
<1>1. CASE UNCHANGED vars
  BY <1>1 DEF FlashInv, TypeOK, Protocol, Quiet, Owes, Flight, Timers, vars,
              usbVars, flashVars, hostVars
<1>2. CASE HostStep
  BY <1>2, HostSendsKeepsFlashInv DEF HostStep
<1>3. CASE MainStep
  BY <1>3, AcceptCmdTimerInitKeepsFlashInv, LastFlashFailedKeepsFlashInv,
     CmdDownloadKeepsFlashInv, AcceptSomeDataKeepsFlashInv,
     AcceptAllDataKeepsFlashInv, FlashCompleteHandlerKeepsFlashInv,
     CmdFlashKeepsFlashInv, CmdFlashRefusedKeepsFlashInv,
     CmdFlashGivesUpKeepsFlashInv,
     FinishFlashKeepsFlashInv, CmdBarrierKeepsFlashInv
     DEF MainStep
<1>4. CASE ThreadStep
  BY <1>4, ThreadAcquiresKeepsFlashInv, ThreadFinishesKeepsFlashInv
     DEF ThreadStep
<1> QED
  BY <1>1, <1>2, <1>3, <1>4 DEF Next, HandleNoEvent

\* FlashInv is an invariant.
LEMMA FlashInvHolds == ASSUME Orderly PROVE Spec => []FlashInv
<1>1. FlashInv /\ [Next]_vars => FlashInv'
  BY FlashInvStep
<1> QED
  BY <1>1, FlashInvInit, PTL DEF Spec

\* The step of an image that is written is the queue's Write.
LEMMA WriteStep ==
  ASSUME written \in Seq(Images \union {Barrier, NoImage}), NEW e,
         ordered = Append(written, e), written' = Append(written, e),
         UNCHANGED ordered
  PROVE  Queue!Next
<1>1. ordered[Len(written) + 1] = e /\ Len(ordered) = Len(written) + 1
  OBVIOUS
<1> QED
  BY <1>1 DEF Queue!Next, Queue!Write

\* Every step of the loop is a step of the queue, or none.
LEMMA QueueStep ==
  ASSUME Orderly, FlashInv, [Next]_vars
  PROVE  [Queue!Next]_(Queue!vars)
<1> USE KindsAssumption, BoundsAssumption, ModeAssumption
    DEF usbVars, flashVars, hostVars, Images, NoImage, NoThread, NoCmd, Barrier
<1>1. ASSUME NEW c \in Kinds, CmdFlash(c) PROVE Queue!Next
  <2>1. written = ordered
    BY <1>1 DEF FlashInv, Protocol, Flight, Timers, CmdFlash, Accepts,
                ServesUsb, ExchangeFlashAndUsbDataBuf, TypeOK, Orderly
  <2>2. sent \in Images
    BY <1>1 DEF FlashInv, Protocol, CmdFlash, Accepts
  <2> QED
    BY <1>1, <2>1, <2>2 DEF CmdFlash, Queue!Next, Queue!Accept
<1>2. ASSUME FinishFlash PROVE Queue!Next
  BY <1>2, WriteStep DEF FlashInv, TypeOK, Flight, FinishFlash
<1>3. ASSUME NEW i \in Images, ThreadFinishes(i) PROVE Queue!Next
  <2>1. LockFlash = i /\ LockFlash # NoThread
    BY <1>3 DEF FlashInv, Flight, ThreadFinishes
  <2> QED
    BY <1>3, <2>1, WriteStep DEF FlashInv, TypeOK, Flight, ThreadFinishes
<1>4. ASSUME CmdBarrier PROVE Queue!Next
  <2>1. written = ordered
    BY <1>4 DEF FlashInv, Protocol, Flight, Timers, CmdBarrier, Accepts,
                ServesUsb, TypeOK, Orderly
  <2> QED
    BY <1>4, <2>1 DEF CmdBarrier, Queue!Next, Queue!RunBarrier
<1>5. ASSUME \/ HostStep \/ AcceptCmdTimerInit
             \/ \E c \in Kinds \union {"download"} : LastFlashFailed(c)
             \/ CmdDownload \/ AcceptSomeData \/ AcceptAllData
             \/ FlashCompleteHandler \/ CmdFlashGivesUp
             \/ \E c \in Kinds : CmdFlashRefused(c)
             \/ \E i \in Images : ThreadAcquires(i)
             \/ HandleNoEvent \/ UNCHANGED vars
      PROVE  UNCHANGED Queue!vars
  BY <1>5 DEF HostStep, HostSends, AcceptCmdTimerInit, LastFlashFailed,
     CmdDownload, AcceptSomeData, AcceptAllData, FlashCompleteHandler,
     CmdFlashGivesUp, CmdFlashRefused, ThreadAcquires, HandleNoEvent, vars,
     Queue!vars
<1> QED
  BY <1>1, <1>2, <1>3, <1>4, <1>5 DEF Next, MainStep, ThreadStep

\* For any number of images and commands, with threads or without, parallel
\* download and flash implements the queue: every image accepted by CmdFlash
\* is written whole, once and in order, and commands that call
\* WaitForFlashFinished, or are put off by AcceptCmd, find all of them
\* written. (MultiThread: as far as ThreadResume lets the thread lock first.)
THEOREM FlashImplementsQueue == ASSUME Orderly PROVE Spec => ImplementsQueue
<1>1. Init => Queue!Init
  BY DEF Init, Queue!Init
<1>2. FlashInv /\ [Next]_vars => [Queue!Next]_(Queue!vars)
  BY QueueStep
<1> QED
  BY <1>1, <1>2, FlashInvHolds, PTL DEF Spec, ImplementsQueue, Queue!Spec

-----------------------------------------------------------------------------
(***************************************************************************)
(* What holds however late the threads run and whatever fails              *)
(***************************************************************************)
\* What is left of Protocol when a flash may overtake another.
Turns ==
  /\ host \in {"ready", "sending"} => Quiet /\ ~Owes
  /\ mState = "ExpectData" <=> host = "sending"
  /\ rx # NoCmd => deferred = NoCmd /\ ~okayDelayed /\ ~Owes
  /\ deferred # NoCmd => deferred # "download" /\ ~okayDelayed /\ ~Owes
  /\ okayDelayed => ~Owes
  /\ rx \in Kinds \/ deferred \in Kinds => fresh
  /\ rx = "download" => sent < MaxImages
  /\ fresh \/ mState = "ExpectData" => sent \in Images

TypeInv == TypeOK /\ Turns

\* Without threads, a failure that no FAIL has told is in FlashResult, and
\* nothing is being written that could overwrite it.
FailureKept ==
  /\ unreported => ~FlashResult /\ ~job.busy
  /\ \A i \in Images : thread[i] = "none"

\* Without threads, every swap of the buffers gives the flash its own, and no
\* image is there to be swapped while another one is written.
Apart ==
  /\ job.busy => job.buf # mUsbDataBuffer
  /\ fresh => ~UsbTimerStarted
  /\ job.busy /\ deferred # NoCmd => ~IsFlashComplete
  /\ \A i \in Images : thread[i] = "none"

\* TypeInv holds when the fastboot loop starts.
LEMMA TypeInvInit == Init => TypeInv
<1> SUFFICES ASSUME Init PROVE TypeInv
  OBVIOUS
<1>1. TypeOK
  BY FlashInvInit DEF FlashInv
<1>2. Turns
  BY KindsAssumption DEF Init, Turns, Quiet, Owes, NoCmd, Idle
<1> QED
  BY <1>1, <1>2 DEF TypeInv

\* Every action keeps TypeInv, with or without a fault.
LEMMA TypeInvStep == TypeInv /\ [Next]_vars => TypeInv'
<1> SUFFICES ASSUME TypeInv, [Next]_vars PROVE TypeInv'
  OBVIOUS
<1> USE KindsAssumption, BoundsAssumption
    DEF usbVars, flashVars, hostVars, Images, NoImage, NoThread, NoCmd, Barrier
<1>1. ASSUME NEW c \in Kinds \union {"download", "barrier"}, HostSends(c)
      PROVE  TypeInv'
  <2>1. TypeOK'
    BY <1>1 DEF TypeInv, TypeOK, HostSends
  <2>2. Turns'
    BY <1>1 DEF TypeInv, TypeOK, Turns, Quiet, Owes, HostSends
  <2> QED BY <2>1, <2>2 DEF TypeInv
<1>2. CASE AcceptCmdTimerInit
  <2>1. TypeOK'
    <3>1. {deferred', rx'} \subseteq Kinds \union {"download", "barrier", NoCmd}
      BY <1>2 DEF TypeInv, TypeOK, AcceptCmdTimerInit
    <3>2. UsbTimerStarted' \in BOOLEAN
      BY <1>2 DEF AcceptCmdTimerInit, StopUsbTimer
    <3> QED BY <1>2, <3>1, <3>2 DEF TypeInv, TypeOK, AcceptCmdTimerInit
  <2>2. Turns'
    BY <1>2 DEF TypeInv, TypeOK, Turns, Quiet, Owes, AcceptCmdTimerInit
  <2> QED BY <2>1, <2>2 DEF TypeInv
<1>3. ASSUME NEW c \in Kinds \union {"download"}, LastFlashFailed(c)
      PROVE  TypeInv'
  <2>1. TypeOK'
    <3>1. {deferred', rx'} \subseteq Kinds \union {"download", "barrier", NoCmd}
      BY <1>3 DEF TypeInv, TypeOK, LastFlashFailed, Accepts
    <3>2. UsbTimerStarted' \in BOOLEAN /\ FlashResult' \in BOOLEAN
      BY <1>3 DEF TypeInv, TypeOK, LastFlashFailed, StopUsbTimer
    <3>3. host' \in {"ready", "waiting", "sending"} /\ unreported' \in BOOLEAN
      BY <1>3 DEF LastFlashFailed, FastbootFail
    <3> QED BY <1>3, <3>1, <3>2, <3>3 DEF TypeInv, TypeOK, LastFlashFailed
  <2>2. Turns'
    BY <1>3 DEF TypeInv, TypeOK, Turns, Quiet, Owes, LastFlashFailed, Accepts,
                FastbootFail
  <2> QED BY <2>1, <2>2 DEF TypeInv
<1>4. CASE CmdDownload
  <2>1. TypeOK'
    <3>1. {deferred', rx'} \subseteq Kinds \union {"download", "barrier", NoCmd}
      BY <1>4 DEF TypeInv, TypeOK, CmdDownload, Accepts
    <3>2. sent' \in 0..MaxImages /\ LockDownload' \in BOOLEAN
      BY <1>4, ModeAssumption DEF TypeInv, TypeOK, Turns, CmdDownload, Accepts
    <3> QED BY <1>4, <3>1, <3>2 DEF TypeInv, TypeOK, CmdDownload
  <2>2. Turns'
    <3>1. sent < MaxImages /\ sent' = sent + 1 /\ sent \in Nat
      BY <1>4 DEF TypeInv, TypeOK, Turns, CmdDownload, Accepts
    <3> QED
      BY <1>4, <3>1 DEF TypeInv, TypeOK, Turns, Quiet, Owes, CmdDownload, Accepts
  <2> QED BY <2>1, <2>2 DEF TypeInv
<1>5. CASE AcceptSomeData
  <2>1. TypeOK'
    BY <1>5 DEF TypeInv, TypeOK, AcceptSomeData
  <2>2. Turns'
    BY <1>5 DEF TypeInv, TypeOK, Turns, Quiet, Owes, AcceptSomeData
  <2> QED BY <2>1, <2>2 DEF TypeInv
<1>6. CASE AcceptAllData
  <2>1. TypeOK'
    <3>1. sent \in Images
      BY <1>6 DEF TypeInv, TypeOK, Turns, AcceptAllData
    <3>2. /\ buffer' \in [{0, 1} -> Images \union {NoImage}]
          /\ mState' \in {"ExpectCmd", "ExpectData"}
          /\ LockDownload' \in BOOLEAN /\ fresh' \in BOOLEAN
      BY <1>6, <3>1 DEF TypeInv, TypeOK, AcceptAllData
    <3>3. /\ UsbTimerStarted' \in BOOLEAN /\ okayDelayed' \in BOOLEAN
          /\ host' \in {"ready", "waiting", "sending"} /\ unreported' \in BOOLEAN
      BY <1>6 DEF TypeInv, TypeOK, AcceptAllData, FastbootOkay, FastbootFail,
                  StopUsbTimer
    <3> QED BY <1>6, <3>2, <3>3 DEF TypeInv, TypeOK, AcceptAllData
  <2>2. Turns'
    BY <1>6 DEF TypeInv, TypeOK, Turns, Quiet, Owes, AcceptAllData,
                FastbootOkay, FastbootFail
  <2> QED BY <2>1, <2>2 DEF TypeInv
<1>7. CASE FlashCompleteHandler
  <2>1. TypeOK'
    <3>1. /\ okayDelayed' \in BOOLEAN /\ unreported' \in BOOLEAN
          /\ host' \in {"ready", "waiting", "sending"}
      BY <1>7 DEF TypeInv, TypeOK, FlashCompleteHandler, FastbootOkay,
                  FastbootFail
    <3> QED BY <1>7, <3>1 DEF TypeInv, TypeOK, FlashCompleteHandler
  <2>2. Turns'
    BY <1>7 DEF TypeInv, TypeOK, Turns, Quiet, Owes, FlashCompleteHandler,
                FastbootOkay, FastbootFail
  <2> QED BY <2>1, <2>2 DEF TypeInv
<1>8. ASSUME NEW c \in Kinds, CmdFlash(c) PROVE TypeInv'
  <2>1. TypeOK'
    <3>1. mUsbDataBuffer' \in {0, 1}
      BY <1>8, OtherBuffer DEF TypeInv, TypeOK, CmdFlash,
                               ExchangeFlashAndUsbDataBuf
    <3>2. sent \in Images
      BY <1>8 DEF TypeInv, Turns, CmdFlash, Accepts
    <3>3. ordered' \in Seq(Images \union {Barrier})
      BY <1>8, <3>2, AppendType DEF TypeInv, TypeOK, CmdFlash
    <3> DEFINE JobTypes ==
          [busy : BOOLEAN, buf : {0, 1}, answers : BOOLEAN, sparse : BOOLEAN]
    <3>4. job' \in JobTypes
      <4>1. /\ (c # "raw") \in BOOLEAN /\ (c # "equal") \in BOOLEAN
            /\ mUsbDataBuffer \in {0, 1} /\ job \in JobTypes
        BY DEF TypeInv, TypeOK
      <4>2. /\ Job(mUsbDataBuffer, FALSE, c # "raw") \in JobTypes
            /\ Job(mUsbDataBuffer, TRUE, c # "raw") \in JobTypes
            /\ Job(mUsbDataBuffer, c # "equal", c # "raw") \in JobTypes
        BY <4>1, JobType, Zenon
      <4> HIDE DEF JobTypes
      <4> QED BY <1>8, <4>1, <4>2 DEF CmdFlash, FlashInMainThread
    <3>5. /\ thread' \in [Images -> {"none", "ready", "flashing", "done"}]
          /\ threadBuf' \in [Images -> {0, 1}]
          /\ LockFlash' \in Images \union {NoThread}
      BY <1>8, <3>2 DEF TypeInv, TypeOK, CmdFlash, FlashInMainThread
    <3>6. {deferred', rx'} \subseteq Kinds \union {"download", "barrier", NoCmd}
      BY <1>8 DEF TypeInv, TypeOK, CmdFlash, Accepts
    <3>7. /\ IsFlashComplete' \in BOOLEAN /\ UsbTimerStarted' \in BOOLEAN
          /\ host' \in {"ready", "waiting", "sending"}
      BY <1>8, ModeAssumption
      DEF TypeInv, TypeOK, CmdFlash, FastbootOkay, StopUsbTimer
    <3> QED
      BY <1>8, <3>1, <3>3, <3>4, <3>5, <3>6, <3>7
      DEF TypeInv, TypeOK, CmdFlash
  <2>2. Turns'
    BY <1>8 DEF TypeInv, TypeOK, Turns, Quiet, Owes, CmdFlash, Accepts,
                FastbootOkay, FlashInMainThread, Job
  <2> QED BY <2>1, <2>2 DEF TypeInv
<1>9. CASE CmdFlashGivesUp
  <2>1. TypeOK'
    <3>1. mUsbDataBuffer' \in {0, 1}
      BY <1>9, OtherBuffer DEF TypeInv, TypeOK, CmdFlashGivesUp,
                               ExchangeFlashAndUsbDataBuf
    <3>2. {deferred', rx'} \subseteq Kinds \union {"download", "barrier", NoCmd}
      BY <1>9 DEF TypeInv, TypeOK, CmdFlashGivesUp, Accepts
    <3>3. UsbTimerStarted' \in BOOLEAN /\ fresh' \in BOOLEAN
      BY <1>9 DEF CmdFlashGivesUp, StopUsbTimer
    <3> QED
      BY <1>9, <3>1, <3>2, <3>3 DEF TypeInv, TypeOK, CmdFlashGivesUp
  <2>2. Turns'
    BY <1>9 DEF TypeInv, TypeOK, Turns, Quiet, Owes, CmdFlashGivesUp, Accepts
  <2> QED BY <2>1, <2>2 DEF TypeInv
<1>10. CASE FinishFlash
  <2>1. TypeOK'
    <3>1. written' \in Seq(Images \union {Barrier, NoImage})
      <4>1. buffer[job.buf] \in Images \union {Barrier, NoImage}
        BY DEF TypeInv, TypeOK
      <4> QED
        BY <1>10, <4>1, AppendType DEF TypeInv, TypeOK, FinishFlash
    <3>2. job' \in [busy : BOOLEAN, buf : {0, 1}, answers : BOOLEAN,
                   sparse : BOOLEAN]
      BY <1>10 DEF FinishFlash, Idle
    <3>3. FlashResult' \in BOOLEAN /\ unreported' \in BOOLEAN
      BY <1>10 DEF TypeInv, TypeOK, FinishFlash, WriteResults, ResultKept
    <3>4. /\ IsFlashComplete' \in BOOLEAN /\ UsbTimerStarted' \in BOOLEAN
          /\ host' \in {"ready", "waiting", "sending"}
      BY <1>10 DEF TypeInv, TypeOK, FinishFlash, StopUsbTimer
    <3> QED
      BY <1>10, <3>1, <3>2, <3>3, <3>4 DEF TypeInv, TypeOK, FinishFlash
  <2>2. Turns'
    BY <1>10 DEF TypeInv, TypeOK, Turns, Quiet, Owes, FinishFlash, Idle
  <2> QED BY <2>1, <2>2 DEF TypeInv
<1>11. CASE CmdBarrier
  <2>1. TypeOK'
    <3>1. /\ ordered' \in Seq(Images \union {Barrier})
          /\ written' \in Seq(Images \union {Barrier, NoImage})
      BY <1>11, AppendType DEF TypeInv, TypeOK, CmdBarrier
    <3>2. {deferred', rx'} \subseteq Kinds \union {"download", "barrier", NoCmd}
      BY <1>11 DEF TypeInv, TypeOK, CmdBarrier, Accepts
    <3>3. UsbTimerStarted' \in BOOLEAN /\ host' \in {"ready", "waiting", "sending"}
      BY <1>11 DEF CmdBarrier, StopUsbTimer, FastbootOkay
    <3> QED BY <1>11, <3>1, <3>2, <3>3 DEF TypeInv, TypeOK, CmdBarrier
  <2>2. Turns'
    BY <1>11 DEF TypeInv, TypeOK, Turns, Quiet, Owes, CmdBarrier, Accepts,
                 FastbootOkay
  <2> QED BY <2>1, <2>2 DEF TypeInv
<1>12. ASSUME NEW i \in Images, ThreadAcquires(i) PROVE TypeInv'
  <2>1. TypeOK'
    <3>1. /\ thread' \in [Images -> {"none", "ready", "flashing", "done"}]
          /\ LockFlash' \in Images \union {NoThread}
          /\ IsFlashComplete' \in BOOLEAN
      BY <1>12 DEF TypeInv, TypeOK, ThreadAcquires
    <3> QED BY <1>12, <3>1 DEF TypeInv, TypeOK, ThreadAcquires
  <2>2. Turns'
    BY <1>12 DEF TypeInv, TypeOK, Turns, Quiet, Owes, ThreadAcquires
  <2> QED BY <2>1, <2>2 DEF TypeInv
<1>13. ASSUME NEW i \in Images, ThreadFinishes(i) PROVE TypeInv'
  <2>1. TypeOK'
    <3>1. written' \in Seq(Images \union {Barrier, NoImage})
      <4>1. buffer[threadBuf[i]] \in Images \union {Barrier, NoImage}
        BY DEF TypeInv, TypeOK
      <4> QED
        BY <1>13, <4>1, AppendType DEF TypeInv, TypeOK, ThreadFinishes
    <3>2. unreported' \in BOOLEAN
      BY <1>13 DEF ThreadFinishes
    <3> QED BY <1>13, <3>1, <3>2 DEF TypeInv, TypeOK, ThreadFinishes
  <2>2. Turns'
    BY <1>13 DEF TypeInv, TypeOK, Turns, Quiet, Owes, ThreadFinishes
  <2> QED BY <2>1, <2>2 DEF TypeInv
<1>14. CASE UNCHANGED vars
  BY <1>14 DEF TypeInv, TypeOK, Turns, Quiet, Owes, vars
<1>15. ASSUME NEW c \in Kinds, CmdFlashRefused(c) PROVE TypeInv'
  <2>1. TypeOK'
    <3>1. mUsbDataBuffer' \in {0, 1}
      BY <1>15, OtherBuffer DEF TypeInv, TypeOK, CmdFlashRefused,
                               ExchangeFlashAndUsbDataBuf
    <3>2. {deferred', rx'} \subseteq Kinds \union {"download", "barrier", NoCmd}
      BY <1>15 DEF TypeInv, TypeOK, CmdFlashRefused, Accepts
    <3>3. /\ UsbTimerStarted' \in BOOLEAN /\ fresh' \in BOOLEAN
          /\ host' \in {"ready", "waiting", "sending"}
      BY <1>15 DEF CmdFlashRefused, StopUsbTimer
    <3> QED
      BY <1>15, <3>1, <3>2, <3>3 DEF TypeInv, TypeOK, CmdFlashRefused
  <2>2. Turns'
    BY <1>15 DEF TypeInv, TypeOK, Turns, Quiet, Owes, CmdFlashRefused, Accepts
  <2> QED BY <2>1, <2>2 DEF TypeInv
<1> QED
  BY <1>1, <1>2, <1>3, <1>4, <1>5, <1>6, <1>7, <1>8, <1>9, <1>10, <1>11,
     <1>12, <1>13, <1>14, <1>15
  DEF Next, HostStep, MainStep, ThreadStep, HandleNoEvent

\* Every variable of the fastboot loop keeps its type, however late flash
\* threads run and whatever fails: no more is downloaded than announced, and
\* nothing is flashed that was not.
THEOREM FlashTypeCorrect == Spec => []TypeOK
<1>1. Init => TypeInv
  BY TypeInvInit
<1>2. TypeInv => TypeOK
  BY DEF TypeInv
<1> QED
  BY <1>1, <1>2, TypeInvStep, PTL DEF Spec

\* Every action keeps FailureKept, without threads.
LEMMA FailureKeptStep ==
  ASSUME ~MultiThread
  PROVE  TypeInv /\ FailureKept /\ [Next]_vars => FailureKept'
<1> SUFFICES ASSUME TypeInv, FailureKept, [Next]_vars PROVE FailureKept'
  OBVIOUS
<1>1. unreported \in BOOLEAN /\ FlashResult \in BOOLEAN
  BY DEF TypeInv, TypeOK
<1>2. ASSUME NEW i \in Images, ThreadAcquires(i) \/ ThreadFinishes(i)
      PROVE  FALSE
  BY <1>2 DEF FailureKept, ThreadAcquires, ThreadFinishes
<1>3. ASSUME NEW c \in Kinds, CmdFlash(c) PROVE FailureKept'
  BY <1>3, <1>1 DEF FailureKept, CmdFlash, FlashInMainThread
<1>4. CASE FinishFlash
  BY <1>4, <1>1 DEF FailureKept, FinishFlash, ResultKept, Idle
<1>5. ASSUME NEW c \in Kinds \union {"download"}, LastFlashFailed(c)
      PROVE  FailureKept'
  BY <1>5, <1>1 DEF FailureKept, LastFlashFailed, FastbootFail
<1>6. CASE AcceptAllData \/ FlashCompleteHandler
  BY <1>6, <1>1 DEF FailureKept, AcceptAllData, FlashCompleteHandler,
                    FastbootFail, flashVars
<1>7. CASE \/ \E c \in Kinds \union {"download", "barrier"} : HostSends(c)
           \/ AcceptCmdTimerInit \/ CmdDownload \/ AcceptSomeData
           \/ CmdFlashGivesUp \/ CmdBarrier \/ UNCHANGED vars
           \/ \E c \in Kinds : CmdFlashRefused(c)
  BY <1>7 DEF FailureKept, HostSends, AcceptCmdTimerInit, CmdDownload,
              AcceptSomeData, CmdFlashGivesUp, CmdFlashRefused, CmdBarrier, vars,
              flashVars
<1> QED
  BY <1>2, <1>3, <1>4, <1>5, <1>6, <1>7
  DEF Next, HostStep, MainStep, ThreadStep, HandleNoEvent

\* Without threads, once a write whose OKAY was sent in advance has failed,
\* CmdFlash accepts no image before a FAIL has been sent.
THEOREM FailureAlwaysStopsFlashing ==
  ASSUME ~MultiThread
  PROVE  Spec => FailureStopsFlashing
<1>1. Init => TypeInv
  BY TypeInvInit
<1>2. Init => FailureKept
  BY DEF Init, FailureKept
<1>3. TypeInv /\ FailureKept /\ [Next]_vars =>
        [unreported /\ ordered' # ordered =>
           ordered'[Len(ordered')] = Barrier]_vars
  <2> SUFFICES ASSUME TypeInv, FailureKept, Next, unreported,
                      ordered' # ordered
               PROVE  ordered'[Len(ordered')] = Barrier
    OBVIOUS
  <2>1. \A c : ~CmdFlash(c)
    BY DEF FailureKept, CmdFlash
  <2>2. CmdBarrier
    BY <2>1 DEF Next, HostStep, HostSends, MainStep, AcceptCmdTimerInit,
         LastFlashFailed, CmdDownload, AcceptSomeData, AcceptAllData,
         FlashCompleteHandler, CmdFlashGivesUp, CmdFlashRefused, FinishFlash,
         ThreadStep,
         ThreadAcquires, ThreadFinishes, HandleNoEvent, vars
  <2>3. ordered \in Seq(Images \union {Barrier})
    BY DEF TypeInv, TypeOK
  <2> QED
    BY <2>2, <2>3 DEF CmdBarrier
<1>4. TypeInv /\ FailureKept /\ [Next]_vars => FailureKept'
  BY FailureKeptStep
<1> QED
  BY <1>1, <1>2, <1>3, <1>4, TypeInvStep, PTL DEF Spec, FailureStopsFlashing

\* Every action keeps Apart, without threads.
LEMMA ApartStep ==
  ASSUME ~MultiThread
  PROVE  TypeInv /\ Apart /\ [Next]_vars => Apart'
<1> SUFFICES ASSUME TypeInv, Apart, [Next]_vars PROVE Apart'
  OBVIOUS
<1>1. ASSUME NEW c \in Kinds, CmdFlash(c) PROVE Apart'
  <2>1. /\ mUsbDataBuffer' = 1 - mUsbDataBuffer /\ thread' = thread
        /\ job'.buf = mUsbDataBuffer
    BY <1>1 DEF CmdFlash, ExchangeFlashAndUsbDataBuf, FlashInMainThread, Job
  <2>2. ~fresh' /\ deferred' = NoCmd
    BY <1>1, KindsAssumption DEF TypeInv, Turns, CmdFlash, Accepts, NoCmd
  <2> QED
    BY <2>1, <2>2, OtherBuffer DEF TypeInv, TypeOK, Apart
<1>2. ASSUME NEW i \in Images, ThreadAcquires(i) \/ ThreadFinishes(i)
      PROVE  FALSE
  BY <1>2 DEF Apart, ThreadAcquires, ThreadFinishes
<1>3. CASE FinishFlash
  BY <1>3 DEF Apart, FinishFlash, StopUsbTimer, Idle
<1>4. CASE \/ \E c \in Kinds \union {"download", "barrier"} : HostSends(c)
           \/ \E c \in Kinds \union {"download"} : LastFlashFailed(c)
           \/ AcceptCmdTimerInit \/ CmdDownload \/ AcceptSomeData
           \/ AcceptAllData \/ FlashCompleteHandler \/ CmdBarrier
           \/ UNCHANGED vars
  BY <1>4 DEF Apart, HostSends, LastFlashFailed, AcceptCmdTimerInit, Accepts,
              CmdDownload, AcceptSomeData, AcceptAllData, FlashCompleteHandler,
              CmdBarrier, StopUsbTimer, vars, usbVars, flashVars, hostVars
<1>5. ~CmdFlashGivesUp
  BY DEF CmdFlashGivesUp
<1>6. ASSUME NEW c \in Kinds, CmdFlashRefused(c) PROVE Apart'
  <2>1. rx = c \/ deferred = c
    BY <1>6 DEF CmdFlashRefused, Accepts
  <2>2. fresh /\ c # NoCmd
    BY <2>1, KindsAssumption DEF TypeInv, Turns, NoCmd
  <2>3. ~job.busy
    BY <1>6, <2>2 DEF Apart, CmdFlashRefused, Accepts, ServesUsb
  <2> QED
    BY <1>6, <2>3 DEF Apart, CmdFlashRefused, flashVars
<1> QED
  BY <1>1, <1>2, <1>3, <1>4, <1>5, <1>6
  DEF Next, HostStep, MainStep, ThreadStep, HandleNoEvent

\* For any number of images, data is never received into the buffer a flash
\* still reads: the buffer CmdFlash hands to HandleSparseImgFlash is not the
\* one CmdDownload fills, in the timer callback, whatever fails, or beside a
\* flash thread that ThreadResume runs at once.
THEOREM BuffersNeverShared ==
  ASSUME MultiThread => PromptThreads
  PROVE  Spec => []BufferNotShared
<1>1. CASE MultiThread
  <2>1. Orderly
    BY <1>1 DEF Orderly
  <2>2. FlashInv => BufferNotShared
    BY DEF FlashInv, Flight, BufferNotShared, TypeOK, NoThread, Images
  <2>3. Spec => []FlashInv
    BY <2>1, FlashInvHolds
  <2> QED
    BY <2>2, <2>3, PTL
<1>2. CASE ~MultiThread
  <2>1. Init => Apart
    BY DEF Init, Apart, Idle
  <2>2. Apart => BufferNotShared
    BY DEF Apart, BufferNotShared
  <2>3. TypeInv /\ Apart /\ [Next]_vars => Apart'
    BY <1>2, ApartStep
  <2> QED
    BY <2>1, <2>2, <2>3, TypeInvInit, TypeInvStep, PTL DEF Spec
<1> QED
  BY <1>1, <1>2

-----------------------------------------------------------------------------
(***************************************************************************)
(* Nobody waits for nothing                                                *)
(***************************************************************************)
\* Somebody writes an image; an image is being received.
Writing == job.busy \/ LockFlash # NoThread
Receiving == mState = "ExpectData"

\* While the host waits, its command is still somewhere or its data is still
\* expected; a flash announced as incomplete, and a lock, have their owner.
Awaited ==
  /\ host # "ready" =>
       rx # NoCmd \/ deferred # NoCmd \/ okayDelayed \/ Owes \/ Receiving
  /\ ~IsFlashComplete => IF MultiThread THEN LockFlash # NoThread ELSE job.busy
  /\ LockDownload => Receiving

\* Only lack of memory and a partition exactly as large as the download
\* buffer make CmdFlash return without an answer.
Answers == Orderly /\ "alloc" \notin Faults /\ "equal" \notin Kinds

\* Every action keeps Awaited.
LEMMA AwaitedStep ==
  ASSUME Answers
  PROVE  FlashInv /\ Awaited /\ [Next]_vars => Awaited'
<1> SUFFICES ASSUME FlashInv, Awaited, [Next]_vars PROVE Awaited'
  OBVIOUS
<1> USE ModeAssumption, KindsAssumption
    DEF Awaited, Writing, Receiving, Owes, NoThread, usbVars, flashVars, hostVars
<1>1. ASSUME NEW c \in Kinds \union {"download", "barrier"}, HostSends(c)
      PROVE  Awaited'
  BY <1>1 DEF HostSends, NoCmd
<1>2. CASE AcceptCmdTimerInit
  BY <1>2 DEF AcceptCmdTimerInit
<1>3. ASSUME NEW c \in Kinds \union {"download"}, LastFlashFailed(c)
      PROVE  Awaited'
  BY <1>3 DEF LastFlashFailed, FastbootFail
<1>4. CASE CmdDownload
  BY <1>4 DEF CmdDownload
<1>5. CASE AcceptSomeData
  BY <1>5 DEF AcceptSomeData
<1>6. CASE AcceptAllData
  BY <1>6 DEF AcceptAllData, FastbootOkay, FastbootFail
<1>7. CASE FlashCompleteHandler
  BY <1>7 DEF FlashCompleteHandler, FastbootOkay, FastbootFail
<1>8. ASSUME NEW c \in Kinds, CmdFlash(c) PROVE Awaited'
  <2>1. ~Receiving
    BY <1>8 DEF FlashInv, Protocol, Quiet, CmdFlash, Accepts, NoCmd
  <2>2. sent \in Images
    BY <1>8 DEF FlashInv, Protocol, CmdFlash, Accepts, NoCmd
  <2>3. sent # 0
    BY <2>2, BoundsAssumption DEF Images
  <2>4. ~IsFlashComplete' =>
          IF MultiThread THEN LockFlash' # NoThread ELSE job'.busy
    <3>1. MultiThread => IsFlashComplete
      BY <1>8 DEF CmdFlash, ExchangeFlashAndUsbDataBuf
    <3> QED
      BY <1>8, <2>3, <3>1 DEF CmdFlash, FlashInMainThread, Job
  <2>5. host' # "ready" => job'.answers /\ job'.busy
    <3>1. (c # "equal") = TRUE
      BY DEF Answers
    <3>2. host' # "ready" => \/ FlashInMainThread(c, TRUE)
                             \/ FlashInMainThread(c, c # "equal")
      BY <1>8 DEF CmdFlash, FastbootOkay
    <3>3. host' # "ready" => job' = Job(mUsbDataBuffer, TRUE, c # "raw")
      BY <3>1, <3>2, Zenon DEF FlashInMainThread
    <3> QED
      BY <3>3 DEF Job
  <2>6. ~LockDownload'
    BY <1>8, <2>1 DEF CmdFlash
  <2> QED
    BY <2>4, <2>5, <2>6
<1>9. ~CmdFlashGivesUp
  BY DEF Answers, CmdFlashGivesUp
<1>10. CASE FinishFlash
  <2>1. LockFlash = NoThread
    BY <1>10 DEF FlashInv, Flight, FinishFlash
  <2>2. ~job.sparse => IsFlashComplete
    BY <1>10, <2>1 DEF FlashInv, Timers, FinishFlash
  <2> QED
    BY <1>10, <2>1, <2>2 DEF FinishFlash, Idle
<1>11. CASE CmdBarrier
  BY <1>11 DEF CmdBarrier, FastbootOkay
<1>12. ASSUME NEW i \in Images, ThreadAcquires(i) PROVE Awaited'
  BY <1>12 DEF FlashInv, Flight, ThreadAcquires
<1>13. ASSUME NEW i \in Images, ThreadFinishes(i) PROVE Awaited'
  BY <1>13 DEF ThreadFinishes
<1>14. CASE UNCHANGED vars
  BY <1>14 DEF vars
<1>15. ASSUME NEW c \in Kinds, CmdFlashRefused(c) PROVE Awaited'
  BY <1>15 DEF CmdFlashRefused
<1> QED
  BY <1>1, <1>2, <1>3, <1>4, <1>5, <1>6, <1>7, <1>8, <1>9, <1>10, <1>11,
     <1>12, <1>13, <1>14, <1>15
  DEF Next, HostStep, MainStep, ThreadStep, HandleNoEvent

\* No command is lost between FastbootOkayDelay, AcceptCmdTimerInit, the
\* deferred CmdFlash and the flash thread, and what they wait for is at work:
\* a host that waits is still owed its answer by one of them, and no flash is
\* announced as incomplete, and no lock held, without its writer or receiver.
THEOREM NobodyWaitsForNothing ==
  ASSUME Answers
  PROVE  Spec => []Awaited
<1>1. Orderly
  BY DEF Answers
<1>2. Spec => []FlashInv
  BY <1>1, FlashInvHolds
<1>3. Init => Awaited
  BY DEF Init, Awaited, Idle
<1> QED
  BY <1>2, <1>3, AwaitedStep, PTL DEF Spec

-----------------------------------------------------------------------------
(***************************************************************************)
(* Everything comes to an end                                              *)
(***************************************************************************)
One(b) == IF b THEN 1 ELSE 0
Cost(c, barrier, other) ==
  IF c = NoCmd THEN 0 ELSE IF c = "barrier" THEN barrier ELSE other

\* What is left to do: for each place of an image or a command on its way, a
\* weight above what the next step can add elsewhere.
Work ==
  17 * (MaxImages - sent) + 3 * (MaxBarriers - barriers)
  + 3 * One(host = "ready") + Cost(rx, 5, 2) + Cost(deferred, 4, 1)
  + 15 * One(Receiving) + One(Receiving /\ buffer[mUsbDataBuffer] # NoImage)
  + 10 * One(fresh) + 7 * One(Writing) + 3 * One(~FlashResult)
  + 4 * One(okayDelayed)

\* Work is a natural number in every typed state.
LEMMA WorkType ==
  ASSUME TypeOK
  PROVE  Work \in Nat
BY BoundsAssumption DEF TypeOK, Work, One, Cost

\* Every step but a stuttering one leaves less work.
LEMMA WorkFalls ==
  ASSUME Orderly
  PROVE  FlashInv /\ [Next]_vars => [Work' < Work]_vars
<1> SUFFICES ASSUME FlashInv, Next, vars' # vars PROVE Work' < Work
  OBVIOUS
<1>0. /\ MaxImages \in Nat /\ MaxBarriers \in Nat
      /\ sent \in Nat /\ barriers \in Nat
  BY BoundsAssumption DEF FlashInv, TypeOK
<1> USE <1>0, KindsAssumption, ModeAssumption
    DEF NoThread, usbVars, flashVars, hostVars
<1>1. ASSUME NEW c \in Kinds \union {"download", "barrier"}, HostSends(c)
      PROVE  Work' < Work
  BY <1>1 DEF FlashInv, Protocol, Quiet, HostSends, NoCmd, Work, One, Cost,
              Receiving, Writing
<1>2. CASE AcceptCmdTimerInit
  BY <1>2 DEF FlashInv, Protocol, AcceptCmdTimerInit, NoCmd, Work, One, Cost,
              Receiving, Writing
<1>3. ASSUME NEW c \in Kinds \union {"download"}, LastFlashFailed(c)
      PROVE  Work' < Work
  BY <1>3 DEF FlashInv, Protocol, LastFlashFailed, FastbootFail, Accepts,
              NoCmd, Work, One, Cost, Receiving, Writing
<1>4. CASE CmdDownload
  BY <1>4 DEF FlashInv, Protocol, CmdDownload, Accepts, NoCmd, Work, One, Cost,
              Receiving, Writing
<1>5. CASE AcceptSomeData
  BY <1>5 DEF FlashInv, TypeOK, AcceptSomeData, Work, One, Cost, Receiving,
              Writing
<1>6. CASE AcceptAllData
  BY <1>6 DEF FlashInv, Protocol, Quiet, AcceptAllData, FastbootOkay,
              FastbootFail, Work, One, Cost, Receiving, Writing
<1>7. CASE FlashCompleteHandler
  BY <1>7 DEF FlashInv, Protocol, Quiet, FlashCompleteHandler, FastbootOkay,
              FastbootFail, Work, One, Cost, Receiving, Writing
<1>8. ASSUME NEW c \in Kinds, CmdFlash(c) PROVE Work' < Work
  BY <1>8 DEF FlashInv, Protocol, CmdFlash, Accepts, NoCmd, FastbootOkay,
              FlashInMainThread, Job, Work, One, Cost, Receiving, Writing
<1>9. CASE CmdFlashGivesUp
  BY <1>9 DEF FlashInv, Protocol, CmdFlashGivesUp, Accepts, NoCmd, Work, One,
              Cost, Receiving, Writing
<1>10. CASE FinishFlash
  BY <1>10 DEF FlashInv, Protocol, Flight, Owes, Quiet, FinishFlash, Idle,
               ResultKept, WriteResults, Work, One, Cost, Receiving, Writing
<1>11. CASE CmdBarrier
  BY <1>11 DEF FlashInv, Protocol, CmdBarrier, Accepts, NoCmd, FastbootOkay,
               Work, One, Cost, Receiving, Writing
<1>12. ASSUME NEW i \in Images, ThreadAcquires(i) PROVE Work' < Work
  BY <1>12 DEF FlashInv, Flight, ThreadAcquires
<1>13. ASSUME NEW i \in Images, ThreadFinishes(i) PROVE Work' < Work
  <2>1. LockFlash # NoThread
    BY <1>13, BoundsAssumption DEF FlashInv, Flight, ThreadFinishes, Images
  <2>2. ~job.busy
    BY <2>1 DEF FlashInv, Flight
  <2> QED
    BY <1>13, <2>1, <2>2 DEF ThreadFinishes, Work, One, Cost, Receiving, Writing
<1>14. ASSUME NEW c \in Kinds, CmdFlashRefused(c) PROVE Work' < Work
  BY <1>14 DEF FlashInv, Protocol, CmdFlashRefused, Accepts, NoCmd, Work, One,
               Cost, Receiving, Writing
<1> QED
  BY <1>1, <1>2, <1>3, <1>4, <1>5, <1>6, <1>7, <1>8, <1>9, <1>10, <1>11,
     <1>12, <1>13, <1>14
  DEF Next, HostStep, MainStep, ThreadStep, HandleNoEvent

\* The whole of the work: what MaxImages images and MaxBarriers commands give.
AllWork == 17 * MaxImages + 3 * MaxBarriers + 3

\* Flashing cannot go round in circles: commands are put off and taken up
\* again (AcceptCmdTimerInit), answers delayed (FastbootOkayDelay), flashes
\* failed and images written late, and yet every step leaves less to do than
\* the one before, so that at most AllWork steps follow the start of the loop.
\* (A timer that fires too early and is armed again is a stuttering step.)
THEOREM EveryStepCounts ==
  ASSUME Orderly
  PROVE  Spec => [](Work \in 0..AllWork) /\ [][Work' < Work]_vars
<1>1. FlashInv /\ [Next]_vars => [Work' < Work]_vars
  BY WorkFalls
<1>2. Init => Work <= AllWork
  BY BoundsAssumption
  DEF Init, Idle, Work, AllWork, One, Cost, Receiving, Writing, NoThread
<1>3. AllWork \in Nat
  BY BoundsAssumption DEF AllWork
<1>4. FlashInv => Work \in Nat
  BY WorkType DEF FlashInv
<1>5. FlashInv' => (Work \in Nat)'
  BY <1>4, PTL
<1>6. FlashInv /\ Work <= AllWork => Work \in 0..AllWork
  BY <1>3, <1>4
<1>7. FlashInv /\ FlashInv' /\ Work <= AllWork /\ [Next]_vars =>
        (Work <= AllWork)'
  <2> SUFFICES ASSUME FlashInv, FlashInv', Work <= AllWork, [Next]_vars
               PROVE  Work' <= AllWork
    BY DEF AllWork
  <2>1. Work \in Nat /\ Work' \in Nat
    BY <1>4, <1>5
  <2>2. CASE vars' = vars
    <3>1. Work' = Work
      BY <2>2 DEF Work, One, Cost, Receiving, Writing, vars, usbVars,
                  flashVars, hostVars
    <3> QED
      BY <3>1
  <2>3. CASE Work' < Work
    BY <2>1, <2>3, <1>3
  <2> QED
    BY <1>1, <2>2, <2>3
<1> QED
  BY <1>1, <1>2, <1>6, <1>7, FlashInvHolds, PTL DEF Spec

=============================================================================
