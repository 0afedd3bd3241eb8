--------------------------- MODULE FastbootFlash ---------------------------
(***************************************************************************)
(* Parallel download and flash in FastbootLib/FastbootCmds.c: while one    *)
(* image is written from mFlashDataBuffer, the next one is received into   *)
(* mUsbDataBuffer. With a kernel protocol the writing is done by a thread  *)
(* of its own (MultiThread); without one the main thread writes, and a     *)
(* timer callback serves USB meanwhile.                                    *)
(*                                                                         *)
(* An image is its number in the order of download. A partition is larger  *)
(* than the download buffer ("big"), exactly as large ("equal") or smaller *)
(* ("small"), all three for sparse images, or the image is not sparse      *)
(* ("raw").                                                                *)
(***************************************************************************)
EXTENDS Naturals, Sequences

CONSTANTS
  MultiThread,    \* IsUseMThreadParallel
  PromptThreads,  \* does ThreadResume run the new thread at once?
  MaxImages,      \* bound: images the host downloads
  MaxBarriers,    \* bound: commands that call WaitForFlashFinished
  Kinds,          \* the flash commands the host uses
  Faults          \* what may fail: "write" (to a partition), "create" (a
                  \* thread, or the timers of CmdFlash and FastbootOkayDelay),
                  \* "alloc" (ThreadFlashInfo, AcceptCmdTimerInit)

Images == 1..MaxImages
Barrier == 0
NoImage == MaxImages + 1     \* an empty or half-filled buffer
NoThread == 0

ASSUME BoundsAssumption == MaxImages \in Nat /\ MaxBarriers \in Nat
ASSUME ModeAssumption == MultiThread \in BOOLEAN /\ PromptThreads \in BOOLEAN
ASSUME FaultsAssumption == Faults \subseteq {"write", "create", "alloc"}
ASSUME KindsAssumption == Kinds \subseteq {"big", "equal", "small", "raw"}

VARIABLES
  mState,           \* "ExpectCmd" or "ExpectData"
  mUsbDataBuffer,   \* 0 or 1; mFlashDataBuffer is the other one
  buffer,           \* the image in each buffer
  IsFlashComplete,
  FlashResult,      \* TRUE for EFI_SUCCESS
  UsbTimerStarted,
  LockDownload,     \* held?
  LockFlash,        \* the thread that holds it, or NoThread
  thread,           \* per image, its SparseImgFlashThread
  threadBuf,        \* per image, ThreadFlashInfo->FlashDataBuffer
  job,              \* the flash the main thread is busy with
  deferred,         \* a command waiting in AcceptCmdHandler's timer
  okayDelayed,      \* FlashCompleteHandler is armed
  rx,               \* a command received and not yet accepted
  host,             \* "ready", "waiting" for an answer, or "sending" data
  sent, fresh,      \* images downloaded; is the last one still to be flashed?
  barriers,
  ordered, written, \* history, see FlashQueue
  unreported        \* history: a flash failed and no FAIL was sent since

usbVars == <<mState, mUsbDataBuffer, buffer, UsbTimerStarted, LockDownload>>
flashVars == <<IsFlashComplete, FlashResult, LockFlash, thread, threadBuf, job>>
hostVars == <<host, sent, fresh, barriers>>
vars == <<usbVars, flashVars, deferred, okayDelayed, rx, hostVars,
          ordered, written, unreported>>

NoCmd == "none"
Idle == [busy |-> FALSE, buf |-> 0, answers |-> FALSE, sparse |-> FALSE]
Job(b, answers, sparse) ==
  [busy |-> TRUE, buf |-> b, answers |-> answers, sparse |-> sparse]

Init ==
  /\ mState = "ExpectCmd" /\ mUsbDataBuffer = 0
  /\ buffer = [b \in {0, 1} |-> NoImage]
  /\ IsFlashComplete = TRUE /\ FlashResult = TRUE
  /\ UsbTimerStarted = FALSE /\ LockDownload = FALSE /\ LockFlash = NoThread
  /\ thread = [i \in Images |-> "none"] /\ threadBuf = [i \in Images |-> 0]
  /\ job = Idle /\ deferred = NoCmd /\ okayDelayed = FALSE
  /\ rx = NoCmd /\ host = "ready" /\ sent = 0 /\ fresh = FALSE
  /\ barriers = 0
  /\ ordered = << >> /\ written = << >> /\ unreported = FALSE

-----------------------------------------------------------------------------
(***************************************************************************)
(* The host: one command at a time, the next one after the answer.         *)
(***************************************************************************)
HostSends(c) ==
  /\ host = "ready"
  /\ \/ c = "download" /\ sent < MaxImages /\ UNCHANGED barriers
     \/ c \in Kinds /\ fresh /\ UNCHANGED barriers
     \/ c = "barrier" /\ barriers < MaxBarriers /\ barriers' = barriers + 1
  /\ host' = "waiting" /\ rx' = c
  /\ UNCHANGED <<usbVars, flashVars, deferred, okayDelayed, sent, fresh,
                 ordered, written, unreported>>

\* FastbootOkay and FastbootFail.
FastbootOkay == host' = "ready"
FastbootFail == host' = "ready" /\ unreported' = FALSE

-----------------------------------------------------------------------------
(***************************************************************************)
(* Accepting commands and data                                             *)
(***************************************************************************)
\* HandleUsbEvents runs in the main loop, or in the timer callback while the
\* main thread writes an image.
ServesUsb == ~job.busy \/ (~MultiThread /\ UsbTimerStarted)

\* The command AcceptCmd runs: one just received, or the deferred one when
\* its timer finds the flash complete. (A timer that fires too early only
\* arms the next one.) A command that cannot be put off is run at once.
Accepts(c) ==
  \/ /\ rx = c /\ ServesUsb
     /\ MultiThread \/ c = "download" \/ IsFlashComplete \/ "alloc" \in Faults
     /\ rx' = NoCmd /\ UNCHANGED deferred
  \/ /\ deferred = c /\ IsFlashComplete
     /\ deferred' = NoCmd /\ UNCHANGED rx

\* Any command but download stops the timer that serves USB.
StopUsbTimer == UsbTimerStarted' = FALSE

\* AcceptCmd puts the command off while the main thread writes.
AcceptCmdTimerInit ==
  /\ ~MultiThread /\ ServesUsb /\ ~IsFlashComplete
  /\ rx \notin {NoCmd, "download"}
  /\ deferred' = rx /\ rx' = NoCmd
  /\ StopUsbTimer
  /\ UNCHANGED <<mState, mUsbDataBuffer, buffer, LockDownload, flashVars,
                 okayDelayed, hostVars, ordered, written, unreported>>

\* AcceptCmd answers FAIL to flash and download when the last flash failed.
LastFlashFailed(c) ==
  /\ c \in Kinds \union {"download"}
  /\ Accepts(c)
  /\ ~FlashResult /\ FlashResult' = TRUE
  /\ FastbootFail
  /\ IF c = "download" THEN UNCHANGED UsbTimerStarted ELSE StopUsbTimer
  /\ UNCHANGED <<mState, mUsbDataBuffer, buffer, LockDownload,
                 IsFlashComplete, LockFlash, thread, threadBuf, job,
                 okayDelayed, sent, fresh, barriers, ordered, written>>

CmdDownload ==
  /\ Accepts("download") /\ FlashResult
  /\ MultiThread => ~LockDownload
  /\ LockDownload' = MultiThread
  /\ mState' = "ExpectData"
  /\ host' = "sending" /\ sent' = sent + 1 /\ fresh' = FALSE
  /\ UNCHANGED <<mUsbDataBuffer, buffer, UsbTimerStarted, flashVars,
                 okayDelayed, barriers, ordered, written, unreported>>

\* AcceptData before the last transfer: the buffer holds half an image.
AcceptSomeData ==
  /\ mState = "ExpectData" /\ ServesUsb
  /\ buffer[mUsbDataBuffer] # NoImage
  /\ buffer' = [buffer EXCEPT ![mUsbDataBuffer] = NoImage]
  /\ UNCHANGED <<mState, mUsbDataBuffer, UsbTimerStarted, LockDownload,
                 flashVars, deferred, okayDelayed, rx, hostVars,
                 ordered, written, unreported>>

\* AcceptData with the last one. Without threads the OKAY waits for the
\* image being written (FastbootOkayDelay), or becomes a FAIL when there is
\* no timer to wait with.
AcceptAllData ==
  /\ mState = "ExpectData" /\ ServesUsb
  /\ buffer' = [buffer EXCEPT ![mUsbDataBuffer] = sent]
  /\ mState' = "ExpectCmd" /\ LockDownload' = FALSE
  /\ fresh' = TRUE
  /\ \/ /\ MultiThread /\ FastbootOkay
        /\ UNCHANGED <<UsbTimerStarted, okayDelayed, unreported>>
     \/ /\ ~MultiThread /\ StopUsbTimer
        /\ okayDelayed' = TRUE /\ host' = "waiting"
        /\ UNCHANGED unreported
     \/ /\ ~MultiThread /\ "create" \in Faults /\ StopUsbTimer
        /\ FastbootFail /\ UNCHANGED okayDelayed
  /\ UNCHANGED <<mUsbDataBuffer, flashVars, deferred, rx, sent, barriers,
                 ordered, written>>

\* Mutant of FlashCompleteHandler: the timer is not armed again.
FlashCompleteHandler_Once ==
  /\ okayDelayed
  /\ okayDelayed' = FALSE
  /\ host' = IF IsFlashComplete THEN "ready" ELSE host
  /\ UNCHANGED <<usbVars, flashVars, deferred, rx, sent, fresh, barriers,
                 ordered, written, unreported>>

\* The timer is armed again and again until the image is written, or cannot
\* be armed any more.
FlashCompleteHandler ==
  /\ okayDelayed
  /\ okayDelayed' = FALSE
  /\ \/ IsFlashComplete /\ FastbootOkay /\ UNCHANGED unreported
     \/ ~IsFlashComplete /\ "create" \in Faults /\ FastbootFail
  /\ UNCHANGED <<usbVars, flashVars, deferred, rx, sent, fresh, barriers,
                 ordered, written>>

-----------------------------------------------------------------------------
\* HandleSparseImgFlash, HandleRawImgFlash and the like.
WriteResults == IF "write" \in Faults THEN BOOLEAN ELSE {TRUE}

(***************************************************************************)
(* flash                                                                   *)
(***************************************************************************)
\* Mutants of ExchangeFlashAndUsbDataBuf: without the locks; without the
\* swap; taking the next buffer instead of the other one.
ExchangeFlashAndUsbDataBuf_Unlocked == mUsbDataBuffer' = 1 - mUsbDataBuffer
ExchangeFlashAndUsbDataBuf_Keeps ==
  /\ MultiThread => ~LockDownload /\ LockFlash = NoThread
  /\ UNCHANGED mUsbDataBuffer
ExchangeFlashAndUsbDataBuf_Next ==
  /\ MultiThread => ~LockDownload /\ LockFlash = NoThread
  /\ mUsbDataBuffer' = mUsbDataBuffer + 1

\* ExchangeFlashAndUsbDataBuf: takes both locks, so it waits for a thread
\* that is writing; then the filled buffer is the flash buffer.
ExchangeFlashAndUsbDataBuf ==
  /\ MultiThread => ~LockDownload /\ LockFlash = NoThread
  /\ mUsbDataBuffer' = 1 - mUsbDataBuffer

\* Mutant of FlashInMainThread: no fallback, the image is forgotten.
FlashInMainThread_Forgets(c, answers) ==
  UNCHANGED <<job, LockFlash, thread, threadBuf>>

\* The main thread starts to write the image itself. It will answer itself
\* unless the image was promised already or the partition is exactly as
\* large as the download buffer.
FlashInMainThread(c, answers) ==
  /\ job' = Job(mUsbDataBuffer, answers, c # "raw")
  /\ UNCHANGED <<LockFlash, thread, threadBuf>>

\* CmdFlash up to the point where the image is being written.
CmdFlash(c) ==
  /\ c \in Kinds
  /\ Accepts(c) /\ FlashResult
  /\ ExchangeFlashAndUsbDataBuf
  /\ fresh' = FALSE /\ ordered' = Append(ordered, sent)
  /\ \/ \* the writing is left to a thread, or the timer serves USB
        /\ c = "big"
        /\ FastbootOkay
        /\ UsbTimerStarted' = ~MultiThread
        /\ IF MultiThread
           THEN /\ thread' = [thread EXCEPT
                     ![sent] = IF PromptThreads THEN "flashing" ELSE "ready"]
                /\ threadBuf' = [threadBuf EXCEPT ![sent] = mUsbDataBuffer]
                /\ LockFlash' = IF PromptThreads THEN sent ELSE LockFlash
                /\ IsFlashComplete' = (IsFlashComplete /\ ~PromptThreads)
                /\ UNCHANGED job
           ELSE IsFlashComplete' = FALSE /\ FlashInMainThread(c, FALSE)
     \/ \* thread or timer creation failed: write now, answer afterwards
        /\ c = "big" /\ "create" \in Faults
        /\ FlashInMainThread(c, TRUE)
        /\ StopUsbTimer
        /\ UNCHANGED <<IsFlashComplete, host>>
     \/ /\ c # "big"
        /\ FlashInMainThread(c, c # "equal")
        /\ StopUsbTimer
        /\ UNCHANGED <<IsFlashComplete, host>>
  /\ UNCHANGED <<mState, buffer, LockDownload, FlashResult, okayDelayed, sent,
                 barriers, written, unreported>>

\* CmdFlash answers FAIL before it writes anything (locked device, merging
\* snapshot, no such partition), but after the swap. This FAIL says nothing of
\* an earlier image.
CmdFlashRefused(c) ==
  /\ c \in Kinds
  /\ Accepts(c) /\ FlashResult
  /\ ExchangeFlashAndUsbDataBuf
  /\ fresh' = FALSE /\ host' = "ready"
  /\ StopUsbTimer
  /\ UNCHANGED <<mState, buffer, LockDownload, flashVars, okayDelayed, sent,
                 barriers, ordered, written, unreported>>

\* There is no memory for ThreadFlashInfo: CmdFlash returns without a word.
CmdFlashGivesUp ==
  /\ MultiThread /\ "alloc" \in Faults /\ "big" \in Kinds
  /\ Accepts("big") /\ FlashResult
  /\ ExchangeFlashAndUsbDataBuf
  /\ fresh' = FALSE
  /\ StopUsbTimer
  /\ UNCHANGED <<mState, buffer, LockDownload, flashVars, okayDelayed, host,
                 sent, barriers, ordered, written, unreported>>

\* Mutant of ResultKept: a failure is forgotten.
ResultKept_Never(ok, answers) == TRUE

\* FlashResult after CmdFlash: a failure that was answered is reset.
ResultKept(ok, answers) == ok \/ answers

\* The rest of CmdFlash once the image is written by the main thread.
FinishFlash ==
  /\ job.busy
  /\ written' = Append(written, buffer[job.buf])
  /\ \E ok \in WriteResults :
       /\ FlashResult' = ResultKept(ok, job.answers)
       /\ unreported' = IF ok THEN unreported ELSE ~job.answers
  /\ IF job.answers THEN host' = "ready" ELSE UNCHANGED host
  /\ IF job.sparse THEN IsFlashComplete' = TRUE /\ StopUsbTimer
     ELSE UNCHANGED <<IsFlashComplete, UsbTimerStarted>>
  /\ job' = Idle
  /\ UNCHANGED <<mState, mUsbDataBuffer, buffer, LockDownload, LockFlash,
                 thread, threadBuf, deferred, okayDelayed, rx, sent, fresh,
                 barriers, ordered>>

-----------------------------------------------------------------------------
(***************************************************************************)
(* SparseImgFlashThread                                                    *)
(***************************************************************************)
ThreadAcquires(i) ==
  /\ thread[i] = "ready" /\ LockFlash = NoThread
  /\ thread' = [thread EXCEPT ![i] = "flashing"]
  /\ LockFlash' = i /\ IsFlashComplete' = FALSE
  /\ UNCHANGED <<usbVars, FlashResult, threadBuf, job, deferred, okayDelayed,
                 rx, hostVars, ordered, written, unreported>>

\* Mutant of ThreadFinishes: the thread exits without releasing the lock.
ThreadFinishes_KeepsLock(i) ==
  /\ thread[i] = "flashing"
  /\ written' = Append(written, buffer[threadBuf[i]])
  /\ thread' = [thread EXCEPT ![i] = "done"]
  /\ IsFlashComplete' = TRUE
  /\ UNCHANGED <<usbVars, FlashResult, LockFlash, threadBuf, job, deferred,
                 okayDelayed, rx, hostVars, ordered, unreported>>

\* The result of HandleSparseImgFlash is dropped.
ThreadFinishes(i) ==
  /\ thread[i] = "flashing"
  /\ \E ok \in WriteResults : unreported' = (unreported \/ ~ok)
  /\ written' = Append(written, buffer[threadBuf[i]])
  /\ thread' = [thread EXCEPT ![i] = "done"]
  /\ LockFlash' = NoThread /\ IsFlashComplete' = TRUE
  /\ UNCHANGED <<usbVars, FlashResult, threadBuf, job, deferred, okayDelayed,
                 rx, hostVars, ordered>>

-----------------------------------------------------------------------------
\* erase, continue, reboot and the other callers of WaitForFlashFinished.
CmdBarrier ==
  /\ Accepts("barrier")
  /\ MultiThread /\ ~IsFlashComplete => LockFlash = NoThread
  /\ StopUsbTimer
  /\ FastbootOkay
  /\ ordered' = Append(ordered, Barrier)
  /\ written' = Append(written, Barrier)
  /\ UNCHANGED <<mState, mUsbDataBuffer, buffer, LockDownload, flashVars,
                 okayDelayed, sent, fresh, barriers, unreported>>

\* The loop of FastbootInitialize finds no USB event.
HandleNoEvent == ~job.busy /\ UNCHANGED vars

HostStep == \E c \in Kinds \union {"download", "barrier"} : HostSends(c)
MainStep ==
  \/ AcceptCmdTimerInit
  \/ \E c \in Kinds \union {"download"} : LastFlashFailed(c)
  \/ CmdDownload
  \/ AcceptSomeData
  \/ AcceptAllData
  \/ FlashCompleteHandler
  \/ \E c \in Kinds : CmdFlash(c) \/ CmdFlashRefused(c)
  \/ CmdFlashGivesUp
  \/ FinishFlash
  \/ CmdBarrier
ThreadStep == \E i \in Images : ThreadAcquires(i) \/ ThreadFinishes(i)

Next == HostStep \/ MainStep \/ ThreadStep \/ HandleNoEvent

Spec == Init /\ [][Next]_vars

\* The USB loop and its callbacks keep running, the host sends the data it
\* announced, and the kernel runs every thread that can run; the host need
\* not send a command.
FairSpec ==
  /\ Spec
  /\ WF_vars(MainStep)
  /\ \A i \in Images : WF_vars(ThreadAcquires(i) \/ ThreadFinishes(i))

-----------------------------------------------------------------------------
(***************************************************************************)
(* Properties                                                              *)
(***************************************************************************)
\* The type invariant of the fastboot loop and its flash threads.
TypeOK ==
  /\ mState \in {"ExpectCmd", "ExpectData"} /\ mUsbDataBuffer \in {0, 1}
  /\ buffer \in [{0, 1} -> Images \union {NoImage}]
  /\ IsFlashComplete \in BOOLEAN /\ FlashResult \in BOOLEAN
  /\ UsbTimerStarted \in BOOLEAN /\ LockDownload \in BOOLEAN
  /\ LockFlash \in Images \union {NoThread}
  /\ thread \in [Images -> {"none", "ready", "flashing", "done"}]
  /\ threadBuf \in [Images -> {0, 1}]
  /\ job \in [busy : BOOLEAN, buf : {0, 1}, answers : BOOLEAN, sparse : BOOLEAN]
  /\ {deferred, rx} \subseteq Kinds \union {"download", "barrier", NoCmd}
  /\ okayDelayed \in BOOLEAN /\ host \in {"ready", "waiting", "sending"}
  /\ sent \in 0..MaxImages /\ fresh \in BOOLEAN /\ barriers \in 0..MaxBarriers
  /\ ordered \in Seq(Images \union {Barrier})
  /\ written \in Seq(Images \union {Barrier, NoImage})
  /\ unreported \in BOOLEAN

\* While data is being received, whoever writes an image - the main thread
\* below the timer callback, or a flash thread - reads the other buffer: the
\* swap in CmdFlash and the locks keep download and flash apart.
BufferNotShared ==
  mState = "ExpectData" =>
    /\ job.busy => job.buf # mUsbDataBuffer
    /\ \A i \in Images : thread[i] = "flashing" => threadBuf[i] # mUsbDataBuffer

Queue == INSTANCE FlashQueue WITH Items <- Images

\* Parallel download and flash is a queue of length one: every image is
\* written whole, once and in the host's order, though the next one arrives
\* meanwhile, and erase, continue and reboot find everything written.
ImplementsQueue == Queue!Spec

\* Without threads: after a write whose OKAY was sent in advance has failed,
\* no further image is accepted before the host has been sent a FAIL.
FailureStopsFlashing ==
  [][unreported /\ ordered' # ordered => ordered'[Len(ordered')] = Barrier]_vars

\* Every command gets its OKAY or FAIL, however the answers put off by
\* FastbootOkayDelay and AcceptCmdTimerInit and the locks wait for writing.
Answered == host # "ready" ~> host = "ready"

In(i, seq) == \E k \in 1..Len(seq) : seq[k] = i

\* Every image whose flash command was accepted is written in the end.
AllWritten == \A i \in Images : In(i, ordered) ~> In(i, written)

-----------------------------------------------------------------------------
(***************************************************************************)
(* What comments of the code promise, and the code does not keep.          *)
(***************************************************************************)
\* "Shoud block command until flash finished" (WaitForFlashFinished): a
\* command that calls it finds every accepted image written.
BarrierWaits ==
  [][ordered' = Append(ordered, Barrier) => written = ordered]_vars
=============================================================================
