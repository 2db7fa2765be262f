-------------------------- MODULE WebPDecoderProofs --------------------------
(***************************************************************************)
(* Proofs about WebPDecoder, for pictures of any height, with any cropping *)
(* and filter, with or without a worker, and for any number of spurious    *)
(* wakeups and of pauses in the data.                                      *)
(***************************************************************************)
EXTENDS WebPDecoder, TLAPS, SequenceTheorems

(* What is fixed with setup(): the rows to decode and the parts of the cache. *)
LEMMA MinOfTwo ==
  ASSUME NEW a \in Int, NEW b \in Int
  PROVE  Min({a, b}) \in {a, b} /\ Min({a, b}) <= a /\ Min({a, b}) <= b
<1>1. \E x \in {a, b} : \A y \in {a, b} : x <= y
  <2>1. CASE a <= b
    BY <2>1
  <2>2. CASE ~(a <= b)
    <3>1. b <= a
      BY <2>2
    <3> QED
      BY <3>1
  <2> QED
    BY <2>1, <2>2
<1>2. Min({a, b}) = CHOOSE x \in {a, b} : \A y \in {a, b} : x <= y
  BY DEF Min
<1>3. Min({a, b}) \in {a, b} /\ \A y \in {a, b} : Min({a, b}) <= y
  BY <1>1, <1>2
<1> QED
  BY <1>3

LEMMA BottomRowRange ==
  ASSUME NEW filter \in 0 .. 2, NEW bottom \in 1 .. 2 * Rows
  PROVE  BottomRow(filter, bottom) \in 1 .. Rows
<1> DEFINE half == (bottom + 1 + Extra(filter)) \div 2
<1>1. Rows \in Int /\ Rows >= 1
  BY RowsAssumption
<1>2. half \in Int /\ half >= 1
  BY <1>1 DEF Extra
<1>3. BottomRow(filter, bottom) = Min({Rows, half})
  BY DEF BottomRow
<1>4. /\ BottomRow(filter, bottom) \in {Rows, half}
      /\ BottomRow(filter, bottom) <= Rows
  BY <1>1, <1>2, <1>3, MinOfTwo
<1> QED
  BY <1>1, <1>2, <1>4

LEMMA ConfigFacts ==
  ASSUME NEW c \in Configs
  PROVE  /\ c.caches \in 1 .. 3
         /\ c.method \in {0, 2} /\ (c.method = 0 => c.caches = 1)
         /\ c.br \in 1 .. Rows
         /\ c.incremental \in BOOLEAN
<1>1. PICK m \in {0, 2}, f \in 0 .. 2, i \in BOOLEAN,
           t \in 0 .. 2 * Rows - 1, b \in 1 .. 2 * Rows :
        c = [method |-> m, filter |-> f, top |-> t, bottom |-> b, incremental |-> i,
             tl |-> TopRow(f, t), br |-> BottomRow(f, b), caches |-> NumCaches(m, f)]
  BY DEF Configs
<1>2. c.caches = NumCaches(m, f) /\ c.br = BottomRow(f, b) /\ c.method = m
      /\ c.incremental = i
  BY <1>1
<1>3. NumCaches(m, f) \in 1 .. 3 /\ (m = 0 => NumCaches(m, f) = 1)
  BY DEF NumCaches
<1> QED
  BY <1>2, <1>3, BottomRowRange

LEMMA LastRowRange ==
  ASSUME config \in Configs
  PROVE  LastRow \in 1 .. Rows
BY ConfigFacts, RowsAssumption DEF LastRow

LEMMA Counted == \A n \in Nat : n + 1 \in Nat
OBVIOUS

LEMMA Once == \A t : t = 0 => t + 1 = 1 /\ t + 1 \in 0 .. 1
OBVIOUS

-----------------------------------------------------------------------------
USE DEF Threads, MainPlaces, WorkerPlaces, HasThread, Go, Executing,
        WorkerTypeOK, MutexHeld, RowTypeOK, CallTypeOK, workerVars, rowVars,
        callVars, Threaded, GoTo, GiveUp, Rest

(* What a step may do to the worker, to the rows, and to a deleted picture. *)
LEMMA WorkerSteps ==
  ASSUME TypeOK, Handshake, Next
  PROVE  \/ UNCHANGED workerVars
         \/ /\ Return
            /\ UNCHANGED <<status, had_error, holder, waiters, target, spurious>>
         \/ \E s \in {"OK", "WORK", "NOT_OK"} : Call(s)
         \/ ResetOk /\ pc["worker"] = "none"
         \/ ResetFails \/ Main \/ Worker \/ SpuriousWakeup
         \/ \E ok \in BOOLEAN : JobDone(ok)
<1>1. CASE Setup \/ Parse \/ ParseError \/ ReconstructHere \/ FinishHere
           \/ Step \/ Teardown
           \/ AppendData \/ Delete
  BY <1>1
     DEF Setup, Parse, ParseError, ReconstructHere, FinishHere, Step, Teardown,
         AppendData, Delete
<1>2. CASE InitFrame
  BY <1>2 DEF InitFrame, Handshake, CallsInv
<1>3. CASE Process \/ OutOfData \/ Launch \/ LastSync \/ ExitCritical \/ Clear
  BY <1>3 DEF Process, OutOfData, Launch, LastSync, ExitCritical, Clear
<1>4. CASE Suspend \/ Synced \/ Launched \/ AfterLastSync \/ ExitSync \/ Cleared
  BY <1>4 DEF Suspend, Synced, Launched, AfterLastSync, ExitSync, Cleared
<1>5. CASE InChangeState \/ ThreadLoop \/ WakeForNothing \/ WorkerReconstruct
           \/ WorkerFinish \/ Gone
  BY <1>5
     DEF InChangeState, ThreadLoop, WakeForNothing, WorkerReconstruct,
         WorkerFinish, Gone, vars
<1> QED
  BY <1>1, <1>2, <1>3, <1>4, <1>5 DEF Next, Caller

(* Types, kept by every step.  The mutex needs no more than that: who enters
   finds it free. *)
LEMMA WorkerTyping ==
  ASSUME TypeOK, Handshake, Next
  PROVE  WorkerTypeOK' /\ MutexHeld'
<1> USE DEF TypeOK
<1>1. CASE UNCHANGED workerVars
  BY <1>1
<1>2. CASE /\ Return
           /\ UNCHANGED <<status, had_error, holder, waiters, target, spurious>>
  <2>1. /\ pc["main"] = "returned" /\ pc' = [pc EXCEPT !["main"] = "idle"]
        /\ UNCHANGED <<status, had_error, holder, waiters, target, spurious>>
    BY <1>2 DEF Return
  <2>2. WorkerTypeOK'
    BY <2>1
  <2>3. MutexHeld'
    BY <2>1
  <2> QED
    BY <2>2, <2>3
<1>3. CASE \E s \in {"OK", "WORK", "NOT_OK"} : Call(s)
  BY <1>3 DEF Call
<1>4. CASE (ResetOk /\ pc["worker"] = "none") \/ ResetFails
  BY <1>4 DEF ResetOk, ResetFails
<1>5. ASSUME NEW t \in Threads, Acquire(t)
      PROVE  WorkerTypeOK' /\ MutexHeld'
  <2>1. /\ pc' = [pc EXCEPT ![t] = "check"] /\ holder = {} /\ holder' = {t}
        /\ UNCHANGED <<status, had_error, waiters, target, spurious>>
    BY <1>5 DEF Acquire
  <2>2. WorkerTypeOK'
    BY <2>1
  <2>3. \A u \in Threads : pc[u] \notin {"check", "execute"}
    BY <2>1
  <2>4. MutexHeld'
    BY <2>1, <2>3
  <2> QED
    BY <2>2, <2>4
<1>6. CASE MainCheck
  <2>1. \/ waiters' = waiters \cup {"main"} /\ pc' = [pc EXCEPT !["main"] = "wait"]
           /\ UNCHANGED status
        \/ waiters' = waiters /\ pc' = [pc EXCEPT !["main"] = "signal"]
           /\ status' = target
        \/ waiters' = waiters /\ pc' = [pc EXCEPT !["main"] = "returned"]
           /\ UNCHANGED status
    BY <1>6 DEF MainCheck, Wait
  <2>2. /\ pc["main"] = "check" /\ holder' = {}
        /\ UNCHANGED <<had_error, target, spurious>>
    BY <1>6 DEF MainCheck, Wait
  <2>3. WorkerTypeOK'
    BY <2>1, <2>2
  <2>4. holder = {"main"} /\ pc["worker"] \notin {"check", "execute"}
    BY <2>2
  <2>5. MutexHeld'
    BY <2>1, <2>2, <2>4
  <2> QED
    BY <2>3, <2>5
<1>7. CASE MainSignal \/ WorkerSignal
  <2>1. /\ waiters' \in SUBSET waiters
        /\ UNCHANGED <<status, had_error, holder, target, spurious>>
    BY <1>7 DEF MainSignal, WorkerSignal, Wake
  <2>2. \/ /\ pc["main"] = "signal"
           /\ \/ pc' = [pc EXCEPT !["main"] = "join"]
              \/ pc' = [pc EXCEPT !["main"] = "returned"]
        \/ /\ pc["worker"] \in {"signal", "last signal"}
           /\ \/ pc' = [pc EXCEPT !["worker"] = "start"]
              \/ pc' = [pc EXCEPT !["worker"] = "finished"]
    BY <1>7 DEF MainSignal, WorkerSignal
  <2>3. waiters' \in SUBSET Threads
    BY <2>1
  <2>4. WorkerTypeOK'
    BY <2>1, <2>2, <2>3
  <2>5. MutexHeld'
    BY <2>1, <2>2
  <2> QED
    BY <2>4, <2>5
<1>8. CASE MainJoin
  <2>1. /\ pc["main"] = "join" /\ pc["worker"] = "finished"
        /\ pc' = [pc EXCEPT !["main"] = "returned", !["worker"] = "none"]
        /\ UNCHANGED <<status, had_error, holder, waiters, target, spurious>>
    BY <1>8 DEF MainJoin
  <2>2. pc' \in [Threads -> MainPlaces \cup WorkerPlaces]
    BY <2>1
  <2>3. pc'["main"] = "returned" /\ pc'["worker"] = "none"
    BY <2>1
  <2>4. WorkerTypeOK'
    BY <2>1, <2>2, <2>3
  <2>5. "main" \notin holder /\ "worker" \notin holder
    BY <2>1
  <2>6. MutexHeld'
    BY <2>1, <2>3, <2>5
  <2> QED
    BY <2>4, <2>6
<1>9. CASE WorkerCheck
  BY <1>9 DEF WorkerCheck, Wait
<1>10. CASE SpuriousWakeup
  <2>1. /\ waiters' \in SUBSET waiters /\ spurious' = spurious + 1
        /\ UNCHANGED <<status, had_error, holder, pc, target>>
    BY <1>10 DEF SpuriousWakeup
  <2>2. waiters' \in SUBSET Threads
    BY <2>1
  <2>3. spurious' \in Nat
    BY <2>1, Counted
  <2> QED
    BY <2>1, <2>2, <2>3
<1>11. CASE \E ok \in BOOLEAN : JobDone(ok)
  BY <1>11 DEF JobDone
<1> QED
  BY WorkerSteps, <1>1, <1>2, <1>3, <1>4, <1>5, <1>6, <1>7, <1>8, <1>9, <1>10, <1>11
     DEF Main, Worker

LEMMA RowSteps ==
  ASSUME TypeOK, Handshake, Next
  PROVE  \/ UNCHANGED <<config, mb_y, cache_id, dec, ctx>>
         \/ at = "parsed" /\ UseRow /\ ~Threaded
         \/ /\ at = "synced" /\ pc["main"] = "returned" /\ at' = "launch"
            /\ SwapRow
         \/ Step
<1>1. CASE Process
  BY <1>1 DEF Process
<1>2. CASE Synced
  BY <1>2 DEF Synced, Return
<1>3. CASE Setup \/ InitFrame \/ ParseError \/ OutOfData \/ Suspend \/ Launch
           \/ Launched \/ LastSync \/ AfterLastSync \/ ExitCritical \/ ExitSync
           \/ Teardown \/ AppendData \/ Delete \/ Clear \/ Cleared
  BY <1>3
     DEF Setup, InitFrame, ParseError, OutOfData, Suspend, Launch, Launched,
              LastSync, AfterLastSync, ExitCritical, ExitSync, Teardown, AppendData,
              Delete, Clear, Cleared
<1>4. CASE Parse \/ ReconstructHere \/ FinishHere \/ WorkerReconstruct
           \/ WorkerFinish
  BY <1>4
     DEF Parse, ReconstructHere, FinishHere, WorkerReconstruct, WorkerFinish,
              ParseRow, Reconstruct, FinishRow
<1>5. CASE InChangeState \/ ThreadLoop \/ WakeForNothing \/ Gone
  BY <1>5 DEF InChangeState, ThreadLoop, WakeForNothing, Gone, vars
<1> QED
  BY <1>1, <1>2, <1>3, <1>4, <1>5 DEF Next, Caller

LEMMA BehindStays ==
  ASSUME TypeOK, Handshake, Next
  PROVE  at' \notin Behind => at \notin Behind
<1> USE DEF Behind
<1>1. CASE Setup \/ InitFrame \/ Parse \/ ParseError \/ OutOfData \/ Suspend
           \/ Synced \/ Launch \/ Launched \/ ReconstructHere \/ FinishHere
           \/ Step \/ LastSync \/ AfterLastSync \/ ExitCritical \/ ExitSync
           \/ Teardown \/ Clear \/ Cleared
  BY <1>1
     DEF Setup, InitFrame, Parse, ParseError, OutOfData, Suspend, Synced,
         Launch,
              Launched, ReconstructHere, FinishHere, Step, LastSync, AfterLastSync,
              ExitCritical, ExitSync, Teardown, Clear, Cleared
<1>2. CASE Process \/ AppendData \/ Delete
  BY <1>2 DEF Process, AppendData, Delete
<1>3. CASE InChangeState \/ ThreadLoop \/ WakeForNothing \/ Gone
           \/ WorkerReconstruct \/ WorkerFinish
  BY <1>3 DEF InChangeState, ThreadLoop, WakeForNothing, Gone, vars,
              WorkerReconstruct, WorkerFinish
<1> QED
  BY <1>1, <1>2, <1>3 DEF Next, Caller

(* The buffers are swapped only when there are two of each, and no row is
   parsed below the last one. *)
LEMMA RowTyping ==
  ASSUME TypeOK, Handshake, RowsInv, Next
  PROVE  RowTypeOK' /\ RowsInv'
<1>1. config \in Configs /\ mb_y \in 0 .. Rows /\ cache_id \in 0 .. config.caches - 1
  BY DEF TypeOK
<1>2. LastRow \in 1 .. Rows /\ config.caches \in 1 .. 3
  BY <1>1, ConfigFacts, LastRowRange
<1>3. CASE UNCHANGED <<config, mb_y, cache_id, dec, ctx>>
  <2>1. RowTypeOK'
    BY <1>1, <1>3 DEF TypeOK
  <2>2. at' \notin Behind => at \notin Behind
    BY BehindStays
  <2> QED
    BY <1>3, <2>1, <2>2 DEF RowsInv, LastRow
<1>4. CASE at = "parsed" /\ UseRow /\ ~Threaded
  BY <1>1, <1>4 DEF UseRow, RowsInv, LastRow, Behind
<1>5. CASE /\ at = "synced" /\ pc["main"] = "returned" /\ at' = "launch"
           /\ SwapRow
  <2>1. dec'.mb = ctx.mb /\ ctx'.mb = dec.mb /\ UNCHANGED <<config, mb_y, cache_id>>
    BY <1>5 DEF SwapRow
  <2>2. Threaded 
    BY <1>5 DEF Handshake, RefusedInv
  <2> QED
    BY <1>1, <1>5, <2>1, <2>2 DEF TypeOK, RowsInv, LastRow, Behind
<1>6. CASE Step
  <2>1. /\ mb_y < LastRow /\ mb_y' = mb_y + 1 /\ UNCHANGED <<config, dec, ctx>>
        /\ at' \notin Behind => mb_y' < LastRow
    BY <1>6, <1>1, <1>2 DEF Step, NextRow, RowsInv, Behind
  <2>2. mb_y' \in 0 .. Rows
    BY <1>1, <1>2, <2>1, RowsAssumption
  <2>3. cache_id' \in 0 .. config.caches - 1
    BY <1>1, <1>2, <1>6 DEF Step, NextRow
  <2> QED
    BY <1>1, <2>1, <2>2, <2>3 DEF TypeOK, RowsInv, LastRow
<1> QED
  BY <1>3, <1>4, <1>5, <1>6, RowSteps

(* The places of the caller, and what it keeps for the decoding. *)
LEMMA CallTyping ==
  ASSUME TypeOK, Handshake, Next
  PROVE  CallTypeOK'
<1> USE DEF TypeOK, Places
<1>1. CASE Setup \/ InitFrame \/ Parse \/ Process \/ ParseError \/ OutOfData
           \/ Suspend \/ Synced
  BY <1>1
     DEF Setup, InitFrame, Parse, Process, ParseError, OutOfData, Suspend,
         Synced
<1>2. CASE Launch \/ Launched \/ ReconstructHere \/ FinishHere \/ Step
           \/ LastSync
           \/ AfterLastSync \/ ExitCritical
  BY <1>2 DEF Launch, Launched, ReconstructHere, FinishHere, Step, LastSync,
              AfterLastSync, ExitCritical
<1>3. CASE ExitSync \/ Delete \/ Clear \/ Cleared
  BY <1>3 DEF ExitSync, Delete, Clear, Cleared
<1>4. CASE Teardown
  <2>1. torn = 0
    BY <1>4 DEF Teardown, Handshake, TeardownInv
  <2>2. torn' = 1
    BY <1>4, <2>1, Once DEF Teardown
  <2>3. torn' \in 0 .. 1
    BY <1>4, <2>1, Once DEF Teardown
  <2>4. /\ at' \in {"clear", "stopped"}
        /\ UNCHANGED <<job, failed, refused, set_up, deleted, input>>
    BY <1>4 DEF Teardown
  <2> QED
    BY <2>3, <2>4
<1>5. CASE AppendData
  <2>1. input' \in Nat
    BY <1>5, Counted DEF AppendData
  <2> QED
    BY <1>5, <2>1 DEF AppendData
<1>6. CASE WorkerReconstruct \/ WorkerFinish
  BY <1>6 DEF WorkerReconstruct, WorkerFinish
<1>7. CASE InChangeState \/ ThreadLoop \/ WakeForNothing \/ Gone
  <2>1. UNCHANGED <<callVars, job>>
    BY <1>7 DEF InChangeState, ThreadLoop, WakeForNothing, Gone, vars
  <2> QED
    BY <2>1
<1> QED
  BY <1>1, <1>2, <1>3, <1>4, <1>5, <1>6, <1>7 DEF Next, Caller

(* What is handed out and what is moved. *)
LEMMA LinesSteps ==
  ASSUME TypeOK, Handshake, Next, lines' # lines
  PROVE  FinishHere \/ WorkerFinish
<1>1. CASE Process
  BY <1>1 DEF Process, UseRow
<1>2. CASE Synced
  BY <1>2 DEF Synced, SwapRow
<1>3. CASE Setup \/ InitFrame \/ ParseError \/ OutOfData \/ Suspend \/ Launch
           \/ Launched \/ LastSync \/ AfterLastSync \/ ExitCritical \/ ExitSync
           \/ Teardown \/ AppendData \/ Delete \/ Clear \/ Cleared
  BY <1>3
     DEF Setup, InitFrame, ParseError, OutOfData, Suspend, Launch, Launched,
              LastSync, AfterLastSync, ExitCritical, ExitSync, Teardown, AppendData,
              Delete, Clear, Cleared
<1>4. CASE Parse \/ ReconstructHere \/ Step \/ WorkerReconstruct
  BY <1>4
     DEF Parse, ReconstructHere, Step, WorkerReconstruct, ParseRow, NextRow,
              Reconstruct
<1>5. CASE InChangeState \/ ThreadLoop \/ WakeForNothing \/ Gone
  BY <1>5 DEF InChangeState, ThreadLoop, WakeForNothing, Gone, vars
<1> QED
  BY <1>1, <1>2, <1>3, <1>4, <1>5 DEF Next, Caller

LEMMA InputSteps ==
  ASSUME Next, input' # input
  PROVE  AppendData
<1>1. ~Caller => UNCHANGED input
  BY DEF Next, InChangeState, WorkerReconstruct, WorkerFinish, ThreadLoop,
         WakeForNothing, Gone, vars
<1>2. Caller => AppendData
  BY
     DEF Caller, Setup, InitFrame, Parse, Process, ParseError, OutOfData,
         Suspend,
         Synced, Launch, Launched, ReconstructHere, FinishHere, Step, LastSync,
         AfterLastSync, ExitCritical, ExitSync, Teardown, Delete, Clear, Cleared
<1> QED
  BY <1>1, <1>2

(* The beginning, and steps that change nothing. *)
LEMMA Beginning == Init => IInv
<1> SUFFICES ASSUME Init
             PROVE  IInv
  OBVIOUS
<1>1. config \in Configs
  BY DEF Init, RowInit
<1>2. config.caches \in 1 .. 3 /\ config.method \in {0, 2} /\ LastRow \in 1 .. Rows
  BY <1>1, ConfigFacts, LastRowRange
<1>3. mb_y = 0 /\ cache_id = 0 /\ dec.mb = 0 /\ ctx.mb = Second(config.method)
  BY DEF Init, RowInit
<1>4. WorkerTypeOK
  BY DEF Init, WorkerInit
<1>5. MutexHeld
  BY DEF Init, WorkerInit
<1>6. RowTypeOK
  BY <1>1, <1>2, <1>3, RowsAssumption DEF Second
<1>7. CallTypeOK
  <2>1. at \in Places /\ job \in {"reconstruct", "finish"}
    BY DEF Init, Places
  <2>2. /\ failed \in BOOLEAN /\ refused \in BOOLEAN
        /\ set_up \in BOOLEAN /\ deleted \in BOOLEAN
    BY DEF Init
  <2>3. torn \in 0 .. 1 /\ input \in Nat
    BY DEF Init
  <2> QED
    BY <2>1, <2>2, <2>3
<1>8. Handshake
  BY
     DEF Init, WorkerInit, Handshake, CallsInv, Asks, JobInv, EndInv,
         RefusedInv,
         TeardownInv
<1>9. RowsInv
  BY <1>2, <1>3 DEF RowsInv
<1> QED
  BY <1>4, <1>5, <1>6, <1>7, <1>8, <1>9 DEF IInv, TypeOK

LEMMA Stutter ==
  ASSUME IInv, UNCHANGED vars
  PROVE  IInv'
<1> USE DEF vars
<1>1. WorkerTypeOK' /\ MutexHeld'
  BY DEF IInv, TypeOK
<1>2. RowTypeOK' /\ CallTypeOK'
  BY DEF IInv, TypeOK
<1>3. CallsInv' /\ JobInv'
  BY DEF IInv, Handshake, CallsInv, Asks, JobInv
<1>4. EndInv' /\ TeardownInv'
  BY DEF IInv, Handshake, EndInv, TeardownInv
<1>5. RefusedInv'
  BY DEF IInv, Handshake, RefusedInv
<1>6. RowsInv'
  BY DEF IInv, RowsInv, LastRow
<1> QED
  BY <1>1, <1>2, <1>3, <1>4, <1>5, <1>6 DEF IInv, TypeOK, Handshake

-----------------------------------------------------------------------------
(* The handshake between the two threads and the teardown, action by action. *)

USE DEF Handshake, CallsInv, Asks, JobInv, EndInv, RefusedInv, TeardownInv

LEMMA HandshakeSetup ==
  ASSUME TypeOK, Handshake, Setup
  PROVE  Handshake'
<1>1. \/ at' = "init" /\ set_up'
      \/ at' \in {"stopped", "clear"} /\ ~set_up'
  BY DEF Setup
<1>2. UNCHANGED <<workerVars, config, refused, torn>> /\ at = "setup"
  BY DEF Setup
<1> QED
  BY <1>1, <1>2 DEF TypeOK

LEMMA HandshakeInitFrame ==
  ASSUME TypeOK, Handshake, InitFrame
  PROVE  Handshake'
<1>1. /\ at = "init" /\ at' \in {"parse", "exit"}
      /\ UNCHANGED <<refused, set_up, torn, config>>
  BY DEF InitFrame
<1>2. \/ ~Threaded /\ UNCHANGED workerVars
      \/ Threaded /\ ResetOk
      \/ Threaded /\ ResetFails
  BY DEF InitFrame
<1>3. ~refused' /\ ~had_error'
  BY <1>1, <1>2 DEF ResetOk, ResetFails
<1>4. status' # "WORK" /\ pc'["main"] = "idle"
  BY <1>1, <1>2 DEF ResetOk, ResetFails, TypeOK
<1>5. RefusedInv'
  BY <1>1, <1>3, <1>4
<1>6. CallsInv' /\ JobInv' /\ EndInv' /\ TeardownInv'
  BY <1>1, <1>2 DEF ResetOk, ResetFails, TypeOK
<1> QED
  BY <1>5, <1>6

LEMMA HandshakeParse ==
  ASSUME TypeOK, Handshake, Parse
  PROVE  Handshake'
BY DEF TypeOK, Parse, ParseRow

LEMMA HandshakeProcess ==
  ASSUME TypeOK, Handshake, Process
  PROVE  Handshake'
BY DEF TypeOK, Process, Call, UseRow

LEMMA HandshakeParseError ==
  ASSUME TypeOK, Handshake, ParseError
  PROVE  Handshake'
BY DEF TypeOK, ParseError

LEMMA HandshakeOutOfData ==
  ASSUME TypeOK, Handshake, OutOfData
  PROVE  Handshake'
<1>1. CASE ~Threaded
  BY <1>1 DEF TypeOK, OutOfData
<1>2. CASE Threaded
  <2>1. CallsInv'
    BY <1>2 DEF TypeOK, OutOfData, Call
  <2>2. JobInv'
    BY <1>2 DEF TypeOK, OutOfData, Call
  <2>3. EndInv'
    BY <1>2 DEF TypeOK, OutOfData, Call
  <2>4. RefusedInv'
    BY <1>2 DEF TypeOK, OutOfData, Call
  <2>5. TeardownInv'
    BY <1>2 DEF TypeOK, OutOfData, Call
  <2> QED
    BY <2>1, <2>2, <2>3, <2>4, <2>5
<1> QED
  BY <1>1, <1>2

LEMMA HandshakeSuspend ==
  ASSUME TypeOK, Handshake, Suspend
  PROVE  Handshake'
BY DEF TypeOK, Suspend, Return, SyncOk

LEMMA HandshakeSynced ==
  ASSUME TypeOK, Handshake, Synced
  PROVE  Handshake'
BY DEF TypeOK, Synced, Return, SyncOk, SwapRow

LEMMA HandshakeLaunch ==
  ASSUME TypeOK, Handshake, Launch
  PROVE  Handshake'
BY DEF TypeOK, Launch, Call

LEMMA HandshakeLaunched ==
  ASSUME TypeOK, Handshake, Launched
  PROVE  Handshake'
BY DEF TypeOK, Launched, Return

LEMMA HandshakeReconstructHere ==
  ASSUME TypeOK, Handshake, ReconstructHere
  PROVE  Handshake'
BY DEF TypeOK, ReconstructHere, Reconstruct

LEMMA HandshakeFinishHere ==
  ASSUME TypeOK, Handshake, FinishHere
  PROVE  Handshake'
<1>1. at = "finish" /\ UNCHANGED <<workerVars, config, set_up, torn>>
  BY DEF FinishHere, FinishRow
<1>2. \/ at' = "next" /\ UNCHANGED refused
      \/ at' = "exit" /\ refused'
  BY DEF FinishHere
<1>3. ~Threaded /\ ~Threaded' /\ ~had_error' /\ status' # "WORK"
  BY <1>1
<1>4. at' = "next" => ~refused'
  BY <1>1, <1>2, <1>3
<1>5. RefusedInv'
  BY <1>1, <1>2, <1>3, <1>4
<1>6. CallsInv' /\ JobInv' /\ EndInv' /\ TeardownInv'
  BY <1>1, <1>2 DEF TypeOK
<1> QED
  BY <1>5, <1>6

LEMMA HandshakeStep ==
  ASSUME TypeOK, Handshake, Step
  PROVE  Handshake'
BY DEF TypeOK, Step, NextRow

LEMMA HandshakeLastSync ==
  ASSUME TypeOK, Handshake, LastSync
  PROVE  Handshake'
BY DEF TypeOK, LastSync, Call

LEMMA HandshakeAfterLastSync ==
  ASSUME TypeOK, Handshake, AfterLastSync
  PROVE  Handshake'
BY DEF TypeOK, AfterLastSync, Return, SyncOk

LEMMA HandshakeExitCritical ==
  ASSUME TypeOK, Handshake, ExitCritical
  PROVE  Handshake'
BY DEF TypeOK, ExitCritical, Call

LEMMA HandshakeExitSync ==
  ASSUME TypeOK, Handshake, ExitSync
  PROVE  Handshake'
BY DEF TypeOK, ExitSync, Return, SyncOk

LEMMA HandshakeTeardown ==
  ASSUME TypeOK, Handshake, Teardown
  PROVE  Handshake'
<1>1. at' \in {"stopped", "clear"} /\ at = "teardown"
  BY DEF Teardown
<1>2. UNCHANGED <<workerVars, config, refused, set_up>>
  BY DEF Teardown
<1>3. set_up /\ torn = 0
  BY <1>1
<1>4. torn' = 1
  BY <1>3, Once DEF Teardown
<1>5. CallsInv' /\ JobInv' /\ EndInv' /\ RefusedInv'
  BY <1>1, <1>2 DEF TypeOK
<1>6. TeardownInv'
  BY <1>1, <1>2, <1>3, <1>4
<1> QED
  BY <1>5, <1>6

LEMMA HandshakeAppendData ==
  ASSUME TypeOK, Handshake, AppendData
  PROVE  Handshake'
BY DEF TypeOK, AppendData

LEMMA HandshakeDelete ==
  ASSUME TypeOK, Handshake, Delete
  PROVE  Handshake'
BY DEF TypeOK, Delete

LEMMA HandshakeClear ==
  ASSUME TypeOK, Handshake, Clear
  PROVE  Handshake'
BY DEF TypeOK, Clear, Call

LEMMA HandshakeCleared ==
  ASSUME TypeOK, Handshake, Cleared
  PROVE  Handshake'
BY DEF TypeOK, Cleared, Return

LEMMA HandshakeInChangeState ==
  ASSUME TypeOK, Handshake, InChangeState
  PROVE  Handshake'
<1>1. UNCHANGED <<rowVars, callVars, had_error, target>>
  BY DEF InChangeState, Main, Acquire, MainCheck, MainSignal, MainJoin, Wait
<1>2. CASE Acquire("main")
  BY <1>2 DEF TypeOK, InChangeState, Acquire
<1>3. CASE MainCheck /\ status = "WORK"
  <2>1. pc["main"] = "check" /\ pc' = [pc EXCEPT !["main"] = "wait"]
    BY <1>3 DEF MainCheck, Wait
  <2>2. UNCHANGED status
    BY <1>3 DEF MainCheck, Wait
  <2> QED
    BY <1>1, <1>3, <2>1, <2>2 DEF TypeOK
<1>4. CASE MainCheck /\ status # "WORK"
  <2>1. CallsInv' /\ JobInv' /\ EndInv' /\ TeardownInv'
    BY <1>1, <1>4 DEF TypeOK, MainCheck
  <2>2. ~had_error \/ status' # "WORK"
    BY <1>4 DEF MainCheck
  <2>3. pc'["main"] \in {"signal", "returned"}
    BY <1>4 DEF TypeOK, MainCheck
  <2>4. RefusedInv'
    BY <1>1, <2>2, <2>3
  <2> QED
    BY <2>1, <2>4
<1>5. CASE MainSignal
  BY <1>5 DEF TypeOK, InChangeState, MainSignal
<1>6. CASE MainJoin
  BY <1>6 DEF TypeOK, InChangeState, MainJoin
<1> QED
  BY <1>2, <1>3, <1>4, <1>5, <1>6 DEF InChangeState, Main

LEMMA HandshakeWorkerReconstruct ==
  ASSUME TypeOK, Handshake, WorkerReconstruct
  PROVE  Handshake'
BY DEF TypeOK, WorkerReconstruct, Reconstruct

LEMMA HandshakeWorkerFinish ==
  ASSUME TypeOK, Handshake, WorkerFinish
  PROVE  Handshake'
<1>1. UNCHANGED <<config, at, set_up, torn, target>>
  BY DEF WorkerFinish, FinishRow, JobDone
<1>2. /\ pc["worker"] = "execute" /\ pc' = [pc EXCEPT !["worker"] = "signal"]
      /\ status' = "OK"
  BY DEF WorkerFinish, JobDone
<1>3. Threaded
  BY <1>2
<1>4. CASE refused' = refused /\ had_error' = had_error
  <2>1. RefusedInv'
    BY <1>1, <1>2, <1>3, <1>4 DEF TypeOK
  <2> QED
    BY <1>1, <1>2, <2>1 DEF TypeOK
<1>5. CASE refused' /\ had_error'
  <2>1. /\ at \notin {"setup", "init", "launch"}
        /\ ~(at = "launched" /\ pc'["main"] \in {"lock", "wait", "check"})
    BY <1>2 DEF TypeOK
  <2>2. RefusedInv'
    BY <1>1, <1>2, <1>3, <1>5, <2>1
  <2> QED
    BY <1>1, <1>2, <2>2 DEF TypeOK
<1> QED
  BY <1>4, <1>5 DEF WorkerFinish, JobDone, TypeOK

LEMMA HandshakeThreadLoop ==
  ASSUME TypeOK, Handshake, ThreadLoop
  PROVE  Handshake'
<1>1. UNCHANGED <<rowVars, callVars, had_error, target, status>>
  BY DEF ThreadLoop, Worker, Acquire, WorkerCheck, WorkerSignal, Wait
<1>2. pc'["main"] = pc["main"]
  BY DEF ThreadLoop, Worker, Acquire, WorkerCheck, WorkerSignal, Wait, TypeOK
<1>3. RefusedInv' /\ TeardownInv'
  BY <1>1, <1>2
<1>4. CASE Acquire("worker")
  BY <1>1, <1>2, <1>3, <1>4 DEF TypeOK, Acquire
<1>5. CASE WorkerCheck
  BY <1>1, <1>2, <1>3, <1>5 DEF TypeOK, WorkerCheck, Wait
<1>6. CASE WorkerSignal
  BY <1>1, <1>2, <1>3, <1>6 DEF TypeOK, WorkerSignal
<1> QED
  BY <1>4, <1>5, <1>6 DEF ThreadLoop, Worker

LEMMA HandshakeWakeForNothing ==
  ASSUME TypeOK, Handshake, WakeForNothing
  PROVE  Handshake'
<1>1. UNCHANGED <<status, had_error, pc, target, config, at, refused, set_up, torn>>
  BY DEF WakeForNothing, SpuriousWakeup
<1> QED
  BY <1>1

LEMMA HandshakeGone ==
  ASSUME Handshake, Gone
  PROVE  Handshake'
BY DEF Gone, vars

HIDE DEF Handshake, CallsInv, Asks, JobInv, EndInv, RefusedInv, TeardownInv

LEMMA HandshakeNext ==
  ASSUME TypeOK, Handshake, Next
  PROVE  Handshake'
BY HandshakeSetup, HandshakeInitFrame, HandshakeParse,
   HandshakeProcess, HandshakeParseError, HandshakeOutOfData,
   HandshakeSuspend, HandshakeSynced, HandshakeLaunch,
   HandshakeLaunched, HandshakeReconstructHere, HandshakeFinishHere,
   HandshakeStep, HandshakeLastSync, HandshakeAfterLastSync,
   HandshakeExitCritical, HandshakeExitSync, HandshakeTeardown,
   HandshakeAppendData, HandshakeDelete, HandshakeClear,
   HandshakeCleared, HandshakeInChangeState,
   HandshakeWorkerReconstruct, HandshakeWorkerFinish,
   HandshakeThreadLoop, HandshakeWakeForNothing, HandshakeGone
   DEF Next, Caller

-----------------------------------------------------------------------------
(* The inductive invariant: the types, who is where in the calls of the worker
   (CallsInv, JobInv, EndInv), what a refusal has become known to (RefusedInv),
   when teardown() is due (TeardownInv) and that there is a row left to parse
   (RowsInv).  ChangeState, ThreadLoop, VP8ProcessRow, VP8ExitCritical. *)
THEOREM Inductive == Spec => []IInv
<1>1. IInv /\ [Next]_vars => IInv'
  <2>1. ASSUME IInv, Next
        PROVE  IInv'
    BY <2>1, WorkerTyping, RowTyping, CallTyping, HandshakeNext DEF IInv, TypeOK
  <2> QED
    BY <2>1, Stutter
<1> QED
  BY Beginning, <1>1, PTL DEF Spec

(* Types: in particular the mutex has one holder at most, which is where it
   says, and the parser never fills the buffer that the worker reads. *)
THEOREM TypeCorrect == Spec => []TypeOK
BY Inductive, PTL DEF IInv

(* VP8EnterCritical and VP8ExitCritical: teardown() is called once for a setup()
   that succeeded, and never while the worker has a job; a deleted decoder has
   joined its thread. *)
THEOREM TornDownOnce == Spec => []TornDown
<1>1. IInv => TornDown
  <2> SUFFICES ASSUME IInv
               PROVE  TornDown
    OBVIOUS
  <2>1. at \in {"stopped", "gone"} => torn = IF set_up THEN 1 ELSE 0
    BY DEF IInv, Handshake, TeardownInv
  <2>2. status = "WORK" => at \notin {"stopped", "clear", "cleared", "gone"}
    BY DEF IInv, Handshake, JobInv
  <2>3. status = "WORK" => torn = 0
    BY <2>2 DEF IInv, Handshake, TeardownInv
  <2>4. at = "gone" => ~HasThread
    BY DEF IInv, Handshake, EndInv
  <2> QED
    BY <2>1, <2>3, <2>4 DEF TornDown
<1> QED
  BY Inductive, <1>1, PTL

(* FinishRow: nothing is handed out once put() has failed or teardown() was
   called. *)
THEOREM NothingHandedOutLate == Spec => NothingAfterTheEnd
<1>1. ASSUME IInv, Next, lines' # lines
      PROVE  ~refused /\ torn = 0
  <2>1. CASE FinishHere
    BY <1>1, <2>1 DEF IInv, Handshake, RefusedInv, TeardownInv, FinishHere
  <2>2. CASE WorkerFinish
    <3>1. Executing /\ status = "WORK" /\ Threaded
      BY <1>1, <2>2 DEF IInv, Handshake, JobInv, CallsInv, WorkerFinish, JobDone
    <3>2. ~refused
      BY <1>1, <3>1 DEF IInv, Handshake, RefusedInv
    <3>3. torn = 0
      BY <1>1, <3>1 DEF IInv, Handshake, JobInv, TeardownInv
    <3> QED
      BY <3>2, <3>3
  <2> QED
    BY <1>1, <2>1, <2>2, LinesSteps DEF IInv
<1>2. IInv /\ [Next]_vars => [lines' # lines => ~refused /\ torn = 0]_vars
  BY <1>1 DEF vars
<1> QED
  BY Inductive, <1>2, PTL DEF Spec, NothingAfterTheEnd

(* VP8ProcessRow and the incremental decoder: while there is a job, neither what
   it works on nor the compressed data is moved. *)
THEOREM JobsUndisturbed == Spec => JobUndisturbed
<1>1. ASSUME IInv, Next, input' # input \/ ctx' # ctx
      PROVE  status # "WORK"
  <2>1. CASE ctx' # ctx
    <3>1. ~Step
      BY <2>1 DEF Step, NextRow
    <3>2. \/ ~Threaded
          \/ at = "synced" /\ pc["main"] = "returned"
      <4>1. TypeOK /\ Handshake
        BY <1>1 DEF IInv
      <4>2. \/ UNCHANGED ctx
            \/ ~Threaded
            \/ at = "synced" /\ pc["main"] = "returned"
        BY <1>1, <3>1, <4>1, RowSteps
      <4> QED
        BY <2>1, <4>2
    <3>3. ~Threaded => ~HasThread
      BY <1>1 DEF IInv, Handshake, CallsInv
    <3> QED
      BY <1>1, <3>2, <3>3 DEF IInv, Handshake, JobInv
  <2>2. CASE input' # input
    BY <1>1, <2>2, InputSteps DEF IInv, Handshake, JobInv, AppendData
  <2> QED
    BY <1>1, <2>1, <2>2
<1>2. IInv /\ [Next]_vars => [input' # input \/ ctx' # ctx => status # "WORK"]_vars
  BY <1>1 DEF vars
<1> QED
  BY Inductive, <1>2, PTL DEF Spec, JobUndisturbed

HIDE DEF Threads, MainPlaces, WorkerPlaces, HasThread, Go, Executing,
         WorkerTypeOK, MutexHeld, RowTypeOK, CallTypeOK, workerVars, rowVars,
         callVars, Threaded, GoTo, GiveUp, Rest

-----------------------------------------------------------------------------
(* What is handed out is the cropped picture: rows are followed from the parser's
   buffers through the cache to the lines handed out. *)

(* What setup() fixes: the rows reach over the cropped part, by a band more
   on either side where there is a filter. *)
LEMMA HalfFacts ==
  ASSUME NEW n \in Nat
  PROVE  n \div 2 \in Nat /\ 2 * (n \div 2) <= n /\ n <= 2 * (n \div 2) + 1
OBVIOUS

LEMMA LesserOfTwo ==
  ASSUME NEW a \in Int, NEW b \in Int
  PROVE  Min({a, b}) \in {a, b} /\ Min({a, b}) <= a /\ Min({a, b}) <= b
<1>1. Min({a, b}) \in {a, b} /\ Min({a, b}) <= a
  BY MinOfTwo, Zenon
<1>2. Min({b, a}) <= b
  BY MinOfTwo, Zenon
<1>3. {a, b} = {b, a}
  OBVIOUS
<1> QED
  BY <1>1, <1>2, <1>3, Zenon

LEMMA CropFacts ==
  ASSUME NEW c \in Configs
  PROVE  /\ c.filter \in 0 .. 2
         /\ c.top \in 0 .. 2 * Rows - 1 /\ c.bottom \in 1 .. 2 * Rows
         /\ c.tl \in Nat /\ (c.tl = 0 \/ 2 * c.tl <= c.top - 1)
         /\ c.br \in 1 .. Rows
         /\ c.br = Rows \/ 2 * c.br >= c.bottom + Extra(c.filter)
         /\ 2 * c.br <= c.bottom + Extra(c.filter) + 1
<1>1. PICK m \in {0, 2}, f \in 0 .. 2, i \in BOOLEAN,
           t \in 0 .. 2 * Rows - 1, b \in 1 .. 2 * Rows :
        c = [method |-> m, filter |-> f, top |-> t, bottom |-> b, incremental |-> i,
             tl |-> TopRow(f, t), br |-> BottomRow(f, b), caches |-> NumCaches(m, f)]
  BY DEF Configs
<1>2. /\ c.filter = f /\ c.top = t /\ c.bottom = b
      /\ c.tl = TopRow(f, t) /\ c.br = BottomRow(f, b)
  BY <1>1
<1>3. Rows \in Nat /\ Rows >= 1
  BY RowsAssumption
<1>4. t \in Nat /\ b \in Nat /\ Extra(f) \in 0 .. 1
  BY <1>3 DEF Extra
<1>5. TopRow(f, t) \in Nat /\ (TopRow(f, t) = 0 \/ 2 * TopRow(f, t) <= t - 1)
  <2>1. CASE f # 1 \/ t < Extra(f)
    BY <2>1 DEF TopRow
  <2>2. CASE f = 1 /\ t >= 1
    <3>1. TopRow(f, t) = (t - 1) \div 2
      BY <2>2, <1>4 DEF TopRow, Extra
    <3>2. t - 1 \in Nat
      BY <2>2, <1>4
    <3> QED
      BY <3>1, <3>2, <1>4, HalfFacts
  <2> QED
    BY <2>1, <2>2, <1>4 DEF Extra
<1>6. DEFINE half == (b + 1 + Extra(f)) \div 2
<1>7. half \in Nat /\ 2 * half <= b + 1 + Extra(f) /\ b + 1 + Extra(f) <= 2 * half + 1
  <2>1. b + 1 + Extra(f) \in Nat
    BY <1>4
  <2> QED
    BY <2>1, HalfFacts
<1>8. BottomRow(f, b) = Min({Rows, half})
  BY DEF BottomRow
<1>9. /\ BottomRow(f, b) \in {Rows, half}
      /\ BottomRow(f, b) <= Rows /\ BottomRow(f, b) <= half
  <2>1. Rows \in Int /\ half \in Int
    BY <1>3, <1>7
  <2> QED
    BY <1>8, <2>1, LesserOfTwo, Zenon
<1>10. BottomRow(f, b) \in 1 .. Rows
  BY BottomRowRange
<1>11. /\ BottomRow(f, b) = Rows \/ 2 * BottomRow(f, b) >= b + Extra(f)
       /\ 2 * BottomRow(f, b) <= b + Extra(f) + 1
  <2> HIDE DEF half
  <2> QED
    BY <1>3, <1>4, <1>7, <1>9, <1>10
<1> QED
  BY <1>2, <1>4, <1>5, <1>10, <1>11

-----------------------------------------------------------------------------
(* One row: what FinishRow makes of the cache and hands out. *)

USE DEF NoRow

(* A row that is about to be finished, reconstructed already. *)
Ready ==
  /\ config \in Configs
  /\ PlaceInv /\ BufferInv /\ CacheInv
  /\ Pending /\ ~refused
  /\ ctx.mb_y \in 0 .. Rows - 1
  /\ cache[Upper] = Unfiltered(ctx.mb_y, 0)
  /\ cache[Lower] = Unfiltered(ctx.mb_y, 1)

LEMMA ReadyFacts ==
  ASSUME Ready
  PROVE  /\ ctx.id \in 0 .. 2 /\ config.caches \in 1 .. 3 /\ ctx.id < config.caches
         /\ Upper \in DOMAIN cache /\ Lower \in DOMAIN cache /\ Upper - 1 \in DOMAIN cache
         /\ Lower = Upper + 1 /\ Upper \in Nat
         /\ config.top < config.bottom
         /\ Rows \in Nat /\ Rows >= 1 /\ ctx.mb_y \in Nat /\ ctx.mb_y < Rows
<1>1. Rows \in Nat /\ Rows >= 1 /\ ctx.mb_y \in Nat /\ ctx.mb_y < Rows
  BY RowsAssumption DEF Ready
<1>2. config.caches \in 1 .. 3 /\ ctx.id \in 0 .. config.caches - 1
  BY ConfigFacts DEF Ready, PlaceInv
<1>3. ctx.id \in 0 .. 2 /\ ctx.id < config.caches
  BY <1>2
<1>4. Upper \in Nat /\ Lower = Upper + 1 /\ Upper + 2 <= 2 * config.caches
  BY <1>2, <1>3 DEF Upper, Lower
<1>5. DOMAIN cache = -1 .. 2 * config.caches - 1
  BY DEF Ready, CacheInv
<1>6. Upper \in DOMAIN cache /\ Lower \in DOMAIN cache /\ Upper - 1 \in DOMAIN cache
  BY <1>2, <1>4, <1>5
<1>7. config.top < config.bottom
  BY DEF Ready, PlaceInv
<1> QED
  BY <1>1, <1>2, <1>3, <1>4, <1>6, <1>7

LEMMA FilteredRow ==
  ASSUME Ready
  PROVE  LET own == IF ctx.filter_row THEN ctx.mb_y ELSE NoRow
         IN  /\ DOMAIN Filtered = DOMAIN cache
             /\ Filtered[Upper] = [Unfiltered(ctx.mb_y, 0) EXCEPT !.own = own]
             /\ Filtered[Lower] = [Unfiltered(ctx.mb_y, 1) EXCEPT !.own = own]
<1>1. Upper \in DOMAIN cache /\ Lower \in DOMAIN cache
  BY ReadyFacts
<1>2. /\ cache[Upper] = Unfiltered(ctx.mb_y, 0)
      /\ cache[Lower] = Unfiltered(ctx.mb_y, 1)
      /\ ctx.filter_row => fi[ctx.fi] = ctx.mb_y
  BY DEF Ready, BufferInv
<1>3. CASE ctx.filter_row
  <2>1. Filtered[Upper] = [cache[Upper] EXCEPT !.own = fi[ctx.fi]]
    BY <1>1, <1>3 DEF Filtered
  <2>2. Filtered[Lower] = [cache[Lower] EXCEPT !.own = fi[ctx.fi]]
    BY <1>1, <1>3 DEF Filtered
  <2>3. DOMAIN Filtered = DOMAIN cache
    BY <1>3 DEF Filtered
  <2> QED
    BY <1>2, <1>3, <2>1, <2>2, <2>3
<1>4. CASE ~ctx.filter_row
  <2>1. Filtered = cache
    BY <1>4 DEF Filtered
  <2> QED
    BY <1>2, <1>4, <2>1 DEF Unfiltered
<1> QED
  BY <1>3, <1>4

(* The band above the row, which waits for the row's filter. *)
LEMMA FilteredAbove ==
  ASSUME Ready, config.filter > 0, ctx.mb_y > 0, ctx.mb_y < config.br,
         ctx.mb_y - 1 >= config.tl
  PROVE  Filtered[Upper - 1] =
           [row |-> ctx.mb_y - 1, half |-> 1, own |-> ctx.mb_y - 1, below |-> ctx.mb_y]
<1>1. config.tl \in Nat /\ config.br \in 1 .. Rows /\ ctx.mb_y \in Nat
  BY CropFacts, ReadyFacts DEF Ready
<1>2. Done = ctx.mb_y /\ NextId = ctx.id
  BY DEF Ready, Done, NextId
<1>3. Done \in 1 .. config.br - 1 /\ Done - 1 >= config.tl
  BY <1>1, <1>2
<1>4. cache[2 * NextId - 1] = [Unfiltered(Done - 1, 1) EXCEPT !.own = Done - 1]
  BY <1>3 DEF Ready, CacheInv
<1>5. cache[Upper - 1] =
        [row |-> ctx.mb_y - 1, half |-> 1, own |-> ctx.mb_y - 1, below |-> NoRow]
  BY <1>2, <1>4 DEF Upper, Unfiltered
<1>6. ctx.filter_row /\ fi[ctx.fi] = ctx.mb_y
  <2>1. FilterRowOf(ctx.mb_y)
    BY <1>1 DEF FilterRowOf
  <2> QED
    BY <2>1 DEF Ready, BufferInv
<1>7. Upper - 1 \in DOMAIN cache /\ Upper - 1 \notin {Upper, Lower}
  BY ReadyFacts
<1>8. Filtered[Upper - 1] = [cache[Upper - 1] EXCEPT !.below = fi[ctx.fi]]
  BY <1>6, <1>7 DEF Filtered
<1> QED
  BY <1>5, <1>6, <1>8

(* How far the lines are before and behind a row. *)
LEMMA ExtraRange ==
  ASSUME config \in Configs
  PROVE  /\ Extra(config.filter) \in 0 .. 1
         /\ Extra(config.filter) = 1 <=> config.filter > 0
BY CropFacts DEF Extra

LEMMA RowEnds ==
  ASSUME Ready
  PROVE  LET y     == ctx.mb_y
             extra == Extra(config.filter)
             end   == 2 * (y + 1) - (IF y + 1 >= config.br THEN 0 ELSE extra)
         IN  /\ YStart = (IF y = 0 THEN 0 ELSE 2 * y - extra)
             /\ YEnd = (IF end <= config.bottom THEN end ELSE config.bottom)
             /\ BandsOf(y + 1) = (IF YEnd <= config.top THEN 0 ELSE YEnd - config.top)
<1> DEFINE y == ctx.mb_y
           extra == Extra(config.filter)
           end == 2 * (y + 1) - (IF y + 1 >= config.br THEN 0 ELSE extra)
<1>1. config \in Configs
  BY DEF Ready
<1>2. extra \in 0 .. 1
  BY <1>1, ExtraRange
<1>3. y \in Nat /\ config.br \in Int /\ config.bottom \in Int /\ config.top \in Int
  BY <1>1, ReadyFacts, CropFacts
<1>4. IsLast <=> y + 1 >= config.br
  BY <1>3 DEF IsLast
<1>5. end \in Int
  BY <1>2, <1>3
<1>6. Lag(y + 1 >= config.br) = (IF y + 1 >= config.br THEN 0 ELSE extra)
  BY DEF Lag
<1>7. YStart = (IF y = 0 THEN 0 ELSE 2 * y - extra)
  BY <1>2, <1>3 DEF YStart, Lag, IsFirst
<1>8. YEnd = Min({end, config.bottom})
  BY <1>4 DEF YEnd, Lag
<1>9. YEnd = (IF end <= config.bottom THEN end ELSE config.bottom)
  <2>1. /\ Min({end, config.bottom}) \in {end, config.bottom}
        /\ Min({end, config.bottom}) <= end /\ Min({end, config.bottom}) <= config.bottom
    BY <1>3, <1>5, LesserOfTwo, Zenon
  <2> HIDE DEF end
  <2> QED
    BY <1>3, <1>5, <1>8, <2>1
<1>10. BandsOf(y + 1) = (IF YEnd <= config.top THEN 0 ELSE YEnd - config.top)
  <2>1. y + 1 # 0
    BY <1>3
  <2>2. YEnd = Min({2 * (y + 1) - Lag(y + 1 >= config.br), config.bottom})
    BY <1>6, <1>8
  <2> QED
    BY <2>1, <2>2 DEF BandsOf
<1> QED
  BY <1>7, <1>9, <1>10

(* Rows below the cropped part hand nothing out; above its end the lines reach to
   where the row starts. *)
LEMMA LinesBefore ==
  ASSUME Ready
  PROVE  LET y == ctx.mb_y
         IN  /\ y < config.br =>
                  /\ YStart < config.bottom /\ YStart < YEnd
                  /\ BandsOf(y) = (IF YStart <= config.top THEN 0 ELSE YStart - config.top)
             /\ y >= config.br =>
                  /\ YStart >= config.bottom /\ YEnd = config.bottom
                  /\ BandsOf(y) = config.bottom - config.top
<1> DEFINE y == ctx.mb_y
           extra == Extra(config.filter)
           end == 2 * y - (IF y >= config.br THEN 0 ELSE extra)
<1>1. config \in Configs
  BY DEF Ready
<1>2. extra \in 0 .. 1
  BY <1>1, ExtraRange
<1>3. /\ y \in Nat /\ y < Rows /\ Rows \in Nat
      /\ config.br \in 1 .. Rows /\ config.bottom \in 1 .. 2 * Rows
      /\ config.top \in 0 .. 2 * Rows - 1 /\ config.top < config.bottom
      /\ config.br = Rows \/ 2 * config.br >= config.bottom + extra
      /\ 2 * config.br <= config.bottom + extra + 1
  BY <1>1, ReadyFacts, CropFacts
<1>4. end \in Int
  BY <1>2, <1>3
<1>5. BandsOf(y) = IF y = 0 \/ Min({end, config.bottom}) <= config.top THEN 0
                   ELSE Min({end, config.bottom}) - config.top
  BY DEF BandsOf, Lag
<1>6. /\ Min({end, config.bottom}) \in {end, config.bottom}
      /\ Min({end, config.bottom}) <= end /\ Min({end, config.bottom}) <= config.bottom
  <2>1. config.bottom \in Int
    BY <1>3
  <2> QED
    BY <1>4, <2>1, LesserOfTwo, Zenon
<1>7. /\ YStart = (IF y = 0 THEN 0 ELSE 2 * y - extra)
      /\ LET next == 2 * (y + 1) - (IF y + 1 >= config.br THEN 0 ELSE extra)
         IN  YEnd = (IF next <= config.bottom THEN next ELSE config.bottom)
  BY RowEnds
<1> DEFINE min == Min({end, config.bottom})
<1>8. CASE y < config.br
  <2>1. end = 2 * y - extra
    BY <1>8, <1>3
  <2>2. YStart < config.bottom /\ YStart < YEnd
    BY <1>2, <1>3, <1>7, <1>8
  <2>3. CASE y = 0
    BY <1>3, <1>5, <1>7, <1>8, <2>2, <2>3
  <2>4. CASE y > 0
    <3>1. YStart = end
      BY <1>7, <2>1, <2>4
    <3>2. min = end
      BY <1>3, <1>4, <1>6, <2>2, <3>1
    <3> HIDE DEF min, end
    <3>3. BandsOf(y) = IF min <= config.top THEN 0 ELSE min - config.top
      BY <1>3, <1>5, <2>4 DEF min
    <3> QED
      BY <1>3, <1>8, <2>2, <3>1, <3>2, <3>3
  <2> QED
    BY <1>3, <2>3, <2>4
<1>9. CASE y >= config.br
  <2>1. end = 2 * y /\ y > 0
    BY <1>9, <1>3
  <2>2. YStart >= config.bottom /\ YEnd = config.bottom
    BY <1>2, <1>3, <1>7, <1>9
  <2>3. end >= config.bottom
    BY <1>2, <1>3, <1>9, <2>1
  <2> HIDE DEF end
  <2>4. min = config.bottom
    BY <1>3, <1>4, <1>6, <2>3
  <2> HIDE DEF min
  <2>5. BandsOf(y) = config.bottom - config.top
    BY <1>3, <1>5, <2>1, <2>4 DEF min
  <2> QED
    BY <1>3, <1>9, <2>2, <2>5
<1> QED
  BY <1>3, <1>8, <1>9

LEMMA LinesBehind ==
  ASSUME Ready
  PROVE  /\ HasOutput =>
              /\ ctx.mb_y < config.br
              /\ YFrom = config.top + BandsOf(ctx.mb_y)
              /\ BandsOf(ctx.mb_y + 1) = BandsOf(ctx.mb_y) + (YEnd - YFrom)
         /\ ~HasOutput => BandsOf(ctx.mb_y + 1) = BandsOf(ctx.mb_y)
         /\ BandsOf(ctx.mb_y) \in Nat /\ BandsOf(ctx.mb_y + 1) \in 0 .. 2 * Rows
         /\ YFrom \in Nat /\ YEnd \in Int /\ YStart \in Int /\ YFrom >= YStart
         /\ YFrom >= config.top
<1>1. config \in Configs
  BY DEF Ready
<1>2. Extra(config.filter) \in 0 .. 1
  BY <1>1, ExtraRange
<1>3. /\ ctx.mb_y \in Nat /\ Rows \in Nat
      /\ config.br \in 1 .. Rows /\ config.bottom \in 1 .. 2 * Rows
      /\ config.top \in 0 .. 2 * Rows - 1 /\ config.top < config.bottom
  BY <1>1, ReadyFacts, CropFacts
<1>4. YStart \in Int /\ YEnd \in Int /\ YEnd <= config.bottom
  BY <1>2, <1>3, RowEnds
<1>5. BandsOf(ctx.mb_y + 1) = (IF YEnd <= config.top THEN 0 ELSE YEnd - config.top)
  BY RowEnds
<1>6. YFrom = (IF YStart < config.top THEN config.top ELSE YStart)
  BY DEF YFrom
<1>7. HasOutput <=> YFrom < YEnd
  BY DEF HasOutput
<1>8. CASE ctx.mb_y < config.br
  <2>1. /\ YStart < config.bottom /\ YStart < YEnd
        /\ BandsOf(ctx.mb_y) =
             (IF YStart <= config.top THEN 0 ELSE YStart - config.top)
    BY <1>8, LinesBefore
  <2> QED
    BY <1>3, <1>4, <1>5, <1>6, <1>7, <1>8, <2>1
<1>9. CASE ctx.mb_y >= config.br
  <2>1. /\ YStart >= config.bottom /\ YEnd = config.bottom
        /\ BandsOf(ctx.mb_y) = config.bottom - config.top
    BY <1>9, LinesBefore
  <2> QED
    BY <1>3, <1>4, <1>5, <1>6, <1>7, <1>9, <2>1
<1> QED
  BY <1>3, <1>8, <1>9

(* The bands handed out are those of the picture. *)
LEMMA BandsOfRow ==
  ASSUME NEW y \in Nat
  PROVE  /\ (2 * y) \div 2 = y /\ (2 * y) % 2 = 0
         /\ (2 * y + 1) \div 2 = y /\ (2 * y + 1) % 2 = 1
OBVIOUS

LEMMA HandedBand ==
  ASSUME Ready, HasOutput, NEW k \in YFrom .. YEnd - 1
  PROVE  Filtered[CacheFrom + (k - YFrom)] = Band(k)
<1> DEFINE y == ctx.mb_y
           extra == Extra(config.filter)
<1>1. config \in Configs
  BY DEF Ready
<1>2. extra \in 0 .. 1 /\ (extra = 1 <=> config.filter > 0)
  BY <1>1, ExtraRange
<1>3. /\ y \in Nat /\ y < Rows /\ Rows \in Nat
      /\ config.br \in 1 .. Rows /\ config.bottom \in 1 .. 2 * Rows
      /\ config.top \in 0 .. 2 * Rows - 1 /\ config.top < config.bottom
      /\ config.br = Rows \/ 2 * config.br >= config.bottom + extra
      /\ config.tl \in Nat /\ (config.tl = 0 \/ 2 * config.tl <= config.top - 1)
      /\ config.filter \in 0 .. 2
  BY <1>1, ReadyFacts, CropFacts
<1>4. Upper \in Nat /\ Lower = Upper + 1
  BY ReadyFacts
<1>5. y < config.br /\ YFrom \in Nat /\ YFrom >= config.top /\ YFrom >= YStart /\ YEnd \in Int
  BY LinesBehind
<1>6. /\ YStart = (IF y = 0 THEN 0 ELSE 2 * y - extra)
      /\ LET end == 2 * (y + 1) - (IF y + 1 >= config.br THEN 0 ELSE extra)
         IN  YEnd = (IF end <= config.bottom THEN end ELSE config.bottom)
  BY RowEnds
<1>14. /\ YEnd <= 2 * y + 2 /\ YEnd <= config.bottom
       /\ y + 1 < config.br => YEnd <= 2 * y + 2 - extra
       /\ YStart >= 2 * y - 1
  <2>1. YStart = (IF y = 0 THEN 0 ELSE 2 * y - extra)
    BY <1>6
  <2>2. YStart >= 2 * y - 1
    BY <1>2, <1>3, <2>1
  <2> DEFINE end == 2 * (y + 1) - (IF y + 1 >= config.br THEN 0 ELSE extra)
  <2>3. YEnd = (IF end <= config.bottom THEN end ELSE config.bottom)
    BY <1>6
  <2>4. end \in Int /\ end <= 2 * y + 2 /\ (y + 1 < config.br => end = 2 * y + 2 - extra)
    BY <1>2, <1>3
  <2> HIDE DEF end
  <2>5. YEnd <= end /\ YEnd <= config.bottom
    BY <1>3, <2>3, <2>4
  <2> HIDE DEF y, extra
  <2> QED
    BY <1>2, <1>3, <1>5, <2>2, <2>4, <2>5
<1>7. k \in Nat /\ k >= config.top /\ k >= YStart /\ k < YEnd
  BY <1>2, <1>3, <1>5, <1>6
<1>8. CacheFrom + (k - YFrom) = Upper + (k - 2 * y)
  <2>1. Lag(IsFirst) = (IF y = 0 THEN 0 ELSE extra)
    BY DEF Lag, IsFirst
  <2> QED
    BY <2>1, <1>2, <1>3, <1>4, <1>5, <1>6, <1>7 DEF CacheFrom
<1>9. k \in {2 * y - 1, 2 * y, 2 * y + 1}
  <2>1. k >= 2 * y - 1 /\ k < 2 * y + 2
    <3>1. YStart \in Int
      BY LinesBehind
    <3> HIDE DEF y
    <3> QED
      BY <1>3, <1>5, <1>7, <1>14, <3>1
  <2> HIDE DEF y
  <2> QED
    BY <1>3, <1>7, <2>1
<1>10. /\ (2 * y) \div 2 = y /\ (2 * y) % 2 = 0
       /\ (2 * y + 1) \div 2 = y /\ (2 * y + 1) % 2 = 1
  BY <1>3, BandsOfRow
<1>11. CASE k = 2 * y - 1
  <2>1. y > 0 /\ extra = 1 /\ y - 1 \in Nat
    BY <1>2, <1>3, <1>6, <1>7, <1>11
  <2>2. y - 1 >= config.tl
    BY <1>3, <1>7, <1>11, <2>1
  <2>3. CacheFrom + (k - YFrom) = Upper - 1
    BY <1>3, <1>4, <1>8, <1>11
  <2>4. Filtered[Upper - 1] = [row |-> y - 1, half |-> 1, own |-> y - 1, below |-> y]
    BY <1>2, <1>5, <2>1, <2>2, FilteredAbove
  <2>5. k \div 2 = y - 1 /\ k % 2 = 1
    <3>1. k = 2 * (y - 1) + 1
      BY <1>3, <1>11
    <3> QED
      BY <2>1, <3>1, BandsOfRow
  <2>6. Band(k) = [row |-> y - 1, half |-> 1, own |-> y - 1, below |-> y]
    BY <1>2, <1>3, <2>1, <2>5 DEF Band
  <2> QED
    BY <2>3, <2>4, <2>6
<1>12. CASE k = 2 * y
  <2>1. y >= config.tl
    BY <1>3, <1>7, <1>12
  <2>2. ctx.filter_row <=> config.filter > 0
    BY <1>3, <1>5, <2>1 DEF Ready, BufferInv, FilterRowOf
  <2>3. CacheFrom + (k - YFrom) = Upper
    BY <1>3, <1>4, <1>8, <1>12
  <2>4. Filtered[Upper] = [Unfiltered(y, 0) EXCEPT !.own = IF ctx.filter_row THEN y ELSE NoRow]
    BY FilteredRow
  <2>5. Band(k) = [row |-> y, half |-> 0, own |-> IF config.filter > 0 THEN y ELSE NoRow,
                   below |-> NoRow]
    BY <1>10, <1>12 DEF Band
  <2> QED
    BY <2>2, <2>3, <2>4, <2>5 DEF Unfiltered
<1>13. CASE k = 2 * y + 1
  <2>1. y >= config.tl
    BY <1>3, <1>7, <1>13
  <2>2. ctx.filter_row <=> config.filter > 0
    BY <1>3, <1>5, <2>1 DEF Ready, BufferInv, FilterRowOf
  <2>3. CacheFrom + (k - YFrom) = Lower
    BY <1>3, <1>4, <1>8, <1>13
  <2>4. Filtered[Lower] = [Unfiltered(y, 1) EXCEPT !.own = IF ctx.filter_row THEN y ELSE NoRow]
    BY FilteredRow
  <2>5. ~(config.filter > 0 /\ y < Rows - 1)
    <3>1. ASSUME config.filter > 0, y < Rows - 1
          PROVE  FALSE
      <4>1. extra = 1
        BY <1>2, <3>1
      <4>2. y + 1 >= config.br
        BY <1>3, <1>5, <1>7, <1>13, <1>14, <4>1
      <4>3. config.br < Rows
        BY <1>3, <3>1, <1>5, <4>2
      <4>4. config.bottom <= 2 * y + 1
        BY <1>3, <1>5, <4>1, <4>2, <4>3
      <4> QED
        BY <1>3, <1>5, <1>7, <1>13, <1>14, <4>4
    <3> QED
      BY <3>1
  <2>6. Band(k) = [row |-> y, half |-> 1, own |-> IF config.filter > 0 THEN y ELSE NoRow,
                   below |-> NoRow]
    BY <1>10, <1>13, <2>5 DEF Band
  <2> QED
    BY <2>2, <2>3, <2>4, <2>6 DEF Unfiltered
<1> QED
  BY <1>9, <1>11, <1>12, <1>13

LEMMA CroppedGrows ==
  ASSUME NEW n \in Nat, NEW m \in Nat, config.top \in Nat
  PROVE  Cropped(n) \o [i \in 1 .. m |-> Band(config.top + n + i - 1)] = Cropped(n + m)
<1> DEFINE Bands == {Band(k) : k \in Int}
           rest == [i \in 1 .. m |-> Band(config.top + n + i - 1)]
<1>1. \A k \in Int : Band(k) \in Bands
  OBVIOUS
<1> HIDE DEF Bands
<1>2. \A l \in Nat : Cropped(l) \in Seq(Bands) /\ Len(Cropped(l)) = l
  BY <1>1 DEF Cropped
<1>3. rest \in Seq(Bands) /\ Len(rest) = m
  BY <1>1
<1> HIDE DEF rest
<1>4. /\ Cropped(n) \o rest \in Seq(Bands) /\ Len(Cropped(n) \o rest) = n + m
      /\ \A i \in 1 .. n + m : (Cropped(n) \o rest)[i] =
                               IF i <= n THEN Cropped(n)[i] ELSE rest[i - n]
  <2>1. Cropped(n) \in Seq(Bands) /\ Len(Cropped(n)) = n
    BY <1>2
  <2>2. /\ Cropped(n) \o rest \in Seq(Bands)
        /\ Len(Cropped(n) \o rest) = Len(Cropped(n)) + Len(rest)
        /\ \A i \in 1 .. Len(Cropped(n)) + Len(rest) :
             (Cropped(n) \o rest)[i] =
               IF i <= Len(Cropped(n)) THEN Cropped(n)[i] ELSE rest[i - Len(Cropped(n))]
    BY <1>3, <2>1, ConcatProperties
  <2> QED
    BY <1>3, <2>1, <2>2, Zenon
<1>5. ASSUME NEW i \in 1 .. n + m
      PROVE  (Cropped(n) \o rest)[i] = Cropped(n + m)[i]
  <2>1. Cropped(n + m)[i] = Band(config.top + i - 1)
    BY DEF Cropped
  <2>2. CASE i <= n
    <3>1. Cropped(n)[i] = Band(config.top + i - 1)
      BY <2>2 DEF Cropped
    <3> QED
      BY <1>4, <2>1, <2>2, <3>1
  <2>3. CASE ~(i <= n)
    <3>1. i - n \in 1 .. m
      BY <2>3
    <3>2. rest[i - n] = Band(config.top + n + (i - n) - 1)
      BY <3>1 DEF rest
    <3>3. config.top + n + (i - n) - 1 = config.top + i - 1
      BY <2>3
    <3> QED
      BY <1>4, <2>1, <2>3, <3>2, <3>3
  <2> QED
    BY <2>2, <2>3
<1>6. n + m \in Nat /\ Cropped(n + m) \in Seq(Bands) /\ Len(Cropped(n + m)) = n + m
  BY <1>2
<1>7. Cropped(n) \o rest = Cropped(n + m)
  BY <1>4, <1>5, <1>6, SeqEqual
<1> QED
  BY <1>7 DEF rest

(* The band that lacks the next row's filter is where the next row looks for it. *)
LEMMA BandAboveNext ==
  ASSUME Ready, config.filter > 0, ctx.mb_y + 1 < config.br
  PROVE  Rotated(Filtered)[2 * Following(ctx.id) - 1] =
           [Unfiltered(ctx.mb_y, 1) EXCEPT
              !.own = IF ctx.mb_y >= config.tl THEN ctx.mb_y ELSE NoRow]
<1>1. config \in Configs
  BY DEF Ready
<1>2. /\ ctx.mb_y \in Nat /\ config.br \in Int /\ config.tl \in Nat
      /\ Extra(config.filter) = 1
  BY <1>1, ReadyFacts, CropFacts, ExtraRange
<1>3. ctx.filter_row <=> ctx.mb_y >= config.tl
  BY <1>2 DEF Ready, BufferInv, FilterRowOf
<1>4. Filtered[Lower] = [Unfiltered(ctx.mb_y, 1) EXCEPT
                           !.own = IF ctx.mb_y >= config.tl THEN ctx.mb_y ELSE NoRow]
  BY <1>3, FilteredRow
<1>5. ~IsLast
  BY <1>2 DEF IsLast
<1>6. /\ ctx.id \in 0 .. 2 /\ config.caches \in 1 .. 3 /\ ctx.id < config.caches
      /\ -1 \in DOMAIN Filtered /\ Lower # -1
  <2>1. ctx.id \in 0 .. 2 /\ config.caches \in 1 .. 3 /\ ctx.id < config.caches
    BY ReadyFacts
  <2>2. DOMAIN Filtered = -1 .. 2 * config.caches - 1
    BY FilteredRow DEF Ready, CacheInv
  <2>3. Lower # -1
    BY <2>1 DEF Lower
  <2> QED
    BY <2>1, <2>2, <2>3
<1>7. CASE ctx.id + 1 = config.caches
  <2>1. 2 * Following(ctx.id) - 1 = -1
    BY <1>7 DEF Following
  <2>2. Rotated(Filtered) = [Filtered EXCEPT ![-1] = Filtered[Lower]]
    BY <1>2, <1>5, <1>7 DEF Rotated
  <2> QED
    BY <1>4, <1>6, <2>1, <2>2
<1>8. CASE ctx.id + 1 # config.caches
  <2>1. 2 * Following(ctx.id) - 1 = Lower
    BY <1>6, <1>8 DEF Following, Lower
  <2>2. Rotated(Filtered) = Filtered
    BY <1>8 DEF Rotated
  <2> QED
    BY <1>4, <2>1, <2>2
<1> QED
  BY <1>7, <1>8

LEMMA FinishedRow ==
  ASSUME Ready, LinesInv, NEW ok \in BOOLEAN, FinishRow(ok),
         ok \/ refused',
         refused' \/ (Done' = ctx.mb_y + 1 /\ NextId' = Following(ctx.id)),
         at' # "finish", job' # "finish"
  PROVE  CacheInv' /\ LinesInv'
<1>1. UNCHANGED <<config, ctx>>
  BY DEF FinishRow
<1>2. \/ /\ cache' = Rotated(Filtered)
         /\ lines' = IF HasOutput THEN lines \o Output(Filtered) ELSE lines
      \/ refused' /\ cache' = Filtered /\ lines' = lines
  BY DEF FinishRow
<1>3. DOMAIN Filtered = DOMAIN cache /\ DOMAIN Rotated(Filtered) = DOMAIN cache
  BY FilteredRow DEF Rotated
<1>4. /\ ctx.mb_y \in Nat /\ config.top \in Nat
      /\ config.filter \in Int /\ config.br \in Int
  BY ReadyFacts, CropFacts DEF Ready
<1>5. CacheInv'
  <2>1. DOMAIN cache' = -1 .. 2 * config'.caches - 1
    BY <1>1, <1>2, <1>3 DEF Ready, CacheInv
  <2>2. ASSUME ~refused', config'.filter > 0, Done' \in 1 .. config'.br - 1
        PROVE  cache'[2 * NextId' - 1] =
                 [Unfiltered(Done - 1, 1)' EXCEPT
                    !.own = IF (Done' - 1) >= config'.tl THEN Done' - 1 ELSE NoRow]
    <3>1. cache' = Rotated(Filtered) /\ config.filter > 0 /\ ctx.mb_y + 1 < config.br
      BY <1>1, <1>2, <1>4, <2>2
    <3>2. Done' - 1 = ctx.mb_y /\ NextId' = Following(ctx.id)
      BY <1>4, <2>2
    <3> QED
      BY <1>1, <3>1, <3>2, BandAboveNext DEF Unfiltered
  <2> QED
    BY <2>1, <2>2 DEF CacheInv
<1>6. Done = ctx.mb_y
  BY DEF Ready, Done
<1>7. lines = Cropped(BandsOf(ctx.mb_y))
  BY <1>6 DEF LinesInv, Ready
<1>8. BandsOf(ctx.mb_y) \in 0 .. 2 * Rows /\ BandsOf(ctx.mb_y + 1) \in 0 .. 2 * Rows
  BY <1>6, LinesBehind DEF LinesInv, Ready
<1>9. PICK n \in 0 .. 2 * Rows, next \in 0 .. 2 * Rows :
        n = BandsOf(ctx.mb_y) /\ next = BandsOf(ctx.mb_y + 1)
  BY <1>8
<1>10. /\ HasOutput => YFrom = config.top + n /\ next = n + (YEnd - YFrom)
       /\ ~HasOutput => next = n
       /\ YFrom \in Nat /\ YEnd \in Int
  BY <1>9, LinesBehind
<1>11. \A l \in 0 .. 2 * Rows : Cropped(l)' = Cropped(l)
  BY <1>1 DEF Cropped, Band
<1>12. refused' \/ BandsOf(Done)' = next
  BY <1>1, <1>9 DEF BandsOf, Lag
<1>13. lines = Cropped(n)
  BY <1>7, <1>9
<1>14. CASE lines' = lines /\ (refused' \/ next = n)
  <2>1. lines' = Cropped(n)'
    BY <1>11, <1>13, <1>14
  <2> QED
    BY <1>5, <1>12, <1>14, <2>1 DEF LinesInv
<1>15. CASE HasOutput /\ lines' = lines \o Output(Filtered)
  <2>1. YEnd - YFrom \in Nat
    BY <1>10, <1>15 DEF HasOutput
  <2>2. ASSUME NEW i \in 1 .. YEnd - YFrom
        PROVE  Filtered[CacheFrom + i - 1] = Band(config.top + n + i - 1)
    <3>1. YFrom + i - 1 \in YFrom .. YEnd - 1
      BY <1>10
    <3>2. CacheFrom \in Int
      BY <1>4, ReadyFacts, ExtraRange, LinesBehind DEF Ready, CacheFrom, Lag
    <3>3. /\ CacheFrom + ((YFrom + i - 1) - YFrom) = CacheFrom + i - 1
          /\ YFrom + i - 1 = config.top + n + i - 1
      <4>1. YFrom = config.top + n /\ YFrom \in Int /\ i \in Int
        BY <1>10, <1>15
      <4> QED
        BY <1>4, <3>2, <4>1
    <3> QED
      BY <1>15, <3>1, <3>3, HandedBand
  <2>3. Output(Filtered) = [i \in 1 .. YEnd - YFrom |-> Band(config.top + n + i - 1)]
    BY <2>2 DEF Output
  <2>4. YEnd - YFrom = next - n /\ next - n \in Nat /\ n + (next - n) = next
    BY <1>10, <1>15, <2>1
  <2>5. Output(Filtered) = [i \in 1 .. next - n |-> Band(config.top + n + i - 1)]
    BY <2>3, <2>4
  <2>6. Cropped(n) \o Output(Filtered) = Cropped(n + (next - n))
    <3>1. n \in Nat
      BY RowsAssumption
    <3>2. Cropped(n) \o [i \in 1 .. next - n |-> Band(config.top + n + i - 1)]
            = Cropped(n + (next - n))
      BY <1>4, <2>4, <3>1, CroppedGrows, Zenon
    <3> QED
      BY <2>5, <3>2
  <2>7. lines' = Cropped(next)'
    BY <1>11, <1>13, <1>15, <2>4, <2>6
  <2> QED
    BY <1>5, <1>12, <2>7 DEF LinesInv
<1> QED
  BY <1>2, <1>10, <1>14, <1>15

-----------------------------------------------------------------------------
(* The steps that move no row: calls of the worker, and the ways in and out. *)

USE DEF Threads, MainPlaces, WorkerPlaces, HasThread, Go, Executing,
        WorkerTypeOK, MutexHeld, RowTypeOK, CallTypeOK, workerVars, rowVars,
        callVars, Threaded, GoTo, GiveUp, Rest

Quiet ==
  /\ UNCHANGED <<rowVars, refused, job>>
  /\ Pending' <=> Pending
  /\ at' \in Handed <=> at \in Handed
  /\ at' \in {"parsed", "synced"} => at \in {"parsed", "synced"}
  /\ at' = "finish" => at = "finish"
  /\ job = "finish" => status' = "WORK"
  /\ Threaded /\ at' \in Decoding => HasThread'

LEMMA SameLines ==
  ASSUME LinesInv, UNCHANGED <<config, lines, refused>>, Done' = Done
  PROVE  LinesInv'
<1>1. \A n \in 0 .. 2 * Rows : Cropped(n)' = Cropped(n)
  BY DEF Cropped, Band
<1>2. BandsOf(Done)' = BandsOf(Done)
  BY DEF BandsOf, Lag
<1> QED
  BY <1>1, <1>2 DEF LinesInv

LEMMA QuietKeeps ==
  ASSUME PictureInv, Quiet
  PROVE  PlaceInv' /\ BufferInv' /\ CacheInv' /\ LinesInv'
<1>1. UNCHANGED <<config, mb_y, cache_id, dec, ctx, mb, fi, cache, lines, refused, job>>
  BY DEF Quiet
<1>2. PlaceInv'
  BY <1>1 DEF PictureInv, Quiet, PlaceInv, Following
<1>3. BufferInv'
  BY <1>1 DEF PictureInv, Quiet, BufferInv, FilterRowOf
<1>4. Done' = Done /\ NextId' = NextId
  BY <1>1 DEF Quiet, Done, NextId, Following
<1>5. CacheInv'
  BY <1>1, <1>4 DEF PictureInv, Quiet, CacheInv, Unfiltered, Upper, Lower
<1>6. LinesInv'
  BY <1>1, <1>4, SameLines DEF PictureInv
<1> QED
  BY <1>2, <1>3, <1>5, <1>6

(* What the steps below start from. *)
Before == TypeOK /\ Handshake /\ RowsInv /\ PictureInv

USE DEF Handshake, CallsInv, Asks, JobInv, EndInv, RefusedInv, Handed, Decoding, Pending

LEMMA QuietCalls ==
  ASSUME Before,
         \/ OutOfData \/ Launch \/ LastSync \/ ExitCritical \/ Clear
         \/ Process /\ Threaded
  PROVE  Quiet
<1>1. UNCHANGED <<rowVars, refused, job, status>>
  BY DEF OutOfData, Launch, LastSync, ExitCritical, Clear, Process, Call
<1>2. CASE Launch
  BY <1>1, <1>2 DEF Before, TypeOK, PictureInv, PlaceInv, Quiet, Launch, Call
<1>3. CASE OutOfData
  BY <1>1, <1>3 DEF Before, TypeOK, PictureInv, PlaceInv, Quiet, OutOfData, Call
<1>4. CASE LastSync \/ ExitCritical \/ Clear
  BY <1>1, <1>4
     DEF Before, TypeOK, PictureInv, PlaceInv, Quiet, LastSync, ExitCritical, Clear, Call
<1>5. CASE Process /\ Threaded
  BY <1>1, <1>5 DEF Before, TypeOK, PictureInv, PlaceInv, Quiet, Process, Call
<1> QED
  BY <1>2, <1>3, <1>4, <1>5

LEMMA QuietReturns ==
  ASSUME Before,
         \/ Suspend \/ Launched \/ AfterLastSync \/ ExitSync \/ Cleared
         \/ Synced /\ ~SyncOk
  PROVE  Quiet
<1>1. UNCHANGED <<rowVars, refused, job, status>>
  BY DEF Suspend, Launched, AfterLastSync, ExitSync, Cleared, Synced
<1>2. pc["main"] = "returned" /\ pc'["worker"] = pc["worker"]
  BY DEF Before, TypeOK, Suspend, Launched, AfterLastSync, ExitSync, Cleared, Synced, Return
<1>3. job = "finish" => status = "WORK"
  BY DEF Before, PictureInv, PlaceInv
<1>4. CASE Launched
  BY <1>1, <1>2, <1>3, <1>4
     DEF Before, TypeOK, PictureInv, PlaceInv, Quiet, Launched, Return
<1>5. CASE Suspend \/ AfterLastSync \/ ExitSync \/ Cleared \/ (Synced /\ ~SyncOk)
  <2>1. /\ at \in {"suspend", "last sync", "exit sync", "cleared", "synced"}
        /\ at' \in {"suspended", "exit", "teardown", "gone"}
    BY <1>5 DEF Suspend, AfterLastSync, ExitSync, Cleared, Synced
  <2>2. at' = "suspended" => at = "suspend"
    BY <1>5 DEF Suspend, AfterLastSync, ExitSync, Cleared, Synced
  <2>3. Threaded /\ at' = "suspended" => HasThread
    BY <2>2 DEF Before, PictureInv, PlaceInv
  <2> QED
    BY <1>1, <1>2, <1>3, <2>1, <2>3 DEF Quiet
<1> QED
  BY <1>4, <1>5

LEMMA QuietMoves ==
  ASSUME Before,
         Setup \/ InitFrame \/ ParseError \/ Teardown \/ AppendData \/ Delete
  PROVE  Quiet
<1>1. UNCHANGED <<rowVars, refused, job>>
  BY DEF Setup, InitFrame, ParseError, Teardown, AppendData, Delete
<1>2. job = "finish" => status = "WORK"
  BY DEF Before, PictureInv, PlaceInv
<1>3. CASE InitFrame
  <2>1. at = "init" /\ at' \in {"parse", "exit"} /\ status # "WORK" /\ status' # "WORK"
    BY <1>3 DEF Before, TypeOK, InitFrame, ResetOk, ResetFails
  <2>2. Threaded /\ at' = "parse" => HasThread'
    BY <1>3 DEF Before, TypeOK, InitFrame, ResetOk
  <2> QED
    BY <1>1, <1>2, <2>1, <2>2 DEF Quiet
<1>4. CASE AppendData
  <2>1. at = "suspended" /\ at' = "parse" /\ UNCHANGED workerVars
    BY <1>4 DEF AppendData
  <2>2. Threaded => HasThread
    BY <2>1 DEF Before, PictureInv, PlaceInv
  <2> QED
    BY <1>1, <1>2, <2>1, <2>2 DEF Quiet
<1>5. CASE Setup \/ ParseError \/ Teardown \/ Delete
  <2>1. /\ at \in {"setup", "parsed", "teardown", "suspended", "stopped"}
        /\ at' \in {"init", "stopped", "clear", "exit"}
        /\ UNCHANGED workerVars
    BY <1>5 DEF Setup, ParseError, Teardown, Delete
  <2> QED
    BY <1>1, <1>2, <2>1 DEF Quiet
<1> QED
  BY <1>3, <1>4, <1>5

LEMMA QuietWorker ==
  ASSUME Before,
         InChangeState \/ ThreadLoop \/ WakeForNothing
  PROVE  Quiet
<1>1. UNCHANGED <<rowVars, callVars, job>>
  BY DEF InChangeState, ThreadLoop, WakeForNothing
<1>2. job = "finish" => status = "WORK"
  BY DEF Before, PictureInv, PlaceInv
<1>3. CASE ThreadLoop \/ WakeForNothing
  <2>1. status' = status
    BY <1>3 DEF ThreadLoop, Worker, Acquire, WorkerCheck, WorkerSignal, Wait,
                WakeForNothing, SpuriousWakeup
  <2>2. pc'["main"] = pc["main"] /\ (HasThread => HasThread')
    BY <1>3 DEF Before, TypeOK, ThreadLoop, Worker, Acquire, WorkerCheck, WorkerSignal,
                Wait, WakeForNothing, SpuriousWakeup
  <2> QED
    BY <1>1, <1>2, <2>1, <2>2 DEF Quiet, Before, PictureInv, PlaceInv
<1>4. CASE InChangeState
  <2>1. CASE Acquire("main")
    BY <1>1, <1>2, <1>4, <2>1 DEF Before, TypeOK, Quiet, Acquire, PictureInv, PlaceInv
  <2>2. CASE MainSignal
    BY <1>1, <1>2, <1>4, <2>2 DEF Before, TypeOK, Quiet, MainSignal, PictureInv, PlaceInv
  <2>3. CASE MainJoin
    BY <1>1, <1>2, <1>4, <2>3 DEF Before, TypeOK, Quiet, MainJoin, PictureInv, PlaceInv
  <2>4. CASE MainCheck /\ status = "WORK"
    BY <1>1, <1>2, <1>4, <2>4
       DEF Before, TypeOK, Quiet, MainCheck, Wait, PictureInv, PlaceInv
  <2>5. CASE MainCheck /\ status # "WORK"
    BY <1>1, <1>2, <1>4, <2>5 DEF Before, TypeOK, Quiet, MainCheck, PictureInv, PlaceInv
  <2> QED
    BY <1>4, <2>1, <2>2, <2>3, <2>4, <2>5 DEF InChangeState, Main
<1> QED
  BY <1>3, <1>4

-----------------------------------------------------------------------------
(* The steps that move rows: the parser fills its buffers and gives them away,
   the row is reconstructed and finished. *)

(* No row in the buffers or in the cache is disturbed by this step. *)
LEMMA SamePlace ==
  ASSUME PictureInv, UNCHANGED <<config, cache, lines, refused>>,
         Done' = Done, NextId' = NextId
  PROVE  /\ LinesInv'
         /\ (at' = "finish" \/ job' = "finish"
               => (at = "finish" \/ job = "finish") /\ UNCHANGED ctx)
              => CacheInv'
<1>1. LinesInv'
  BY SameLines DEF PictureInv
<1>2. ASSUME at' = "finish" \/ job' = "finish"
               => (at = "finish" \/ job = "finish") /\ UNCHANGED ctx
      PROVE  CacheInv'
  BY <1>2 DEF PictureInv, CacheInv, Unfiltered, Upper, Lower
<1> QED
  BY <1>1, <1>2

LEMMA PictureParse ==
  ASSUME Before, Parse
  PROVE  PictureInv'
<1>1. /\ at = "parse" /\ at' = "parsed"
      /\ UNCHANGED <<workerVars, config, mb_y, cache_id, dec, ctx, cache, lines>>
      /\ UNCHANGED <<failed, refused, deleted, job>>
      /\ mb' = [mb EXCEPT ![dec.mb] = mb_y]
      /\ fi' = IF config.filter > 0 THEN [fi EXCEPT ![dec.fi] = mb_y] ELSE fi
  BY DEF Parse, ParseRow
<1>2. Pending' <=> Pending
  BY <1>1
<1>3. Pending => Threaded
  BY <1>1 DEF Before
<1>4. PlaceInv'
  BY <1>1, <1>2 DEF Before, PictureInv, PlaceInv, Following
<1>5. BufferInv'
  <2>1. BufferInv /\ (dec.mb # ctx.mb \/ ~Threaded)
    BY DEF Before, TypeOK, PictureInv
  <2>2. DOMAIN mb' = 0 .. 1 /\ DOMAIN fi' = 0 .. 1
    BY <1>1, <2>1 DEF BufferInv
  <2>3. mb'[dec.mb] = mb_y /\ (config.filter > 0 => fi'[dec.fi] = mb_y)
    BY <1>1, <2>1 DEF BufferInv
  <2>4. Pending => mb'[ctx.mb] = mb[ctx.mb] /\ fi'[ctx.fi] = fi[ctx.fi]
    BY <1>1, <1>3, <2>1 DEF BufferInv
  <2> QED
    BY <1>1, <1>2, <2>1, <2>2, <2>3, <2>4 DEF BufferInv, FilterRowOf
<1>6. Done' = Done /\ NextId' = NextId
  BY <1>1, <1>2 DEF Done, NextId, Following
<1>7. CacheInv' /\ LinesInv'
  BY <1>1, <1>6, SamePlace DEF Before
<1>8. EndingInv'
  BY <1>1 DEF Before, PictureInv, EndingInv
<1> QED
  BY <1>4, <1>5, <1>7, <1>8 DEF PictureInv

LEMMA RowFacts ==
  ASSUME Before
  PROVE  /\ config \in Configs /\ mb_y \in 0 .. Rows /\ mb_y \in Nat
         /\ cache_id \in 0 .. config.caches - 1 /\ config.caches \in 1 .. 3
<1>1. config \in Configs /\ mb_y \in 0 .. Rows /\ cache_id \in 0 .. config.caches - 1
  BY DEF Before, TypeOK
<1>2. config.caches \in 1 .. 3
  BY <1>1, ConfigFacts
<1> QED
  BY <1>1, <1>2

LEMMA PictureProcessHere ==
  ASSUME Before, Process, ~Threaded
  PROVE  PictureInv'
<1>1. /\ at = "parsed" /\ at' = "reconstruct"
      /\ UNCHANGED <<workerVars, config, mb_y, cache_id, dec, mb, fi, cache, lines>>
      /\ UNCHANGED <<failed, refused, deleted, job>>
      /\ ctx' = [ctx EXCEPT !.mb_y = mb_y, !.filter_row = FilterRowOf(mb_y)]
  BY DEF Process, UseRow
<1>2. ~Pending /\ Pending' /\ job # "finish"
  BY <1>1 DEF Before, PictureInv, PlaceInv
<1>3. config \in Configs /\ mb_y \in Nat /\ cache_id \in 0 .. config.caches - 1
  BY RowFacts
<1>4. config.caches = 1
  BY <1>3, ConfigFacts
<1>5. BufferInv /\ PlaceInv
  BY DEF Before, PictureInv
<1>6. cache_id = 0 /\ ctx.id = 0
  BY <1>3, <1>4, <1>5 DEF PlaceInv
<1>7. /\ ctx' \in [mb : 0 .. 1, fi : 0 .. 1, id : Int, mb_y : Nat, filter_row : BOOLEAN]
      /\ ctx'.mb = ctx.mb /\ ctx'.fi = ctx.fi /\ ctx'.id = 0
      /\ ctx'.mb_y = mb_y /\ (ctx'.filter_row <=> FilterRowOf(mb_y))
  BY <1>1, <1>3, <1>5, <1>6 DEF BufferInv, FilterRowOf
<1>8. PlaceInv'
  BY <1>1, <1>2, <1>3, <1>4, <1>5, <1>6, <1>7 DEF PlaceInv
<1>9. BufferInv'
  <2>1. dec.mb = ctx.mb /\ dec.fi = ctx.fi
    BY <1>5 DEF BufferInv
  <2>2. mb[dec.mb] = mb_y /\ (config.filter > 0 => fi[dec.fi] = mb_y)
    BY <1>1, <1>5 DEF BufferInv
  <2>3. FilterRowOf(mb_y)' <=> FilterRowOf(mb_y)
    BY <1>1 DEF FilterRowOf
  <2>4. FilterRowOf(mb_y) => config.filter > 0
    BY DEF FilterRowOf
  <2>5. FilterRowOf(ctx.mb_y)' <=> FilterRowOf(mb_y)
    BY <1>1, <1>7 DEF FilterRowOf
  <2> QED
    BY <1>1, <1>2, <1>5, <1>7, <2>1, <2>2, <2>4, <2>5 DEF BufferInv
<1>10. Done' = Done /\ NextId' = NextId
  BY <1>1, <1>2, <1>6, <1>7 DEF Done, NextId
<1>11. CacheInv' /\ LinesInv'
  <2>1. LinesInv'
    BY <1>1, <1>10, SamePlace DEF Before
  <2>2. at' # "finish" /\ job' # "finish"
    BY <1>1, <1>2
  <2> QED
    BY <1>1, <1>10, <2>1, <2>2, SamePlace DEF Before
<1>12. EndingInv'
  BY <1>1 DEF Before, PictureInv, EndingInv
<1> QED
  BY <1>8, <1>9, <1>11, <1>12 DEF PictureInv

(* The exchange: it is made while the worker has nothing to do. *)
LEMMA PictureSynced ==
  ASSUME Before, Synced, SyncOk
  PROVE  PictureInv'
<1>1. /\ at = "synced" /\ at' = "launch" /\ pc["main"] = "returned"
      /\ UNCHANGED <<status, config, mb_y, cache_id, mb, fi, cache, lines>>
      /\ UNCHANGED <<failed, refused, deleted, job>>
      /\ ctx' = [mb |-> dec.mb, fi |-> IF FilterRowOf(mb_y) THEN dec.fi ELSE ctx.fi,
                 id |-> cache_id, mb_y |-> mb_y, filter_row |-> FilterRowOf(mb_y)]
      /\ dec' = [mb |-> ctx.mb, fi |-> IF FilterRowOf(mb_y) THEN ctx.fi ELSE dec.fi]
  BY DEF Synced, SwapRow, Return
<1>2. Threaded /\ status # "WORK" /\ HasThread'
  <2>1. pc["worker"] # "none" /\ pc'["worker"] = pc["worker"]
    BY <1>1 DEF Before, TypeOK, PictureInv, PlaceInv, Synced, Return
  <2> QED
    BY <1>1, <2>1 DEF Before
<1>3. ~Pending /\ Pending' /\ job # "finish"
  BY <1>1, <1>2 DEF Before, PictureInv, PlaceInv
<1>4. config \in Configs /\ mb_y \in Nat /\ cache_id \in 0 .. config.caches - 1
  BY RowFacts
<1>5. BufferInv /\ PlaceInv /\ cache_id \in Int
  <2>1. config.caches \in 1 .. 3
    BY RowFacts
  <2>2. cache_id \in Int
    BY <1>4, <2>1
  <2> QED
    BY <2>2 DEF Before, PictureInv
<1>6. PlaceInv'
  BY <1>1, <1>2, <1>3, <1>4, <1>5 DEF PlaceInv
<1>7. BufferInv'
  <2>1. /\ dec' \in [mb : 0 .. 1, fi : 0 .. 1]
        /\ ctx' \in [mb : 0 .. 1, fi : 0 .. 1, id : Int, mb_y : Nat, filter_row : BOOLEAN]
    BY <1>1, <1>4, <1>5 DEF BufferInv, FilterRowOf
  <2>2. mb[dec.mb] = mb_y /\ (config.filter > 0 => fi[dec.fi] = mb_y)
    BY <1>1, <1>5 DEF BufferInv
  <2>3. FilterRowOf(ctx.mb_y)' <=> FilterRowOf(mb_y)
    BY <1>1 DEF FilterRowOf
  <2>4. FilterRowOf(mb_y) => config.filter > 0
    BY DEF FilterRowOf
  <2>5. dec'.fi # ctx'.fi
    BY <1>1, <1>2, <1>5 DEF BufferInv
  <2> QED
    BY <1>1, <1>2, <1>5, <2>1, <2>2, <2>3, <2>4, <2>5 DEF BufferInv
<1>8. Done' = Done /\ NextId' = NextId
  BY <1>1, <1>3 DEF Done, NextId
<1>9. CacheInv' /\ LinesInv'
  <2>1. at' # "finish" /\ job' # "finish"
    BY <1>1, <1>3
  <2> QED
    BY <1>1, <1>8, <2>1, SamePlace DEF Before
<1>10. EndingInv'
  BY <1>1 DEF Before, PictureInv, EndingInv
<1> QED
  BY <1>6, <1>7, <1>9, <1>10 DEF PictureInv

LEMMA Reconstructed ==
  ASSUME Before, Reconstruct, Pending, Pending', UNCHANGED refused
  PROVE  CacheInv' /\ LinesInv'
<1>1. UNCHANGED <<config, mb_y, cache_id, ctx, lines>>
  BY DEF Reconstruct
<1>2. Done' = Done /\ NextId' = NextId
  BY <1>1 DEF Done, NextId
<1>3. LinesInv'
  BY <1>1, <1>2, SameLines DEF Before, PictureInv
<1>4. ctx.id \in 0 .. 2 /\ ctx.id \in 0 .. config.caches - 1 /\ config.caches \in 1 .. 3
  <2>1. config.caches \in 1 .. 3 /\ ctx.id \in 0 .. config.caches - 1
    BY RowFacts DEF Before, PictureInv, PlaceInv
  <2> QED
    BY <2>1
<1>5. /\ Upper \in DOMAIN cache /\ Lower \in DOMAIN cache /\ Upper - 1 \in DOMAIN cache
      /\ Lower = Upper + 1 /\ Upper \in Int /\ Lower \in Int
  <2>1. DOMAIN cache = -1 .. 2 * config.caches - 1
    BY DEF Before, PictureInv, CacheInv
  <2>2. Upper \in Int /\ Lower = Upper + 1 /\ Upper >= 0 /\ Upper <= 2 * config.caches - 2
    BY <1>4 DEF Upper, Lower
  <2> QED
    BY <1>4, <2>1, <2>2
<1>6. mb[ctx.mb] = ctx.mb_y
  BY DEF Before, PictureInv, BufferInv
<1>7. /\ DOMAIN cache' = DOMAIN cache
      /\ cache'[Upper] = Unfiltered(ctx.mb_y, 0)
      /\ cache'[Lower] = Unfiltered(ctx.mb_y, 1)
      /\ cache'[Upper - 1] = cache[Upper - 1]
  BY <1>5, <1>6 DEF Reconstruct, Unfiltered
<1>8. CacheInv'
  <2>1. Upper' = Upper /\ Lower' = Lower
    BY <1>1 DEF Upper, Lower
  <2>2. \A half \in 0 .. 1 : Unfiltered(ctx.mb_y, half)' = Unfiltered(ctx.mb_y, half)
    BY <1>1 DEF Unfiltered
  <2>3. /\ DOMAIN cache' = -1 .. 2 * config'.caches - 1
        /\ cache'[Upper'] = Unfiltered(ctx.mb_y, 0)'
        /\ cache'[Lower'] = Unfiltered(ctx.mb_y, 1)'
    BY <1>1, <1>7, <2>1, <2>2 DEF Before, PictureInv, CacheInv
  <2>4. 2 * NextId - 1 = Upper - 1
    BY DEF NextId, Upper
  <2>5. CacheInv
    BY DEF Before, PictureInv
  <2>6. cache'[2 * NextId' - 1] = cache[2 * NextId - 1]
    BY <1>2, <1>7, <2>4
  <2>7. Unfiltered(Done - 1, 1)' = Unfiltered(Done - 1, 1)
    BY <1>2 DEF Unfiltered
  <2> HIDE DEF Pending
  <2> QED
    BY <1>1, <1>2, <2>3, <2>5, <2>6, <2>7 DEF CacheInv
<1> QED
  BY <1>3, <1>8

LEMMA PictureReconstructHere ==
  ASSUME Before, ReconstructHere
  PROVE  PictureInv'
<1>1. /\ at = "reconstruct" /\ at' = "finish" /\ Reconstruct
      /\ UNCHANGED <<workerVars, config, mb_y, cache_id, dec, ctx, mb, fi, lines>>
      /\ UNCHANGED <<failed, refused, deleted, job>>
  BY DEF ReconstructHere, Reconstruct
<1>2. Pending /\ Pending'
  BY <1>1
<1>3. PlaceInv' /\ BufferInv'
  BY <1>1 DEF Before, PictureInv, PlaceInv, BufferInv, FilterRowOf
<1>4. CacheInv' /\ LinesInv'
  BY <1>1, <1>2, Reconstructed
<1>5. EndingInv'
  BY <1>1 DEF Before, PictureInv, EndingInv
<1> QED
  BY <1>3, <1>4, <1>5 DEF PictureInv

LEMMA PictureWorkerReconstruct ==
  ASSUME Before, WorkerReconstruct
  PROVE  PictureInv'
<1>1. /\ job' = "finish" /\ Reconstruct
      /\ UNCHANGED <<workerVars, config, mb_y, cache_id, dec, ctx, mb, fi, lines>>
      /\ UNCHANGED callVars
  BY DEF WorkerReconstruct, Reconstruct
<1>2. status = "WORK"
  BY DEF Before, WorkerReconstruct
<1>3. Pending /\ Pending'
  BY <1>1, <1>2
<1>4. PlaceInv' /\ BufferInv'
  BY <1>1, <1>2 DEF Before, PictureInv, PlaceInv, BufferInv, FilterRowOf, Following
<1>5. CacheInv' /\ LinesInv'
  BY <1>1, <1>3, Reconstructed
<1>6. EndingInv'
  BY <1>1 DEF Before, PictureInv, EndingInv, LastRow
<1> QED
  BY <1>4, <1>5, <1>6 DEF PictureInv

(* The cache has one part without a worker, two or three with one. *)
LEMMA NextPart ==
  ASSUME Before, NextRow
  PROVE  cache_id' = Following(cache_id)
<1>1. /\ config \in Configs /\ config.caches \in 1 .. 3 /\ config.method \in {0, 2}
      /\ config.method = 0 => config.caches = 1
  BY RowFacts, ConfigFacts
<1>2. cache_id \in 0 .. config.caches - 1
  BY RowFacts
<1>3. CASE config.method = 0
  <2>1. cache_id' = cache_id /\ cache_id = 0 /\ config.caches = 1
    BY <1>1, <1>2, <1>3 DEF NextRow
  <2> QED
    BY <2>1 DEF Following
<1>4. CASE config.method = 2
  <2>1. cache_id' = (cache_id + 1) % config.caches
    BY <1>4 DEF NextRow
  <2>2. CASE config.caches = 1
    BY <1>2, <2>1, <2>2 DEF Following
  <2>3. CASE config.caches = 2
    <3>1. cache_id \in {0, 1}
      BY <1>2, <2>3
    <3> QED
      BY <2>1, <2>3, <3>1 DEF Following
  <2>4. CASE config.caches = 3
    <3>1. cache_id \in {0, 1, 2}
      BY <1>2, <2>4
    <3> QED
      BY <2>1, <2>4, <3>1 DEF Following
  <2> QED
    BY <1>1, <2>2, <2>3, <2>4
<1> QED
  BY <1>1, <1>3, <1>4

LEMMA PictureStep ==
  ASSUME Before, Step
  PROVE  PictureInv'
<1>1. /\ at = "next" /\ at' \in {"parse", "exit", "last"}
      /\ at' \in {"exit", "last"} => ~(mb_y + 1 < LastRow)
      /\ mb_y' = mb_y + 1
      /\ UNCHANGED <<workerVars, config, dec, ctx, mb, fi, cache, lines>>
      /\ UNCHANGED <<failed, refused, deleted, job>>
  BY DEF Step, NextRow
<1>2. Pending' <=> Pending
  BY <1>1
<1>3. cache_id' = Following(cache_id)
  BY NextPart DEF Step
<1>4. ctx.mb_y = mb_y /\ ctx.id = cache_id /\ mb_y \in Nat
  BY <1>1, RowFacts DEF Before, PictureInv, PlaceInv
<1>5. Following(ctx.id)' = cache_id'
  BY <1>1, <1>3, <1>4 DEF Following
<1>6. PlaceInv'
  <2>1. ctx.mb_y = mb_y' - 1
    BY <1>1, <1>4
  <2>2. Threaded => HasThread
    BY <1>1 DEF Before, PictureInv, PlaceInv
  <2> QED
    BY <1>1, <1>5, <2>1, <2>2 DEF Before, PictureInv, PlaceInv
<1>7. BufferInv'
  BY <1>1, <1>2 DEF Before, PictureInv, BufferInv, FilterRowOf
<1>8. Done' = Done /\ NextId' = NextId
  <2>1. Done' = Done
    BY <1>1, <1>2, <1>4 DEF Done
  <2>2. NextId = IF Pending THEN ctx.id ELSE Following(ctx.id)
    BY <1>1 DEF NextId
  <2>3. NextId' = IF Pending THEN ctx.id ELSE cache_id'
    BY <1>1, <1>2 DEF NextId
  <2> QED
    BY <1>3, <1>4, <2>1, <2>2, <2>3
<1>9. CacheInv' /\ LinesInv'
  BY <1>1, <1>8, SamePlace DEF Before
<1>10. EndingInv'
  <2>1. at' \in {"last", "exit"} => mb_y' = LastRow'
    <3>1. mb_y < LastRow
      BY <1>1 DEF Before, RowsInv, Behind
    <3>2. LastRow \in Int /\ LastRow' = LastRow
      BY <1>1, RowFacts, LastRowRange DEF LastRow
    <3> QED
      BY <1>1, <1>4, <3>1, <3>2
  <2> QED
    BY <1>1, <2>1 DEF Before, PictureInv, EndingInv
<1> QED
  BY <1>6, <1>7, <1>9, <1>10 DEF PictureInv

LEMMA FinishReady ==
  ASSUME Before, at = "finish" \/ (job = "finish" /\ Executing)
  PROVE  /\ Ready
         /\ at = "finish" => status # "WORK"
         /\ job = "finish" => Threaded /\ status = "WORK"
<1>1. /\ config \in Configs /\ LastRow \in 1 .. Rows
      /\ mb_y \in 0 .. Rows /\ Rows \in Nat /\ ctx.mb_y \in Nat
  BY RowFacts, LastRowRange, RowsAssumption DEF Before, PictureInv, BufferInv
<1>2. at = "finish" => status # "WORK" /\ ~Threaded
  BY DEF Before
<1>3. job = "finish" => status = "WORK" /\ Threaded
  BY DEF Before, PictureInv, PlaceInv
<1>4. Pending /\ ~refused
  BY <1>2, <1>3 DEF Before
<1>5. ctx.mb_y \in 0 .. Rows - 1
  <2>1. CASE at \in Handed
    <3>1. ctx.mb_y = mb_y /\ mb_y < LastRow
      BY <2>1 DEF Before, PictureInv, PlaceInv, RowsInv, Behind
    <3> QED
      BY <1>1, <3>1
  <2>2. CASE at \notin Handed
    <3>1. ctx.mb_y = mb_y - 1
      BY <1>4, <2>2 DEF Before, PictureInv, PlaceInv
    <3> QED
      BY <1>1, <3>1
  <2> QED
    BY <2>1, <2>2
<1>6. /\ cache[Upper] = Unfiltered(ctx.mb_y, 0)
      /\ cache[Lower] = Unfiltered(ctx.mb_y, 1)
  BY DEF Before, PictureInv, CacheInv
<1> QED
  BY <1>1, <1>2, <1>3, <1>4, <1>5, <1>6 DEF Ready, Before, PictureInv

LEMMA PictureFinishHere ==
  ASSUME Before, FinishHere
  PROVE  PictureInv'
<1>1. /\ at = "finish" /\ at' \in {"next", "exit"}
      /\ UNCHANGED <<workerVars, config, mb_y, cache_id, dec, ctx, mb, fi>>
      /\ UNCHANGED <<deleted, job>>
  BY DEF FinishHere, FinishRow
<1>2. /\ Ready /\ status # "WORK" /\ job # "finish"
      /\ ctx.mb_y = mb_y /\ ~refused
  <2>1. Ready /\ status # "WORK"
    BY <1>1, FinishReady, Zenon
  <2>2. job # "finish"
    BY <2>1 DEF Before, PictureInv, PlaceInv
  <2>3. ctx.mb_y = mb_y
    BY <1>1 DEF Before, PictureInv, PlaceInv
  <2> QED
    BY <2>1, <2>2, <2>3 DEF Ready
<1>3. PICK ok \in BOOLEAN :
        /\ FinishRow(ok)
        /\ IF ok THEN at' = "next" /\ refused' = refused /\ failed' = failed
                 ELSE at' = "exit" /\ refused' /\ failed'
  BY DEF FinishHere
<1>4. ~Pending'
  BY <1>1, <1>2
<1>5. PlaceInv'
  BY <1>1, <1>2, <1>4 DEF Before, PictureInv, PlaceInv
<1>6. BufferInv'
  BY <1>1, <1>4 DEF Before, PictureInv, BufferInv
<1>7. refused' \/ (Done' = ctx.mb_y + 1 /\ NextId' = Following(ctx.id))
  BY <1>1, <1>2, <1>3, <1>4 DEF Done, NextId, Following
<1>8. CacheInv' /\ LinesInv'
  <2>1. ok \/ refused'
    BY <1>3
  <2>2. at' # "finish" /\ job' # "finish"
    BY <1>1, <1>2
  <2> QED
    <3>1. Ready /\ LinesInv /\ FinishRow(ok)
      BY <1>2, <1>3 DEF Before, PictureInv
    <3> QED
      BY <1>7, <2>1, <2>2, <3>1, FinishedRow, Zenon
<1>9. EndingInv'
  BY <1>1, <1>2, <1>3 DEF Before, PictureInv, EndingInv
<1> QED
  BY <1>5, <1>6, <1>8, <1>9 DEF PictureInv

LEMMA PictureWorkerFinish ==
  ASSUME Before, WorkerFinish
  PROVE  PictureInv'
<1>1. /\ job = "finish" /\ job' = "reconstruct" /\ Executing /\ status' = "OK"
      /\ UNCHANGED <<config, mb_y, cache_id, dec, ctx, mb, fi>>
      /\ UNCHANGED <<at, failed, deleted>>
      /\ pc'["main"] = pc["main"] /\ pc'["worker"] # "none"
  BY DEF WorkerFinish, FinishRow, JobDone, Before, TypeOK
<1>2. Ready /\ status = "WORK" /\ Threaded /\ Pending
  BY <1>1, FinishReady DEF Ready
<1>3. PICK ok \in BOOLEAN : FinishRow(ok) /\ (ok \/ refused')
  BY DEF WorkerFinish
<1>4. /\ at \in {"next", "last", "parse", "parsed", "exit", "launched", "synced",
                 "suspend", "last sync", "exit sync"}
      /\ at = "launched" => pc["main"] \in {"signal", "returned"}
  BY <1>2 DEF Before
<1>5. ~Pending'
  BY <1>1, <1>4
<1>6. PlaceInv'
  BY <1>1, <1>2, <1>5 DEF Before, PictureInv, PlaceInv
<1>7. BufferInv'
  BY <1>1, <1>5 DEF Before, PictureInv, BufferInv
<1>8. Done' = ctx.mb_y + 1 /\ NextId' = Following(ctx.id)
  <2>1. CASE at \in Handed
    BY <1>1, <1>5, <2>1 DEF Before, PictureInv, PlaceInv, Done, NextId, Following
  <2>2. CASE at \notin Handed
    <3>1. ctx.mb_y = mb_y - 1 /\ cache_id = Following(ctx.id)
      BY <1>2, <2>2 DEF Before, PictureInv, PlaceInv
    <3>2. mb_y = ctx.mb_y + 1
      BY <3>1, RowFacts
    <3>3. Done' = mb_y /\ NextId' = cache_id
      BY <1>1, <1>5, <2>2 DEF Done, NextId
    <3> QED
      BY <3>1, <3>2, <3>3
  <2> QED
    BY <2>1, <2>2
<1>9. CacheInv' /\ LinesInv'
  <2>1. at' # "finish" /\ job' # "finish"
    BY <1>1, <1>4
  <2> QED
    BY <1>2, <1>3, <1>8, <2>1, FinishedRow DEF Before, PictureInv
<1>10. EndingInv'
  BY <1>1, <1>2, <1>4 DEF Before, PictureInv, EndingInv, LastRow
<1> QED
  BY <1>6, <1>7, <1>9, <1>10 DEF PictureInv

(* A decoding that ends well has come to its last row. *)
LEMMA EndingKept ==
  ASSUME EndingInv, UNCHANGED <<config, mb_y, refused>>, failed => failed',
         /\ deleted' => at' \in {"exit", "exit sync", "teardown", "clear", "cleared",
                                 "gone"}
         /\ at' \in {"last", "last sync", "exit", "exit sync", "teardown", "stopped"} =>
              \/ failed' \/ deleted'
              \/ /\ at \in {"last", "last sync", "exit", "exit sync", "teardown", "stopped"}
                 /\ deleted => deleted'
         /\ refused /\ Threaded /\ at' \in {"teardown", "stopped"} =>
              failed' \/ at \in {"teardown", "stopped"}
  PROVE  EndingInv'
<1>1. LastRow' = LastRow /\ (Threaded' <=> Threaded)
  BY DEF LastRow
<1>2. refused' <=> refused
  BY Zenon
<1> HIDE DEF Threaded
<1> QED
  BY <1>1, <1>2 DEF EndingInv

LEMMA EndingMoves ==
  ASSUME Before,
         \/ Setup \/ InitFrame \/ ParseError \/ OutOfData \/ Launch \/ LastSync
         \/ ExitCritical \/ Teardown \/ AppendData \/ Delete \/ Clear
         \/ Process /\ Threaded
  PROVE  EndingInv'
<1>1. /\ EndingInv /\ (Threaded => (refused <=> had_error))
      /\ deleted => at \in {"exit", "exit sync", "teardown", "clear", "cleared", "gone"}
  BY DEF Before, PictureInv, EndingInv
<1>2. CASE Setup \/ InitFrame \/ ParseError
  <2>1. /\ UNCHANGED <<config, mb_y, refused, deleted>>
        /\ at \in {"setup", "init", "parsed"}
        /\ \/ at' \in {"init", "parse"} /\ UNCHANGED failed
           \/ at' \in {"stopped", "clear", "exit"} /\ failed'
    BY <1>2 DEF Setup, InitFrame, ParseError
  <2>2. (failed => failed') /\ (deleted' => deleted)
    BY <2>1
  <2> QED
    BY <1>1, <2>1, <2>2, EndingKept
<1>3. CASE OutOfData \/ Launch \/ Clear \/ (Process /\ Threaded) \/ AppendData
  <2>1. /\ UNCHANGED <<config, mb_y, refused, deleted, failed>>
        /\ at \in {"parsed", "launch", "clear", "suspended"}
        /\ at' \in {"suspend", "suspended", "launched", "cleared", "synced", "parse"}
        /\ at' = "cleared" <=> at = "clear"
    BY <1>3 DEF OutOfData, Launch, Clear, Process, AppendData
  <2>2. (failed => failed') /\ (deleted' => deleted)
    BY <2>1, Zenon
  <2> QED
    BY <1>1, <2>1, <2>2, EndingKept
<1>4. CASE LastSync \/ ExitCritical
  <2>1. /\ UNCHANGED <<config, mb_y, refused, deleted, failed>>
        /\ \/ at = "last" /\ at' \in {"last sync", "exit"}
           \/ at = "exit" /\ at' = "exit sync"
           \/ at = "exit" /\ at' = "teardown" /\ ~Threaded
    BY <1>4 DEF LastSync, ExitCritical
  <2>2. (failed => failed') /\ (deleted' <=> deleted)
    BY <2>1, Zenon
  <2> QED
    BY <1>1, <2>1, <2>2, EndingKept
<1>5. CASE Teardown
  <2>1. /\ UNCHANGED <<config, mb_y, refused, deleted, failed>>
        /\ at = "teardown" /\ at' \in {"clear", "stopped"}
        /\ deleted => at' = "clear"
    BY <1>5 DEF Teardown
  <2>2. (failed => failed') /\ (deleted' <=> deleted)
    BY <2>1, Zenon
  <2> QED
    BY <1>1, <2>1, <2>2, EndingKept
<1>6. CASE Delete
  <2>1. /\ UNCHANGED <<config, mb_y, refused, failed>> /\ deleted'
        /\ at' \in {"exit", "clear"}
    BY <1>6 DEF Delete
  <2>2. failed => failed'
    BY <2>1, Zenon
  <2> QED
    BY <1>1, <2>1, <2>2, EndingKept
<1> QED
  BY <1>2, <1>3, <1>4, <1>5, <1>6

LEMMA EndingReturns ==
  ASSUME Before,
         \/ Suspend \/ Launched \/ AfterLastSync \/ ExitSync \/ Cleared
         \/ Synced /\ ~SyncOk
  PROVE  EndingInv'
<1>1. /\ EndingInv /\ (Threaded => (refused <=> had_error))
      /\ deleted => at \in {"exit", "exit sync", "teardown", "clear", "cleared", "gone"}
  BY DEF Before, PictureInv, EndingInv
<1>2. UNCHANGED <<config, mb_y, refused, deleted>>
  BY DEF Suspend, Launched, AfterLastSync, ExitSync, Cleared, Synced
<1>3. deleted' <=> deleted
  BY <1>2, Zenon
<1>4. CASE Suspend \/ (Synced /\ ~SyncOk) \/ AfterLastSync
  <2>1. /\ at \in {"suspend", "synced", "last sync"}
        /\ \/ at' = "suspended" /\ UNCHANGED failed
           \/ at' = "exit" /\ failed'
           \/ at' = "exit" /\ UNCHANGED failed /\ at = "last sync"
    BY <1>4 DEF Suspend, Synced, AfterLastSync
  <2>2. failed => failed'
    BY <2>1, Zenon
  <2> QED
    BY <1>1, <1>2, <1>3, <2>1, <2>2, EndingKept
<1>5. CASE Launched \/ Cleared
  <2>1. /\ UNCHANGED failed
        /\ \/ at = "launched" /\ at' = "next"
           \/ at = "cleared" /\ at' = "gone"
    BY <1>5 DEF Launched, Cleared
  <2>2. failed => failed'
    BY <2>1, Zenon
  <2> QED
    BY <1>1, <1>2, <1>3, <2>1, <2>2, EndingKept
<1>6. CASE ExitSync
  <2>1. Threaded /\ at = "exit sync" /\ at' = "teardown" /\ failed' = (failed \/ had_error)
    BY <1>6 DEF ExitSync, SyncOk, Before
  <2>2. failed \/ had_error => failed'
    BY <2>1, Zenon
  <2> QED
    BY <1>1, <1>2, <1>3, <2>1, <2>2, EndingKept
<1> QED
  BY <1>4, <1>5, <1>6

LEMMA EndingWorker ==
  ASSUME Before, InChangeState \/ ThreadLoop \/ WakeForNothing
  PROVE  EndingInv'
<1>1. UNCHANGED <<config, mb_y, at, failed, refused, deleted>> /\ EndingInv
  BY DEF InChangeState, ThreadLoop, WakeForNothing, Before, PictureInv
<1>2. LastRow' = LastRow /\ (Threaded' <=> Threaded)
  BY <1>1 DEF LastRow
<1> HIDE DEF Threaded
<1> QED
  BY <1>1, <1>2 DEF EndingInv

HIDE DEF Handshake, CallsInv, Asks, JobInv, EndInv, RefusedInv, Handed, Decoding, Pending

LEMMA PictureStutter ==
  ASSUME PictureInv, UNCHANGED vars
  PROVE  PictureInv'
<1>1. UNCHANGED <<workerVars, rowVars, callVars, job>>
  BY DEF vars
<1>2. PlaceInv'
  BY <1>1 DEF PictureInv, PlaceInv, Following, Handed, Decoding, Pending
<1>3. BufferInv'
  BY <1>1 DEF PictureInv, BufferInv, FilterRowOf, Pending
<1>4. Done' = Done /\ NextId' = NextId
  BY <1>1 DEF Done, NextId, Following, Handed, Pending
<1>5. CacheInv' /\ LinesInv'
  BY <1>1, <1>4, SamePlace
<1>6. EndingInv'
  BY <1>1 DEF PictureInv, EndingInv, LastRow
<1> QED
  BY <1>2, <1>3, <1>5, <1>6 DEF PictureInv

LEMMA PictureBeginning == Init => PictureInv
<1> SUFFICES ASSUME Init
             PROVE  PictureInv
  OBVIOUS
<1>1. /\ at = "setup" /\ job = "reconstruct" /\ status = "NOT_OK" /\ failed = FALSE
      /\ refused = FALSE /\ deleted = FALSE
  BY DEF Init, WorkerInit
<1>2. config \in Configs /\ config.top < config.bottom
  BY DEF Init, RowInit
<1>3. config.caches \in 1 .. 3 /\ config.method \in {0, 2}
  BY <1>2, ConfigFacts
<1>4. ~Pending
  BY <1>1 DEF Pending
<1>5. /\ mb_y = 0 /\ cache_id = 0 /\ lines = <<>>
      /\ dec = [mb |-> 0, fi |-> 0]
      /\ ctx = [mb |-> Second(config.method), fi |-> Second(config.method),
                id |-> 0, mb_y |-> 0, filter_row |-> FALSE]
      /\ mb = [b \in 0 .. 1 |-> NoRow] /\ fi = [b \in 0 .. 1 |-> NoRow]
      /\ DOMAIN cache = -1 .. 2 * config.caches - 1
  BY DEF Init, RowInit
<1>6. Done = 0
  BY <1>1, <1>4, <1>5 DEF Done, Handed
<1>7. PlaceInv
  BY <1>1, <1>2, <1>3, <1>4, <1>5 DEF PlaceInv, Handed, Decoding
<1>8. BufferInv
  <2>1. Second(config.method) \in 0 .. 1 /\ (Threaded <=> Second(config.method) = 1)
    BY <1>3 DEF Second
  <2> QED
    BY <1>1, <1>4, <1>5, <2>1 DEF BufferInv
<1>9. CacheInv
  BY <1>1, <1>5, <1>6 DEF CacheInv
<1>10. LinesInv
  <2>1. BandsOf(Done) = 0
    BY <1>6 DEF BandsOf
  <2>2. Cropped(0) = <<>>
    BY DEF Cropped
  <2>3. 0 \in 0 .. 2 * Rows
    BY RowsAssumption
  <2> QED
    BY <1>5, <2>1, <2>2, <2>3 DEF LinesInv
<1>11. EndingInv
  BY <1>1 DEF EndingInv
<1> QED
  BY <1>7, <1>8, <1>9, <1>10, <1>11 DEF PictureInv

LEMMA PictureNext ==
  ASSUME IInv, PictureInv, Next
  PROVE  PictureInv'
<1>1. Before
  BY DEF Before, IInv
<1>2. CASE \/ Setup \/ InitFrame \/ ParseError \/ OutOfData \/ Launch \/ LastSync
           \/ ExitCritical \/ Teardown \/ AppendData \/ Delete \/ Clear
           \/ Process /\ Threaded
  <2>1. Quiet
    BY <1>1, <1>2, QuietCalls, QuietMoves
  <2> QED
    BY <1>1, <1>2, <2>1, QuietKeeps, EndingMoves DEF PictureInv
<1>3. CASE \/ Suspend \/ Launched \/ AfterLastSync \/ ExitSync \/ Cleared
           \/ Synced /\ ~SyncOk
  <2>1. Quiet
    BY <1>1, <1>3, QuietReturns
  <2> QED
    BY <1>1, <1>3, <2>1, QuietKeeps, EndingReturns DEF PictureInv
<1>4. CASE InChangeState \/ ThreadLoop \/ WakeForNothing
  <2>1. Quiet
    BY <1>1, <1>4, QuietWorker
  <2> QED
    BY <1>1, <1>4, <2>1, QuietKeeps, EndingWorker DEF PictureInv
<1>5. CASE \/ Parse \/ (Process /\ ~Threaded) \/ (Synced /\ SyncOk) \/ Step
           \/ ReconstructHere \/ FinishHere \/ WorkerReconstruct \/ WorkerFinish
  BY <1>1, <1>5, PictureParse, PictureProcessHere, PictureSynced, PictureStep,
     PictureReconstructHere, PictureFinishHere, PictureWorkerReconstruct,
     PictureWorkerFinish
<1>6. CASE Gone
  BY <1>6, PictureStutter DEF Gone
<1> QED
  BY <1>2, <1>3, <1>4, <1>5, <1>6 DEF Next, Caller

(* VP8ProcessRow and FinishRow: the rows in the two buffers, in the cache and
   handed out are the right ones in every state, whichever thread is ahead. *)
THEOREM PictureInductive == Spec => []PictureIInv
<1>1. Init => PictureIInv
  BY Beginning, PictureBeginning DEF PictureIInv
<1>2. PictureIInv /\ [Next]_vars => PictureIInv'
  <2>1. ASSUME IInv, PictureInv, Next
        PROVE  IInv' /\ PictureInv'
    BY <2>1, PictureNext, WorkerTyping, RowTyping, CallTyping, HandshakeNext
       DEF IInv, TypeOK
  <2>2. ASSUME IInv, PictureInv, UNCHANGED vars
        PROVE  IInv' /\ PictureInv'
    BY <2>2, Stutter, PictureStutter
  <2> QED
    BY <2>1, <2>2 DEF PictureIInv
<1> QED
  BY <1>1, <1>2, PTL DEF Spec

(* What io->put gets, from one thread or two, for any height, crop and filter:
   the bands of the cropped picture from its top on, each with the samples and
   the filters of its own row and of the one below; and all of them when the
   decoding ends without an error. *)
THEOREM PictureHandedOut == Spec => []OutputIsThePicture
<1>1. PictureIInv => OutputIsThePicture
  <2> SUFFICES ASSUME PictureIInv
               PROVE  OutputIsThePicture
    OBVIOUS
  <2>1. Before
    BY DEF PictureIInv, IInv, Before
  <2>2. PICK n \in 0 .. 2 * Rows : lines = Cropped(n) /\ (refused \/ n = BandsOf(Done))
    BY <2>1 DEF Before, PictureInv, LinesInv
  <2>3. n \in Nat
    BY <2>2, RowsAssumption
  <2>4. \A i \in DOMAIN lines : lines[i] = Band(config.top + i - 1)
    BY <2>2 DEF Cropped
  <2>5. ASSUME at = "stopped", ~failed
        PROVE  Len(lines) = config.bottom - config.top
    <3>1. /\ ~deleted /\ mb_y = LastRow
          /\ refused => failed
      <4>1. EndingInv
        BY <2>1 DEF Before, PictureInv
      <4> QED
        BY <2>5, <4>1 DEF EndingInv
    <3>2. ~Pending
      BY <2>1, <2>5 DEF Before, Handshake, JobInv, Pending
    <3>3. Done = LastRow
      BY <2>5, <3>1, <3>2 DEF Done, Handed
    <3>4. config \in Configs /\ LastRow \in {config.br, Rows}
      BY <2>1, RowFacts DEF LastRow
    <3>5. n = config.bottom - config.top
      <4>1. /\ config.br \in 1 .. Rows /\ config.bottom \in 1 .. 2 * Rows
            /\ config.top \in 0 .. 2 * Rows - 1 /\ config.top < config.bottom
            /\ config.br = Rows \/ 2 * config.br >= config.bottom + Extra(config.filter)
            /\ Extra(config.filter) \in 0 .. 1
            /\ Rows \in Nat
        BY <2>1, <3>4, CropFacts, ExtraRange, RowsAssumption DEF Before, PictureInv, PlaceInv
      <4>2. /\ LastRow \in Int /\ LastRow >= config.br /\ LastRow # 0
            /\ 2 * LastRow >= config.bottom
        BY <3>4, <4>1
      <4>3. Lag(LastRow >= config.br) = 0
        BY <4>2 DEF Lag
      <4>4. Min({2 * LastRow - 0, config.bottom}) = config.bottom
        <5>1. 2 * LastRow - 0 \in Int /\ config.bottom \in Int
          BY <4>1, <4>2
        <5>2. /\ Min({2 * LastRow - 0, config.bottom}) \in {2 * LastRow - 0, config.bottom}
              /\ Min({2 * LastRow - 0, config.bottom}) <= config.bottom
          BY <5>1, LesserOfTwo, Zenon
        <5> QED
          BY <4>1, <4>2, <5>1, <5>2
      <4> DEFINE end == Min({2 * LastRow - Lag(LastRow >= config.br), config.bottom})
      <4>6. BandsOf(LastRow) =
              IF LastRow = 0 \/ end <= config.top THEN 0 ELSE end - config.top
        BY DEF BandsOf
      <4>7. end = config.bottom
        BY <4>3, <4>4, Zenon
      <4> HIDE DEF end
      <4>5. BandsOf(LastRow) = config.bottom - config.top
        BY <4>1, <4>2, <4>6, <4>7
      <4> QED
        BY <2>2, <2>5, <3>1, <3>3, <4>5
    <3> QED
      BY <2>2, <2>3, <3>5 DEF Cropped
  <2> QED
    BY <2>4, <2>5 DEF OutputIsThePicture
<1> QED
  BY <1>1, PictureInductive, PTL
=============================================================================
