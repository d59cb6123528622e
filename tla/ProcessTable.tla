---------------------------- MODULE ProcessTable ----------------------------
(***************************************************************************)
(* The process state table of POSAPI/OS_PROCS.c.  The API thread forks,    *)
(* signals and closes device processes (timers, buzzers); the 10 ms timer  *)
(* thread scans the table (PS_ExecProcess), calls the processes back, puts *)
(* them to sleep and kills them; the tamper thread forks two buzzers when  *)
(* it detects a tamper (LIB_BUZ_Open).  Nothing locks the table: the       *)
(* threads are kept apart by the order of their writes, by the LRC byte of *)
(* every entry and by the flag fPS_Exec, and two forks at once by nothing. *)
(* One action is one access, or a run of accesses to one entry that is     *)
(* taken to be atomic; the loops that only look for an entry (of a fork,   *)
(* of a signal, of a kill) are one step too.  Memory is taken to be        *)
(* sequentially consistent.                                                *)
(***************************************************************************)
EXTENDS Integers, Sequences, FiniteSets

CONSTANTS
  MAX_PST_NO,   \* entries of the table (32 in the code)
  MAX_DID_NO,   \* processes of one device (8 in the code)
  TimerDevices, \* devices of API_TMR.c: forked to run at every tick
  CloseAllDev,  \* psDEV_TIM, the device every api_tim_close*(0) closes
  Buzzers,      \* devices of API_BUZ.c: forked asleep, woken by SIG_INT
  BeepCycles,   \* callbacks of one sound: psBUZ_CYCLE times on and off
  TamperForks,  \* forks of the tamper thread (2 in LIB_BUZ_Open, 0: no tamper)
  CallsAfter,   \* bound: calls the API thread still begins after a tamper
  MaxOpen,      \* bound: handles the application has open at a time
  LastFirst,    \* TRUE: the application closes its newest handle only
  Paced         \* TRUE: the application lets two ticks pass between calls

Devices == TimerDevices \cup Buzzers

ASSUME SizeAssumption == /\ MAX_PST_NO \in Nat \ {0}
                         /\ MAX_DID_NO \in 1..8
ASSUME DeviceAssumption == /\ TimerDevices \cap Buzzers = {}
                           /\ "none" \notin Devices
                           /\ CloseAllDev \in TimerDevices
                           /\ BeepCycles \in Nat
                           /\ MaxOpen \in Nat
                           /\ TamperForks \in Nat
                           /\ CallsAfter \in Nat
ASSUME UseAssumption == LastFirst \in BOOLEAN /\ Paced \in BOOLEAN

Slots == 0 .. MAX_PST_NO - 1

(* A byte is the set of its one bits, so that XOR is symmetric difference. *)
Byte == SUBSET (0 .. 7)
PS_END == {}
PS_RUNNING == {0}
PS_SLEEPING == {1}
PS_KILLED == 0 .. 7
SIG_IGNORE == {}
SIG_EXIT == {0}
SIG_INT == {0, 1}

Xor(a, b) == (a \ b) \cup (b \ a)
TidBits(tid) == {b \in 0 .. 2 : (tid \div 2^b) % 2 = 1}

Never == 0          \* Xtime 0x0000
Always == 65535     \* Xtime 0xFFFF: both bytes equal, so it cancels in the LRC

Tids == 0 .. 7
Pids == [did : Devices \cup {"none"}, tid : Tids]
NoPid == [did |-> "none", tid |-> 0]      \* the zero of a fresh table

(* PS_RenewLRC's checksum; the device bits and the callback pointer are    *)
(* kept apart from the low bits, where they do not meet State and Signal.  *)
Checksum(e) == [did |-> e.PID.did, isr |-> e.pIsrFunc,
                low |-> Xor(TidBits(e.PID.tid), Xor(e.State, e.Signal))]

(* the checksum of an entry of zeros *)
NoSum == [did |-> "none", isr |-> "none", low |-> {}]

VARIABLES
  pst,        \* ProcessStateTable
  fPS_Exec,   \* set by api_tim_close, reset by each scan
  api,        \* the API thread: program counter and locals
  tam,        \* the tamper thread in PS_ForkProcess, and the forks it has left
  exec,       \* the timer thread in PS_ExecProcess
  held,       \* the application's open handles, oldest first
  pace,       \* scan ends the application still waits for
  crossed     \* history: entries that the last fork to take them did not
              \* have to itself, another one being under way

vars == <<pst, fPS_Exec, api, tam, exec, held, pace, crossed>>

Checksums == [did : Devices \cup {"none"}, isr : Devices \cup {"none"}, low : Byte]

Entries == [State : {PS_END, PS_RUNNING, PS_SLEEPING, PS_KILLED},
            PID : Pids,
            Xtime : {Never, Always},
            pIsrFunc : Devices \cup {"none"},
            Signal : {SIG_IGNORE, SIG_EXIT, SIG_INT},
            LRC : Checksums,
            RFU_0 : 0 .. BeepCycles]

Live(i) == pst[i].State \in {PS_RUNNING, PS_SLEEPING}
LiveOf(did) == {i \in Slots : Live(i) /\ pst[i].PID.did = did}

ForkPcs == {"fork_pid", "fork_time", "fork_isr", "fork_run", "fork_sum", "fork_lrc"}
SignalPcs == {"seek", "put_signal", "put_xtime", "sum", "put_lrc"}
ExecPcs == {"idle", "check", "switch", "call", "quiet", "quiet_sum",
            "quiet_lrc", "reload", "wake", "sleep", "renew", "put_lrc",
            "kill", "kill_look", "kill_end", "up_read", "up_write"}

ApiLocals == [pc : {"idle", "wait"} \cup ForkPcs \cup SignalPcs,
              op : {"none", "open", "close", "sound"}, pid : Pids,
              slot : Slots, all : BOOLEAN, lrc : Checksums]
TamperLocals == [pc : {"idle"} \cup ForkPcs, pid : Pids, slot : Slots,
                 lrc : Checksums, left : 0 .. TamperForks,
                 calls : 0 .. CallsAfter]
ExecLocals == [pc : ExecPcs, i : Slots, j : Slots, lrc : Checksums,
               woken : BOOLEAN]    \* the callback is the one of a wake-up

IdleApi == [pc |-> "idle", op |-> "none", pid |-> NoPid, slot |-> 0,
            all |-> FALSE, lrc |-> NoSum]
IdleTamper(left, calls) == [pc |-> "idle", pid |-> NoPid, slot |-> 0, lrc |-> NoSum,
                            left |-> left, calls |-> calls]
ExecAt(pc, i) == [pc |-> pc, i |-> i, j |-> 0, lrc |-> NoSum, woken |-> FALSE]

(* PS_ClearAllProcess on the zeroed static table *)
Init ==
  /\ pst = [i \in Slots |->
              [State |-> PS_END, PID |-> NoPid, Xtime |-> Never,
               pIsrFunc |-> "none", Signal |-> SIG_IGNORE,
               LRC |-> NoSum, RFU_0 |-> 0]]
  /\ fPS_Exec = FALSE
  /\ api = IdleApi
  /\ tam = IdleTamper(TamperForks, CallsAfter)
  /\ exec = ExecAt("idle", 0)
  /\ held = << >>
  /\ pace = 0
  /\ crossed = {}

-----------------------------------------------------------------------------
(* PS_ForkProcess, by the API thread or by the tamper thread.              *)

Forking(t) == t.pc \in ForkPcs

FreeSlotsSleepers == {i \in Slots : pst[i].State # PS_RUNNING}   \* mutant

FreeSlots == {i \in Slots : ~Live(i)}

ForkTidStuck(did) == 0                                         \* mutant

(* The look-up: the first free slot, and a tid that steps over each live   *)
(* process of the device as the table order meets it.                      *)
ForkTid(did) ==
  LET tid[n \in 0 .. MAX_PST_NO] ==
        IF n = 0 THEN 0
        ELSE IF Live(n - 1) /\ pst[n - 1].PID = [did |-> did, tid |-> tid[n - 1]]
             THEN (tid[n - 1] + 1) % 8
             ELSE tid[n - 1]
  IN tid[MAX_PST_NO]

CanForkOneMore(did) ==                                         \* mutant
  FreeSlots # {} /\ Cardinality(LiveOf(did)) <= MAX_DID_NO

CanFork(did) == FreeSlots # {} /\ Cardinality(LiveOf(did)) < MAX_DID_NO

(* Entry i is taken. The fork has it to itself unless another is under way. *)
Crossing(i, other) ==
  (crossed \ {i}) \cup (IF Forking(other) THEN {i, other.slot} ELSE {})

LastSlots == {i \in FreeSlots : \A k \in FreeSlots : i >= k}   \* mutant

FirstSlots == {i \in FreeSlots : \A k \in FreeSlots : i <= k}

(* Thread t becomes u; other is the thread that may be forking as well.    *)
LookUp(did, t, other, u) ==
  /\ CanFork(did)
  /\ \E tid \in Tids, i \in FirstSlots :
       /\ tid = ForkTid(did)
       /\ u = [t EXCEPT !.pc = "fork_pid", !.slot = i,
                        !.pid = [did |-> did, tid |-> tid]]
       /\ crossed' = Crossing(i, other)

ForkPid(t, u) ==
  /\ t.pc = "fork_pid"
  /\ pst' = [pst EXCEPT ![t.slot].PID = t.pid]
  /\ u = [t EXCEPT !.pc = "fork_time"]

(* What api_tim_open* and api_buz_open ask for: a timer runs at every     *)
(* tick, a buzzer goes to sleep with its beeps loaded.                     *)
OpenXtime(did) == IF did \in Buzzers THEN Never ELSE Always
OpenBeeps(did) == IF did \in Buzzers THEN BeepCycles ELSE 0

ForkTime(t, u) ==
  /\ t.pc = "fork_time"
  /\ pst' = [pst EXCEPT ![t.slot].Xtime = OpenXtime(t.pid.did)]
  /\ u = [t EXCEPT !.pc = "fork_isr"]

ForkIsr(t, u) ==
  /\ t.pc = "fork_isr"
  /\ pst' = [pst EXCEPT ![t.slot].pIsrFunc = t.pid.did,
                        ![t.slot].Signal = SIG_IGNORE,
                        ![t.slot].RFU_0 = OpenBeeps(t.pid.did)]
  /\ u = [t EXCEPT !.pc = "fork_run"]

ForkRun(t, u) ==
  /\ t.pc = "fork_run"
  /\ pst' = [pst EXCEPT ![t.slot].State = PS_RUNNING]
  /\ u = [t EXCEPT !.pc = "fork_sum"]

ForkSum(t, u) ==
  /\ t.pc = "fork_sum"
  /\ u = [t EXCEPT !.pc = "fork_lrc", !.lrc = Checksum(pst[t.slot])]
  /\ UNCHANGED pst

ForkStep(t, u) == ForkPid(t, u) \/ ForkTime(t, u) \/ ForkIsr(t, u)
                    \/ ForkRun(t, u) \/ ForkSum(t, u)

ForkLrc(t) ==
  /\ t.pc = "fork_lrc"
  /\ pst' = [pst EXCEPT ![t.slot].LRC = t.lrc]

-----------------------------------------------------------------------------
(* The API thread.  A call starts when the previous one has returned.  The *)
(* AP gets no call any more once a tamper is detected, but the one being   *)
(* served goes on, and may open and close devices as it runs.              *)

Detected == tam.left < TamperForks
MayCall == /\ api.pc = "idle"
           /\ Paced => pace = 0 /\ exec.pc = "idle"
           /\ Detected => tam.calls > 0

Return == /\ api' = IdleApi
          /\ pace' = IF Paced THEN 2 ELSE 0

(* PS_ForkProcess fails: the table or the device is full. *)
OpenFails(did) ==
  /\ MayCall
  /\ ~CanFork(did)
  /\ Return
  /\ UNCHANGED <<pst, fPS_Exec, exec, held>>

Open(did) ==
  /\ MayCall
  /\ Len(held) < MaxOpen
  /\ LookUp(did, [IdleApi EXCEPT !.op = "open"], tam, api')
  /\ UNCHANGED <<pst, fPS_Exec, exec, held, pace>>

OpenStep ==
  /\ ForkStep(api, api')
  /\ UNCHANGED <<fPS_Exec, exec, held, pace>>

OpenReturn ==
  /\ ForkLrc(api)
  /\ held' = Append(held, api.pid)
  /\ Return
  /\ UNCHANGED <<fPS_Exec, exec>>

(* api_tim_close and api_buz_close of one handle: only the timer's close   *)
(* arms fPS_Exec.                                                          *)
Close(k) ==
  /\ MayCall
  /\ LastFirst => k = Len(held)
  /\ api' = [IdleApi EXCEPT !.pc = "seek", !.op = "close", !.pid = held[k]]
  /\ held' = [n \in 1 .. Len(held) - 1 |-> IF n < k THEN held[n] ELSE held[n + 1]]
  /\ fPS_Exec' = (fPS_Exec \/ held[k].did \in TimerDevices)
  /\ UNCHANGED <<pst, exec, pace>>

(* A close of handle 0 by an application whose handles are all of device   *)
(* did.  api_tim_close2(0) and api_tim_close3(0) close psDEV_TIM, not      *)
(* their own device.                                                       *)
CloseAllTarget(did) == IF did \in Buzzers THEN did ELSE CloseAllDev

CloseAll(did) ==
  /\ MayCall
  /\ ~LastFirst
  /\ held # << >>
  /\ \A k \in 1 .. Len(held) : held[k].did = did
  /\ api' = [IdleApi EXCEPT !.pc = "seek", !.op = "close", !.all = TRUE,
                            !.pid = [did |-> CloseAllTarget(did), tid |-> 0]]
  /\ held' = << >>
  /\ fPS_Exec' = (fPS_Exec \/ did \in TimerDevices)
  /\ UNCHANGED <<pst, exec, pace>>

Sound(k) ==
  /\ MayCall
  /\ held[k].did \in Buzzers
  /\ api' = [IdleApi EXCEPT !.pc = "seek", !.op = "sound", !.pid = held[k]]
  /\ UNCHANGED <<pst, fPS_Exec, exec, held, pace>>

(* PS_SignalProcess *)
Found == {i \in Slots : Live(i) /\ pst[i].PID = api.pid}

(* PS_CloseAllPID goes on with the next tid; a single close, or the last   *)
(* tid, ends in the wait on fPS_Exec; a sound returns.                     *)
AfterSignal ==
  IF api.op = "sound"
  THEN Return
  ELSE /\ api' = IF api.all /\ api.pid.tid < MAX_DID_NO - 1
                 THEN [api EXCEPT !.pc = "seek", !.pid.tid = @ + 1]
                 ELSE [IdleApi EXCEPT !.pc = "wait", !.op = "close"]
       /\ UNCHANGED pace

Seek ==
  /\ api.pc = "seek"
  /\ \E i \in Found : /\ \A k \in Found : i <= k
                     /\ api' = [api EXCEPT !.pc = "put_signal", !.slot = i]
  /\ UNCHANGED <<pst, fPS_Exec, exec, held, pace>>

SeekFails ==
  /\ api.pc = "seek"
  /\ Found = {}
  /\ IF api.all THEN AfterSignal ELSE Return
  /\ UNCHANGED <<pst, fPS_Exec, exec, held>>

PutSignal ==
  /\ api.pc = "put_signal"
  /\ pst' = [pst EXCEPT ![api.slot].Signal =
                           IF api.op = "close" THEN SIG_EXIT ELSE SIG_INT]
  /\ api' = [api EXCEPT !.pc = "put_xtime"]
  /\ UNCHANGED <<fPS_Exec, exec, held, pace>>

(* mutant: a close leaves the execution time alone *)
PutXtimeKept ==
  /\ api.pc = "put_xtime"
  /\ pst' = IF api.op = "close" THEN [pst EXCEPT ![api.slot].RFU_0 = 0]
            ELSE [pst EXCEPT ![api.slot].Xtime = Always]
  /\ api' = [api EXCEPT !.pc = "sum"]
  /\ UNCHANGED <<fPS_Exec, exec, held, pace>>

PutXtime ==
  /\ api.pc = "put_xtime"
  /\ pst' = IF api.op = "close"
            THEN [pst EXCEPT ![api.slot].Xtime = Never, ![api.slot].RFU_0 = 0]
            ELSE [pst EXCEPT ![api.slot].Xtime = Always]
  /\ api' = [api EXCEPT !.pc = "sum"]
  /\ UNCHANGED <<fPS_Exec, exec, held, pace>>

SignalSum ==
  /\ api.pc = "sum"
  /\ api' = [api EXCEPT !.pc = "put_lrc", !.lrc = Checksum(pst[api.slot])]
  /\ UNCHANGED <<pst, fPS_Exec, exec, held, pace>>

SignalLrc ==
  /\ api.pc = "put_lrc"
  /\ pst' = [pst EXCEPT ![api.slot].LRC = api.lrc]
  /\ AfterSignal
  /\ UNCHANGED <<fPS_Exec, exec, held>>

(* PS_NormalCloseDevice: while( fPS_Exec ); *)
CloseReturn ==
  /\ api.pc = "wait"
  /\ ~fPS_Exec
  /\ Return
  /\ UNCHANGED <<pst, fPS_Exec, exec, held>>

-----------------------------------------------------------------------------
(* The timer thread: PS_ExecProcess, once every 10 ms.                     *)

Goto(pc) == exec' = [exec EXCEPT !.pc = pc]

ScanEnds == /\ exec' = ExecAt("idle", 0)
            /\ pace' = IF pace > 0 THEN pace - 1 ELSE 0

(* the end of an entry's turn: the next entry, or the end of the scan *)
EntryDone == IF exec.i = MAX_PST_NO - 1
             THEN ScanEnds
             ELSE /\ exec' = ExecAt("check", exec.i + 1)
                  /\ UNCHANGED pace

(* mutant: fPS_Exec is not reset *)
ScanStartFlagKept ==
  /\ exec.pc = "idle"
  /\ exec' = ExecAt("check", 0)
  /\ UNCHANGED <<pst, fPS_Exec, api, held, pace>>

ScanStart ==
  /\ exec.pc = "idle"
  /\ fPS_Exec' = FALSE
  /\ exec' = ExecAt("check", 0)
  /\ UNCHANGED <<pst, api, held, pace>>

(* PS_CheckLRC *)
Check ==
  /\ exec.pc = "check"
  /\ IF pst[exec.i].LRC = Checksum(pst[exec.i])
     THEN Goto("switch") /\ UNCHANGED pace
     ELSE EntryDone
  /\ UNCHANGED <<pst, fPS_Exec, api, held>>

(* switch( pPST->State ) and the tests of Signal and Xtime under it *)
Switch ==
  LET e == pst[exec.i] IN
  /\ exec.pc = "switch"
  /\ \/ e.State = PS_END /\ ScanEnds
     \/ e.State = PS_KILLED /\ EntryDone
     \/ /\ e.State = PS_SLEEPING
        /\ \/ e.Signal = SIG_INT /\ Goto("wake") /\ UNCHANGED pace
           \/ e.Signal = SIG_EXIT /\ Goto("kill") /\ UNCHANGED pace
           \/ e.Signal = SIG_IGNORE /\ EntryDone
     \/ /\ e.State = PS_RUNNING
        /\ \/ e.Xtime = Always /\ Goto("call") /\ UNCHANGED pace
           \/ /\ e.Xtime = Never
              /\ Goto(IF e.Signal = SIG_EXIT THEN "kill" ELSE "sleep")
              /\ UNCHANGED pace
  /\ UNCHANGED <<pst, fPS_Exec, api, held>>

(* OS_TaskTimer touches counters only.  OS_TaskBuzzer's cycle, on and off  *)
(* counters are one count of callbacks; on the last one it goes to sleep.  *)
LastBeep(e) == e.pIsrFunc \in Buzzers /\ e.RFU_0 <= 1

IsrRun(e) ==
  IF e.pIsrFunc \notin Buzzers THEN e
  ELSE IF LastBeep(e) THEN [e EXCEPT !.RFU_0 = 0, !.Signal = SIG_IGNORE]
  ELSE [e EXCEPT !.RFU_0 = @ - 1]

(* the callback has returned *)
Called == IF exec.woken THEN Goto("renew") /\ UNCHANGED pace ELSE EntryDone

(* mutant: the scan returns after a callback *)
CallReturns ==
  /\ exec.pc = "call"
  /\ pst' = [pst EXCEPT ![exec.i] = IsrRun(@)]
  /\ IF LastBeep(pst[exec.i]) THEN Goto("quiet") /\ UNCHANGED pace ELSE ScanEnds
  /\ UNCHANGED <<fPS_Exec, api, held>>

Call ==
  /\ exec.pc = "call"
  /\ pst' = [pst EXCEPT ![exec.i] = IsrRun(@)]
  /\ IF LastBeep(pst[exec.i]) THEN Goto("quiet") /\ UNCHANGED pace ELSE Called
  /\ UNCHANGED <<fPS_Exec, api, held>>

(* OS_TaskBuzzer puts itself to sleep: Xtime, the LRC, the counters *)
Quiet ==
  /\ exec.pc = "quiet"
  /\ pst' = [pst EXCEPT ![exec.i].Xtime = Never]
  /\ Goto("quiet_sum")
  /\ UNCHANGED <<fPS_Exec, api, held, pace>>

QuietSum ==
  /\ exec.pc = "quiet_sum"
  /\ exec' = [exec EXCEPT !.pc = "quiet_lrc", !.lrc = Checksum(pst[exec.i])]
  /\ UNCHANGED <<pst, fPS_Exec, api, held, pace>>

QuietLrc ==
  /\ exec.pc = "quiet_lrc"
  /\ pst' = [pst EXCEPT ![exec.i].LRC = exec.lrc]
  /\ exec' = [exec EXCEPT !.pc = "reload", !.lrc = NoSum]
  /\ UNCHANGED <<fPS_Exec, api, held, pace>>

ReloadOneMore ==                                               \* mutant
  /\ exec.pc = "reload"
  /\ pst' = [pst EXCEPT ![exec.i].RFU_0 = BeepCycles + 1]
  /\ Called
  /\ UNCHANGED <<fPS_Exec, api, held>>

Reload ==
  /\ exec.pc = "reload"
  /\ pst' = [pst EXCEPT ![exec.i].RFU_0 = BeepCycles]
  /\ Called
  /\ UNCHANGED <<fPS_Exec, api, held>>

(* The process is awake before it is called back. *)
Wake ==
  /\ exec.pc = "wake"
  /\ pst' = [pst EXCEPT ![exec.i].Signal = SIG_IGNORE, ![exec.i].State = PS_RUNNING]
  /\ exec' = [exec EXCEPT !.pc = "call", !.woken = TRUE]
  /\ UNCHANGED <<fPS_Exec, api, held, pace>>

Sleep ==
  /\ exec.pc = "sleep"
  /\ pst' = [pst EXCEPT ![exec.i].State = PS_SLEEPING]
  /\ Goto("renew")
  /\ UNCHANGED <<fPS_Exec, api, held, pace>>

(* PS_RenewLRC: the sum is read, then stored *)
Renew ==
  /\ exec.pc = "renew"
  /\ exec' = [exec EXCEPT !.pc = "put_lrc", !.lrc = Checksum(pst[exec.i])]
  /\ UNCHANGED <<pst, fPS_Exec, api, held, pace>>

PutLrc ==
  /\ exec.pc = "put_lrc"
  /\ pst' = [pst EXCEPT ![exec.i].LRC = exec.lrc]
  /\ EntryDone
  /\ UNCHANGED <<fPS_Exec, api, held>>

(* PS_KillProcess: the first entry that has the PID, whatever its state *)
Kill ==
  /\ exec.pc = "kill"
  /\ \E j \in Slots :
       /\ pst[j].PID = pst[exec.i].PID
       /\ \A k \in Slots : k < j => pst[k].PID # pst[exec.i].PID
       /\ pst' = [pst EXCEPT ![j].State = PS_KILLED, ![j].Signal = SIG_IGNORE]
       /\ exec' = [exec EXCEPT !.pc = "kill_look", !.j = j]
  /\ UNCHANGED <<fPS_Exec, api, held, pace>>

LastInUse(j) == j = MAX_PST_NO - 1 \/ pst[j + 1].State = PS_END

KillLook ==
  /\ exec.pc = "kill_look"
  /\ IF LastInUse(exec.j)
     THEN Goto("kill_end") /\ UNCHANGED pace
     ELSE EntryDone
  /\ UNCHANGED <<pst, fPS_Exec, api, held>>

KillEnd ==
  /\ exec.pc = "kill_end"
  /\ pst' = [pst EXCEPT ![exec.j].State = PS_END]
  /\ Goto("up_read")
  /\ UNCHANGED <<fPS_Exec, api, held, pace>>

(* mutant: whatever runs above becomes an end *)
UpReadAny ==
  /\ exec.pc = "up_read"
  /\ IF exec.j = 0
     THEN EntryDone
     ELSE /\ exec' = [exec EXCEPT !.j = @ - 1,
                !.pc = IF pst[exec.j - 1].State # PS_END THEN "up_write" ELSE @]
          /\ UNCHANGED pace
  /\ UNCHANGED <<pst, fPS_Exec, api, held>>

(* PS_UpKillProcess: every killed entry above becomes an end *)
UpRead ==
  /\ exec.pc = "up_read"
  /\ IF exec.j = 0
     THEN EntryDone
     ELSE /\ exec' = [exec EXCEPT !.j = @ - 1,
                !.pc = IF pst[exec.j - 1].State = PS_KILLED THEN "up_write" ELSE @]
          /\ UNCHANGED pace
  /\ UNCHANGED <<pst, fPS_Exec, api, held>>

UpWrite ==
  /\ exec.pc = "up_write"
  /\ pst' = [pst EXCEPT ![exec.j].State = PS_END]
  /\ Goto("up_read")
  /\ UNCHANGED <<fPS_Exec, api, held, pace>>

-----------------------------------------------------------------------------
(* The tamper thread: LIB_BUZ_Open, api_buz_open and PS_ForkProcess, in    *)
(* the middle of whatever the other two threads do.                        *)

TamperOpen(did) ==
  /\ tam.pc = "idle" /\ tam.left > 0
  /\ LookUp(did, [tam EXCEPT !.left = @ - 1], api, tam')
  /\ UNCHANGED pst

TamperOpenFails(did) ==
  /\ tam.pc = "idle" /\ tam.left > 0
  /\ ~CanFork(did)
  /\ tam' = IdleTamper(tam.left - 1, tam.calls)
  /\ UNCHANGED <<pst, crossed>>

TamperOpenStep ==
  /\ ForkStep(tam, tam')
  /\ UNCHANGED crossed

TamperOpenReturn ==
  /\ ForkLrc(tam)
  /\ tam' = IdleTamper(tam.left, tam.calls)
  /\ UNCHANGED crossed

-----------------------------------------------------------------------------
ApiNext ==
  /\ \/ \E did \in Devices : Open(did)
     \/ /\ \/ \E did \in Devices : OpenFails(did) \/ CloseAll(did)
           \/ \E k \in 1 .. Len(held) : Close(k) \/ Sound(k)
           \/ OpenStep \/ OpenReturn
           \/ Seek \/ SeekFails \/ PutSignal \/ PutXtime \/ SignalSum \/ SignalLrc
           \/ CloseReturn
        /\ UNCHANGED crossed
  /\ tam' = IF Detected /\ api.pc = "idle" THEN [tam EXCEPT !.calls = @ - 1] ELSE tam

TimerNext ==
  /\ \/ ScanStart \/ Check \/ Switch \/ Call \/ Quiet \/ QuietSum \/ QuietLrc
     \/ Reload \/ Wake \/ Sleep \/ Renew \/ PutLrc
     \/ Kill \/ KillLook \/ KillEnd \/ UpRead \/ UpWrite
  /\ UNCHANGED <<tam, crossed>>

TamperNext ==
  /\ \/ \E did \in Buzzers : TamperOpen(did) \/ TamperOpenFails(did)
     \/ TamperOpenStep \/ TamperOpenReturn
  /\ UNCHANGED <<fPS_Exec, api, exec, held, pace>>

Next == ApiNext \/ TimerNext \/ TamperNext

(* A call that has begun keeps running, and so does the timer thread; the  *)
(* application need not call again, nor the tamper thread find anything.   *)
ApiStep == api.pc # "idle" /\ ApiNext

Spec == Init /\ [][Next]_vars /\ WF_vars(ApiStep) /\ WF_vars(TimerNext)

-----------------------------------------------------------------------------
TypeOK ==
  /\ pst \in [Slots -> Entries]
  /\ fPS_Exec \in BOOLEAN
  /\ api \in ApiLocals
  /\ tam \in TamperLocals
  /\ exec \in ExecLocals
  /\ held \in Seq(Pids)
  /\ pace \in 0 .. 2
  /\ crossed \subseteq Slots

(* The timer thread calls, wakes and puts to sleep live entries only, and  *)
(* never through a callback pointer that no fork has stored; unless two    *)
(* forks were under way at once when the entry was taken, the pointer is   *)
(* the one that PS_ForkProcess stored with the entry's PID.                *)
Whole(i) == pst[i].pIsrFunc = pst[i].PID.did /\ pst[i].PID.did \in Devices
CallbackSafe ==
  exec.pc \in {"call", "wake", "sleep"} =>
    /\ Live(exec.i)
    /\ pst[exec.i].pIsrFunc \in Devices
    /\ exec.i \notin crossed => Whole(exec.i)

(* PS_ForkProcess keeps a device to MAX_DID_NO processes, although the     *)
(* count it checks is old by the time the entry is registered: only the    *)
(* entries of two forks under way at once can be more.                     *)
DeviceLimit ==
  \A did \in Devices : Cardinality(LiveOf(did) \ crossed) <= MAX_DID_NO

(* PS_ExecProcess returns at the first valid PS_END: a live process behind *)
(* one is never run, put to sleep or killed again.                         *)
Ends(j) == pst[j].State = PS_END /\ pst[j].LRC = Checksum(pst[j])
NoneStarved == \A i \in Slots : Live(i) => \A j \in 0 .. i - 1 : ~Ends(j)

(* PS_ForkProcess never hands out a handle that is still open.             *)
HandlesUnique == \A m, n \in 1 .. Len(held) : held[m] = held[n] => m = n

(* A process the application opened and has not closed stays registered.   *)
HandlesLive ==
  \A n \in 1 .. Len(held) : \E i \in Slots : Live(i) /\ pst[i].PID = held[n]

(* Two ticks after a close, the only live processes are those still open.  *)
ClosedAreDead ==
  api.pc = "idle" /\ pace = 0 =>
    \A i \in Slots : Live(i) => \E n \in 1 .. Len(held) : held[n] = pst[i].PID

(* A call always returns: the wait on fPS_Exec in PS_NormalCloseDevice is  *)
(* always released by the timer thread.                                    *)
CallsReturn == api.pc # "idle" ~> api.pc = "idle"

(* Every timer that stays open goes on being called back.                  *)
Runs(pid) == exec.pc = "call" /\ pst[exec.i].PID = pid
IsHeld(pid) == \E n \in 1 .. Len(held) : held[n] = pid
TimersRun ==
  \A pid \in [did : TimerDevices, tid : Tids] : []<>(~IsHeld(pid) \/ Runs(pid))

=============================================================================
