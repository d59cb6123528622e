------------------------- MODULE ProcessTableProofs -------------------------
(***************************************************************************)
(* What holds of the process table for every size of the table, every set  *)
(* of devices and every way the application uses its handles: the types,   *)
(* CallbackSafe and DeviceLimit.                                           *)
(***************************************************************************)
EXTENDS ProcessTable, FiniteSetTheorems, TLAPS

(* The checksum of an entry is a checksum: XOR of bytes is a byte. *)
LEMMA ChecksumType ==
  ASSUME NEW e \in Entries
  PROVE  Checksum(e) \in Checksums
<1>1. /\ TidBits(e.PID.tid) \in Byte
      /\ e.State \in Byte
      /\ e.Signal \in Byte
  BY DEF Entries, Pids, TidBits, Byte, PS_END, PS_RUNNING, PS_SLEEPING, PS_KILLED,
         SIG_IGNORE, SIG_EXIT, SIG_INT
<1>2. Xor(TidBits(e.PID.tid), Xor(e.State, e.Signal)) \in Byte
  BY <1>1 DEF Xor, Byte
<1> QED
  BY <1>2 DEF Checksum, Checksums, Entries, Pids

(* The callback of an entry leaves an entry whose state, PID and callback  *)
(* pointer are unchanged.                                                  *)
LEMMA IsrRunType ==
  ASSUME NEW e \in Entries
  PROVE  /\ IsrRun(e) \in Entries
         /\ IsrRun(e).State = e.State
         /\ IsrRun(e).PID = e.PID
         /\ IsrRun(e).pIsrFunc = e.pIsrFunc
<1>0. e.RFU_0 \in 0 .. BeepCycles /\ BeepCycles \in 0 .. BeepCycles
  BY DeviceAssumption DEF Entries
<1>1. CASE e.pIsrFunc \in Buzzers /\ ~LastBeep(e)
  <2>1. e.RFU_0 - 1 \in 0 .. BeepCycles
    BY <1>0, <1>1, DeviceAssumption DEF LastBeep
  <2>2. IsrRun(e) = [e EXCEPT !.RFU_0 = e.RFU_0 - 1]
    BY <1>1 DEF IsrRun
  <2> QED
    BY <2>1, <2>2 DEF Entries
<1>2. CASE e.pIsrFunc \in Buzzers /\ LastBeep(e)
  <2>1. IsrRun(e) = [e EXCEPT !.RFU_0 = 0, !.Signal = SIG_IGNORE]
    BY <1>2 DEF IsrRun
  <2>2. 0 \in 0 .. BeepCycles
    BY DeviceAssumption
  <2> QED
    BY <2>1, <2>2 DEF Entries
<1>3. CASE e.pIsrFunc \notin Buzzers
  BY <1>3 DEF IsrRun
<1> QED
  BY <1>1, <1>2, <1>3

(* Every initial state has the right types. *)
LEMMA InitType == Init => TypeOK
<1> SUFFICES ASSUME Init PROVE TypeOK
  OBVIOUS
<1>1. 0 \in Slots
  BY SizeAssumption DEF Slots
<1>2. NoSum \in Checksums /\ NoPid \in Pids
  BY DEF NoSum, Checksums, Byte, NoPid, Pids, Tids
<1>3. [State |-> PS_END, PID |-> NoPid, Xtime |-> Never, pIsrFunc |-> "none",
       Signal |-> SIG_IGNORE, LRC |-> NoSum, RFU_0 |-> 0] \in Entries
  BY <1>2, DeviceAssumption DEF Entries
<1> QED
  <2>1. api \in ApiLocals /\ exec \in ExecLocals
    BY <1>1, <1>2 DEF Init, IdleApi, ApiLocals, ExecAt, ExecLocals, ExecPcs
  <2>2. tam \in TamperLocals
    BY <1>1, <1>2, DeviceAssumption DEF Init, IdleTamper, TamperLocals
  <2>3. pst \in [Slots -> Entries]
    BY <1>3 DEF Init
  <2>4. held \in Seq(Pids)
    <3>1. << >> \in Seq(Pids)
      OBVIOUS
    <3> QED
      BY <3>1 DEF Init
  <2>5. crossed \subseteq Slots
    BY DEF Init
  <2>6. pace \in 0 .. 2
    BY DEF Init
  <2>7. fPS_Exec \in BOOLEAN
    BY DEF Init
  <2> QED
    BY <2>1, <2>2, <2>3, <2>4, <2>5, <2>6, <2>7 DEF TypeOK

(* Writing an entry, or a field of one, keeps the table typed. *)
LEMMA EntryWrites ==
  ASSUME TypeOK, NEW i \in Slots, NEW e \in Entries
  PROVE  [pst EXCEPT ![i] = e] \in [Slots -> Entries]
BY DEF TypeOK

LEMMA StateWrites ==
  ASSUME TypeOK, NEW i \in Slots, NEW v \in {PS_END, PS_RUNNING, PS_SLEEPING, PS_KILLED}
  PROVE  [pst EXCEPT ![i].State = v] \in [Slots -> Entries]
<1>1. [pst[i] EXCEPT !.State = v] \in Entries
  BY DEF TypeOK, Entries
<1> QED
  BY <1>1 DEF TypeOK

LEMMA LrcWrites ==
  ASSUME TypeOK, NEW i \in Slots, NEW v \in Checksums
  PROVE  [pst EXCEPT ![i].LRC = v] \in [Slots -> Entries]
<1>1. [pst[i] EXCEPT !.LRC = v] \in Entries
  BY DEF TypeOK, Entries
<1> QED
  BY <1>1 DEF TypeOK

(* The end of an entry's turn keeps the timer thread's locals typed. *)
LEMMA EntryDoneType ==
  ASSUME TypeOK, EntryDone
  PROVE  /\ exec' \in ExecLocals
         /\ pace' \in 0 .. 2
<1>1. 0 \in Slots /\ NoSum \in Checksums
  BY SizeAssumption DEF Slots, NoSum, Checksums, Byte
<1>2. exec.i # MAX_PST_NO - 1 => exec.i + 1 \in Slots
  <2>1. exec.i \in 0 .. MAX_PST_NO - 1
    BY DEF ExecLocals, ApiLocals, TypeOK, Slots
  <2> QED
    BY <2>1, SizeAssumption DEF Slots
<1> QED
  BY <1>1, <1>2 DEF EntryDone, ScanEnds, ExecAt, ExecLocals, ExecPcs, TypeOK

(* What a fork writes are values of the entry's types. *)
LEMMA ForkWrites ==
  ASSUME TypeOK, NEW t, NEW u, ForkStep(t, u) \/ ForkLrc(t),
         t.slot \in Slots, t.pid \in Pids, t.lrc \in Checksums
  PROVE  pst' \in [Slots -> Entries]
<1>0. pst[t.slot] \in Entries
  BY DEF TypeOK
<1>1. CASE ForkPid(t, u)
  <2> DEFINE e == [pst[t.slot] EXCEPT !.PID = t.pid]
  <2>1. e \in Entries
    BY <1>0 DEF Entries
  <2>2. pst' = [pst EXCEPT ![t.slot] = e]
    BY <1>1 DEF ForkPid
  <2> HIDE DEF e
  <2> QED
    BY <2>1, <2>2, EntryWrites
<1>2. CASE ForkTime(t, u)
  <2> DEFINE x == OpenXtime(t.pid.did)
             e == [pst[t.slot] EXCEPT !.Xtime = x]
  <2>1. x \in {Never, Always}
    BY DEF OpenXtime
  <2>2. pst' = [pst EXCEPT ![t.slot] = e]
    BY <1>2 DEF ForkTime
  <2> HIDE DEF x
  <2>3. e \in Entries
    BY <1>0, <2>1 DEF Entries
  <2> HIDE DEF e
  <2> QED
    BY <2>2, <2>3, EntryWrites
<1>3. CASE ForkIsr(t, u)
  <2> DEFINE b == OpenBeeps(t.pid.did)
             d == t.pid.did
             e == [pst[t.slot] EXCEPT !.pIsrFunc = d, !.Signal = SIG_IGNORE,
                                      !.RFU_0 = b]
  <2>1. b \in 0 .. BeepCycles /\ d \in Devices \cup {"none"}
    BY DeviceAssumption DEF OpenBeeps, Pids
  <2>2. pst' = [pst EXCEPT ![t.slot] = e]
    BY <1>0, <1>3 DEF ForkIsr, TypeOK
  <2>3. SIG_IGNORE \in {SIG_IGNORE, SIG_EXIT, SIG_INT}
    OBVIOUS
  <2> HIDE DEF b, d
  <2>4. e \in Entries
    BY <1>0, <2>1, <2>3 DEF Entries
  <2> HIDE DEF e
  <2> QED
    BY <2>2, <2>4, EntryWrites
<1>4. CASE ForkRun(t, u)
  BY <1>4, StateWrites DEF ForkRun
<1>5. CASE ForkSum(t, u)
  BY <1>5 DEF ForkSum, TypeOK
<1>6. CASE ForkLrc(t)
  BY <1>6, LrcWrites DEF ForkLrc
<1> QED
  BY <1>1, <1>2, <1>3, <1>4, <1>5, <1>6 DEF ForkStep

(* What a step of a fork leaves of the thread that takes it. *)
LEMMA ForkMoves ==
  ASSUME TypeOK, NEW t, NEW u, ForkStep(t, u), t \in ApiLocals \/ t \in TamperLocals
  PROVE  /\ t \in ApiLocals => u \in ApiLocals
         /\ t \in TamperLocals => u \in TamperLocals
         /\ u.slot = t.slot /\ u.pid = t.pid /\ Forking(t) /\ Forking(u)
         /\ \/ t.pc = "fork_pid" /\ u.pc = "fork_time"
            \/ t.pc = "fork_time" /\ u.pc = "fork_isr"
            \/ t.pc = "fork_isr" /\ u.pc = "fork_run"
            \/ t.pc = "fork_run" /\ u.pc = "fork_sum"
            \/ t.pc = "fork_sum" /\ u.pc = "fork_lrc"
<1>1. t.slot \in Slots
  BY DEF ApiLocals, TamperLocals
<1>2. Checksum(pst[t.slot]) \in Checksums
  BY <1>1, ChecksumType DEF TypeOK
<1>3. CASE ForkPid(t, u)
  BY <1>3 DEF ForkPid, ApiLocals, TamperLocals, ForkPcs, Forking
<1>4. CASE ForkTime(t, u)
  BY <1>4 DEF ForkTime, ApiLocals, TamperLocals, ForkPcs, Forking
<1>5. CASE ForkIsr(t, u)
  BY <1>5 DEF ForkIsr, ApiLocals, TamperLocals, ForkPcs, Forking
<1>6. CASE ForkRun(t, u)
  BY <1>6 DEF ForkRun, ApiLocals, TamperLocals, ForkPcs, Forking
<1>7. CASE ForkSum(t, u)
  BY <1>2, <1>7 DEF ForkSum, ApiLocals, TamperLocals, ForkPcs, Forking
<1> QED
  BY <1>3, <1>4, <1>5, <1>6, <1>7 DEF ForkStep

(* Where the look-up takes a thread: it fills in a free entry. *)
LEMMA LookUpFinds ==
  ASSUME TypeOK, NEW did \in Devices, NEW t, NEW other, NEW u,
         t \in ApiLocals \/ t \in TamperLocals,
         other.slot \in Slots, LookUp(did, t, other, u)
  PROVE  /\ t \in ApiLocals => u \in ApiLocals
         /\ t \in TamperLocals => u \in TamperLocals
         /\ u.pc = "fork_pid" /\ u.pid.did = did /\ u.slot \in FreeSlots
         /\ crossed' = Crossing(u.slot, other)
         /\ crossed' \subseteq Slots
         /\ CanFork(did)
<1>1. PICK tid \in Tids, i \in FirstSlots :
        /\ u = [t EXCEPT !.pc = "fork_pid", !.slot = i,
                         !.pid = [did |-> did, tid |-> tid]]
        /\ crossed' = Crossing(i, other)
  BY DEF LookUp
<1>2. [did |-> did, tid |-> tid] \in Pids /\ i \in FreeSlots /\ i \in Slots
  BY DEF Pids, FirstSlots, FreeSlots
<1>3. /\ t \in ApiLocals => u \in ApiLocals
      /\ t \in TamperLocals => u \in TamperLocals
      /\ u.pc = "fork_pid" /\ u.slot = i /\ u.pid = [did |-> did, tid |-> tid]
  BY <1>1, <1>2 DEF ApiLocals, TamperLocals, ForkPcs
<1>4. crossed' \subseteq Slots
  BY <1>1, <1>2 DEF Crossing, TypeOK
<1> QED
  BY <1>1, <1>2, <1>3, <1>4 DEF LookUp

(* The types but those of the tamper thread and of the history. *)
TableTypes ==
  /\ pst \in [Slots -> Entries]
  /\ fPS_Exec \in BOOLEAN
  /\ api \in ApiLocals
  /\ exec \in ExecLocals
  /\ held \in Seq(Pids)
  /\ pace \in 0 .. 2

(* api_tim_open* and api_buz_open take a free entry. *)
LEMMA OpenTakes ==
  ASSUME TypeOK, NEW did \in Devices, Open(did)
  PROVE  /\ api' \in ApiLocals
         /\ api'.pc = "fork_pid" /\ api'.pid.did = did /\ api'.slot \in FreeSlots
         /\ crossed' = Crossing(api'.slot, tam)
         /\ crossed' \subseteq Slots
         /\ CanFork(did)
<1> DEFINE t == [IdleApi EXCEPT !.op = "open"]
<1>1. t \in ApiLocals
  <2>1. IdleApi \in ApiLocals
    BY SizeAssumption DEF ApiLocals, IdleApi, Slots, NoSum, Checksums, Byte, NoPid, Pids, Tids
  <2> QED
    BY <2>1 DEF ApiLocals
<1>2. LookUp(did, t, tam, api') /\ tam.slot \in Slots
  BY DEF Open, TypeOK, TamperLocals
<1> HIDE DEF t
<1> QED
  BY <1>1, <1>2, LookUpFinds

(* A step of the API thread keeps the types. *)
LEMMA ApiTypes ==
  ASSUME TypeOK, ApiNext
  PROVE  TableTypes'
<1>0. IdleApi \in ApiLocals
  BY SizeAssumption DEF ApiLocals, IdleApi, Slots, NoSum, Checksums, Byte, NoPid, Pids, Tids
<1>1. ASSUME Return PROVE api' \in ApiLocals /\ pace' \in 0 .. 2
  BY <1>0, <1>1 DEF Return
<1>2. ASSUME NEW did \in Devices, Open(did) PROVE TableTypes'
  <2>1. api' \in ApiLocals
    BY <1>2, OpenTakes
  <2> QED
    BY <1>2, <2>1 DEF Open, TypeOK, TableTypes
<1>3. ASSUME NEW did \in Devices, OpenFails(did) PROVE TableTypes'
  BY <1>1, <1>3 DEF OpenFails, TypeOK, TableTypes
<1>4. ASSUME NEW did \in Devices, CloseAll(did) PROVE TableTypes'
  <2>1. held' \in Seq(Pids)
    BY <1>4 DEF CloseAll
  <2>2. [did |-> CloseAllTarget(did), tid |-> 0] \in Pids
    BY <1>4, DeviceAssumption DEF CloseAllTarget, Devices, Pids, Tids
  <2> QED
    BY <1>0, <1>4, <2>1, <2>2 DEF CloseAll, TypeOK, TableTypes, ApiLocals, SignalPcs
<1>5. ASSUME NEW k \in 1 .. Len(held), Close(k) PROVE TableTypes'
  <2>1. held[k] \in Pids /\ held' \in Seq(Pids)
    BY <1>5 DEF Close, TypeOK, TableTypes
  <2> QED
    BY <1>0, <1>5, <2>1 DEF Close, TypeOK, TableTypes, ApiLocals, SignalPcs
<1>6. ASSUME NEW k \in 1 .. Len(held), Sound(k) PROVE TableTypes'
  <2>1. held[k] \in Pids
    BY <1>6 DEF TypeOK, TableTypes
  <2> QED
    BY <1>0, <1>6, <2>1 DEF Sound, TypeOK, TableTypes, ApiLocals, SignalPcs
<1>7. CASE OpenStep
  <2>1. api.slot \in Slots /\ api.pid \in Pids /\ api.lrc \in Checksums
    BY DEF TypeOK, ApiLocals
  <2>2. ForkStep(api, api')
    BY <1>7 DEF OpenStep
  <2>3. pst' \in [Slots -> Entries]
    BY <2>1, <2>2, ForkWrites
  <2>4. api \in ApiLocals
    BY DEF TypeOK
  <2>5. api' \in ApiLocals
    BY <2>2, <2>4, ForkMoves
  <2> QED
    BY <1>7, <2>3, <2>5 DEF OpenStep, TypeOK, TableTypes
<1>8. CASE OpenReturn
  <2>1. api.slot \in Slots /\ api.pid \in Pids /\ api.lrc \in Checksums
    BY DEF TypeOK, ApiLocals
  <2>2. ForkLrc(api)
    BY <1>8 DEF OpenReturn
  <2>3. pst' \in [Slots -> Entries]
    BY <2>1, <2>2, ForkWrites
  <2>4. held' \in Seq(Pids)
    BY <1>8, <2>1 DEF OpenReturn, TypeOK
  <2> QED
    BY <1>1, <1>8, <2>3, <2>4 DEF OpenReturn, TypeOK, TableTypes
<1>11. CASE Seek
  BY <1>11 DEF Seek, Found, TypeOK, TableTypes, ApiLocals, SignalPcs
<1>12. ASSUME AfterSignal
       PROVE  /\ api' \in ApiLocals
              /\ pace' \in 0 .. 2
  <2>1. CASE api.op = "sound"
    BY <1>1, <1>12, <2>1 DEF AfterSignal
  <2>2. CASE api.op # "sound" /\ api.all /\ api.pid.tid < MAX_DID_NO - 1
    <3>1. api.pid.tid + 1 \in Tids
      BY <2>2, SizeAssumption DEF ExecLocals, ApiLocals, TypeOK, TableTypes, Pids, Tids
    <3> QED
      <4>1. [api.pid EXCEPT !.tid = api.pid.tid + 1] \in Pids
        BY <3>1 DEF TypeOK, TableTypes, ApiLocals, Pids
      <4>2. api' = [api EXCEPT !.pc = "seek", !.pid = [api.pid EXCEPT !.tid = api.pid.tid + 1]]
        BY <1>12, <2>2 DEF AfterSignal, TypeOK, TableTypes, ApiLocals, Pids
      <4>3. pace' = pace
        BY <1>12, <2>2 DEF AfterSignal
      <4> QED
        BY <4>1, <4>2, <4>3 DEF TypeOK, TableTypes, ApiLocals, SignalPcs
  <2>3. CASE api.op # "sound" /\ ~(api.all /\ api.pid.tid < MAX_DID_NO - 1)
    BY <1>0, <1>12, <2>3 DEF ApiLocals, AfterSignal, TypeOK
  <2> QED
    BY <2>1, <2>2, <2>3
<1>13. CASE SeekFails
  BY <1>1, <1>12, <1>13 DEF SeekFails, TypeOK, TableTypes
<1>14. CASE PutSignal
  <2> DEFINE sig == IF api.op = "close" THEN SIG_EXIT ELSE SIG_INT
             e == [pst[api.slot] EXCEPT !.Signal = sig]
  <2>1. api.slot \in Slots /\ e \in Entries
    <3>1. api.slot \in Slots
      BY DEF TypeOK, TableTypes, ApiLocals
    <3>2. pst[api.slot] \in Entries
      BY <3>1 DEF TypeOK, TableTypes
    <3>3. sig \in {SIG_IGNORE, SIG_EXIT, SIG_INT}
      OBVIOUS
    <3> HIDE DEF sig
    <3> QED
      BY <3>1, <3>2, <3>3 DEF Entries
  <2>2. pst' = [pst EXCEPT ![api.slot] = e]
    BY <1>14, <2>1 DEF PutSignal, TypeOK, TableTypes
  <2> HIDE DEF e
  <2>3. pst' \in [Slots -> Entries]
    BY <2>1, <2>2, EntryWrites
  <2> QED
    BY <1>14, <2>3 DEF PutSignal, TypeOK, TableTypes, ApiLocals, SignalPcs
<1>15. CASE PutXtime
  <2> DEFINE e == IF api.op = "close"
                  THEN [pst[api.slot] EXCEPT !.Xtime = Never, !.RFU_0 = 0]
                  ELSE [pst[api.slot] EXCEPT !.Xtime = Always]
  <2>1. api.slot \in Slots /\ 0 \in 0 .. BeepCycles
    BY DeviceAssumption DEF TypeOK, TableTypes, ApiLocals
  <2>2. e \in Entries
    <3>1. pst[api.slot] \in Entries
      BY <2>1 DEF TypeOK, TableTypes
    <3> QED
      BY <2>1, <3>1 DEF Entries
  <2>3. pst' = [pst EXCEPT ![api.slot] = e]
    BY <1>15, <2>1 DEF PutXtime, TypeOK, TableTypes
  <2> HIDE DEF e
  <2>4. pst' \in [Slots -> Entries]
    BY <2>1, <2>2, <2>3, EntryWrites
  <2> QED
    BY <1>15, <2>4 DEF PutXtime, TypeOK, TableTypes, ApiLocals, SignalPcs
<1>16. CASE SignalSum
  <2>1. Checksum(pst[api.slot]) \in Checksums
    BY ChecksumType DEF ExecLocals, ApiLocals, TypeOK, TableTypes
  <2> QED
    BY <1>16, <2>1 DEF SignalSum, TypeOK, TableTypes, ApiLocals, SignalPcs
<1>17. CASE SignalLrc
  <2>1. pst' \in [Slots -> Entries]
    BY <1>17, LrcWrites DEF SignalLrc, TypeOK, TableTypes, ApiLocals
  <2> QED
    BY <1>12, <1>17, <2>1 DEF SignalLrc, TypeOK, TableTypes
<1>18. CASE CloseReturn
  BY <1>1, <1>18 DEF CloseReturn, TypeOK, TableTypes
<1> QED
  BY <1>2, <1>3, <1>4, <1>5, <1>6, <1>7, <1>8, <1>11, <1>13, <1>14, <1>15, <1>16,
     <1>17, <1>18 DEF ApiNext, TypeOK

(* The API thread costs the tamper thread nothing but a call it may begin. *)
LEMMA ApiTamper ==
  ASSUME TypeOK, ApiNext
  PROVE  /\ tam' \in TamperLocals
         /\ tam'.pc = tam.pc /\ tam'.slot = tam.slot /\ tam'.pid = tam.pid
         /\ tam'.left = tam.left
<1>1. tam \in TamperLocals /\ CallsAfter \in Nat
  BY DeviceAssumption DEF TypeOK
<1>2. api.pc = "idle" => MayCall
  BY DEF ApiNext, Open, OpenFails, CloseAll, Close, Sound, OpenStep, OpenReturn, ForkStep,
         ForkPid, ForkTime, ForkIsr, ForkRun, ForkSum, ForkLrc, Seek, SeekFails, PutSignal,
         PutXtime, SignalSum, SignalLrc, CloseReturn
<1>3. CASE Detected /\ api.pc = "idle"
  <2>1. tam.calls - 1 \in 0 .. CallsAfter
    BY <1>1, <1>2, <1>3 DEF MayCall, TamperLocals
  <2>2. tam' = [tam EXCEPT !.calls = tam.calls - 1]
    BY <1>3 DEF ApiNext
  <2> QED
    BY <1>1, <2>1, <2>2 DEF TamperLocals
<1>4. CASE ~(Detected /\ api.pc = "idle")
  BY <1>1, <1>4 DEF ApiNext
<1> QED
  BY <1>3, <1>4

LEMMA ApiType ==
  ASSUME TypeOK, ApiNext
  PROVE  TypeOK'
<1>1. crossed' \subseteq Slots
  BY OpenTakes DEF ApiNext, TypeOK
<1> QED
  BY <1>1, ApiTypes, ApiTamper DEF TypeOK, TableTypes

(* A step of the timer thread keeps the types. *)
LEMMA TimerType ==
  ASSUME TypeOK, TimerNext
  PROVE  TypeOK'
<1> SUFFICES TableTypes'
  BY DEF TimerNext, TypeOK, TableTypes
<1>0. Checksum(pst[exec.i]) \in Checksums
  BY ChecksumType DEF ExecLocals, ApiLocals, TypeOK, TableTypes
<1>1. CASE ScanStart
  <2>1. exec' \in ExecLocals
    BY <1>1, SizeAssumption
    DEF ScanStart, ExecAt, ExecLocals, ExecPcs, Slots, NoSum, Checksums, Byte
  <2> QED
    BY <1>1, <2>1 DEF ScanStart, TypeOK, TableTypes
<1>2. CASE Check
  BY <1>2, EntryDoneType DEF Check, Goto, TypeOK, TableTypes, ExecLocals, ExecPcs
<1>3. CASE Switch
  <2>1. ASSUME ScanEnds PROVE /\ exec' \in ExecLocals
                              /\ pace' \in 0 .. 2
    BY <2>1, SizeAssumption
    DEF ScanEnds, TypeOK, TableTypes, ExecAt, ExecLocals, ExecPcs, Slots, NoSum, Checksums, Byte
  <2> QED
    BY <1>3, <2>1, EntryDoneType DEF Switch, Goto, TypeOK, TableTypes, ExecLocals, ExecPcs
<1>4. CASE Call
  <2>1. pst' \in [Slots -> Entries]
    BY <1>4, IsrRunType, EntryWrites DEF Call, TypeOK
  <2>2. exec' \in ExecLocals /\ pace' \in 0 .. 2
    BY <1>4, EntryDoneType DEF Call, Called, Goto, TypeOK, ExecLocals, ExecPcs
  <2> QED
    BY <1>4, <2>1, <2>2 DEF Call, TypeOK, TableTypes
<1>5. CASE Wake
  <2> DEFINE e == [pst[exec.i] EXCEPT !.Signal = SIG_IGNORE, !.State = PS_RUNNING]
  <2>1. e \in Entries
    <3>1. pst[exec.i] \in Entries
      BY DEF TypeOK, ExecLocals
    <3> QED
      BY <3>1 DEF Entries
  <2>2. pst' = [pst EXCEPT ![exec.i] = e]
    BY <1>5 DEF Wake, TypeOK, ExecLocals
  <2> HIDE DEF e
  <2>3. pst' \in [Slots -> Entries]
    BY <2>1, <2>2 DEF TypeOK
  <2>4. exec' \in ExecLocals
    BY <1>5 DEF Wake, TypeOK, ExecLocals, ExecPcs
  <2> QED
    BY <1>5, <2>3, <2>4 DEF Wake, TypeOK, TableTypes
<1>14. CASE Quiet
  <2> DEFINE e == [pst[exec.i] EXCEPT !.Xtime = Never]
  <2>1. pst[exec.i] \in Entries /\ exec.i \in Slots
    BY DEF TypeOK, ExecLocals
  <2>2. e \in Entries
    BY <2>1 DEF Entries
  <2>3. pst' = [pst EXCEPT ![exec.i] = e]
    BY <1>14 DEF Quiet
  <2> HIDE DEF e
  <2>4. pst' \in [Slots -> Entries]
    BY <2>1, <2>2, <2>3, EntryWrites
  <2> QED
    BY <1>14, <2>4 DEF Quiet, Goto, TypeOK, TableTypes, ExecLocals, ExecPcs
<1>15. CASE QuietSum
  BY <1>0, <1>15 DEF QuietSum, TypeOK, TableTypes, ExecLocals, ExecPcs
<1>16. CASE QuietLrc
  <2>1. exec.i \in Slots /\ exec.lrc \in Checksums /\ NoSum \in Checksums
    BY DEF TypeOK, ExecLocals, NoSum, Checksums, Byte
  <2>2. pst' \in [Slots -> Entries]
    BY <1>16, <2>1, LrcWrites DEF QuietLrc
  <2> QED
    BY <1>16, <2>1, <2>2 DEF QuietLrc, TypeOK, TableTypes, ExecLocals, ExecPcs
<1>17. CASE Reload
  <2> DEFINE e == [pst[exec.i] EXCEPT !.RFU_0 = BeepCycles]
  <2>1. pst[exec.i] \in Entries /\ exec.i \in Slots /\ BeepCycles \in 0 .. BeepCycles
    BY DeviceAssumption DEF TypeOK, ExecLocals
  <2>2. e \in Entries
    BY <2>1 DEF Entries
  <2>3. pst' = [pst EXCEPT ![exec.i] = e]
    BY <1>17 DEF Reload
  <2> HIDE DEF e
  <2>4. pst' \in [Slots -> Entries]
    BY <2>1, <2>2, <2>3, EntryWrites
  <2>5. exec' \in ExecLocals /\ pace' \in 0 .. 2
    BY <1>17, EntryDoneType DEF Reload, Called, Goto, TypeOK, ExecLocals, ExecPcs
  <2> QED
    BY <1>17, <2>4, <2>5 DEF Reload, TypeOK, TableTypes
<1>6. CASE Sleep
  <2>1. pst' \in [Slots -> Entries]
    BY <1>6, StateWrites DEF Sleep, TypeOK, TableTypes, ExecLocals
  <2> QED
    BY <1>6, <2>1 DEF Sleep, Goto, TypeOK, TableTypes, ExecLocals, ExecPcs
<1>7. CASE Renew
  BY <1>0, <1>7 DEF Renew, TypeOK, TableTypes, ExecLocals, ExecPcs
<1>8. CASE PutLrc
  <2>1. pst' \in [Slots -> Entries]
    <3> DEFINE e == [pst[exec.i] EXCEPT !.LRC = exec.lrc]
    <3>1. e \in Entries
      <4>1. pst[exec.i] \in Entries /\ exec.lrc \in Checksums
        BY DEF TypeOK, TableTypes, ExecLocals
      <4> QED
        BY <4>1 DEF Entries
    <3>2. pst' = [pst EXCEPT ![exec.i] = e]
      BY <1>8 DEF PutLrc
    <3> HIDE DEF e
    <3> QED
      BY <3>1, <3>2 DEF TypeOK, TableTypes
  <2> QED
    BY <1>8, <2>1, EntryDoneType DEF PutLrc, TypeOK, TableTypes
<1>9. CASE Kill
  <2>1. PICK j \in Slots :
          /\ pst' = [pst EXCEPT ![j].State = PS_KILLED, ![j].Signal = SIG_IGNORE]
          /\ exec' = [exec EXCEPT !.pc = "kill_look", !.j = j]
    BY <1>9 DEF Kill
  <2> DEFINE e == [pst[j] EXCEPT !.State = PS_KILLED, !.Signal = SIG_IGNORE]
  <2>2. e \in Entries
    BY DEF TypeOK, TableTypes, Entries
  <2>3. pst' = [pst EXCEPT ![j] = e]
    BY <2>1 DEF TypeOK, TableTypes
  <2> HIDE DEF e
  <2>4. pst' \in [Slots -> Entries]
    BY <2>2, <2>3, EntryWrites
  <2> QED
    BY <1>9, <2>1, <2>4 DEF Kill, TypeOK, TableTypes, ExecLocals, ExecPcs
<1>10. CASE KillLook
  BY <1>10, EntryDoneType DEF KillLook, Goto, TypeOK, TableTypes, ExecLocals, ExecPcs
<1>11. CASE KillEnd
  <2>1. pst' \in [Slots -> Entries]
    BY <1>11, StateWrites DEF KillEnd, TypeOK, TableTypes, ExecLocals
  <2> QED
    BY <1>11, <2>1 DEF KillEnd, Goto, TypeOK, TableTypes, ExecLocals, ExecPcs
<1>12. CASE UpRead
  <2>1. exec.j # 0 => exec.j - 1 \in Slots
    BY SizeAssumption DEF TypeOK, TableTypes, Slots
  <2> QED
    BY <1>12, <2>1, EntryDoneType DEF UpRead, TypeOK, TableTypes, ExecLocals, ExecPcs
<1>13. CASE UpWrite
  <2>1. pst' \in [Slots -> Entries]
    BY <1>13, StateWrites DEF UpWrite, TypeOK, TableTypes, ExecLocals
  <2> QED
    BY <1>13, <2>1 DEF UpWrite, Goto, TypeOK, TableTypes, ExecLocals, ExecPcs
<1> QED
  BY <1>1, <1>2, <1>3, <1>4, <1>5, <1>6, <1>7, <1>8, <1>9, <1>10, <1>11, <1>12,
     <1>13, <1>14, <1>15, <1>16, <1>17 DEF TimerNext

(* LIB_BUZ_Open takes a free entry. *)
LEMMA TamperTakes ==
  ASSUME TypeOK, NEW did \in Buzzers, TamperOpen(did)
  PROVE  /\ tam' \in TamperLocals
         /\ tam'.pc = "fork_pid" /\ tam'.pid.did = did /\ tam'.slot \in FreeSlots
         /\ crossed' = Crossing(tam'.slot, api)
         /\ crossed' \subseteq Slots
         /\ CanFork(did)
<1> DEFINE t == [tam EXCEPT !.left = @ - 1]
<1>1. t \in TamperLocals
  <2>1. tam.left - 1 \in 0 .. TamperForks /\ tam \in TamperLocals
    BY DeviceAssumption DEF TamperOpen, TypeOK, TamperLocals
  <2> QED
    BY <2>1 DEF TamperLocals
<1>2. LookUp(did, t, api, tam') /\ did \in Devices /\ api.slot \in Slots
  BY DEF TamperOpen, Devices, TypeOK, ApiLocals
<1> HIDE DEF t
<1> QED
  BY <1>1, <1>2, LookUpFinds

(* A step of the tamper thread keeps the types. *)
LEMMA TamperType ==
  ASSUME TypeOK, TamperNext
  PROVE  TypeOK'
<1>0. /\ tam \in TamperLocals /\ tam.slot \in Slots /\ tam.pid \in Pids
      /\ tam.lrc \in Checksums /\ TamperForks \in Nat /\ CallsAfter \in Nat
      /\ api.slot \in Slots
  BY DeviceAssumption DEF TypeOK, TamperLocals, ApiLocals
<1>1. ASSUME NEW n \in 0 .. TamperForks PROVE IdleTamper(n, tam.calls) \in TamperLocals
  <2>1. 0 \in Slots /\ NoPid \in Pids /\ NoSum \in Checksums /\ tam.calls \in 0 .. CallsAfter
    BY <1>0, SizeAssumption DEF Slots, NoPid, Pids, Tids, NoSum, Checksums, Byte, TamperLocals
  <2> QED
    BY <1>1, <2>1 DEF IdleTamper, TamperLocals
<1>2. tam.left > 0 => tam.left - 1 \in 0 .. TamperForks
  BY <1>0 DEF TamperLocals
<1>3. ASSUME NEW did \in Buzzers, TamperOpen(did) PROVE TypeOK'
  <2>3. tam' \in TamperLocals /\ crossed' \subseteq Slots
    BY <1>3, TamperTakes
  <2> QED
    BY <1>3, <2>3 DEF TamperNext, TamperOpen, TypeOK
<1>4. ASSUME NEW did \in Buzzers, TamperOpenFails(did) PROVE TypeOK'
  BY <1>1, <1>2, <1>4 DEF TamperNext, TamperOpenFails, TypeOK
<1>5. CASE TamperOpenStep
  <2>1. ForkStep(tam, tam')
    BY <1>5 DEF TamperOpenStep
  <2>2. pst' \in [Slots -> Entries]
    BY <1>0, <2>1, ForkWrites
  <2>3. tam' \in TamperLocals
    BY <1>0, <2>1, ForkMoves
  <2> QED
    BY <1>5, <2>2, <2>3 DEF TamperNext, TamperOpenStep, TypeOK
<1>6. CASE TamperOpenReturn
  <2>1. pst' \in [Slots -> Entries]
    BY <1>0, <1>6, ForkWrites DEF TamperOpenReturn
  <2>2. tam' \in TamperLocals
    BY <1>0, <1>1, <1>6 DEF TamperOpenReturn, TamperLocals
  <2> QED
    BY <1>6, <2>1, <2>2 DEF TamperNext, TamperOpenReturn, TypeOK
<1> QED
  BY <1>3, <1>4, <1>5, <1>6 DEF TamperNext

(* The table, the two threads and the application always hold values of    *)
(* their types.                                                            *)
THEOREM TypeCorrect == Spec => []TypeOK
<1>1. TypeOK /\ [Next]_vars => TypeOK'
  BY ApiType, TimerType, TamperType DEF Next, vars, TypeOK
<1> QED
  BY <1>1, InitType, PTL DEF Spec

-----------------------------------------------------------------------------
(* CallbackSafe is not inductive.  What keeps it is that every live entry  *)
(* has a callback, and is whole if it was taken by one fork alone, that    *)
(* the timer thread acts on an entry it found live, and that an entry one  *)
(* fork has to itself stays free until that fork sets its State.           *)
LiveWhole ==
  \A i \in Slots : Live(i) => /\ pst[i].pIsrFunc \in Devices
                              /\ i \notin crossed => Whole(i)
Filling == {"fork_pid", "fork_time", "fork_isr", "fork_run"}
ForkOwns(t) ==
  Forking(t) =>
    /\ t.pid.did \in Devices
    /\ t.pc = "fork_run" => pst[t.slot].pIsrFunc \in Devices
    /\ t.slot \notin crossed =>
         /\ t.pc \in Filling => ~Live(t.slot)
         /\ t.pc \in Filling \ {"fork_pid"} => pst[t.slot].PID = t.pid
         /\ t.pc = "fork_run" => Whole(t.slot)
Apart == Forking(api) /\ Forking(tam) => {api.slot, tam.slot} \subseteq crossed
Acts == exec.pc \in {"call", "wake", "sleep"} => Live(exec.i)
CallbackInv == TypeOK /\ LiveWhole /\ ForkOwns(api) /\ ForkOwns(tam) /\ Apart /\ Acts

(* The timer thread wakes no dead entry and renames none: it only moves    *)
(* live entries between running, sleeping and dead.                        *)
LEMMA TimerKeeps ==
  ASSUME CallbackInv, TimerNext
  PROVE  /\ \A i \in Slots : Live(i)' => Live(i)
         /\ \A i \in Slots : /\ pst'[i].PID = pst[i].PID
                             /\ pst'[i].pIsrFunc = pst[i].pIsrFunc
         /\ api' = api /\ tam' = tam /\ crossed' = crossed
<1> USE DEF CallbackInv, TypeOK, ExecLocals
<1>0. api' = api /\ tam' = tam /\ crossed' = crossed
  BY DEF TimerNext, ScanStart, Check, Switch, Call, Quiet, QuietSum, QuietLrc, Reload, Wake,
         Sleep, Renew, PutLrc, Kill, KillLook, KillEnd, UpRead, UpWrite
<1>1. CASE UNCHANGED pst
  BY <1>0, <1>1 DEF Live
<1>2. CASE Call
  BY <1>0, <1>2, IsrRunType DEF Call, Live
<1>3. CASE Wake \/ Sleep
  <2>1. Live(exec.i) /\ exec.i \in Slots
    BY <1>3 DEF Wake, Sleep, Acts
  <2>2. CASE Wake
    BY <1>0, <2>1, <2>2 DEF Wake, Live, Entries
  <2>3. CASE Sleep
    BY <1>0, <2>1, <2>3 DEF Sleep, Live, Entries
  <2> QED
    BY <1>3, <2>2, <2>3
<1>4. CASE Quiet
  BY <1>0, <1>4 DEF Quiet, Live, Entries
<1>5. CASE QuietLrc \/ PutLrc
  <2>1. pst' = [pst EXCEPT ![exec.i].LRC = exec.lrc]
    BY <1>5 DEF QuietLrc, PutLrc
  <2> QED
    BY <1>0, <2>1 DEF Live, Entries
<1>6. CASE Reload
  BY <1>0, <1>6 DEF Reload, Live, Entries
<1>7. CASE Kill
  <2>1. PICK j \in Slots :
          pst' = [pst EXCEPT ![j].State = PS_KILLED, ![j].Signal = SIG_IGNORE]
    BY <1>7 DEF Kill
  <2>2. PS_KILLED \notin {PS_RUNNING, PS_SLEEPING}
    <3>1. 5 \in PS_KILLED /\ 5 \notin PS_RUNNING /\ 5 \notin PS_SLEEPING
      BY DEF PS_KILLED, PS_RUNNING, PS_SLEEPING
    <3> QED
      BY <3>1
  <2> QED
    BY <1>0, <2>1, <2>2 DEF Live, Entries
<1>8. PS_END \notin {PS_RUNNING, PS_SLEEPING}
  BY DEF PS_END, PS_RUNNING, PS_SLEEPING
<1>9. CASE KillEnd
  BY <1>0, <1>8, <1>9 DEF KillEnd, Live, Entries
<1>10. CASE UpWrite
  BY <1>0, <1>8, <1>10 DEF UpWrite, Live, Entries
<1> QED
  BY <1>1, <1>2, <1>3, <1>4, <1>5, <1>6, <1>7, <1>9, <1>10
  DEF TimerNext, ScanStart, Check, Switch, QuietSum, Renew, KillLook, UpRead

LEMMA TimerCallback ==
  ASSUME CallbackInv, TimerNext
  PROVE  CallbackInv'
<1>1. TypeOK'
  BY TimerType DEF CallbackInv
<1>2. LiveWhole'
  BY TimerKeeps DEF CallbackInv, LiveWhole, Whole
<1>3. ForkOwns(api)' /\ ForkOwns(tam)' /\ Apart'
  <2>1. api.slot \in Slots /\ tam.slot \in Slots
    BY DEF CallbackInv, TypeOK, ApiLocals, TamperLocals
  <2> QED
    BY <2>1, TimerKeeps DEF CallbackInv, ForkOwns, Whole, Apart, Forking
<1>4. Acts'
  <2>1. CASE Switch
    <3>1. exec'.pc \in {"call", "wake", "sleep"} => exec'.i = exec.i /\ Live(exec.i) /\ pst' = pst
      BY <2>1 DEF CallbackInv, TypeOK, ExecLocals, Switch, Goto, Live, EntryDone, ScanEnds, ExecAt
    <3> QED
      BY <3>1 DEF Acts, Live
  <2>2. CASE Wake
    <3>1. /\ pst' = [pst EXCEPT ![exec.i].Signal = SIG_IGNORE, ![exec.i].State = PS_RUNNING]
          /\ exec' = [exec EXCEPT !.pc = "call", !.woken = TRUE]
      BY <2>2 DEF Wake
    <3>2. exec.i \in Slots /\ exec \in ExecLocals /\ pst \in [Slots -> Entries]
      BY DEF CallbackInv, TypeOK, ExecLocals
    <3>3. exec'.i = exec.i
      BY <3>1, <3>2 DEF ExecLocals
    <3>4. pst'[exec.i].State = PS_RUNNING
      BY <3>1, <3>2 DEF Entries
    <3> QED
      BY <3>3, <3>4 DEF Acts, Live
  <2>3. CASE ~Switch /\ ~Wake
    <3>1. EntryDone => exec'.pc \in {"idle", "check"}
      BY DEF EntryDone, ScanEnds, ExecAt
    <3>2. \A pc \in ExecPcs : Goto(pc) => exec'.pc = pc
      BY DEF Goto, CallbackInv, TypeOK, ExecLocals
    <3>3. Called => exec'.pc \in {"idle", "check", "renew"}
      BY <3>1, <3>2 DEF Called, ExecPcs
    <3>4. exec'.pc \notin {"call", "wake", "sleep"}
      <4>1. CASE ScanStart \/ Check \/ PutLrc \/ KillLook
        BY <3>1, <3>2, <4>1 DEF ScanStart, Check, PutLrc, KillLook, ExecAt, ExecPcs
      <4>2. CASE Call \/ Reload \/ Quiet
        BY <3>2, <3>3, <4>2 DEF Call, Reload, Quiet, ExecPcs
      <4>3. CASE Sleep \/ KillEnd \/ UpWrite
        BY <3>2, <4>3 DEF Sleep, KillEnd, UpWrite, ExecPcs
      <4>4. CASE Renew \/ Kill \/ UpRead \/ QuietSum \/ QuietLrc
        BY <3>1, <4>4
        DEF Renew, Kill, UpRead, QuietSum, QuietLrc, CallbackInv, TypeOK, ExecLocals
      <4> QED
        BY <2>3, <4>1, <4>2, <4>3, <4>4 DEF TimerNext
    <3> QED
      BY <3>4 DEF Acts
  <2> QED
    BY <2>1, <2>2, <2>3
<1> QED
  BY <1>1, <1>2, <1>3, <1>4 DEF CallbackInv

(* A step of a fork touches State, PID and pIsrFunc of no entry but its    *)
(* own, and one of them a step.                                            *)
LEMMA ForkEntries ==
  ASSUME TypeOK, NEW t, NEW u, ForkStep(t, u) \/ ForkLrc(t), t.slot \in Slots,
         NEW i \in Slots
  PROVE  /\ Live(i)' <=> Live(i) \/ (i = t.slot /\ t.pc = "fork_run")
         /\ pst'[i].PID = IF i = t.slot /\ t.pc = "fork_pid" THEN t.pid ELSE pst[i].PID
         /\ pst'[i].pIsrFunc = IF i = t.slot /\ t.pc = "fork_isr" THEN t.pid.did
                               ELSE pst[i].pIsrFunc
<1>0. pst \in [Slots -> Entries]
  BY DEF TypeOK
<1>1. CASE ForkPid(t, u)
  BY <1>0, <1>1 DEF ForkPid, Live, Entries
<1>2. CASE ForkTime(t, u)
  <2>1. PICK x : pst' = [pst EXCEPT ![t.slot].Xtime = x]
    BY <1>2 DEF ForkTime
  <2>2. t.pc = "fork_time"
    BY <1>2 DEF ForkTime
  <2> QED
    BY <1>0, <2>1, <2>2 DEF Live, Entries
<1>3. CASE ForkIsr(t, u)
  <2>1. PICK b : pst' = [pst EXCEPT ![t.slot].pIsrFunc = t.pid.did,
                                    ![t.slot].Signal = SIG_IGNORE,
                                    ![t.slot].RFU_0 = b]
    BY <1>3 DEF ForkIsr
  <2>2. t.pc = "fork_isr"
    BY <1>3 DEF ForkIsr
  <2> QED
    BY <1>0, <2>1, <2>2 DEF Live, Entries
<1>4. CASE ForkRun(t, u)
  BY <1>0, <1>4 DEF ForkRun, Live, Entries
<1>5. CASE ForkSum(t, u)
  BY <1>0, <1>5 DEF ForkSum, Live
<1>6. CASE ForkLrc(t)
  BY <1>0, <1>6 DEF ForkLrc, Live, Entries
<1> QED
  BY <1>1, <1>2, <1>3, <1>4, <1>5, <1>6 DEF ForkStep

(* What a step of the fork of thread t, which becomes u, keeps, while      *)
(* another thread is in a fork of its own or in none.                      *)
LEMMA ForkKeeps ==
  ASSUME CallbackInv, NEW t, NEW u, NEW other,
         t \in ApiLocals \/ t \in TamperLocals, other.slot \in Slots,
         ForkOwns(t), ForkOwns(other),
         Forking(t) /\ Forking(other) => {t.slot, other.slot} \subseteq crossed,
         ForkStep(t, u) \/ (ForkLrc(t) /\ ~Forking(u)),
         crossed' = crossed, exec' = exec
  PROVE  /\ LiveWhole' /\ Acts'
         /\ Forking(u) => /\ u.pid.did \in Devices
                          /\ u.pc = "fork_run" => pst'[u.slot].pIsrFunc \in Devices
                          /\ u.slot \notin crossed =>
                               /\ u.pc \in Filling => ~Live(u.slot)'
                               /\ u.pc \in Filling \ {"fork_pid"} => pst'[u.slot].PID = u.pid
                               /\ u.pc = "fork_run" => Whole(u.slot)'
         /\ Forking(other) => /\ other.pid.did \in Devices
                              /\ other.pc = "fork_run" => pst'[other.slot].pIsrFunc \in Devices
                              /\ other.slot \in crossed
         /\ Forking(u) /\ Forking(other) => {u.slot, other.slot} \subseteq crossed
<1>1. /\ t.slot \in Slots /\ Forking(t) /\ TypeOK
      /\ ForkLrc(t) => t.pc = "fork_lrc"
  BY ForkMoves DEF CallbackInv, ForkLrc, ApiLocals, TamperLocals, Forking, ForkPcs
<1>2. \A i \in Slots :
        /\ Live(i)' <=> Live(i) \/ (i = t.slot /\ t.pc = "fork_run")
        /\ pst'[i].PID = IF i = t.slot /\ t.pc = "fork_pid" THEN t.pid ELSE pst[i].PID
        /\ pst'[i].pIsrFunc = IF i = t.slot /\ t.pc = "fork_isr" THEN t.pid.did
                              ELSE pst[i].pIsrFunc
  BY <1>1, ForkEntries
<1>3. Forking(u) =>
        /\ u.slot = t.slot /\ u.pid = t.pid
        /\ \/ t.pc = "fork_pid" /\ u.pc = "fork_time"
           \/ t.pc = "fork_time" /\ u.pc = "fork_isr"
           \/ t.pc = "fork_isr" /\ u.pc = "fork_run"
           \/ t.pc = "fork_run" /\ u.pc = "fork_sum"
           \/ t.pc = "fork_sum" /\ u.pc = "fork_lrc"
  BY <1>1, ForkMoves
<1>4. /\ t.pid.did \in Devices
      /\ t.pc = "fork_run" => pst[t.slot].pIsrFunc \in Devices
      /\ t.slot \notin crossed =>
           /\ t.pc \in Filling => ~Live(t.slot)
           /\ t.pc \in Filling \ {"fork_pid"} => pst[t.slot].PID = t.pid
           /\ t.pc = "fork_run" => Whole(t.slot)
  BY <1>1 DEF ForkOwns
<1>5. LiveWhole'
  <2> SUFFICES ASSUME NEW i \in Slots, Live(i)'
               PROVE  /\ pst'[i].pIsrFunc \in Devices
                      /\ i \notin crossed => Whole(i)'
    BY DEF LiveWhole
  <2>1. Live(i) => pst[i].pIsrFunc \in Devices /\ (i \notin crossed => Whole(i))
    BY DEF CallbackInv, LiveWhole
  <2> QED
    BY <1>2, <1>4, <2>1 DEF Whole, Filling
<1>6. Acts'
  BY <1>2 DEF CallbackInv, Acts, TypeOK, ExecLocals
<1>7. Forking(u) => /\ u.pid.did \in Devices
                    /\ u.pc = "fork_run" => pst'[u.slot].pIsrFunc \in Devices
                    /\ u.slot \notin crossed =>
                         /\ u.pc \in Filling => ~Live(u.slot)'
                         /\ u.pc \in Filling \ {"fork_pid"} => pst'[u.slot].PID = u.pid
                         /\ u.pc = "fork_run" => Whole(u.slot)'
  <2> SUFFICES ASSUME Forking(u)
               PROVE  /\ u.pid.did \in Devices
                      /\ u.pc = "fork_run" => pst'[t.slot].pIsrFunc \in Devices
                      /\ t.slot \notin crossed =>
                           /\ u.pc \in Filling => ~Live(t.slot)'
                           /\ u.pc \in Filling \ {"fork_pid"} => pst'[t.slot].PID = u.pid
                           /\ u.pc = "fork_run" => Whole(t.slot)'
    BY <1>3 DEF Live, Whole
  <2> QED
    BY <1>1, <1>2, <1>3, <1>4 DEF Filling, Whole
<1>8. Forking(other) => /\ other.pid.did \in Devices
                        /\ other.pc = "fork_run" => pst'[other.slot].pIsrFunc \in Devices
                        /\ other.slot \in crossed
  <2>1. Forking(other) => /\ other.pid.did \in Devices
                          /\ other.pc = "fork_run" => pst[other.slot].pIsrFunc \in Devices
    BY DEF ForkOwns
  <2>2. pst'[other.slot].pIsrFunc \in {pst[other.slot].pIsrFunc, t.pid.did}
    BY <1>2
  <2> QED
    BY <1>1, <1>4, <2>1, <2>2
<1> QED
  BY <1>1, <1>3, <1>5, <1>6, <1>7, <1>8

(* What the look-up keeps: the entry it takes is free. *)
LEMMA LookUpKeeps ==
  ASSUME CallbackInv, NEW u, NEW other,
         u.pc = "fork_pid", u.pid.did \in Devices, u.slot \in FreeSlots,
         other.slot \in Slots, ForkOwns(other),
         crossed' = Crossing(u.slot, other), pst' = pst, exec' = exec
  PROVE  /\ LiveWhole' /\ Acts'
         /\ u.slot \notin crossed' => ~Live(u.slot)'
         /\ Forking(other) => /\ other.pid.did \in Devices
                              /\ other.pc = "fork_run" => pst'[other.slot].pIsrFunc \in Devices
                              /\ {u.slot, other.slot} \subseteq crossed'
<1>1. ~Live(u.slot) /\ u.slot \in Slots
  BY DEF FreeSlots
<1>2. \A i \in Slots : Live(i) /\ i \notin crossed' => i \notin crossed
  BY <1>1 DEF Crossing
<1>3. LiveWhole'
  BY <1>2 DEF CallbackInv, LiveWhole, Live, Whole
<1>4. Acts'
  BY DEF CallbackInv, Acts, Live
<1>5. Forking(other) => {u.slot, other.slot} \subseteq crossed'
  BY DEF Crossing
<1> QED
  BY <1>1, <1>3, <1>4, <1>5 DEF Live, ForkOwns

(* What the rest of the API does not do: it leaves State, PID and pIsrFunc *)
(* of every entry alone.                                                   *)
SameProcesses ==
  \A i \in Slots : /\ pst'[i].State = pst[i].State
                   /\ pst'[i].PID = pst[i].PID
                   /\ pst'[i].pIsrFunc = pst[i].pIsrFunc

LEMMA ApiCases ==
  ASSUME TypeOK, ApiNext
  PROVE  /\ exec' = exec
         /\ \/ \E did \in Devices : Open(did)
            \/ (OpenStep \/ OpenReturn) /\ crossed' = crossed
            \/ SameProcesses /\ ~Forking(api)' /\ ~Forking(api) /\ crossed' = crossed
<1>a. /\ pst \in [Slots -> Entries] /\ api.slot \in Slots /\ api \in ApiLocals
  BY DEF TypeOK, ApiLocals
<1>1. exec' = exec
  BY DEF ApiNext, Open, OpenFails, CloseAll, Close, Sound, OpenStep, OpenReturn, Seek,
         SeekFails, PutSignal, PutXtime, SignalSum, SignalLrc, CloseReturn
<1>2. (\E did \in Devices : Open(did)) \/ crossed' = crossed
  BY DEF ApiNext
<1>3. Return => api'.pc = "idle"
  BY DEF Return, IdleApi
<1>4. AfterSignal => api'.pc \in {"idle", "seek", "wait"}
  BY <1>a, <1>3 DEF AfterSignal, ApiLocals, IdleApi
<1>5. ASSUME PutSignal \/ PutXtime \/ SignalLrc
      PROVE  SameProcesses /\ ~Forking(api)' /\ ~Forking(api)
  <2>1. ASSUME NEW sig, NEW x, NEW c, NEW r,
               \/ pst' = [pst EXCEPT ![api.slot].LRC = c]
               \/ pst' = [pst EXCEPT ![api.slot].Signal = sig]
               \/ pst' = [pst EXCEPT ![api.slot].Xtime = x]
               \/ pst' = [pst EXCEPT ![api.slot].Xtime = x, ![api.slot].RFU_0 = r]
        PROVE  SameProcesses
    BY <1>a, <2>1 DEF Entries, SameProcesses
  <2>2. CASE PutSignal
    BY <1>a, <2>1, <2>2 DEF PutSignal, Forking, ForkPcs, ApiLocals
  <2>3. CASE PutXtime
    BY <1>a, <2>1, <2>3 DEF PutXtime, Forking, ForkPcs, ApiLocals
  <2>4. CASE SignalLrc
    BY <1>a, <1>4, <2>1, <2>4 DEF SignalLrc, Forking, ForkPcs
  <2> QED
    BY <1>5, <2>2, <2>3, <2>4
<1>6. ASSUME Seek \/ SeekFails \/ SignalSum \/ CloseReturn
      PROVE  SameProcesses /\ ~Forking(api)' /\ ~Forking(api)
  <2>1. CASE Seek \/ SignalSum
    BY <1>a, <2>1 DEF Seek, SignalSum, SameProcesses, Forking, ForkPcs, ApiLocals
  <2>2. CASE SeekFails \/ CloseReturn
    BY <1>3, <1>4, <2>2 DEF SeekFails, CloseReturn, SameProcesses, Forking, ForkPcs
  <2> QED
    BY <1>6, <2>1, <2>2
<1>7. ASSUME NEW did \in Devices, OpenFails(did) \/ CloseAll(did)
      PROVE  SameProcesses /\ ~Forking(api)' /\ ~Forking(api)
  BY <1>3, <1>7 DEF OpenFails, CloseAll, MayCall, IdleApi, SameProcesses, Forking, ForkPcs
<1>8. ASSUME NEW k \in 1 .. Len(held), Close(k) \/ Sound(k)
      PROVE  SameProcesses /\ ~Forking(api)' /\ ~Forking(api)
  BY <1>8 DEF Close, Sound, MayCall, IdleApi, SameProcesses, Forking, ForkPcs
<1> QED
  BY <1>1, <1>2, <1>5, <1>6, <1>7, <1>8 DEF ApiNext

LEMMA ApiCallback ==
  ASSUME CallbackInv, ApiNext
  PROVE  CallbackInv'
<1>0. TypeOK' /\ exec' = exec
  BY ApiType, ApiCases DEF CallbackInv
<1>a. /\ api.slot \in Slots /\ tam.slot \in Slots /\ api \in ApiLocals
      /\ ForkOwns(api) /\ ForkOwns(tam) /\ Apart /\ TypeOK
  BY DEF CallbackInv, TypeOK, ApiLocals, TamperLocals
<1>b. tam'.pc = tam.pc /\ tam'.slot = tam.slot /\ tam'.pid = tam.pid
  BY ApiTamper DEF CallbackInv
<1>1. ASSUME NEW did \in Devices, Open(did) PROVE CallbackInv'
  <2>1. /\ api'.pc = "fork_pid" /\ api'.pid.did = did /\ api'.slot \in FreeSlots
        /\ crossed' = Crossing(api'.slot, tam)
    BY <1>1, <1>a, OpenTakes
  <2>2. pst' = pst
    BY <1>1 DEF Open
  <2>v. PICK v : v = api'
    OBVIOUS
  <2>3. /\ LiveWhole' /\ Acts'
        /\ v.slot \notin crossed' => ~Live(v.slot)'
        /\ Forking(tam) => /\ tam.pid.did \in Devices
                           /\ tam.pc = "fork_run" => pst'[tam.slot].pIsrFunc \in Devices
                           /\ {v.slot, tam.slot} \subseteq crossed'
    BY <1>0, <1>a, <2>1, <2>2, <2>v, LookUpKeeps
  <2>4. ForkOwns(api)'
    BY <2>1, <2>3, <2>v DEF ForkOwns, Live
  <2>5. ForkOwns(tam)' /\ Apart'
    BY <1>b, <2>3, <2>v DEF ForkOwns, Apart, Forking
  <2> QED
    BY <1>0, <2>3, <2>4, <2>5 DEF CallbackInv
<1>2. ASSUME OpenStep \/ OpenReturn, crossed' = crossed PROVE CallbackInv'
  <2>1. ForkStep(api, api') \/ (ForkLrc(api) /\ ~Forking(api'))
    BY <1>2 DEF OpenStep, OpenReturn, Return, IdleApi, Forking, ForkPcs
  <2>2. Forking(api) /\ Forking(tam) => {api.slot, tam.slot} \subseteq crossed
    BY <1>a DEF Apart
  <2>v. PICK v : v = api'
    OBVIOUS
  <2>3. /\ LiveWhole' /\ Acts'
        /\ Forking(v) => /\ v.pid.did \in Devices
                         /\ v.pc = "fork_run" => pst'[v.slot].pIsrFunc \in Devices
                         /\ v.slot \notin crossed =>
                              /\ v.pc \in Filling => ~Live(v.slot)'
                              /\ v.pc \in Filling \ {"fork_pid"} => pst'[v.slot].PID = v.pid
                              /\ v.pc = "fork_run" => Whole(v.slot)'
        /\ Forking(tam) => /\ tam.pid.did \in Devices
                           /\ tam.pc = "fork_run" => pst'[tam.slot].pIsrFunc \in Devices
                           /\ tam.slot \in crossed
        /\ Forking(v) /\ Forking(tam) => {v.slot, tam.slot} \subseteq crossed
    BY <1>0, <1>a, <1>2, <2>1, <2>2, <2>v, ForkKeeps
  <2>4. ForkOwns(api)'
    BY <1>2, <2>3, <2>v DEF ForkOwns, Forking, Live, Whole
  <2>5. ForkOwns(tam)' /\ Apart'
    BY <1>2, <1>b, <2>3, <2>v DEF ForkOwns, Apart, Forking
  <2> QED
    BY <1>0, <2>3, <2>4, <2>5 DEF CallbackInv
<1>3. ASSUME SameProcesses, ~Forking(api)', crossed' = crossed PROVE CallbackInv'
  <2>1. LiveWhole' /\ Acts'
    BY <1>0, <1>3 DEF CallbackInv, LiveWhole, Acts, Live, Whole, SameProcesses, TypeOK, ExecLocals
  <2>2. ForkOwns(api)' /\ Apart'
    BY <1>3 DEF ForkOwns, Apart
  <2>3. ForkOwns(tam)'
    BY <1>3, <1>a, <1>b DEF ForkOwns, SameProcesses, Live, Whole, Forking
  <2> QED
    BY <1>0, <2>1, <2>2, <2>3 DEF CallbackInv
<1> QED
  BY <1>1, <1>2, <1>3, <1>a, ApiCases

LEMMA TamperCallback ==
  ASSUME CallbackInv, TamperNext
  PROVE  CallbackInv'
<1>0. TypeOK' /\ exec' = exec /\ api' = api
  BY TamperType DEF CallbackInv, TamperNext
<1>a. /\ api.slot \in Slots /\ tam.slot \in Slots /\ tam \in TamperLocals
      /\ ForkOwns(api) /\ ForkOwns(tam) /\ Apart /\ TypeOK
  BY DEF CallbackInv, TypeOK, ApiLocals, TamperLocals
<1>1. ASSUME NEW did \in Buzzers, TamperOpen(did) PROVE CallbackInv'
  <2>1. /\ tam'.pc = "fork_pid" /\ tam'.pid.did = did /\ tam'.slot \in FreeSlots
        /\ crossed' = Crossing(tam'.slot, api)
    BY <1>1, <1>a, TamperTakes
  <2>2. pst' = pst /\ did \in Devices
    BY <1>1 DEF TamperOpen, Devices
  <2>v. PICK v : v = tam'
    OBVIOUS
  <2>3. /\ LiveWhole' /\ Acts'
        /\ v.slot \notin crossed' => ~Live(v.slot)'
        /\ Forking(api) => /\ api.pid.did \in Devices
                           /\ api.pc = "fork_run" => pst'[api.slot].pIsrFunc \in Devices
                           /\ {v.slot, api.slot} \subseteq crossed'
    BY <1>0, <1>a, <2>1, <2>2, <2>v, LookUpKeeps
  <2>4. ForkOwns(tam)'
    BY <2>1, <2>2, <2>3, <2>v DEF ForkOwns, Live
  <2>5. ForkOwns(api)' /\ Apart'
    BY <1>0, <2>3, <2>v DEF ForkOwns, Apart, Forking
  <2> QED
    BY <1>0, <2>3, <2>4, <2>5 DEF CallbackInv
<1>2. CASE TamperOpenStep \/ TamperOpenReturn
  <2>1. /\ ForkStep(tam, tam') \/ (ForkLrc(tam) /\ ~Forking(tam'))
        /\ crossed' = crossed
    BY <1>2 DEF TamperOpenStep, TamperOpenReturn, IdleTamper, Forking, ForkPcs
  <2>2. Forking(tam) /\ Forking(api) => {tam.slot, api.slot} \subseteq crossed
    BY <1>a DEF Apart
  <2>v. PICK v : v = tam'
    OBVIOUS
  <2>3. /\ LiveWhole' /\ Acts'
        /\ Forking(v) => /\ v.pid.did \in Devices
                         /\ v.pc = "fork_run" => pst'[v.slot].pIsrFunc \in Devices
                         /\ v.slot \notin crossed =>
                              /\ v.pc \in Filling => ~Live(v.slot)'
                              /\ v.pc \in Filling \ {"fork_pid"} => pst'[v.slot].PID = v.pid
                              /\ v.pc = "fork_run" => Whole(v.slot)'
        /\ Forking(api) => /\ api.pid.did \in Devices
                           /\ api.pc = "fork_run" => pst'[api.slot].pIsrFunc \in Devices
                           /\ api.slot \in crossed
        /\ Forking(v) /\ Forking(api) => {v.slot, api.slot} \subseteq crossed
    BY <1>0, <1>a, <2>1, <2>2, <2>v, ForkKeeps
  <2>4. ForkOwns(tam)'
    BY <2>1, <2>3, <2>v DEF ForkOwns, Forking, Live, Whole
  <2>5. ForkOwns(api)' /\ Apart'
    BY <1>0, <2>1, <2>3, <2>v DEF ForkOwns, Apart, Forking
  <2> QED
    BY <1>0, <2>3, <2>4, <2>5 DEF CallbackInv
<1>3. ASSUME NEW did \in Buzzers, TamperOpenFails(did) PROVE CallbackInv'
  <2>1. pst' = pst /\ crossed' = crossed /\ ~Forking(tam)'
    BY <1>3 DEF TamperOpenFails, IdleTamper, Forking, ForkPcs
  <2> QED
    BY <1>0, <2>1
    DEF CallbackInv, LiveWhole, ForkOwns, Apart, Acts, Live, Whole, Forking
<1> QED
  BY <1>1, <1>2, <1>3 DEF TamperNext

LEMMA InitCallback == Init => CallbackInv
<1>1. PS_END \notin {PS_RUNNING, PS_SLEEPING}
  BY DEF PS_END, PS_RUNNING, PS_SLEEPING
<1> QED
  BY <1>1, InitType
  DEF Init, CallbackInv, LiveWhole, ForkOwns, Forking, ForkPcs, Apart, Acts, Live, IdleApi,
      IdleTamper, ExecAt

(* However the three threads interleave, the timer thread never calls      *)
(* through a pointer that no fork stored, nor, in an entry that one fork   *)
(* had to itself, through the pointer of another device.                   *)
THEOREM CallbackCorrect == Spec => []CallbackSafe
<1>1. CallbackInv /\ [Next]_vars => CallbackInv'
  <2>1. CASE UNCHANGED vars
    BY <2>1
    DEF vars, CallbackInv, TypeOK, LiveWhole, ForkOwns, Apart, Acts, Live, Whole, Forking
  <2> QED
    BY <2>1, ApiCallback, TimerCallback, TamperCallback DEF Next
<1>2. CallbackInv => CallbackSafe
  BY DEF CallbackInv, TypeOK, ExecLocals, Acts, LiveWhole, CallbackSafe
<1> QED
  BY <1>1, <1>2, InitCallback, PTL DEF Spec

-----------------------------------------------------------------------------
(* DeviceLimit: the room PS_ForkProcess counted is still there when it     *)
(* registers the process, because no other fork has taken it meanwhile, or *)
(* else the entry counts as crossed.                                       *)
Counted(did) == LiveOf(did) \ crossed
Room(t) == t.pc \in Filling /\ t.slot \notin crossed =>
             Cardinality(Counted(t.pid.did)) < MAX_DID_NO
LimitInv == CallbackInv /\ DeviceLimit /\ Room(api) /\ Room(tam)

LEMMA CountedFinite ==
  ASSUME NEW did
  PROVE  /\ IsFiniteSet(LiveOf(did)) /\ IsFiniteSet(Counted(did))
         /\ Cardinality(LiveOf(did)) \in Nat /\ Cardinality(Counted(did)) \in Nat
         /\ Cardinality(Counted(did)) <= Cardinality(LiveOf(did))
<1>1. IsFiniteSet(Slots)
  BY FS_Interval, SizeAssumption DEF Slots
<1>2. LiveOf(did) \subseteq Slots /\ Counted(did) \subseteq LiveOf(did)
  BY DEF LiveOf, Counted
<1> QED
  BY <1>1, <1>2, FS_Subset, FS_CardinalityType

(* A thread that gets no further into the filling of an entry of its own,  *)
(* in a step that adds no counted process, still has room.                 *)
Lingers(t, u) == u.pc \in Filling /\ u.slot \notin crossed' =>
                   /\ t.pc \in Filling /\ t.slot \notin crossed
                   /\ u.pid = t.pid

LEMMA FewerKeeps ==
  ASSUME LimitInv, \A did : Counted(did)' \subseteq Counted(did)
  PROVE  /\ DeviceLimit'
         /\ \A u : Lingers(api, u) \/ Lingers(tam, u) =>
              (u.pc \in Filling /\ u.slot \notin crossed' =>
                 Cardinality(Counted(u.pid.did))' < MAX_DID_NO)
<1>1. \A did : /\ Cardinality(Counted(did))' <= Cardinality(Counted(did))
               /\ Cardinality(Counted(did)) \in Nat
               /\ Cardinality(Counted(did))' \in Nat
  <2>1. TAKE did
  <2>2. IsFiniteSet(Counted(did)) /\ Cardinality(Counted(did)) \in Nat
    BY CountedFinite
  <2>3. Counted(did)' \subseteq Counted(did)
    OBVIOUS
  <2> QED
    BY <2>2, <2>3, FS_Subset, FS_CardinalityType
<1>2. MAX_DID_NO \in Nat
  BY SizeAssumption
<1>3. DeviceLimit'
  <2> SUFFICES ASSUME NEW did \in Devices PROVE Cardinality(Counted(did))' <= MAX_DID_NO
    BY DEF DeviceLimit, Counted, Devices
  <2>1. Cardinality(Counted(did)) <= MAX_DID_NO
    BY DEF LimitInv, DeviceLimit, Counted
  <2> QED
    BY <1>1, <1>2, <2>1
<1>4. ASSUME NEW u, Lingers(api, u) \/ Lingers(tam, u),
             u.pc \in Filling, u.slot \notin crossed'
      PROVE  Cardinality(Counted(u.pid.did))' < MAX_DID_NO
  <2>1. PICK d : d = u.pid.did
    OBVIOUS
  <2>2. Cardinality(Counted(d)) < MAX_DID_NO
    BY <1>4, <2>1 DEF Lingers, LimitInv, Room
  <2>3. Cardinality(Counted(d))' < MAX_DID_NO
    BY <1>1, <1>2, <2>2
  <2> QED
    BY <2>1, <2>3
<1> QED
  BY <1>3, <1>4

(* The look-up of thread u: the room is there. *)
LEMMA LookUpLimit ==
  ASSUME LimitInv, NEW u, NEW other,
         u.pid.did \in Devices, u.slot \in FreeSlots, CanFork(u.pid.did),
         crossed' = Crossing(u.slot, other), pst' = pst
  PROVE  /\ \A did : Counted(did)' \subseteq Counted(did)
         /\ Cardinality(Counted(u.pid.did))' < MAX_DID_NO
<1>1. ~Live(u.slot)
  BY DEF FreeSlots
<1>2. \A did : LiveOf(did)' = LiveOf(did)
  BY DEF LiveOf, Live
<1>3. \A did : Counted(did)' \subseteq Counted(did)
  BY <1>1, <1>2 DEF Counted, Crossing, LiveOf
<1>4. PICK d : d = u.pid.did
  OBVIOUS
<1>5. Cardinality(Counted(d))' < MAX_DID_NO
  <2>1. /\ IsFiniteSet(LiveOf(d)) /\ Cardinality(LiveOf(d)) \in Nat
        /\ Cardinality(LiveOf(d)) < MAX_DID_NO
    BY <1>4, CountedFinite DEF CanFork
  <2>2. Counted(d)' \subseteq LiveOf(d)
    BY <1>2 DEF Counted
  <2>3. /\ Cardinality(Counted(d))' <= Cardinality(LiveOf(d))
        /\ Cardinality(Counted(d))' \in Nat
    BY <2>1, <2>2, FS_Subset, FS_CardinalityType
  <2> QED
    BY <2>1, <2>3, SizeAssumption
<1> QED
  BY <1>3, <1>4, <1>5

(* A step of the fork of thread t: only the one that sets State to running *)
(* adds a process, and it had room for it.                                 *)
LEMMA ForkLimit ==
  ASSUME LimitInv, NEW t, NEW u,
         t \in ApiLocals \/ t \in TamperLocals, ForkOwns(t), Room(t),
         ForkStep(t, u) \/ (ForkLrc(t) /\ ~Forking(u)), crossed' = crossed
  PROVE  /\ DeviceLimit'
         /\ \/ \A did : Counted(did)' \subseteq Counted(did)
            \/ t.pc = "fork_run" /\ t.slot \notin crossed
         /\ Lingers(t, u)
<1>1. /\ t.slot \in Slots /\ Forking(t) /\ TypeOK
      /\ ForkLrc(t) => t.pc = "fork_lrc"
  BY ForkMoves DEF LimitInv, CallbackInv, ForkLrc, ApiLocals, TamperLocals, Forking, ForkPcs
<1>2. \A i \in Slots :
        /\ Live(i)' <=> Live(i) \/ (i = t.slot /\ t.pc = "fork_run")
        /\ pst'[i].PID = IF i = t.slot /\ t.pc = "fork_pid" THEN t.pid ELSE pst[i].PID
  BY <1>1, ForkEntries
<1>3. Lingers(t, u)
  BY <1>1, ForkMoves DEF Lingers, Filling, Forking, ForkPcs
<1>4. t.slot \notin crossed => /\ t.pc \in Filling => ~Live(t.slot)
                               /\ t.pc = "fork_run" => pst[t.slot].PID = t.pid
  BY <1>1 DEF ForkOwns, Filling
<1>5. CASE t.pc # "fork_run" \/ t.slot \in crossed
  <2>1. \A did : Counted(did)' \subseteq Counted(did)
    <3> SUFFICES ASSUME NEW did, NEW i \in Slots, Live(i)', i \notin crossed,
                        pst'[i].PID.did = did
                 PROVE  Live(i) /\ pst[i].PID.did = did
      BY DEF Counted, LiveOf
    <3> QED
      BY <1>2, <1>4, <1>5 DEF Filling
  <2> QED
    BY <1>3, <2>1, FewerKeeps
<1>6. CASE t.pc = "fork_run" /\ t.slot \notin crossed
  <2>0. PICK d : d = t.pid.did
    OBVIOUS
  <2>1. Cardinality(Counted(d)) < MAX_DID_NO
    BY <1>6, <2>0 DEF Room, Filling
  <2>2. Counted(d)' \subseteq Counted(d) \cup {t.slot}
    BY <1>2, <1>6 DEF Counted, LiveOf
  <2>3. ASSUME NEW did, did # d PROVE Counted(did)' \subseteq Counted(did)
    <3>1. pst'[t.slot].PID.did # did
      BY <1>1, <1>2, <1>4, <1>6, <2>0, <2>3
    <3> QED
      BY <1>2, <3>1 DEF Counted, LiveOf
  <2>4. Cardinality(Counted(d))' <= MAX_DID_NO
    <3>1. IsFiniteSet(Counted(d)) /\ Cardinality(Counted(d)) \in Nat
      BY CountedFinite
    <3>2. /\ IsFiniteSet(Counted(d) \cup {t.slot})
          /\ \/ Cardinality(Counted(d) \cup {t.slot}) = Cardinality(Counted(d))
             \/ Cardinality(Counted(d) \cup {t.slot}) = Cardinality(Counted(d)) + 1
      BY <3>1, FS_AddElement
    <3>3. /\ IsFiniteSet(Counted(d)')
          /\ Cardinality(Counted(d)') <= Cardinality(Counted(d) \cup {t.slot})
          /\ Cardinality(Counted(d)') \in Nat
          /\ Cardinality(Counted(d) \cup {t.slot}) \in Nat
      BY <2>2, <3>2, FS_Subset, FS_CardinalityType
    <3> QED
      BY <2>1, <3>1, <3>2, <3>3, SizeAssumption
  <2>5. ASSUME NEW did \in Devices, did # d
        PROVE  Cardinality(Counted(did))' <= MAX_DID_NO
    <3>1. IsFiniteSet(Counted(did)) /\ Cardinality(Counted(did)) \in Nat
      BY CountedFinite
    <3>2. /\ Cardinality(Counted(did)') <= Cardinality(Counted(did))
          /\ Cardinality(Counted(did)') \in Nat
      BY <2>3, <2>5, <3>1, FS_Subset, FS_CardinalityType
    <3>3. Cardinality(Counted(did)) <= MAX_DID_NO
      BY <2>5 DEF LimitInv, DeviceLimit, Counted
    <3> QED
      BY <3>1, <3>2, <3>3, SizeAssumption
  <2>6. DeviceLimit'
    <3> SUFFICES ASSUME NEW did \in Devices PROVE Cardinality(Counted(did))' <= MAX_DID_NO
      BY DEF DeviceLimit, Counted, Devices
    <3>1. CASE did = d
      BY <2>4, <3>1
    <3>2. CASE did # d
      BY <2>5, <3>2
    <3> QED
      BY <3>1, <3>2
  <2> QED
    BY <1>3, <1>6, <2>6
<1> QED
  BY <1>5, <1>6

(* Every step keeps the limit. *)
LEMMA LimitStep ==
  ASSUME LimitInv, Next
  PROVE  LimitInv'
<1>0. CallbackInv'
  BY ApiCallback, TimerCallback, TamperCallback DEF LimitInv, Next
<1>a. /\ api \in ApiLocals /\ tam \in TamperLocals /\ TypeOK /\ CallbackInv
      /\ ForkOwns(api) /\ ForkOwns(tam) /\ Apart /\ Room(api) /\ Room(tam)
  BY DEF LimitInv, CallbackInv, TypeOK
<1>1. ASSUME \A did : Counted(did)' \subseteq Counted(did),
             Lingers(api, api'), Lingers(tam, tam')
      PROVE  LimitInv'
  <2>v. PICK v, w : v = api' /\ w = tam'
    OBVIOUS
  <2>1. /\ DeviceLimit'
        /\ v.pc \in Filling /\ v.slot \notin crossed' =>
             Cardinality(Counted(v.pid.did))' < MAX_DID_NO
        /\ w.pc \in Filling /\ w.slot \notin crossed' =>
             Cardinality(Counted(w.pid.did))' < MAX_DID_NO
    BY <1>1, <2>v, FewerKeeps
  <2>2. Room(api)' /\ Room(tam)'
    BY <2>1, <2>v DEF Room, Counted, LiveOf, Live
  <2> QED
    BY <1>0, <2>1, <2>2 DEF LimitInv
<1>2. ASSUME \A i \in Slots : Live(i)' => Live(i) /\ pst'[i].PID = pst[i].PID,
             crossed' = crossed
      PROVE  \A did : Counted(did)' \subseteq Counted(did)
  BY <1>2 DEF Counted, LiveOf
<1>3. CASE TimerNext
  <2>1. /\ \A i \in Slots : Live(i)' => Live(i) /\ pst'[i].PID = pst[i].PID
        /\ api' = api /\ tam' = tam /\ crossed' = crossed
    BY <1>a, <1>3, TimerKeeps
  <2> QED
    BY <1>1, <1>2, <2>1 DEF Lingers
<1>4. CASE ApiNext
  <2>1. tam'.pc = tam.pc /\ tam'.slot = tam.slot /\ tam'.pid = tam.pid
    BY <1>a, <1>4, ApiTamper
  <2>v. PICK v : v = api'
    OBVIOUS
  <2>2. ASSUME NEW did \in Devices, Open(did) PROVE LimitInv'
    <3>1. /\ v.pc = "fork_pid" /\ v.pid.did = did /\ v.slot \in FreeSlots
          /\ crossed' = Crossing(v.slot, tam) /\ CanFork(did) /\ pst' = pst
      BY <1>a, <2>2, <2>v, OpenTakes DEF Open
    <3>2. /\ \A d : Counted(d)' \subseteq Counted(d)
          /\ Cardinality(Counted(v.pid.did))' < MAX_DID_NO
      BY <2>2, <3>1, LookUpLimit
    <3>3. Lingers(tam, tam')
      BY <2>1, <3>1 DEF Lingers, Crossing, Forking, Filling, ForkPcs
    <3>w. PICK w : w = tam'
      OBVIOUS
    <3>4. /\ DeviceLimit'
          /\ w.pc \in Filling /\ w.slot \notin crossed' =>
               Cardinality(Counted(w.pid.did))' < MAX_DID_NO
      BY <3>2, <3>3, <3>w, FewerKeeps
    <3>5. Room(api)' /\ Room(tam)'
      BY <2>v, <3>2, <3>4, <3>w DEF Room, Counted, LiveOf, Live
    <3> QED
      BY <1>0, <3>4, <3>5 DEF LimitInv
  <2>3. ASSUME OpenStep \/ OpenReturn, crossed' = crossed PROVE LimitInv'
    <3>1. ForkStep(api, api') \/ (ForkLrc(api) /\ ~Forking(api'))
      BY <2>3 DEF OpenStep, OpenReturn, Return, IdleApi, Forking, ForkPcs
    <3>2. /\ DeviceLimit'
          /\ \/ \A did : Counted(did)' \subseteq Counted(did)
             \/ api.pc = "fork_run" /\ api.slot \notin crossed
          /\ Lingers(api, api')
      BY <1>a, <2>3, <3>1, ForkLimit
    <3>3. CASE \A did : Counted(did)' \subseteq Counted(did)
      BY <1>1, <2>1, <2>3, <3>2, <3>3 DEF Lingers
    <3>4. CASE api.pc = "fork_run" /\ api.slot \notin crossed
      <4>1. tam'.pc \notin Filling
        BY <1>a, <2>1, <3>4 DEF Apart, Forking, ForkPcs, Filling
      <4>2. api'.pc \notin Filling
        BY <1>a, <3>1, <3>4, ForkMoves DEF Forking, ForkPcs, Filling
      <4> QED
        BY <1>0, <3>2, <4>1, <4>2 DEF LimitInv, Room
    <3> QED
      BY <3>2, <3>3, <3>4
  <2>4. ASSUME SameProcesses, ~Forking(api)', crossed' = crossed PROVE LimitInv'
    <3>1. \A i \in Slots : Live(i)' => Live(i) /\ pst'[i].PID = pst[i].PID
      BY <2>4 DEF SameProcesses, Live
    <3>2. Lingers(api, api') /\ Lingers(tam, tam')
      BY <2>1, <2>4 DEF Lingers, Forking, ForkPcs, Filling
    <3>3. \A did : Counted(did)' \subseteq Counted(did)
      BY <1>2, <2>4, <3>1
    <3> QED
      BY <1>1, <3>2, <3>3
  <2> QED
    BY <1>a, <1>4, <2>2, <2>3, <2>4, ApiCases
<1>5. CASE TamperNext
  <2>1. api' = api
    BY <1>5 DEF TamperNext
  <2>v. PICK v : v = tam'
    OBVIOUS
  <2>2. ASSUME NEW did \in Buzzers, TamperOpen(did) PROVE LimitInv'
    <3>1. /\ v.pc = "fork_pid" /\ v.pid.did = did /\ v.slot \in FreeSlots
          /\ crossed' = Crossing(v.slot, api) /\ CanFork(did) /\ pst' = pst
          /\ did \in Devices
      BY <1>a, <2>2, <2>v, TamperTakes DEF TamperOpen, Devices
    <3>2. /\ \A d : Counted(d)' \subseteq Counted(d)
          /\ Cardinality(Counted(v.pid.did))' < MAX_DID_NO
      BY <2>2, <3>1, LookUpLimit
    <3>3. Lingers(api, api')
      BY <2>1, <3>1 DEF Lingers, Crossing, Forking, Filling, ForkPcs
    <3>w. PICK w : w = api'
      OBVIOUS
    <3>4. /\ DeviceLimit'
          /\ w.pc \in Filling /\ w.slot \notin crossed' =>
               Cardinality(Counted(w.pid.did))' < MAX_DID_NO
      BY <3>2, <3>3, <3>w, FewerKeeps
    <3>5. Room(api)' /\ Room(tam)'
      BY <2>v, <3>2, <3>4, <3>w DEF Room, Counted, LiveOf, Live
    <3> QED
      BY <1>0, <3>4, <3>5 DEF LimitInv
  <2>3. ASSUME TamperOpenStep \/ TamperOpenReturn PROVE LimitInv'
    <3>1. /\ ForkStep(tam, tam') \/ (ForkLrc(tam) /\ ~Forking(tam'))
          /\ crossed' = crossed
      BY <2>3 DEF TamperOpenStep, TamperOpenReturn, IdleTamper, Forking, ForkPcs
    <3>2. /\ DeviceLimit'
          /\ \/ \A did : Counted(did)' \subseteq Counted(did)
             \/ tam.pc = "fork_run" /\ tam.slot \notin crossed
          /\ Lingers(tam, tam')
      BY <1>a, <3>1, ForkLimit
    <3>3. CASE \A did : Counted(did)' \subseteq Counted(did)
      BY <1>1, <2>1, <3>1, <3>2, <3>3 DEF Lingers
    <3>4. CASE tam.pc = "fork_run" /\ tam.slot \notin crossed
      <4>1. api'.pc \notin Filling
        BY <1>a, <2>1, <3>4 DEF Apart, Forking, ForkPcs, Filling
      <4>2. tam'.pc \notin Filling
        BY <1>a, <3>1, <3>4, ForkMoves DEF Forking, ForkPcs, Filling
      <4> QED
        BY <1>0, <3>2, <4>1, <4>2 DEF LimitInv, Room
    <3> QED
      BY <3>2, <3>3, <3>4
  <2>4. ASSUME NEW did \in Buzzers, TamperOpenFails(did) PROVE LimitInv'
    <3>1. pst' = pst /\ crossed' = crossed /\ tam'.pc = "idle"
      BY <2>4 DEF TamperOpenFails, IdleTamper
    <3>2. Lingers(api, api') /\ Lingers(tam, tam')
      BY <2>1, <3>1 DEF Lingers, Filling
    <3>3. \A d : Counted(d)' \subseteq Counted(d)
      BY <3>1 DEF Counted, LiveOf, Live
    <3> QED
      BY <1>1, <3>2, <3>3
  <2> QED
    BY <1>5, <2>2, <2>3, <2>4 DEF TamperNext
<1> QED
  BY <1>3, <1>4, <1>5 DEF Next

(* No interleaving of the three threads takes a device over MAX_DID_NO     *)
(* registered processes, but for those of entries that two forks under way *)
(* at once took.                                                           *)
THEOREM DeviceLimitCorrect == Spec => []DeviceLimit
<1>1. Init => LimitInv
  <2> SUFFICES ASSUME Init PROVE LimitInv
    OBVIOUS
  <2>1. PS_END \notin {PS_RUNNING, PS_SLEEPING}
    BY DEF PS_END, PS_RUNNING, PS_SLEEPING
  <2>2. \A did : LiveOf(did) \ crossed = {}
    BY <2>1 DEF Init, LiveOf, Live
  <2>3. DeviceLimit
    BY <2>2, FS_EmptySet, SizeAssumption DEF DeviceLimit
  <2> QED
    BY <2>3, InitCallback DEF LimitInv, Room, Init, IdleApi, IdleTamper, Filling
<1>2. LimitInv /\ [Next]_vars => LimitInv'
  <2>1. CASE UNCHANGED vars
    BY <2>1 DEF vars, LimitInv, CallbackInv, TypeOK, LiveWhole, ForkOwns, Apart, Acts, Live,
                Whole, Forking, DeviceLimit, Room, Counted, LiveOf
  <2> QED
    BY <2>1, LimitStep
<1>3. LimitInv => DeviceLimit
  BY DEF LimitInv
<1> QED
  BY <1>1, <1>2, <1>3, PTL DEF Spec
=============================================================================
