---------------------- MODULE ProcessTableStackProofs ----------------------
(***************************************************************************)
(* What holds of the process table when the application closes its timers  *)
(* in the reverse order of their opening and lets two ticks pass between   *)
(* calls, for every size of the table and any number of timer devices: no  *)
(* entry is starved, handles are unique and stay registered, and what is   *)
(* closed is dead two ticks later.                                         *)
(***************************************************************************)
EXTENDS ProcessTableProofs, Induction

(* The use of the table the theorems are about. *)
TimersAsStack == LastFirst /\ Paced /\ Buzzers = {} /\ TamperForks = 0

(* The handles, oldest first, are the entries of the table from the first  *)
(* one on; the entry after them is the one a call works on, and all behind *)
(* it are free. A handle's tid counts the older handles of its device, so  *)
(* no two handles are equal.                                               *)
Top == Len(held)
Older(handles, did, k) == {m \in 1 .. k : handles[m].did = did}
Counts(handles, pid, k) == pid.tid = Cardinality(Older(handles, pid.did, k))
Settled(i) == /\ pst[i].State = PS_RUNNING
              /\ pst[i].Xtime = Always
              /\ pst[i].Signal = SIG_IGNORE
              /\ pst[i].LRC = Checksum(pst[i])
Dying(i) == /\ pst[i].State = PS_RUNNING
            /\ pst[i].Xtime = Never
            /\ pst[i].Signal = SIG_EXIT

StackInv ==
  /\ Top <= MAX_PST_NO
  /\ \A k \in 1 .. Top : /\ Settled(k - 1)
                         /\ pst[k - 1].PID = held[k]
                         /\ Counts(held, held[k], k - 1)
  /\ \A i \in Slots : i > Top => pst[i].State = PS_END
  /\ Top \in Slots /\ pst[Top].State # PS_END => Counts(held, pst[Top].PID, Top)

(* What the call in progress knows of the entry it works on. The timer     *)
(* thread may kill it before the call has renewed its LRC.                 *)
Letting == {"sum", "put_lrc", "wait", "idle"}
Filled == {"fork_sum", "fork_lrc"}
CallInv ==
  /\ api.pc # "idle" => Top \in Slots /\ pace = 0
  /\ ~api.all /\ api.op # "sound"
  /\ api.pc \in SignalPcs \cup {"wait"} => api.op = "close"
  /\ api.pc \in (ForkPcs \cup SignalPcs) \ {"seek"} => api.slot = Top
  /\ api.pc \in ForkPcs => /\ Counts(held, api.pid, Top)
                           /\ api.pid.did \in TimerDevices
                           /\ api.pc \notin Filled => pst[Top].State = PS_END
                           /\ api.pc # "fork_pid" => pst[Top].PID = api.pid
  /\ api.pc \in {"fork_isr", "fork_run"} \cup Filled => pst[Top].Xtime = Always
  /\ api.pc \in {"fork_run"} \cup Filled => pst[Top].Signal = SIG_IGNORE
  /\ api.pc \in Filled => pst[Top].State = PS_RUNNING
  /\ api.pc = "fork_lrc" => api.lrc = Checksum(pst[Top])
  /\ api.pc \in {"seek", "put_signal"} => Settled(Top) /\ pst[Top].PID = api.pid
  /\ api.pc = "put_xtime" => pst[Top].State = PS_RUNNING /\ pst[Top].Xtime = Always
                             /\ pst[Top].Signal = SIG_EXIT
  /\ api.pc \in Letting /\ Top \in Slots /\ pst[Top].State # PS_END =>
       \/ pst[Top].State = PS_KILLED
       \/ /\ Dying(Top)
          /\ api.pc = "put_lrc" => api.lrc = Checksum(pst[Top])
          /\ api.pc \in {"wait", "idle"} => pst[Top].LRC = Checksum(pst[Top])

(* Where the timer thread can be. The first scan that begins after the     *)
(* call has returned kills the process.                                    *)
Killing == {"kill_look", "kill_end"}
ScanInv ==
  /\ exec.pc \in {"idle", "check", "switch", "call", "kill", "up_read"} \cup Killing
  /\ exec.pc = "idle" => exec.i = 0
  /\ exec.pc \in {"kill", "up_read"} \cup Killing => Top \in Slots /\ api.pc \in Letting
  /\ exec.pc = "kill" => exec.i = Top /\ Dying(Top)
  /\ exec.pc \in Killing => exec.i = Top /\ exec.j = Top /\ pst[Top].State = PS_KILLED
  /\ exec.pc = "up_read" => exec.j <= Top /\ pst[Top].State = PS_END
  /\ Top \in Slots /\ pst[Top].State = PS_KILLED => exec.pc \in Killing
  /\ api.pc = "idle" /\ Top \in Slots /\ pst[Top].State # PS_END =>
       \/ pace = 2
       \/ pace = 1 /\ exec.i <= Top /\ ~(exec.i = Top /\ exec.pc = "call")

(* The tamper thread does nothing, and no process is woken. *)
Alone == tam.pc = "idle" /\ ~exec.woken

TableInv == TypeOK /\ Alone /\ StackInv /\ CallInv /\ ScanInv

-----------------------------------------------------------------------------
(* The states of an entry and the signals are different bytes. *)
LEMMA BytesDiffer ==
  /\ PS_END # PS_RUNNING /\ PS_END # PS_SLEEPING /\ PS_END # PS_KILLED
  /\ PS_RUNNING # PS_SLEEPING /\ PS_RUNNING # PS_KILLED /\ PS_SLEEPING # PS_KILLED
  /\ SIG_IGNORE # SIG_EXIT /\ SIG_IGNORE # SIG_INT /\ SIG_EXIT # SIG_INT
<1>1. /\ 0 \notin PS_END /\ 1 \notin PS_END
      /\ 0 \in PS_RUNNING /\ 1 \notin PS_RUNNING
      /\ 0 \notin PS_SLEEPING /\ 1 \in PS_SLEEPING
      /\ 0 \in PS_KILLED /\ 1 \in PS_KILLED
  BY DEF PS_END, PS_RUNNING, PS_SLEEPING, PS_KILLED
<1>2. /\ 0 \notin SIG_IGNORE /\ 1 \notin SIG_IGNORE
      /\ 0 \in SIG_EXIT /\ 1 \notin SIG_EXIT
      /\ 1 \in SIG_INT
  BY DEF SIG_IGNORE, SIG_EXIT, SIG_INT
<1> QED
  BY <1>1, <1>2, Zenon

LEMMA TimesDiffer == Never # Always
  BY DEF Never, Always

(* A handle has more older ones of its device than any it is younger than. *)
LEMMA OlderGrows ==
  ASSUME NEW h, NEW did, NEW j \in Nat, NEW k \in Nat, j < k, h[j + 1].did = did
  PROVE  /\ Cardinality(Older(h, did, j)) \in Nat
         /\ Cardinality(Older(h, did, k)) \in Nat
         /\ Cardinality(Older(h, did, j)) < Cardinality(Older(h, did, k))
<1>1. IsFiniteSet(1 .. k)
  BY FS_Interval
<1>2. Older(h, did, k) \subseteq 1 .. k
  BY DEF Older
<1>3. IsFiniteSet(Older(h, did, k))
  BY <1>1, <1>2, FS_Subset
<1>4. /\ Older(h, did, j) \subseteq Older(h, did, k)
      /\ j + 1 \in Older(h, did, k)
      /\ j + 1 \notin Older(h, did, j)
  BY DEF Older
<1>5. Older(h, did, j) # Older(h, did, k)
  BY <1>4
<1> QED
  BY <1>3, <1>4, <1>5, FS_Subset, FS_CardinalityType

(* So no two processes of the stack have the same PID. *)
LEMMA CountsDiffer ==
  ASSUME NEW h, NEW pid, NEW j \in Nat, NEW k \in Nat, j < k,
         Counts(h, h[j + 1], j), Counts(h, pid, k)
  PROVE  h[j + 1] # pid
<1> SUFFICES ASSUME h[j + 1] = pid PROVE FALSE
  OBVIOUS
<1>1. Cardinality(Older(h, pid.did, j)) < Cardinality(Older(h, pid.did, k))
  BY OlderGrows
<1>2. /\ Cardinality(Older(h, pid.did, j)) \in Nat
      /\ Cardinality(Older(h, pid.did, k)) \in Nat
  BY OlderGrows
<1> QED
  BY <1>1, <1>2 DEF Counts

(* The count is of the older handles only. *)
LEMMA OlderSame ==
  ASSUME NEW h, NEW g, NEW k \in Nat, \A m \in 1 .. k : h[m] = g[m]
  PROVE  /\ \A did : Older(h, did, k) = Older(g, did, k)
         /\ \A pid : Counts(h, pid, k) <=> Counts(g, pid, k)
<1>1. \A did : Older(h, did, k) = Older(g, did, k)
  BY DEF Older
<1> QED
  BY <1>1 DEF Counts

-----------------------------------------------------------------------------
(* What a step that leaves the handles alone has to show of the stack: that *)
(* it touches no entry but the one on top, and leaves its PID counted.     *)
LEMMA StackKept ==
  ASSUME TableInv, UNCHANGED held,
         \A i \in Slots : i # Top => pst'[i] = pst[i],
         Top \in Slots /\ pst'[Top].State # PS_END => Counts(held, pst'[Top].PID, Top)
  PROVE  StackInv'
<1>1. Top' = Top /\ Top \in Nat /\ Top <= MAX_PST_NO
  BY DEF Top, TableInv, TypeOK, StackInv
<1>2. \A k \in 1 .. Top : k - 1 \in Slots /\ pst'[k - 1] = pst[k - 1]
  BY <1>1, SizeAssumption DEF Slots
<1>3. \A k \in 1 .. Top : /\ Settled(k - 1)
                          /\ pst[k - 1].PID = held[k]
                          /\ Counts(held, held[k], k - 1)
  BY DEF TableInv, StackInv
<1>4. \A k \in 1 .. Top' : /\ Settled(k - 1)'
                           /\ pst'[k - 1].PID = held'[k]
                           /\ Counts(held, held[k], k - 1)'
  <2> SUFFICES ASSUME NEW k \in 1 .. Top
               PROVE  /\ Settled(k - 1)'
                      /\ pst'[k - 1].PID = held'[k]
                      /\ Counts(held, held[k], k - 1)'
    BY <1>1
  <2>1. Settled(k - 1)'
    BY <1>2, <1>3 DEF Settled, Checksum
  <2>2. Counts(held, held[k], k - 1)'
    BY <1>3 DEF Counts, Older
  <2> QED
    BY <1>2, <1>3, <2>1, <2>2
<1>5. \A i \in Slots : i > Top' => pst'[i].State = PS_END
  BY <1>1 DEF TableInv, StackInv, Slots
<1>6. Top' \in Slots /\ pst'[Top'].State # PS_END => Counts(held, pst[Top].PID, Top)'
  BY <1>1 DEF Counts, Older
<1> QED
  BY <1>1, <1>4, <1>5, <1>6 DEF StackInv

(* What the entries can be: those of the handles run, those behind are     *)
(* free, and the one on top is killed only while the timer thread is at it. *)
LEMMA EntryStates ==
  ASSUME TableInv, NEW i \in Slots
  PROVE  /\ i < Top => Settled(i)
         /\ i > Top => pst[i].State = PS_END
         /\ i = Top => pst[i].State \in {PS_END, PS_RUNNING, PS_KILLED}
         /\ Live(i) <=> pst[i].State = PS_RUNNING
         /\ Live(i) => i <= Top
<1>1. Top \in Nat /\ i \in Nat
  BY SizeAssumption DEF Top, TableInv, TypeOK, Slots
<1>2. i < Top => Settled(i)
  <2> SUFFICES ASSUME i < Top PROVE Settled(i)
    OBVIOUS
  <2>1. i + 1 \in 1 .. Top /\ (i + 1) - 1 = i
    BY <1>1
  <2> QED
    BY <2>1 DEF TableInv, StackInv
<1>3. i > Top => pst[i].State = PS_END
  BY DEF TableInv, StackInv
<1>4. i = Top => pst[i].State \in {PS_END, PS_RUNNING, PS_KILLED}
  BY DEF TableInv, CallInv, Settled, Dying, TypeOK, ApiLocals, ForkPcs, SignalPcs, Letting, Filled
<1>5. Live(i) <=> pst[i].State = PS_RUNNING
  BY <1>1, <1>2, <1>3, <1>4, BytesDiffer DEF Live, Settled
<1>6. Live(i) => i <= Top
  BY <1>1, <1>3, <1>5, BytesDiffer
<1> QED
  BY <1>2, <1>3, <1>4, <1>5, <1>6

(* An entry below the top has not the PID of the one on top.               *)
LEMMA TopDiffers ==
  ASSUME TableInv, Top \in Slots, pst[Top].State # PS_END, NEW i \in Slots, i < Top
  PROVE  pst[i].PID # pst[Top].PID
<1>1. Top \in Nat /\ i \in Nat /\ i + 1 \in 1 .. Top /\ (i + 1) - 1 = i
  BY SizeAssumption DEF Top, TableInv, TypeOK, Slots
<1>2. pst[i].PID = held[i + 1] /\ Counts(held, held[i + 1], i)
  BY <1>1 DEF TableInv, StackInv
<1>3. Counts(held, pst[Top].PID, Top)
  BY DEF TableInv, StackInv
<1> QED
  BY <1>1, <1>2, <1>3, CountsDiffer

-----------------------------------------------------------------------------
(* The timer thread goes on to the next entry, or ends the scan, only when *)
(* it has nothing left to do for a process that waits to be killed.        *)
LEMMA TurnEnds ==
  ASSUME TableInv, UNCHANGED <<pst, api, held>>, EntryDone \/ ScanEnds,
         Top \in Slots => pst[Top].State # PS_KILLED,
         api.pc = "idle" /\ Top \in Slots /\ pst[Top].State # PS_END /\ pace = 1 =>
           EntryDone /\ exec.i # Top
  PROVE  CallInv' /\ ScanInv'
<1>1. /\ Top' = Top /\ Top \in Nat
      /\ exec \in ExecLocals /\ exec.i \in 0 .. MAX_PST_NO - 1 /\ pace \in 0 .. 2
  BY DEF Top, TableInv, TypeOK, ExecLocals, Slots
<1>2. \/ /\ exec'.pc = "check" /\ exec'.i = exec.i + 1 /\ pace' = pace
         /\ EntryDone
      \/ /\ exec'.pc = "idle" /\ exec'.i = 0
         /\ pace' = IF pace > 0 THEN pace - 1 ELSE 0
         /\ EntryDone => exec.i = MAX_PST_NO - 1
  BY <1>1 DEF EntryDone, ScanEnds, ExecAt
<1>3. CallInv'
  <2>1. api.pc # "idle" => pace' = 0
    BY <1>1, <1>2 DEF TableInv, CallInv
  <2>2. /\ Settled(Top)' <=> Settled(Top)
        /\ Dying(Top)' <=> Dying(Top)
        /\ Counts(held, api.pid, Top)' <=> Counts(held, api.pid, Top)
    BY DEF Settled, Dying, Checksum, Counts, Older, Top
  <2> QED
    BY <1>1, <2>1, <2>2 DEF TableInv, CallInv, Checksum
<1>4. ScanInv'
  <2>1. api.pc = "idle" /\ Top \in Slots /\ pst[Top].State # PS_END =>
          pace' = 2 \/ (pace' = 1 /\ exec'.i <= Top)
    <3> SUFFICES ASSUME api.pc = "idle", Top \in Slots, pst[Top].State # PS_END
                 PROVE  pace' = 2 \/ (pace' = 1 /\ exec'.i <= Top)
      OBVIOUS
    <3>1. pace = 2 \/ (pace = 1 /\ exec.i <= Top)
      BY DEF TableInv, ScanInv
    <3>2. Top \in 0 .. MAX_PST_NO - 1
      BY DEF Slots
    <3>3. CASE pace = 2
      BY <1>1, <1>2, <3>3
    <3>4. CASE pace = 1
      BY <1>1, <1>2, <3>1, <3>2, <3>4
    <3> QED
      BY <3>1, <3>3, <3>4
  <2> QED
    BY <1>1, <1>2, <2>1 DEF ScanInv, Killing
<1> QED
  BY <1>3, <1>4

LEMMA CallKept ==
  ASSUME TableInv, UNCHANGED <<pst, api, held, pace>>
  PROVE  StackInv' /\ CallInv'
<1>1. /\ Top' = Top
      /\ \A i : Settled(i)' <=> Settled(i)
      /\ \A i : Dying(i)' <=> Dying(i)
      /\ \A pid, k : Counts(held, pid, k)' <=> Counts(held, pid, k)
  BY DEF Settled, Dying, Checksum, Counts, Older, Top
<1>2. \A i \in Slots : i # Top => pst'[i] = pst[i]
  OBVIOUS
<1>3. Top \in Slots /\ pst'[Top].State # PS_END => Counts(held, pst'[Top].PID, Top)
  BY DEF TableInv, StackInv
<1>4. StackInv'
  BY <1>2, <1>3, StackKept
<1>5. CallInv'
  BY <1>1 DEF TableInv, CallInv, Checksum
<1> QED
  BY <1>4, <1>5

LEMMA AloneKept ==
  ASSUME TimersAsStack, TableInv, ApiNext \/ TimerNext
  PROVE  Alone'
<1>0. /\ TypeOK /\ tam.pc = "idle" /\ ~exec.woken /\ exec.pc # "wake" /\ exec \in ExecLocals
  BY DEF TableInv, Alone, TypeOK, ScanInv, Killing
<1>1. CASE ApiNext
  BY <1>0, <1>1, ApiTamper, ApiCases DEF Alone
<1>2. CASE TimerNext
  <2> SUFFICES ~exec'.woken
    BY <1>0, <1>2 DEF TimerNext, Alone
  <2>2. ScanEnds \/ EntryDone => ~exec'.woken
    BY DEF ScanEnds, EntryDone, ExecAt
  <2>3. \A pc : Goto(pc) => ~exec'.woken
    BY <1>0 DEF Goto, ExecLocals
  <2>4. Called => ~exec'.woken
    BY <2>2, <2>3 DEF Called
  <2>5. CASE ScanStart \/ Check \/ Switch
    BY <2>2, <2>3, <2>5 DEF ScanStart, Check, Switch, ExecAt
  <2>6. CASE Call \/ Quiet \/ Reload
    BY <2>3, <2>4, <2>6 DEF Call, Quiet, Reload
  <2>7. CASE QuietSum \/ QuietLrc \/ Renew
    BY <1>0, <2>7 DEF QuietSum, QuietLrc, Renew, ExecLocals
  <2>8. CASE Wake
    BY <1>0, <2>8 DEF Wake
  <2>9. CASE Sleep \/ PutLrc \/ KillLook \/ KillEnd \/ UpWrite
    BY <2>2, <2>3, <2>9 DEF Sleep, PutLrc, KillLook, KillEnd, UpWrite
  <2>10. CASE Kill
    BY <1>0, <2>10 DEF Kill, ExecLocals
  <2>11. CASE UpRead
    BY <1>0, <2>2, <2>11 DEF UpRead, ExecLocals
  <2> QED
    BY <1>2, <2>5, <2>6, <2>7, <2>8, <2>9, <2>10, <2>11 DEF TimerNext
<1> QED
  BY <1>1, <1>2

(* A step of the timer thread keeps the stack. *)
LEMMA TimerStack ==
  ASSUME TimersAsStack, TableInv, TimerNext
  PROVE  TableInv'
<1>0. /\ Top \in Nat /\ exec \in ExecLocals /\ exec.i \in Slots /\ exec.j \in Slots
      /\ exec.i \in Nat /\ exec.j \in Nat
      /\ pst \in [Slots -> Entries] /\ api \in ApiLocals /\ pace \in 0 .. 2
      /\ MAX_PST_NO \in Nat \ {0} /\ Slots = 0 .. MAX_PST_NO - 1
  BY SizeAssumption DEF Top, TableInv, TypeOK, ExecLocals, Slots
<1>a. TypeOK' /\ Alone'
  BY TimerType, AloneKept DEF TableInv
<1>b. /\ exec.pc \in {"idle", "check", "switch", "call", "kill", "up_read"} \cup Killing
      /\ exec.pc \notin Killing /\ Top \in Slots => pst[Top].State # PS_KILLED
  BY DEF TableInv, ScanInv
<1>c. api.pc = "idle" /\ Top \in Slots /\ pst[Top].State # PS_END =>
        /\ pace = 2 \/ pace = 1
        /\ pace = 1 => exec.i <= Top /\ ~(exec.i = Top /\ exec.pc = "call")
  BY DEF TableInv, ScanInv
<1>d. ASSUME UNCHANGED <<pst, api, held>>, EntryDone \/ ScanEnds,
             exec.pc \notin Killing,
             api.pc = "idle" /\ Top \in Slots /\ pst[Top].State # PS_END /\ pace = 1 =>
               EntryDone /\ exec.i # Top
      PROVE  TableInv'
  <2>1. CallInv' /\ ScanInv'
    BY <1>b, <1>d, TurnEnds
  <2>2. \A i \in Slots : i # Top => pst'[i] = pst[i]
    BY <1>d
  <2>3. Top \in Slots /\ pst'[Top].State # PS_END => Counts(held, pst'[Top].PID, Top)
    BY <1>d DEF TableInv, StackInv
  <2>4. StackInv'
    BY <1>d, <2>2, <2>3, StackKept
  <2> QED
    BY <1>a, <2>1, <2>4 DEF TableInv
<1>e. ASSUME UNCHANGED <<pst, api, held, pace>> PROVE StackInv' /\ CallInv' /\ Top' = Top
  BY <1>e, CallKept DEF Top
<1>1. CASE ScanStart
  <2>1. /\ UNCHANGED <<pst, api, held, pace>> /\ exec'.pc = "check" /\ exec'.i = 0
        /\ exec.pc = "idle"
    BY <1>1 DEF ScanStart, ExecAt
  <2>2. ScanInv'
    BY <1>0, <1>b, <1>c, <1>e, <2>1 DEF ScanInv, Killing
  <2> QED
    BY <1>a, <1>e, <2>1, <2>2 DEF TableInv
<1>2. CASE Check
  <2>0. exec.pc = "check" /\ UNCHANGED <<pst, api, held>>
    BY <1>2 DEF Check
  <2>1. CASE pst[exec.i].LRC = Checksum(pst[exec.i])
    <3>1. exec' = [exec EXCEPT !.pc = "switch"] /\ UNCHANGED pace
      BY <1>2, <2>1 DEF Check, Goto
    <3>2. exec'.pc = "switch" /\ exec'.i = exec.i
      BY <1>0, <3>1 DEF ExecLocals
    <3>3. ScanInv'
      BY <1>0, <1>b, <1>c, <1>e, <2>0, <3>1, <3>2 DEF ScanInv, Killing
    <3> QED
      BY <1>a, <1>e, <2>0, <3>1, <3>3 DEF TableInv
  <2>2. CASE pst[exec.i].LRC # Checksum(pst[exec.i])
    <3>1. EntryDone
      BY <1>2, <2>2 DEF Check
    <3>2. api.pc = "idle" /\ Top \in Slots /\ pst[Top].State # PS_END => exec.i # Top
      BY <1>b, <2>0, <2>2 DEF TableInv, CallInv, Letting, Killing
    <3> QED
      BY <1>d, <2>0, <3>1, <3>2 DEF Killing
  <2> QED
    BY <2>1, <2>2
<1>3. CASE Switch
  <2>0. /\ exec.pc = "switch" /\ UNCHANGED <<pst, api, held>>
        /\ exec.pc \notin Killing
    BY <1>3 DEF Switch, Killing
  <2>1. /\ exec.i < Top => Settled(exec.i)
        /\ exec.i > Top => pst[exec.i].State = PS_END
        /\ exec.i = Top => pst[exec.i].State \in {PS_END, PS_RUNNING}
    BY <1>0, <1>b, <2>0, EntryStates
  <2>2. pst[exec.i].State \in {PS_END, PS_RUNNING}
    BY <1>0, <2>1 DEF Settled
  <2>3. CASE pst[exec.i].State = PS_END
    <3>1. ScanEnds
      BY <1>3, <2>3, BytesDiffer DEF Switch
    <3>2. ~(exec.i < Top)
      BY <2>1, <2>3, BytesDiffer DEF Settled
    <3>3. ~(api.pc = "idle" /\ Top \in Slots /\ pst[Top].State # PS_END /\ pace = 1)
      BY <1>0, <1>c, <2>3, <3>2
    <3> QED
      BY <1>d, <2>0, <3>1, <3>3
  <2>4. CASE pst[exec.i].State = PS_RUNNING /\ pst[exec.i].Xtime = Always
    <3>1. exec' = [exec EXCEPT !.pc = "call"] /\ UNCHANGED pace
      BY <1>3, <2>4, BytesDiffer, TimesDiffer DEF Switch, Goto
    <3>2. exec'.pc = "call" /\ exec'.i = exec.i
      BY <1>0, <3>1 DEF ExecLocals
    <3>3. api.pc = "idle" /\ Top \in Slots /\ pst[Top].State # PS_END => exec.i # Top
      BY <1>b, <2>0, <2>4, TimesDiffer DEF TableInv, CallInv, Letting, Dying
    <3>4. ScanInv'
      BY <1>0, <1>b, <1>c, <1>e, <2>0, <3>1, <3>2, <3>3 DEF ScanInv, Killing
    <3> QED
      BY <1>a, <1>e, <2>0, <3>1, <3>4 DEF TableInv
  <2>5. CASE pst[exec.i].State = PS_RUNNING /\ pst[exec.i].Xtime # Always
    <3>1. exec.i = Top
      BY <1>0, <2>1, <2>5, BytesDiffer DEF Settled
    <3>2. api.pc \in Letting /\ Dying(Top)
      <4>1. api.pc \in Letting
        BY <1>0, <2>5, <3>1, BytesDiffer
        DEF TableInv, CallInv, Settled, ApiLocals, ForkPcs, SignalPcs, Letting, Filled
      <4> QED
        BY <1>0, <1>b, <2>0, <2>5, <3>1, <4>1, BytesDiffer DEF TableInv, CallInv
    <3>3. exec' = [exec EXCEPT !.pc = "kill"] /\ UNCHANGED pace
      BY <1>3, <2>5, <3>1, <3>2, BytesDiffer, TimesDiffer DEF Switch, Goto, Dying
    <3>4. exec'.pc = "kill" /\ exec'.i = exec.i
      BY <1>0, <3>3 DEF ExecLocals
    <3>5. Dying(Top)' /\ Top' = Top
      BY <2>0, <3>2 DEF Dying, Top
    <3>6. ScanInv'
      BY <1>0, <1>b, <1>c, <1>e, <2>0, <3>1, <3>2, <3>3, <3>4, <3>5 DEF ScanInv, Killing
    <3> QED
      BY <1>a, <1>e, <2>0, <3>3, <3>6 DEF TableInv
  <2> QED
    BY <2>2, <2>3, <2>4, <2>5
<1>4. CASE Call
  <2>1. pst' = pst
    <3>1. IsrRun(pst[exec.i]) = pst[exec.i]
      BY DEF IsrRun, TimersAsStack
    <3> QED
      BY <1>0, <1>4, <3>1 DEF Call
  <2>2. EntryDone /\ UNCHANGED <<api, held>> /\ exec.pc = "call"
    <3>1. ~LastBeep(pst[exec.i]) /\ ~exec.woken
      BY DEF LastBeep, TimersAsStack, TableInv, Alone
    <3> QED
      BY <1>4, <3>1 DEF Call, Called
  <2> QED
    BY <1>c, <1>d, <2>1, <2>2 DEF Killing
<1>5. CASE Kill
  <2>1. PICK j \in Slots :
          /\ pst[j].PID = pst[exec.i].PID
          /\ \A k \in Slots : k < j => pst[k].PID # pst[exec.i].PID
          /\ pst' = [pst EXCEPT ![j].State = PS_KILLED, ![j].Signal = SIG_IGNORE]
          /\ exec' = [exec EXCEPT !.pc = "kill_look", !.j = j]
    BY <1>5 DEF Kill
  <2>2. exec.pc = "kill" /\ UNCHANGED <<api, held, pace>>
    BY <1>5 DEF Kill
  <2>3. Top \in Slots /\ api.pc \in Letting /\ exec.i = Top /\ Dying(Top)
    BY <2>2 DEF TableInv, ScanInv
  <2>4. j = Top
    <3>1. pst[Top].State # PS_END
      BY <2>3, BytesDiffer DEF Dying
    <3>2. ~(Top < j)
      BY <2>1, <2>3
    <3>3. ~(j < Top)
      BY <2>1, <2>3, <3>1, TopDiffers
    <3> QED
      BY <1>0, <3>2, <3>3
  <2>5. /\ pst'[Top].State = PS_KILLED /\ pst'[Top].PID = pst[Top].PID
        /\ \A i \in Slots : i # Top => pst'[i] = pst[i]
    BY <1>0, <2>1, <2>3, <2>4 DEF Entries
  <2>6. exec'.pc = "kill_look" /\ exec'.i = Top /\ exec'.j = Top
    BY <1>0, <2>1, <2>3, <2>4 DEF ExecLocals
  <2>7. Top' = Top
    BY <2>2 DEF Top
  <2>8. StackInv'
    <3>1. pst[Top].State # PS_END
      BY <2>3, BytesDiffer DEF Dying
    <3>2. Counts(held, pst[Top].PID, Top)
      BY <2>3, <3>1 DEF TableInv, StackInv
    <3> QED
      BY <2>2, <2>5, <3>2, StackKept
  <2>9. CallInv'
    BY <2>2, <2>3, <2>5, <2>7
    DEF TableInv, CallInv, Letting, ForkPcs, SignalPcs, Filled
  <2>10. ScanInv'
    BY <1>0, <1>c, <2>2, <2>3, <2>5, <2>6, <2>7, BytesDiffer DEF ScanInv, Killing, Dying
  <2> QED
    BY <1>a, <2>8, <2>9, <2>10 DEF TableInv
<1>6. CASE KillLook
  <2>1. exec.pc = "kill_look" /\ UNCHANGED <<pst, api, held>>
    BY <1>6 DEF KillLook
  <2>2. /\ Top \in Slots /\ api.pc \in Letting /\ exec.i = Top /\ exec.j = Top
        /\ pst[Top].State = PS_KILLED
    BY <2>1 DEF TableInv, ScanInv, Killing
  <2>3. LastInUse(exec.j)
    <3>1. Top # MAX_PST_NO - 1 => Top + 1 \in Slots /\ Top + 1 > Top
      BY <1>0, <2>2
    <3> QED
      BY <2>2, <3>1 DEF LastInUse, TableInv, StackInv
  <2>4. exec' = [exec EXCEPT !.pc = "kill_end"] /\ UNCHANGED pace
    BY <1>6, <2>3 DEF KillLook, Goto
  <2>5. exec'.pc = "kill_end" /\ exec'.i = Top /\ exec'.j = Top
    BY <1>0, <2>2, <2>4 DEF ExecLocals
  <2>6. ScanInv'
    BY <1>0, <1>c, <1>e, <2>1, <2>2, <2>4, <2>5 DEF ScanInv, Killing
  <2> QED
    BY <1>a, <1>e, <2>1, <2>4, <2>6 DEF TableInv
<1>7. CASE KillEnd
  <2>1. /\ exec.pc = "kill_end" /\ UNCHANGED <<api, held, pace>>
        /\ exec' = [exec EXCEPT !.pc = "up_read"]
        /\ pst' = [pst EXCEPT ![exec.j].State = PS_END]
    BY <1>7 DEF KillEnd, Goto
  <2>2. Top \in Slots /\ api.pc \in Letting /\ exec.j = Top
    BY <2>1 DEF TableInv, ScanInv, Killing
  <2>3. /\ pst'[Top].State = PS_END
        /\ \A i \in Slots : i # Top => pst'[i] = pst[i]
    BY <1>0, <2>1, <2>2 DEF Entries
  <2>4. exec'.pc = "up_read" /\ exec'.j = Top
    BY <1>0, <2>1, <2>2 DEF ExecLocals
  <2>5. Top' = Top
    BY <2>1 DEF Top
  <2>6. StackInv'
    BY <2>1, <2>3, StackKept
  <2>7. CallInv'
    BY <2>1, <2>2, <2>3, <2>5 DEF TableInv, CallInv, Letting, ForkPcs, SignalPcs, Filled
  <2>8. ScanInv'
    BY <1>0, <2>1, <2>2, <2>3, <2>4, <2>5, BytesDiffer DEF ScanInv, Killing
  <2> QED
    BY <1>a, <2>6, <2>7, <2>8 DEF TableInv
<1>8. CASE UpRead
  <2>1. exec.pc = "up_read" /\ UNCHANGED <<pst, api, held>> /\ exec.pc \notin Killing
    BY <1>8 DEF UpRead, Killing
  <2>2. Top \in Slots /\ api.pc \in Letting /\ exec.j <= Top /\ pst[Top].State = PS_END
    BY <2>1 DEF TableInv, ScanInv
  <2>3. CASE exec.j = 0
    <3>1. EntryDone
      BY <1>8, <2>3 DEF UpRead
    <3> QED
      BY <1>d, <2>1, <2>2, <3>1
  <2>4. CASE exec.j # 0
    <3>1. exec.j - 1 \in Slots /\ exec.j - 1 < Top
      BY <1>0, <2>2, <2>4
    <3>2. pst[exec.j - 1].State # PS_KILLED
      BY <3>1, EntryStates, BytesDiffer DEF Settled
    <3>3. exec' = [exec EXCEPT !.j = @ - 1, !.pc = "up_read"] /\ UNCHANGED pace
      BY <1>0, <1>8, <2>1, <2>4, <3>2 DEF UpRead, ExecLocals
    <3>4. exec'.pc = "up_read" /\ exec'.j = exec.j - 1
      BY <1>0, <3>3 DEF ExecLocals
    <3>5. ScanInv'
      BY <1>0, <1>e, <2>1, <2>2, <3>1, <3>3, <3>4, BytesDiffer DEF ScanInv, Killing
    <3> QED
      BY <1>a, <1>e, <2>1, <3>3, <3>5 DEF TableInv
  <2> QED
    BY <2>3, <2>4
<1>9. ~(Quiet \/ QuietSum \/ QuietLrc \/ Reload \/ Wake \/ Sleep \/ Renew \/ PutLrc \/ UpWrite)
  BY <1>b
  DEF Quiet, QuietSum, QuietLrc, Reload, Wake, Sleep, Renew, PutLrc, UpWrite, Killing
<1> QED
  BY <1>1, <1>2, <1>3, <1>4, <1>5, <1>6, <1>7, <1>8, <1>9 DEF TimerNext

-----------------------------------------------------------------------------
(* PS_ForkProcess steps over the live processes of the device in the order *)
(* of the table, so its tid is their number.                               *)
TidsAfter(tid, did) ==
  tid = [n \in 0 .. MAX_PST_NO |->
          IF n = 0 THEN 0
          ELSE IF Live(n - 1) /\ pst[n - 1].PID = [did |-> did, tid |-> tid[n - 1]]
               THEN (tid[n - 1] + 1) % 8
               ELSE tid[n - 1]]

LEMMA OlderStep ==
  ASSUME NEW h, NEW did, NEW k \in Nat
  PROVE  /\ IsFiniteSet(Older(h, did, k)) /\ Cardinality(Older(h, did, k)) \in Nat
         /\ Cardinality(Older(h, did, 0)) = 0
         /\ Cardinality(Older(h, did, k + 1)) =
              IF h[k + 1].did = did THEN Cardinality(Older(h, did, k)) + 1
              ELSE Cardinality(Older(h, did, k))
<1>1. IsFiniteSet(Older(h, did, k))
  <2>1. IsFiniteSet(1 .. k) /\ Older(h, did, k) \subseteq 1 .. k
    BY FS_Interval DEF Older
  <2> QED
    BY <2>1, FS_Subset
<1>2. Cardinality(Older(h, did, k)) \in Nat
  BY <1>1, FS_CardinalityType
<1>3. Cardinality(Older(h, did, 0)) = 0
  <2>1. Older(h, did, 0) = {}
    BY DEF Older
  <2> QED
    BY <2>1, FS_EmptySet
<1>4. CASE h[k + 1].did = did
  <2>1. /\ Older(h, did, k + 1) = Older(h, did, k) \cup {k + 1}
        /\ k + 1 \notin Older(h, did, k)
    BY <1>4 DEF Older
  <2> QED
    BY <1>1, <1>2, <1>3, <1>4, <2>1, FS_AddElement
<1>5. CASE h[k + 1].did # did
  <2>1. Older(h, did, k + 1) = Older(h, did, k)
    BY <1>5 DEF Older
  <2> QED
    BY <1>1, <1>2, <1>3, <1>5, <2>1
<1> QED
  BY <1>4, <1>5

(* When no call is in progress and nothing waits to be killed, the live    *)
(* processes are those of the handles, and a device has as many as it has  *)
(* handles.                                                                *)
LEMMA QuietTable ==
  ASSUME TableInv, Top \in Slots => pst[Top].State = PS_END
  PROVE  /\ \A i \in Slots : Live(i) <=> i < Top
         /\ \A did : Cardinality(LiveOf(did)) = Cardinality(Older(held, did, Top))
<1>1. Top \in Nat /\ Top <= MAX_PST_NO /\ Slots \subseteq Nat /\ 0 .. Top - 1 \subseteq Slots
  BY SizeAssumption DEF Top, TableInv, TypeOK, Slots, StackInv
<1>2. \A i \in Slots : Live(i) <=> i < Top
  <2> SUFFICES ASSUME NEW i \in Slots PROVE Live(i) <=> i < Top
    OBVIOUS
  <2>1. i < Top => pst[i].State = PS_RUNNING
    BY EntryStates DEF Settled
  <2>2. ~(i < Top) => pst[i].State = PS_END
    BY <1>1, EntryStates
  <2> QED
    BY <2>1, <2>2, EntryStates, BytesDiffer
<1>3. ASSUME NEW did PROVE Cardinality(LiveOf(did)) = Cardinality(Older(held, did, Top))
  <2> DEFINE f == [m \in Older(held, did, Top) |-> m - 1]
  <2>0. \A k \in 1 .. Top : pst[k - 1].PID = held[k]
    BY DEF TableInv, StackInv
  <2>1. Older(held, did, Top) \subseteq 1 .. Top
    BY DEF Older
  <2>2. \A m \in Older(held, did, Top) : m - 1 \in LiveOf(did)
    BY <1>1, <1>2, <2>0, <2>1 DEF LiveOf, Older
  <2>3. \A i \in LiveOf(did) : i + 1 \in Older(held, did, Top) /\ (i + 1) - 1 = i
    <3>1. SUFFICES ASSUME NEW i \in LiveOf(did)
                   PROVE  i + 1 \in Older(held, did, Top) /\ (i + 1) - 1 = i
      OBVIOUS
    <3>2. i \in Slots /\ i < Top /\ pst[i].PID.did = did
      BY <1>2 DEF LiveOf
    <3>3. i + 1 \in 1 .. Top /\ (i + 1) - 1 = i
      BY <1>1, <3>2
    <3>4. pst[i].PID = held[i + 1]
      BY <2>0, <3>3
    <3> QED
      BY <3>2, <3>3, <3>4 DEF Older
  <2>4. f \in Bijection(Older(held, did, Top), LiveOf(did))
    <3>1. f \in [Older(held, did, Top) -> LiveOf(did)]
      BY <2>2
    <3>2. \A a, b \in Older(held, did, Top) : f[a] = f[b] => a = b
      BY <2>1
    <3>3. \A i \in LiveOf(did) : \E m \in Older(held, did, Top) : f[m] = i
      BY <2>3
    <3> HIDE DEF f
    <3> QED
      BY <3>1, <3>2, <3>3 DEF Bijection, Injection, Surjection, IsInjective
  <2>5. IsFiniteSet(Older(held, did, Top))
    BY <1>1, OlderStep
  <2> HIDE DEF f
  <2> QED
    BY <2>4, <2>5, FS_Bijection DEF ExistsBijection
<1> QED
  BY <1>2, <1>3

LEMMA ForkTidCounts ==
  ASSUME TableInv, Top \in Slots => pst[Top].State = PS_END,
         NEW did \in Devices, CanFork(did)
  PROVE  ForkTid(did) = Cardinality(Older(held, did, Top))
<1> DEFINE N == MAX_PST_NO
           count(n) == Cardinality(Older(held, did, IF n < Top THEN n ELSE Top))
           f == [n \in 0 .. N |-> count(n)]
<1>1. Top \in Nat /\ Top <= N /\ N \in Nat /\ Slots = 0 .. N - 1
  BY SizeAssumption DEF Top, TableInv, TypeOK, Slots, StackInv
<1>2. \A i \in Slots : Live(i) <=> i < Top
  BY QuietTable
<1>3. \A n \in 0 .. N : count(n) \in 0 .. 7
  <2> SUFFICES ASSUME NEW n \in 0 .. N PROVE count(n) \in 0 .. 7
    OBVIOUS
  <2>1. Cardinality(Older(held, did, Top)) < MAX_DID_NO
    BY QuietTable DEF CanFork
  <2>2. /\ IsFiniteSet(Older(held, did, Top)) /\ Cardinality(Older(held, did, Top)) \in Nat
        /\ \A k \in Nat : Cardinality(Older(held, did, k)) \in Nat
    BY <1>1, OlderStep
  <2>3. Older(held, did, IF n < Top THEN n ELSE Top) \subseteq Older(held, did, Top)
    BY <1>1 DEF Older
  <2>4. count(n) <= Cardinality(Older(held, did, Top))
    BY <2>2, <2>3, FS_Subset
  <2>5. count(n) \in Nat
    BY <1>1, <2>2
  <2> HIDE DEF count
  <2> QED
    BY <2>1, <2>2, <2>4, <2>5, SizeAssumption
<1>4. count(0) = 0 /\ count(N) = Cardinality(Older(held, did, Top))
  <2>1. (IF 0 < Top THEN 0 ELSE Top) = 0 /\ (IF N < Top THEN N ELSE Top) = Top
    BY <1>1
  <2> QED
    BY <1>1, <2>1, OlderStep
<1>5. \A n \in 1 .. N :
        count(n) = IF Live(n - 1) /\ pst[n - 1].PID = [did |-> did, tid |-> count(n - 1)]
                   THEN (count(n - 1) + 1) % 8 ELSE count(n - 1)
  <2> SUFFICES ASSUME NEW n \in 1 .. N
               PROVE  count(n) =
                        IF Live(n - 1) /\ pst[n - 1].PID = [did |-> did, tid |-> count(n - 1)]
                        THEN (count(n - 1) + 1) % 8 ELSE count(n - 1)
    OBVIOUS
  <2>1. n - 1 \in Slots /\ n \in 0 .. N /\ n - 1 \in 0 .. N /\ n - 1 \in Nat /\ (n - 1) + 1 = n
    BY <1>1
  <2>2. CASE n - 1 < Top
    <3>1. /\ Live(n - 1) /\ n \in 1 .. Top
          /\ count(n) = Cardinality(Older(held, did, n))
          /\ count(n - 1) = Cardinality(Older(held, did, n - 1))
      <4>1. (IF n < Top THEN n ELSE Top) = n /\ (IF n - 1 < Top THEN n - 1 ELSE Top) = n - 1
        BY <1>1, <2>2
      <4> QED
        BY <1>1, <1>2, <2>1, <2>2, <4>1
    <3>2. /\ pst[n - 1].PID = held[n] /\ Counts(held, held[n], n - 1)
          /\ held[n] \in Pids
      BY <3>1 DEF TableInv, StackInv, Top, TypeOK
    <3>3. Cardinality(Older(held, did, n)) =
            IF held[n].did = did THEN Cardinality(Older(held, did, n - 1)) + 1
            ELSE Cardinality(Older(held, did, n - 1))
      BY <2>1, OlderStep
    <3>4. count(n) \in 0 .. 7 /\ count(n - 1) \in 0 .. 7
      BY <1>3, <2>1
    <3> HIDE DEF count
    <3>5. CASE held[n].did = did
      <4>1. held[n] = [did |-> did, tid |-> count(n - 1)]
        BY <3>1, <3>2, <3>5 DEF Counts, Pids
      <4>2. count(n) = count(n - 1) + 1
        BY <3>1, <3>3, <3>5
      <4>3. (count(n - 1) + 1) % 8 = count(n - 1) + 1
        BY <3>4, <4>2
      <4> QED
        BY <3>1, <3>2, <4>1, <4>2, <4>3
    <3>6. CASE held[n].did # did
      BY <3>1, <3>2, <3>3, <3>6
    <3> QED
      BY <3>5, <3>6
  <2>3. CASE ~(n - 1 < Top)
    <3>1. ~Live(n - 1)
      BY <1>2, <2>1, <2>3
    <3>2. (IF n < Top THEN n ELSE Top) = (IF n - 1 < Top THEN n - 1 ELSE Top)
      BY <1>1, <2>3
    <3> QED
      BY <3>1, <3>2
  <2> QED
    BY <2>2, <2>3
<1> HIDE DEF count
<1>6. TidsAfter(f, did)
  <2>1. \A n \in 0 .. N :
          f[n] = IF n = 0 THEN 0
                 ELSE IF Live(n - 1) /\ pst[n - 1].PID = [did |-> did, tid |-> f[n - 1]]
                      THEN (f[n - 1] + 1) % 8 ELSE f[n - 1]
    <3> SUFFICES ASSUME NEW n \in 0 .. N
                 PROVE  f[n] = IF n = 0 THEN 0
                        ELSE IF Live(n - 1) /\ pst[n - 1].PID = [did |-> did, tid |-> f[n - 1]]
                             THEN (f[n - 1] + 1) % 8 ELSE f[n - 1]
      OBVIOUS
    <3>1. CASE n = 0
      BY <1>4, <3>1
    <3>2. CASE n # 0
      <4>1. n \in 1 .. N /\ n - 1 \in 0 .. N
        BY <1>1, <3>2
      <4>2. f[n] = count(n) /\ f[n - 1] = count(n - 1)
        BY <4>1
      <4> HIDE DEF f
      <4> QED
        BY <1>5, <3>2, <4>1, <4>2
    <3> QED
      BY <3>1, <3>2
  <2>2. f = [n \in 0 .. N |-> f[n]]
    OBVIOUS
  <2> HIDE DEF f
  <2> QED
    BY <2>1, <2>2, Zenon DEF TidsAfter
<1> DEFINE t == CHOOSE tid : TidsAfter(tid, did)
           S == {n \in 0 .. N : t[n] = count(n)}
<1>7. TidsAfter(t, did)
  BY <1>6, Zenon
<1>8. ForkTid(did) = t[N]
  BY Zenon DEF ForkTid, TidsAfter
<1> HIDE DEF t, f
<1>9. /\ t[0] = 0
      /\ \A n \in 1 .. N :
           t[n] = IF Live(n - 1) /\ pst[n - 1].PID = [did |-> did, tid |-> t[n - 1]]
                  THEN (t[n - 1] + 1) % 8 ELSE t[n - 1]
  BY <1>1, <1>7 DEF TidsAfter
<1>10. 0 \in S
  BY <1>1, <1>4, <1>9
<1>11. ASSUME NEW n \in 0 .. N - 1, n \in S PROVE n + 1 \in S
  <2>1. n + 1 \in 1 .. N /\ (n + 1) - 1 = n /\ t[n] = count(n)
    BY <1>1, <1>11
  <2>2. t[n + 1] = count(n + 1)
    BY <1>5, <1>9, <2>1
  <2> QED
    BY <2>1, <2>2
<1>12. 0 .. N \subseteq S
  <2> HIDE DEF S
  <2> QED
    BY <1>1, <1>10, <1>11, BoundedInduction
<1>13. t[N] = count(N)
  BY <1>1, <1>12
<1> QED
  BY <1>4, <1>8, <1>13

-----------------------------------------------------------------------------
(* A call that works on the entry on top without registering it.           *)
LEMMA QuietFree ==
  ASSUME TableInv, MayCall, Paced
  PROVE  /\ api.pc = "idle" /\ pace = 0 /\ exec.pc = "idle"
         /\ Top \in Slots => pst[Top].State = PS_END
BY DEF TableInv, ScanInv, MayCall

(* What is left to show when a call moves on and the timer thread stays.   *)
LEMMA ScanKept ==
  ASSUME TableInv, UNCHANGED <<exec, held>>,
         api'.pc \in Letting \/ exec.pc \notin {"kill", "up_read"} \cup Killing,
         exec.pc = "kill" => Dying(Top)',
         exec.pc \in Killing => pst'[Top].State = PS_KILLED,
         exec.pc = "up_read" => pst'[Top].State = PS_END,
         Top \in Slots /\ pst'[Top].State = PS_KILLED => exec.pc \in Killing,
         api'.pc = "idle" /\ Top \in Slots /\ pst'[Top].State # PS_END => pace' = 2
  PROVE  ScanInv'
<1>1. Top' = Top
  BY DEF Top
<1> QED
  BY <1>1 DEF TableInv, ScanInv, Killing

(* A step of the API thread keeps the stack. *)
LEMMA ApiStack ==
  ASSUME TimersAsStack, TableInv, ApiNext
  PROVE  TableInv'
<1>0. /\ Top \in Nat /\ held \in Seq(Pids) /\ api.slot \in Slots
      /\ pst \in [Slots -> Entries] /\ api \in ApiLocals /\ exec \in ExecLocals /\ pace \in 0 .. 2
      /\ MAX_PST_NO \in Nat \ {0} /\ Slots = 0 .. MAX_PST_NO - 1
      /\ LastFirst /\ Paced /\ Buzzers = {}
  BY SizeAssumption DEF Top, TableInv, TypeOK, ApiLocals, Slots, TimersAsStack
<1>a. TypeOK' /\ Alone'
  BY ApiType, AloneKept DEF TableInv
<1>b. ASSUME Return PROVE /\ api'.pc = "idle" /\ ~api'.all /\ api'.op # "sound"
                          /\ pace' = 2
  BY <1>0, <1>b DEF Return, IdleApi
<1>c. /\ ~api.all /\ api.op # "sound"
      /\ api.pc # "idle" => Top \in Slots /\ pace = 0
      /\ Top \in Slots /\ pst[Top].State # PS_END => Counts(held, pst[Top].PID, Top)
      /\ api.pc \notin Letting => exec.pc \notin {"kill", "up_read"} \cup Killing
      /\ Top \in Slots /\ pst[Top].State = PS_KILLED => exec.pc \in Killing
  BY DEF TableInv, CallInv, StackInv, ScanInv
<1>d. ASSUME UNCHANGED <<pst, held>> PROVE /\ StackInv' /\ Top' = Top
                                           /\ \A i : Settled(i)' <=> Settled(i)
                                           /\ \A i : Dying(i)' <=> Dying(i)
                                           /\ \A pid, k : Counts(held, pid, k)' <=> Counts(held, pid, k)
  <2>1. \A i \in Slots : i # Top => pst'[i] = pst[i]
    BY <1>d
  <2>2. Top \in Slots /\ pst'[Top].State # PS_END => Counts(held, pst'[Top].PID, Top)
    BY <1>c, <1>d
  <2>3. StackInv'
    BY <1>d, <2>1, <2>2, StackKept
  <2> QED
    BY <1>d, <2>3 DEF Settled, Dying, Checksum, Counts, Older, Top
<1>1. ASSUME NEW did \in Devices, Open(did) PROVE TableInv'
  <2>0. PICK t : t = [IdleApi EXCEPT !.op = "open"]
    OBVIOUS
  <2>1. PICK tid \in Tids, i \in FreeSlots :
          /\ tid = ForkTid(did)
          /\ \A k \in FreeSlots : i <= k
          /\ api' = [t EXCEPT !.pc = "fork_pid", !.slot = i,
                              !.pid = [did |-> did, tid |-> tid]]
    BY <1>1, <2>0 DEF Open, LookUp, FirstSlots
  <2>2. MayCall /\ CanFork(did) /\ UNCHANGED <<pst, exec, held, pace>>
    BY <1>1 DEF Open, LookUp
  <2>3. /\ api.pc = "idle" /\ pace = 0 /\ exec.pc = "idle"
        /\ Top \in Slots => pst[Top].State = PS_END
    BY <1>0, <2>2, QuietFree
  <2>4. i = Top /\ Top \in Slots
    <3>1. \A k \in Slots : Live(k) <=> k < Top
      BY <2>3, QuietTable
    <3>2. i \in Slots /\ ~(i < Top)
      BY <3>1 DEF FreeSlots
    <3>3. Top \in Slots
      BY <1>0, <3>2
    <3>4. Top \in FreeSlots
      BY <1>0, <3>1, <3>3 DEF FreeSlots
    <3> QED
      BY <1>0, <2>1, <3>2, <3>3, <3>4
  <2>5. tid = Cardinality(Older(held, did, Top))
    BY <2>1, <2>2, <2>3, ForkTidCounts
  <2>6. /\ api'.pc = "fork_pid" /\ ~api'.all /\ api'.op = "open" /\ api'.slot = Top
        /\ api'.pid = [did |-> did, tid |-> tid]
    BY <1>0, <2>0, <2>1, <2>4 DEF IdleApi
  <2>7. Counts(held, api'.pid, Top)
    BY <2>5, <2>6 DEF Counts
  <2>8. api'.pid.did \in TimerDevices
    BY <1>0, <2>6 DEF Devices
  <2>9. StackInv' /\ Top' = Top /\ Counts(held, api.pid, Top)'
    BY <1>d, <2>2, <2>7
  <2>10. CallInv'
    BY <2>2, <2>3, <2>4, <2>6, <2>8, <2>9 DEF CallInv, ForkPcs, SignalPcs, Letting, Filled
  <2>11. ScanInv'
    BY <2>2, <2>3, <2>4, <2>6, BytesDiffer, ScanKept DEF Killing
  <2> QED
    BY <1>a, <2>9, <2>10, <2>11 DEF TableInv
<1>2. ASSUME NEW did \in Devices, OpenFails(did) PROVE TableInv'
  <2>1. MayCall /\ Return /\ UNCHANGED <<pst, exec, held>>
    BY <1>2 DEF OpenFails
  <2>2. /\ exec.pc = "idle" /\ api'.pc = "idle" /\ ~api'.all /\ api'.op # "sound" /\ pace' = 2
        /\ Top \in Slots => pst[Top].State = PS_END
    BY <1>0, <1>b, <2>1, QuietFree
  <2>3. StackInv' /\ Top' = Top
    BY <1>d, <2>1
  <2>4. CallInv'
    BY <2>1, <2>2, <2>3 DEF CallInv, ForkPcs, SignalPcs, Letting, Filled
  <2>5. ScanInv'
    BY <2>1, <2>2, BytesDiffer, ScanKept DEF Killing
  <2> QED
    BY <1>a, <2>3, <2>4, <2>5 DEF TableInv
<1>3. ASSUME NEW k \in 1 .. Len(held), Close(k) PROVE TableInv'
  <2>1. /\ MayCall /\ k = Len(held) /\ UNCHANGED <<pst, exec, pace>>
        /\ api' = [IdleApi EXCEPT !.pc = "seek", !.op = "close", !.pid = held[k]]
        /\ held' = [n \in 1 .. Len(held) - 1 |-> IF n < k THEN held[n] ELSE held[n + 1]]
    BY <1>0, <1>3 DEF Close
  <2>2. /\ api.pc = "idle" /\ pace = 0 /\ exec.pc = "idle"
        /\ Top \in Slots => pst[Top].State = PS_END
    BY <1>0, <2>1, QuietFree
  <2>3. Top' = Top - 1 /\ Top - 1 \in Slots /\ \A n \in 1 .. Top - 1 : held'[n] = held[n]
    <3>1. Len(held) \in Nat /\ Len(held) >= 1 /\ Top = Len(held) /\ Top <= MAX_PST_NO
      BY <1>0 DEF Top, TableInv, StackInv
    <3>2. Len(held') = Len(held) - 1 /\ \A n \in 1 .. Len(held) - 1 : held'[n] = held[n]
      BY <2>1, <3>1
    <3> QED
      BY <1>0, <3>1, <3>2 DEF Top
  <2>4. \A n \in 1 .. Top : /\ Settled(n - 1)
                            /\ pst[n - 1].PID = held[n]
                            /\ Counts(held, held[n], n - 1)
    BY DEF TableInv, StackInv
  <2>5. \A n \in 0 .. Top - 1 : \A pid : Counts(held', pid, n) <=> Counts(held, pid, n)
    <3> SUFFICES ASSUME NEW n \in 0 .. Top - 1
                 PROVE  \A pid : Counts(held', pid, n) <=> Counts(held, pid, n)
      OBVIOUS
    <3>1. n \in Nat /\ \A m \in 1 .. n : held'[m] = held[m]
      BY <1>0, <2>3
    <3> QED
      BY <3>1, OlderSame
  <2>6. \A i : Settled(i)' <=> Settled(i)
    BY <2>1 DEF Settled, Checksum
  <2>7. StackInv'
    <3>1. \A n \in 1 .. Top' : /\ Settled(n - 1)'
                               /\ pst'[n - 1].PID = held'[n]
                               /\ Counts(held, held[n], n - 1)'
      <4> SUFFICES ASSUME NEW n \in 1 .. Top - 1
                   PROVE  /\ Settled(n - 1)'
                          /\ pst'[n - 1].PID = held'[n]
                          /\ Counts(held', held'[n], n - 1)
        BY <2>3 DEF Counts, Older
      <4>1. n \in 1 .. Top /\ n - 1 \in 0 .. Top - 1 /\ held'[n] = held[n]
        BY <1>0, <2>3
      <4> QED
        BY <2>1, <2>4, <2>5, <2>6, <4>1
    <3>2. \A i \in Slots : i > Top' => pst'[i].State = PS_END
      <4> SUFFICES ASSUME NEW i \in Slots, i > Top - 1 PROVE pst[i].State = PS_END
        BY <2>1, <2>3
      <4>1. i = Top \/ i > Top
        BY <1>0
      <4> QED
        BY <2>2, <4>1 DEF TableInv, StackInv
    <3>3. Counts(held, pst[Top].PID, Top)'
      <4>1. Top \in 1 .. Top /\ Top - 1 \in 0 .. Top - 1
        BY <1>0, <2>3
      <4>2. Counts(held', pst[Top - 1].PID, Top - 1)
        BY <2>4, <2>5, <4>1
      <4> QED
        BY <2>1, <2>3, <4>2 DEF Counts, Older
    <3>4. Top' <= MAX_PST_NO
      BY <1>0, <2>3
    <3> QED
      BY <3>1, <3>2, <3>3, <3>4 DEF StackInv
  <2>8. /\ Settled(Top)' /\ pst'[Top'].PID = held[k] /\ pst'[Top'].State = PS_RUNNING
    <3>1. Top \in 1 .. Top /\ k = Top
      BY <1>0, <2>1, <2>3 DEF Top
    <3>2. Settled(Top - 1) /\ pst[Top - 1].PID = held[Top]
      BY <2>4, <3>1
    <3> QED
      BY <2>1, <2>3, <3>1, <3>2 DEF Settled, Checksum
  <2>9. api'.pc = "seek" /\ api'.op = "close" /\ ~api'.all /\ api'.pid = held[k]
    BY <1>0, <2>1 DEF IdleApi
  <2>10. CallInv'
    BY <2>1, <2>2, <2>3, <2>8, <2>9 DEF CallInv, ForkPcs, SignalPcs, Letting, Filled
  <2>11. ScanInv'
    BY <2>1, <2>2, <2>8, <2>9, BytesDiffer DEF TableInv, ScanInv, Killing
  <2> QED
    BY <1>a, <2>7, <2>10, <2>11 DEF TableInv
<1>4. ASSUME NEW k \in 1 .. Len(held), Sound(k) PROVE FALSE
  BY <1>0, <1>4 DEF Sound
<1>5. ASSUME NEW did \in Devices, CloseAll(did) PROVE FALSE
  BY <1>0, <1>5 DEF CloseAll
<1>6. ASSUME NEW pcs, api.pc \in pcs, pcs \subseteq ForkPcs
      PROVE  /\ Top \in Slots /\ pace = 0 /\ api.slot = Top
             /\ Counts(held, api.pid, Top) /\ api.pid.did \in TimerDevices
             /\ api.pc \notin Filled => pst[Top].State = PS_END
             /\ api.pc # "fork_pid" => pst[Top].PID = api.pid
             /\ exec.pc \notin {"kill", "up_read"} \cup Killing
  BY <1>6, <1>c DEF TableInv, CallInv, ForkPcs, Letting
<1>7. CASE OpenStep
  <2>0. /\ UNCHANGED <<exec, held, pace>> /\ ForkStep(api, api')
        /\ api.pc \in ForkPcs /\ api.pc # "fork_lrc"
    BY <1>0, <1>7, ForkMoves
    DEF OpenStep, ForkStep, ForkPid, ForkTime, ForkIsr, ForkRun, ForkSum, ForkPcs
  <2>1. /\ Top \in Slots /\ pace = 0 /\ api.slot = Top
        /\ Counts(held, api.pid, Top) /\ api.pid.did \in TimerDevices
        /\ api.pc \notin Filled => pst[Top].State = PS_END
        /\ api.pc # "fork_pid" => pst[Top].PID = api.pid
        /\ exec.pc \notin {"kill", "up_read"} \cup Killing
    BY <1>6, <2>0
  <2>2. /\ api.pc \in {"fork_isr", "fork_run"} \cup Filled => pst[Top].Xtime = Always
        /\ api.pc \in {"fork_run"} \cup Filled => pst[Top].Signal = SIG_IGNORE
        /\ api.pc \in Filled => pst[Top].State = PS_RUNNING
    BY DEF TableInv, CallInv
  <2>3. /\ api'.slot = Top /\ api'.pid = api.pid
        /\ \/ api.pc = "fork_pid" /\ api'.pc = "fork_time"
           \/ api.pc = "fork_time" /\ api'.pc = "fork_isr"
           \/ api.pc = "fork_isr" /\ api'.pc = "fork_run"
           \/ api.pc = "fork_run" /\ api'.pc = "fork_sum"
           \/ api.pc = "fork_sum" /\ api'.pc = "fork_lrc"
    <3>1. TypeOK
      BY DEF TableInv
    <3> QED
      BY <1>0, <2>0, <2>1, <3>1, ForkMoves
  <2>4. ~api'.all /\ api'.op # "sound" /\ (api'.pc = "fork_lrc" => api'.lrc = Checksum(pst[Top]))
    BY <1>0, <1>c, <2>0, <2>1, <2>3
    DEF ForkStep, ForkPid, ForkTime, ForkIsr, ForkRun, ForkSum, ApiLocals
  <2>5. /\ \A i \in Slots : i # Top => pst'[i] = pst[i]
        /\ pst'[Top].PID = api.pid
        /\ pst'[Top].State = IF api.pc = "fork_run" THEN PS_RUNNING ELSE pst[Top].State
        /\ pst'[Top].Xtime = IF api.pc = "fork_time" THEN Always ELSE pst[Top].Xtime
        /\ pst'[Top].Signal = IF api.pc = "fork_isr" THEN SIG_IGNORE ELSE pst[Top].Signal
        /\ api.pc = "fork_sum" => pst' = pst
    <3>1. CASE ForkPid(api, api')
      BY <1>0, <2>1, <3>1 DEF ForkPid, Entries
    <3>2. CASE ForkTime(api, api')
      <4>1. OpenXtime(api.pid.did) = Always /\ api.pc = "fork_time"
        BY <1>0, <3>2 DEF OpenXtime, ForkTime
      <4> QED
        BY <1>0, <2>1, <3>2, <4>1 DEF ForkTime, Entries
    <3>3. CASE ForkIsr(api, api')
      <4>1. PICK r, d : pst' = [pst EXCEPT ![Top].pIsrFunc = d, ![Top].Signal = SIG_IGNORE,
                                           ![Top].RFU_0 = r]
        BY <2>1, <3>3 DEF ForkIsr
      <4>2. api.pc = "fork_isr"
        BY <3>3 DEF ForkIsr
      <4> QED
        BY <1>0, <2>1, <4>1, <4>2 DEF Entries
    <3>4. CASE ForkRun(api, api')
      BY <1>0, <2>1, <3>4 DEF ForkRun, Entries
    <3>5. CASE ForkSum(api, api')
      BY <1>0, <2>1, <3>5 DEF ForkSum
    <3> QED
      BY <2>0, <3>1, <3>2, <3>3, <3>4, <3>5 DEF ForkStep
  <2>6. StackInv'
    BY <2>0, <2>1, <2>5, StackKept
  <2>7. Top' = Top /\ Counts(held, api.pid, Top)'
    BY <2>0, <2>1, <2>3 DEF Top, Counts, Older
  <2>8. CallInv'
    <3>1. /\ api'.pc \notin Filled => pst'[Top].State = PS_END
          /\ api'.pc \in Filled => pst'[Top].State = PS_RUNNING
          /\ api'.pc \in {"fork_isr", "fork_run"} \cup Filled => pst'[Top].Xtime = Always
          /\ api'.pc \in {"fork_run"} \cup Filled => pst'[Top].Signal = SIG_IGNORE
      BY <2>1, <2>2, <2>3, <2>5 DEF Filled
    <3>2. api'.pc = "fork_lrc" => api'.lrc = Checksum(pst'[Top])
      BY <2>3, <2>4, <2>5
    <3>3. api'.pc \in ForkPcs /\ pace' = 0
      BY <2>0, <2>1, <2>3 DEF ForkPcs
    <3>4. api'.pc = "fork_lrc" => api'.lrc = Checksum(pst[Top])'
      BY <2>7, <3>2 DEF Checksum
    <3> HIDE DEF Checksum
    <3> QED
      BY <2>1, <2>3, <2>4, <2>5, <2>7, <3>1, <3>3, <3>4
      DEF CallInv, ForkPcs, SignalPcs, Letting, Filled
  <2>9. ScanInv'
    BY <1>c, <2>0, <2>1, <2>3, <2>5, BytesDiffer, ScanKept DEF Killing, Filled
  <2> QED
    BY <1>a, <2>6, <2>8, <2>9 DEF TableInv
<1>10. CASE OpenReturn
  <2>1. /\ api.pc = "fork_lrc" /\ pst' = [pst EXCEPT ![api.slot].LRC = api.lrc]
        /\ held' = Append(held, api.pid) /\ Return /\ UNCHANGED exec
    BY <1>10 DEF OpenReturn, ForkLrc
  <2>2. /\ Top \in Slots /\ api.slot = Top
        /\ Counts(held, api.pid, Top) /\ pst[Top].PID = api.pid
        /\ exec.pc \notin {"kill", "up_read"} \cup Killing
    BY <1>6, <2>1 DEF ForkPcs
  <2>3. /\ pst[Top].State = PS_RUNNING /\ pst[Top].Xtime = Always
        /\ pst[Top].Signal = SIG_IGNORE /\ api.lrc = Checksum(pst[Top])
    BY <2>1 DEF TableInv, CallInv, Filled
  <2>4. /\ \A i \in Slots : i # Top => pst'[i] = pst[i]
        /\ pst'[Top] = [pst[Top] EXCEPT !.LRC = Checksum(pst[Top])]
    BY <1>0, <2>1, <2>2, <2>3
  <2>5. PICK t : t = Top
    OBVIOUS
  <2>6. Settled(t)' /\ pst'[t].PID = api.pid
    <3>0. pst[Top] \in Entries
      BY <1>0, <2>2
    <3>1. Checksum(pst'[Top]) = Checksum(pst[Top]) /\ pst'[Top].LRC = Checksum(pst[Top])
      BY <2>4, <3>0 DEF Checksum, Entries
    <3>2. /\ pst'[Top].State = PS_RUNNING /\ pst'[Top].Xtime = Always
          /\ pst'[Top].Signal = SIG_IGNORE /\ pst'[Top].PID = api.pid
      BY <2>2, <2>3, <2>4, <3>0 DEF Entries
    <3> QED
      BY <2>5, <3>1, <3>2 DEF Settled, Checksum
  <2>7. /\ Top' = Top + 1 /\ held'[Top + 1] = api.pid
        /\ \A m \in 1 .. Top : held'[m] = held[m]
    BY <1>0, <2>1 DEF Top
  <2>8. \A n \in 0 .. Top : \A pid : Counts(held', pid, n) <=> Counts(held, pid, n)
    <3> SUFFICES ASSUME NEW n \in 0 .. Top
                 PROVE  \A pid : Counts(held', pid, n) <=> Counts(held, pid, n)
      OBVIOUS
    <3>1. n \in Nat /\ \A m \in 1 .. n : held'[m] = held[m]
      BY <1>0, <2>7
    <3> QED
      BY <3>1, OlderSame
  <2>9. \A n \in 1 .. Top : /\ Settled(n - 1)
                            /\ pst[n - 1].PID = held[n]
                            /\ Counts(held, held[n], n - 1)
    BY DEF TableInv, StackInv
  <2>10. Top \in 0 .. MAX_PST_NO - 1
    BY <1>0, <2>2
  <2>11. StackInv'
    <3>1. \A n \in 1 .. Top' : /\ Settled(n - 1)'
                               /\ pst'[n - 1].PID = held'[n]
                               /\ Counts(held, held[n], n - 1)'
      <4> SUFFICES ASSUME NEW n \in 1 .. Top + 1
                   PROVE  /\ Settled(n - 1)'
                          /\ pst'[n - 1].PID = held'[n]
                          /\ Counts(held', held'[n], n - 1)
        BY <2>7 DEF Counts, Older
      <4>1. CASE n = Top + 1
        <5>1. n - 1 = t /\ n - 1 = Top /\ Top \in 0 .. Top
          BY <1>0, <2>5, <4>1
        <5>2. Counts(held', api.pid, Top)
          BY <2>2, <2>8, <5>1
        <5> QED
          BY <2>6, <2>7, <4>1, <5>1, <5>2
      <4>2. CASE n # Top + 1
        <5>1. n \in 1 .. Top /\ n - 1 \in 0 .. Top /\ n - 1 \in Slots /\ n - 1 # Top
          BY <1>0, <2>10, <4>2
        <5>2. pst'[n - 1] = pst[n - 1] /\ held'[n] = held[n]
          BY <2>4, <2>7, <5>1
        <5> QED
          BY <2>8, <2>9, <5>1, <5>2 DEF Settled, Checksum
      <4> QED
        BY <4>1, <4>2
    <3>2. \A i \in Slots : i > Top => pst'[i].State = PS_END
      BY <1>0, <2>4 DEF TableInv, StackInv
    <3>3. Top' <= MAX_PST_NO /\ \A i \in Slots : i > Top' => i > Top
      BY <1>0, <2>7, <2>10
    <3>4. Top' \in Slots => pst'[Top'].State = PS_END
      BY <1>0, <2>7, <3>2
    <3> QED
      BY <3>1, <3>2, <3>3, <3>4 DEF StackInv
  <2>12. /\ api'.pc = "idle" /\ ~api'.all /\ api'.op # "sound" /\ pace' = 2
         /\ Top' \in Slots => pst'[Top'].State = PS_END
    <3>1. Top' \in Slots => Top' > Top /\ pst'[Top'] = pst[Top']
      BY <1>0, <2>4, <2>7
    <3> QED
      BY <1>b, <2>1, <3>1 DEF TableInv, StackInv
  <2>13. CallInv'
    BY <2>12 DEF CallInv, ForkPcs, SignalPcs, Letting, Filled
  <2>14. ScanInv'
    BY <2>1, <2>2, <2>12, BytesDiffer DEF TableInv, ScanInv, Killing
  <2> QED
    BY <1>a, <2>11, <2>13, <2>14 DEF TableInv
<1>11. api.pc \in SignalPcs \cup {"wait"} => Top \in Slots /\ pace = 0 /\ api.op = "close"
  BY <1>0, <1>c DEF TableInv, CallInv, SignalPcs, ApiLocals
<1>12. CASE Seek
  <2>1. PICK i \in Found : /\ \A k \in Found : i <= k
                          /\ api' = [api EXCEPT !.pc = "put_signal", !.slot = i]
    BY <1>12 DEF Seek
  <2>2. api.pc = "seek" /\ UNCHANGED <<pst, exec, held, pace>>
    BY <1>12 DEF Seek
  <2>3. Top \in Slots /\ pace = 0 /\ Settled(Top) /\ pst[Top].PID = api.pid /\ api.op = "close"
    BY <1>11, <2>2 DEF TableInv, CallInv, SignalPcs
  <2>4. i = Top
    <3>1. i \in Slots /\ Live(i) /\ pst[i].PID = pst[Top].PID
      BY <2>3 DEF Found
    <3>2. pst[Top].State # PS_END
      BY <2>3, BytesDiffer DEF Settled
    <3>3. ~(i < Top)
      BY <2>3, <3>1, <3>2, TopDiffers
    <3>4. i <= Top
      BY <3>1, EntryStates
    <3> QED
      BY <1>0, <3>1, <3>3, <3>4
  <2>5. /\ api'.pc = "put_signal" /\ api'.slot = Top /\ api'.pid = api.pid
        /\ ~api'.all /\ api'.op = "close"
    BY <1>0, <1>c, <2>1, <2>3, <2>4 DEF ApiLocals
  <2>6. StackInv' /\ Top' = Top /\ Settled(Top)'
    BY <1>d, <2>2, <2>3
  <2>7. CallInv'
    BY <2>2, <2>3, <2>5, <2>6 DEF CallInv, ForkPcs, SignalPcs, Letting, Filled
  <2>8. ScanInv'
    BY <1>c, <2>2, <2>3, <2>5, <2>6, BytesDiffer, ScanKept DEF Killing, Letting, Settled
  <2> QED
    BY <1>a, <2>6, <2>7, <2>8 DEF TableInv
<1>13. CASE SeekFails
  <2>1. api.pc = "seek" /\ Found = {}
    BY <1>13 DEF SeekFails
  <2>2. Top \in Slots /\ Settled(Top) /\ pst[Top].PID = api.pid
    BY <1>11, <2>1 DEF TableInv, CallInv, SignalPcs
  <2>3. Top \in Found
    BY <2>2 DEF Found, Live, Settled
  <2> QED
    BY <2>1, <2>3
<1>14. CASE PutSignal
  <2>1. /\ api.pc = "put_signal" /\ UNCHANGED <<exec, held, pace>>
        /\ pst' = [pst EXCEPT ![api.slot].Signal = IF api.op = "close" THEN SIG_EXIT ELSE SIG_INT]
        /\ api' = [api EXCEPT !.pc = "put_xtime"]
    BY <1>14 DEF PutSignal
  <2>2. /\ Top \in Slots /\ pace = 0 /\ Settled(Top) /\ api.op = "close" /\ api.slot = Top
    BY <1>11, <2>1 DEF TableInv, CallInv, SignalPcs, ForkPcs, Filled
  <2>3. /\ \A i \in Slots : i # Top => pst'[i] = pst[i]
        /\ pst'[Top].State = PS_RUNNING /\ pst'[Top].PID = pst[Top].PID
        /\ pst'[Top].Xtime = Always /\ pst'[Top].Signal = SIG_EXIT
    BY <1>0, <2>1, <2>2 DEF Entries, Settled
  <2>4. /\ api'.pc = "put_xtime" /\ api'.slot = Top /\ ~api'.all /\ api'.op = "close"
    BY <1>0, <1>c, <2>1, <2>2 DEF ApiLocals
  <2>5. pst[Top].State # PS_END
    BY <2>2, BytesDiffer DEF Settled
  <2>6. StackInv' /\ Top' = Top
    BY <1>c, <2>1, <2>2, <2>3, <2>5, StackKept DEF Top
  <2>7. CallInv'
    BY <2>1, <2>2, <2>3, <2>4, <2>6 DEF CallInv, ForkPcs, SignalPcs, Letting, Filled
  <2>8. ScanInv'
    BY <1>c, <2>1, <2>2, <2>3, <2>4, <2>6, BytesDiffer, ScanKept DEF Killing, Letting, Settled
  <2> QED
    BY <1>a, <2>6, <2>7, <2>8 DEF TableInv
<1>15. CASE PutXtime
  <2>1. /\ api.pc = "put_xtime" /\ UNCHANGED <<exec, held, pace>>
        /\ api' = [api EXCEPT !.pc = "sum"]
    BY <1>15 DEF PutXtime
  <2>2. /\ Top \in Slots /\ pace = 0 /\ api.op = "close" /\ api.slot = Top
        /\ pst[Top].State = PS_RUNNING /\ pst[Top].Signal = SIG_EXIT
    BY <1>11, <2>1 DEF TableInv, CallInv, SignalPcs, ForkPcs, Filled
  <2>3. pst' = [pst EXCEPT ![Top].Xtime = Never, ![Top].RFU_0 = 0]
    BY <1>15, <2>2 DEF PutXtime
  <2>4. /\ \A i \in Slots : i # Top => pst'[i] = pst[i]
        /\ pst'[Top].State = PS_RUNNING /\ pst'[Top].PID = pst[Top].PID
        /\ pst'[Top].Xtime = Never /\ pst'[Top].Signal = SIG_EXIT
    BY <1>0, <2>2, <2>3 DEF Entries
  <2>5. /\ api'.pc = "sum" /\ api'.slot = Top /\ ~api'.all /\ api'.op = "close"
    BY <1>0, <1>c, <2>1, <2>2 DEF ApiLocals
  <2>6. StackInv' /\ Top' = Top /\ Dying(Top)'
    <3>1. Top' = Top
      BY <2>1 DEF Top
    <3>2. pst[Top].State # PS_END
      BY <2>2, BytesDiffer
    <3> QED
      BY <1>c, <2>1, <2>2, <2>4, <3>1, <3>2, StackKept DEF Dying
  <2>7. CallInv'
    BY <2>1, <2>2, <2>4, <2>5, <2>6 DEF CallInv, ForkPcs, SignalPcs, Letting, Filled
  <2>8. ScanInv'
    BY <1>c, <2>1, <2>2, <2>4, <2>5, <2>6, BytesDiffer, ScanKept DEF Killing, Letting
  <2> QED
    BY <1>a, <2>6, <2>7, <2>8 DEF TableInv
<1>16. CASE SignalSum
  <2>1. /\ api.pc = "sum" /\ UNCHANGED <<pst, exec, held, pace>>
        /\ api' = [api EXCEPT !.pc = "put_lrc", !.lrc = Checksum(pst[api.slot])]
    BY <1>16 DEF SignalSum
  <2>2. /\ Top \in Slots /\ pace = 0 /\ api.op = "close" /\ api.slot = Top
        /\ pst[Top].State # PS_END => pst[Top].State = PS_KILLED \/ Dying(Top)
    BY <1>11, <2>1 DEF TableInv, CallInv, SignalPcs, ForkPcs, Letting, Filled
  <2>3. /\ api'.pc = "put_lrc" /\ api'.slot = Top /\ ~api'.all /\ api'.op = "close"
        /\ api'.lrc = Checksum(pst[Top])
    BY <1>0, <1>c, <2>1, <2>2 DEF ApiLocals
  <2>4. StackInv' /\ Top' = Top /\ (Dying(Top)' <=> Dying(Top))
    BY <1>d, <2>1
  <2>5. CallInv'
    BY <2>1, <2>2, <2>3, <2>4 DEF CallInv, ForkPcs, SignalPcs, Letting, Filled, Checksum
  <2>6. ScanInv'
    BY <2>1, <2>2, <2>3, <2>4 DEF TableInv, ScanInv, Killing, Letting
  <2> QED
    BY <1>a, <2>4, <2>5, <2>6 DEF TableInv
<1>17. CASE SignalLrc
  <2>1. /\ api.pc = "put_lrc" /\ UNCHANGED <<exec, held>> /\ AfterSignal
        /\ pst' = [pst EXCEPT ![api.slot].LRC = api.lrc]
    BY <1>17 DEF SignalLrc
  <2>2. /\ Top \in Slots /\ pace = 0 /\ api.op = "close" /\ api.slot = Top
        /\ pst[Top].State # PS_END =>
             \/ pst[Top].State = PS_KILLED
             \/ Dying(Top) /\ api.lrc = Checksum(pst[Top])
    BY <1>11, <2>1 DEF TableInv, CallInv, SignalPcs, ForkPcs, Letting, Filled
  <2>3. api' = [IdleApi EXCEPT !.pc = "wait", !.op = "close"] /\ UNCHANGED pace
    BY <1>c, <2>1, <2>2 DEF AfterSignal
  <2>4. /\ api'.pc = "wait" /\ ~api'.all /\ api'.op = "close"
    BY <2>3 DEF IdleApi
  <2>5. /\ \A i \in Slots : i # Top => pst'[i] = pst[i]
        /\ pst'[Top].State = pst[Top].State /\ pst'[Top].PID = pst[Top].PID
        /\ pst'[Top].Xtime = pst[Top].Xtime /\ pst'[Top].Signal = pst[Top].Signal
        /\ pst'[Top].LRC = api.lrc /\ Checksum(pst'[Top]) = Checksum(pst[Top])
    <3>1. pst'[Top] = [pst[Top] EXCEPT !.LRC = api.lrc] /\ pst[Top] \in Entries
      BY <1>0, <2>1, <2>2
    <3>2. \A i \in Slots : i # Top => pst'[i] = pst[i]
      BY <1>0, <2>1, <2>2
    <3> QED
      BY <3>1, <3>2 DEF Entries, Checksum
  <2>6. StackInv' /\ Top' = Top /\ (Dying(Top)' <=> Dying(Top))
    <3>1. Top' = Top
      BY <2>1 DEF Top
    <3> QED
      BY <1>c, <2>1, <2>2, <2>5, <3>1, StackKept DEF Dying
  <2>7. CallInv'
    <3>1. pst'[Top].State # PS_END =>
            \/ pst'[Top].State = PS_KILLED
            \/ Dying(Top)' /\ pst'[Top].LRC = Checksum(pst'[Top])
      BY <2>2, <2>5, <2>6
    <3> QED
      BY <2>2, <2>3, <2>4, <2>6, <3>1 DEF CallInv, ForkPcs, SignalPcs, Letting, Filled, Checksum
  <2>8. ScanInv'
    BY <1>c, <2>1, <2>2, <2>4, <2>5, <2>6 DEF TableInv, ScanInv, Killing, Letting
  <2> QED
    BY <1>a, <2>6, <2>7, <2>8 DEF TableInv
<1>18. CASE CloseReturn
  <2>1. api.pc = "wait" /\ UNCHANGED <<pst, exec, held>> /\ Return
    BY <1>18 DEF CloseReturn
  <2>2. /\ Top \in Slots /\ pace = 0
        /\ pst[Top].State # PS_END =>
             \/ pst[Top].State = PS_KILLED
             \/ Dying(Top) /\ pst[Top].LRC = Checksum(pst[Top])
    BY <1>11, <2>1 DEF TableInv, CallInv, Letting
  <2>3. api'.pc = "idle" /\ ~api'.all /\ api'.op # "sound" /\ pace' = 2
    BY <1>b, <2>1
  <2>4. StackInv' /\ Top' = Top /\ (Dying(Top)' <=> Dying(Top))
    BY <1>d, <2>1
  <2>5. CallInv'
    BY <2>1, <2>2, <2>3, <2>4 DEF CallInv, ForkPcs, SignalPcs, Letting, Filled, Checksum
  <2>6. ScanInv'
    BY <1>c, <2>1, <2>2, <2>3, <2>4 DEF TableInv, ScanInv, Killing, Letting
  <2> QED
    BY <1>a, <2>4, <2>5, <2>6 DEF TableInv
<1> QED
  BY <1>1, <1>2, <1>3, <1>4, <1>5, <1>7, <1>10, <1>12, <1>13, <1>14, <1>15,
     <1>16, <1>17, <1>18 DEF ApiNext

-----------------------------------------------------------------------------
(* Every reachable table is such a stack. *)
LEMMA TableIsStack ==
  ASSUME TimersAsStack
  PROVE  Spec => []TableInv
<1>1. Init => TableInv
  <2> SUFFICES ASSUME Init PROVE TableInv
    OBVIOUS
  <2>1. TypeOK
    BY InitType
  <2>2. /\ Top = 0 /\ \A i \in Slots : pst[i].State = PS_END
        /\ api.pc = "idle" /\ ~api.all /\ api.op = "none"
        /\ exec.pc = "idle" /\ exec.i = 0 /\ pace = 0
    BY DEF Init, Top, IdleApi, ExecAt
  <2>3. StackInv
    BY <2>2, SizeAssumption DEF StackInv, Slots
  <2>4. CallInv
    BY <2>2 DEF CallInv, ForkPcs, SignalPcs, Letting, Filled
  <2>5. ScanInv
    BY <2>2, BytesDiffer DEF ScanInv, Killing
  <2>6. Alone
    BY DEF Init, Alone, IdleTamper, ExecAt
  <2> QED
    BY <2>1, <2>3, <2>4, <2>5, <2>6 DEF TableInv
<1>2. TableInv /\ [Next]_vars => TableInv'
  <2>1. CASE UNCHANGED vars
    <3> SUFFICES ASSUME TableInv, UNCHANGED vars PROVE TableInv'
      BY <2>1
    <3>1. UNCHANGED <<pst, fPS_Exec, api, tam, exec, held, pace, crossed>>
      BY DEF vars
    <3>2. StackInv' /\ CallInv' /\ Top' = Top
      BY <3>1, CallKept DEF Top
    <3>3. TypeOK' /\ Alone' /\ (Dying(Top)' <=> Dying(Top))
      BY <3>1, <3>2 DEF TableInv, TypeOK, Alone, Dying
    <3>4. ScanInv'
      BY <3>1, <3>2, <3>3 DEF TableInv, ScanInv
    <3> QED
      BY <3>2, <3>3, <3>4 DEF TableInv
  <2>2. TableInv => ~TamperNext
    BY DEF TableInv, Alone, TimersAsStack, TamperNext, TamperOpenStep, TamperOpenReturn,
           ForkStep, ForkPid, ForkTime, ForkIsr, ForkRun, ForkSum, ForkLrc
  <2> QED
    BY <2>1, <2>2, ApiStack, TimerStack DEF Next
<1> QED
  BY <1>1, <1>2, PTL DEF Spec

(* Timers used as a stack are never cut off from PS_ExecProcess by a valid *)
(* PS_END in front of them.                                                *)
THEOREM NoneStarvedCorrect ==
  ASSUME TimersAsStack
  PROVE  Spec => []NoneStarved
<1>1. TableInv => NoneStarved
  <2> SUFFICES ASSUME TableInv, NEW i \in Slots, Live(i), NEW j \in 0 .. i - 1
               PROVE  pst[j].State # PS_END
    BY DEF NoneStarved, Ends
  <2>1. i <= Top /\ Top \in Nat /\ i \in Nat /\ i <= MAX_PST_NO - 1
    BY EntryStates, SizeAssumption DEF Top, TableInv, TypeOK, Slots
  <2>2. j \in Slots /\ j < Top
    BY <2>1, SizeAssumption DEF Slots
  <2> QED
    BY <2>2, EntryStates, BytesDiffer DEF Settled
<1> QED
  BY <1>1, TableIsStack, PTL

(* PS_ForkProcess gives the application no handle it already has.          *)
THEOREM HandlesUniqueCorrect ==
  ASSUME TimersAsStack
  PROVE  Spec => []HandlesUnique
<1>1. TableInv => HandlesUnique
  <2> SUFFICES ASSUME TableInv, NEW m \in 1 .. Len(held), NEW n \in 1 .. Len(held), m < n
               PROVE  held[m] # held[n]
    <3>1. Len(held) \in Nat
      BY DEF TableInv, TypeOK
    <3> QED
      BY <3>1 DEF HandlesUnique
  <2>1. m - 1 \in Nat /\ n - 1 \in Nat /\ m - 1 < n - 1 /\ (m - 1) + 1 = m
    BY DEF TableInv, TypeOK
  <2>2. Counts(held, held[m], m - 1) /\ Counts(held, held[n], n - 1)
    BY DEF TableInv, StackInv, Top
  <2> QED
    BY <2>1, <2>2, CountsDiffer
<1> QED
  BY <1>1, TableIsStack, PTL

(* A timer that was opened and is not closed stays registered.             *)
THEOREM HandlesLiveCorrect ==
  ASSUME TimersAsStack
  PROVE  Spec => []HandlesLive
<1>1. TableInv => HandlesLive
  <2> SUFFICES ASSUME TableInv, NEW n \in 1 .. Len(held)
               PROVE  \E i \in Slots : Live(i) /\ pst[i].PID = held[n]
    BY DEF HandlesLive
  <2>1. Settled(n - 1) /\ pst[n - 1].PID = held[n]
    BY DEF TableInv, StackInv, Top
  <2>2. n - 1 \in Slots
    BY SizeAssumption DEF TableInv, TypeOK, StackInv, Top, Slots
  <2> QED
    BY <2>1, <2>2 DEF Live, Settled
<1> QED
  BY <1>1, TableIsStack, PTL

(* Two ticks after the last call, the live processes are those of the open *)
(* handles: the scan between has killed what was closed, even where it had *)
(* met the process in the middle of the call.                              *)
THEOREM ClosedAreDeadCorrect ==
  ASSUME TimersAsStack
  PROVE  Spec => []ClosedAreDead
<1>1. TableInv => ClosedAreDead
  <2> SUFFICES ASSUME TableInv, api.pc = "idle", pace = 0, NEW i \in Slots, Live(i)
               PROVE  \E n \in 1 .. Len(held) : held[n] = pst[i].PID
    BY DEF ClosedAreDead
  <2>1. Top \in Slots => pst[Top].State = PS_END
    BY DEF TableInv, ScanInv
  <2>2. i < Top
    BY <2>1, QuietTable
  <2>3. i + 1 \in 1 .. Len(held) /\ (i + 1) - 1 = i
    BY <2>2, SizeAssumption DEF Top, TableInv, TypeOK, Slots
  <2>4. pst[i].PID = held[i + 1]
    BY <2>3 DEF TableInv, StackInv, Top
  <2> QED
    BY <2>3, <2>4
<1> QED
  BY <1>1, TableIsStack, PTL
=============================================================================
