# Verification of AS350PLUS_SP

TLA+ models, TLC runs and TLAPS proofs for the secure processor (SP) software
of the AS350PLUS payment terminal. Paths are relative to the repository, which
`PROJECT.json` calls `src/`.

## The system

One Linux process, `SP/IPC_server.c`, owns the terminal's devices and keys. It
boots the device, forks and execs the application (AP, `/home/AP/IPC_client`,
not in this repository) and then serves the AP's calls out of a shared memory.
Beside its main thread run a 10 ms timer thread (`bsp_timer.c`, which runs
`PS_ExecProcess`), a tamper thread and a LAN thread. None of them takes a lock.

| Component | State | Operations | Interacts with | What makes it correct |
|---|---|---|---|---|
| Process table, `POSAPI/OS_PROCS.c` | `ProcessStateTable[32]`, `fPS_Exec` | fork, seek, signal, close, close all, scan (call back, sleep, wake, kill) | API thread writes entries while the timer thread scans them; the tamper thread forks two buzzers at any moment | no half written callback is called; handles unique and live; closed processes die; nobody starves; closes return |
| Timers and buzzers, `API_TMR*.c`, `DEV_TMR.c`, `API_BUZ.c`, `DEV_BUZ.c` | counters in the table's entries, the auto-close handle `os_DHN_BUZ_5A` | open, close, read ticks, sound | clients and callbacks of the table | a tick is never torn, a wait ends |
| SP server, `SP/IPC_server.c` | shared memory, `sem_A`, `sem_B`, `isTamperDetected`, `isAPRunning`, boot progress | boot checks, launch, serve a call, tamper response | AP (semaphores, shared memory), SNVS registers, disk, DSS menu | one call at a time, own result; none after a tamper; only verified APs; keys gone after a tamper |
| Secure files, `PEDK/OS_SECM.c` | files under `/home/root/secure_directory` | init, load, update, wipe | main thread, the `rm -r` it starts and the one of the tamper thread, flash memory | a completed update is durable, a power cut costs one file at most before the wipe, a wipe leaves no key |
| DSS, `DSS/` | download packets, the AP file | receive, verify, burn | operator, serial line or LAN | what is burnt is what was sent |
| Serial link, `API_AUX.c`, `AUX_*.c` | per port: state, buffers, resend counters | send, acknowledge, resend, receive | timer thread, line | each package delivered once, in order, or reported lost |
| Hardware timers, `bsp_timer.c` | pool of timer descriptors | acquire, start, stop, poll | all periodic work | no timer handed out twice |
| LAN, `API_LAN.c` and others | session table | connect, time out, close | LAN thread, kernel driver | old sessions closed, no live one |
| T=1, `openct/` | block numbers | transmit, resynchronise | card | exactly-once blocks |
| File systems, `SFS/`, `API_FS.c` | `SFS_DISK`: directory and linked clusters; open handles | format, create, delete, open, read, write, seek | AP calls | no cluster in two files or in none, nothing of a deleted file is read |
| PED and keys, `PEDK/OS_PED*.c`, `DUKPT*.c` | sessions, passwords, derivation key registers, transaction counter | dual control, PIN entry, key injection and derivation | secure files | no working key twice, none derivable from what is kept, the host derives the same |
| SRED, `SRED/`; EMV, `EMVK/`; contactless, `ctls/`; drivers | transaction data | parsing, encryption, kernels | card, reader | data transformations |

Hard behaviours are the unlocked sharing between threads, the spin on a flag
that another thread clears, the tamper response that interrupts anything, and
power cuts. `PROJECT.json` lists them at their lines under `hazards`, each with
the properties that cover it or the reason why none does.

## Modules

| Module | What it is |
|---|---|
| `ProcessTable` | `OS_PROCS.c` with timers and buzzers as its clients |
| `ProcessTableProofs` | theorems about it |
| `ProcessTableStackProofs` | theorems about it where timers are used as a stack |
| `SpServer` | `IPC_server.c`: boot, serve loop, tamper thread, AP, power |
| `ApiCall` | the abstract promise of a call through the shared memory |
| `SpServerProofs` | theorems about `SpServer`, with the refinement of `ApiCall` |
| `SecureStore` | `OS_SECM.c`, one file operation at a time, over flash memory |
| `Vault` | the abstract promise of the secure files |
| `SecureStoreProofs` | theorems about `SecureStore`, with the refinement of `Vault` |
| `AuxLink` | `API_AUX.c`, `DEV_AUX.c` and the link protocols, two ends and a line |
| `Delivery` | the abstract promise of the link in one direction |
| `AuxNoise` | the receiver as a function of the bytes it reads, and what a fault can make it believe |
| `AuxLinkProofs` | theorems about `AuxLink`, with the refinement of `Delivery` |
| `MCAuxLink` | messages and settings for TLC |
| `Dukpt` | AES DUKPT: injection, deletion and requests, over files with power cuts |
| `DukptProofs` | theorems about `Dukpt` |
| `Sfs` | the RAM file system, `SFS/sfs.c` and `SFS/vfs.c` |
| `FileStore` | the abstract promise of a file system of a given size |
| `SfsProofs` | theorems about `Sfs`, with the refinement of `FileStore` |
| `MCSfs` | texts to write for TLC |
| `Induction` | induction over the naturals and recursive functions, for the proofs |

How they compose: `SpServer` takes the secure files as one value, `SecureStore`
opens them up, `Vault` is what `SecureStore` promises, and the files of `Dukpt`
(each write a step, a cut costs the file in hand and then all of them) behave as
`Vault` allows.

### ProcessTable

`pst` is the table, `fPS_Exec` the flag, `api` the API thread (program counter,
PID, entry, pending LRC), `exec` the timer thread inside `PS_ExecProcess`, `tam`
the tamper thread inside `PS_ForkProcess`, `held` the handles the application has
open, and `pace` the ticks a patient application still waits for. `held` and `pace`
belong to the application and have no counterpart in the code, nor has `crossed`,
which is history.

One action is one access to the table, or a run of accesses to one entry that
no property tells apart: `PS_ForkProcess` is `Open` (`LookUp`: free slot, tid and
count), then in `OpenStep` the writes of the PID, the time, the callback with the
other parameters, and the state (`ForkPid`, `ForkTime`, `ForkIsr`, `ForkRun`), the
sum (`ForkSum`), and `OpenReturn` with the LRC (`ForkLrc`); `PS_SignalProcess` is
`Seek` or `SeekFails`, `PutSignal`, `PutXtime`, `SignalSum`, `SignalLrc`; a close ends
in `CloseReturn`, the spin on `fPS_Exec`; a scan is `ScanStart`, then for each
entry `Check` (LRC), `Switch` and one of `Call`, `Wake`, `Sleep`, `Kill` with
what follows. `PS_KillProcess` is split between its two writes (`Kill`,
`KillLook`, `KillEnd`), and so is `PS_UpKillProcess` (`UpRead`, `UpWrite`), for
that is where a fork can come in. `PS_RenewLRC` reads, then stores (`Renew`,
`PutLrc`). On its last beep `OS_TaskBuzzer` clears the signal (`Call`), then
the time (`Quiet`), then renews the LRC (`QuietSum`, `QuietLrc`), then loads its
counters again (`Reload`).

The tamper thread (`TAMPER_Handler`, `IPC_server.c:633-655`) opens two buzzers
(`LIB_BUZ_Open`, `OS_LIB.c:592-600`) with the same steps and without a lock
(`TamperOpen`, `TamperOpenFails`, `TamperOpenStep`, `TamperOpenReturn`), wherever the
other two threads are. It has set `isTamperDetected` by then, so that the AP's next
call is refused; the call in hand goes on and may open and close devices as it runs,
`CallsAfter` of them. What the handler does next
drives the buzzer's pin directly, touches no entry, removes the AP and the keys and
ends the SP; the model leaves it out.

**Two forks at once.** Nothing keeps them apart: two can choose the same free slot,
and two can count a device one short of `MAX_DID_NO`. `crossed` holds the entries that
two forks were under way for when they were taken. Without the exception for them
TLC finds both `CallbackSafe` and `DeviceLimit` violated: an entry with the PID of one
fork and the callback of the other under an LRC that fits, and a device over
`MAX_DID_NO` (`OS_PROCS.h:30`). The two properties say how far this goes: a pointer that
is called was stored by some fork, and every entry that did not have two forks about
it is whole and counted.

A byte is the set of its one bits, so that XOR is symmetric difference. The LRC
is kept in three parts that XOR does not mix: the device bits, the callback and
the low bits where `State`, `Signal` and the tid meet. Both bytes of an `Xtime`
of 0xFFFF or 0x0000 are equal and cancel. The model assumes sequentially
consistent memory and takes the loops that look for an entry (of a fork, a
signal, a kill) for one step.

`BeepCycles` is the number of callbacks one sound
takes: the cycle, on and off counters (`psBUZ_CYCLE`, `psBUZ_ON`, `psBUZ_OFF`)
count as one. `pst_any` gives it two, `pst_stack` one. Left out: tick
counters, frequencies, GPIO, and the 5A auto-close buzzer.

### SpServer

`main.pc` walks through `main()`: boot (`boot`, `srtc`, `poll`, `device`,
`sp_init`, `key`, `ap`, `sem`), the service menu (`dss`, `burn`), the serve loop
(`try`, `check`, `call`, `load`, `store`, `ret`, `post`) and, when the tamper is
found at boot, the removal. `tamper` is the tamper thread: `off`, `poll` or a
step of the removal, which both share as `Erase` and `KillSp`. `client` is the
AP from `fork()` on. `snvs` survives power cuts (it is on battery), `disk` does,
everything else does not. `client.late` is a history field: the call was posted
after the tamper was detected.

The AP is not in the repository. It is modelled from the protocol comment at
`IPC_server.c:58-67` and from how the server uses the semaphores: it fills in a
call, posts `sem_A`, waits on `sem_B`, reads the result (`Fill`, `PostA`,
`WaitB`), and may exit at any time.

What a call does is one step (`Call`) unless it stores a key (`Puts`), which
goes through `load_secure_file` and `update_secure_file` (`Load`, `Store`). The
files of the secure directory are one value: `none`, `fresh` (zeros, written by
`init_secure_file`) or `keys`. The operator's choices in `DSS_main` are `Menu`:
`burn`, a download, and `kms`, which stores keys. Constants give the calls, the
storing calls, the menu, and the bound `MaxCuts` on power cuts.

`rm -r` is two steps, the files and then the directory; the directory stays if
it is no longer empty. The removal counts as done when `rm` has returned: the code
does not sync after it (`SecureStore` shows what a cut can bring back then). A fork that has not executed yet bears the SP's name, so
the first `killall` misses it and the second one gets it.

### ApiCall

A call is idle, asked, served or lost, and the AP gets back the reply to its own
call, which is its result or a refusal. `SpServer` implements it with `ApiPhase`
and `ApiReply`: a call is served at the moment its return value is decided in
`IPC_FunctionCaller`, before it is in the shared memory.

### SecureStore and Vault

`dir` and `file` are what the running system sees. `diskDir` and `disk` hold what a
power cut may leave of them: for the directory and for each file the set of
everything it has been since the last `sync()`. Only `update_secure_file` calls that
(`Sync`). `init_secure_file` calls `fsync(fp)` with the stream in place of its descriptor
(`OS_SECM.c:760`), which syncs nothing, and neither `rm` nor what follows it in a wipe
syncs: until the next update a cut may take the files back to what they were before
the wipe, or leave some of them. A cut leaves any member of each set.

`main` is the thread inside `OS_SECM`: `init_secure_file` (`InitSecureFile`, `Create`,
`Fill`), `load_secure_file`, `update_secure_file`; `rm` is the process that
`popen("rm -r")` starts when a file is refused, while the thread waits 500 ms, makes
the files again, and then removes the AP. A device has a fixed subset of three
faults: a call may fail (the CAAM driver, on a file that is whole too; an allocation;
`mkdir`, `fopen`, `popen`), the file system is full (a short write goes unseen),
the removal is slower than the wait. A file is `zero` (fresh), a key, `torn` or
`absent`; encryption is left out.

`NoOldKey` says what the code does keep: a key that can be read is what every cut
leaves; a removed key may come back until the next update, but none older than it.

`Vault` says what remains: an update is durable once `OS_SECM_PutData` has
returned, a cut in the middle of one costs that file, and everything is removed
only after a file was lost or, on a `frail` device, whose driver may fail, at any
time (`load_secure_file` takes every failure of the driver for a bad file, 886-891).
Neither the removal nor the fresh files are durable before the next update has
ended: `safe` holds the values a cut may leave. The 500 ms are an assumption that
the code makes: with a removal that is slower, the new files are removed as well
(`WaitEnough` is stated for devices without that fault).

### AuxLink and Delivery

Two terminals that run this code, joined by a line. `port[e]` holds the `os_AUX_`
tables of a port; `line[e]` the bytes on their way to `e`; `due[e]` what the timer
thread has found to do (it looks, then acts: `TimerLooks`, `TimerCounts`, `TimerResends`,
`TimerDiscards`); `app[e]` the application, which sends and polls
`api_aux_txready`, or polls `api_aux_rxready` and then reads. The receiver takes a
byte per poll, through the states of `AUX_DLL.c`, `AUX_SOH.c` (two or four
length digits) or `AUX_STX.c`. `mode`, `ackMode` and `timing` are chosen at the
start. Packages have their real lengths and XOR checksums, so that a damaged one
is refused for the reason the code refuses it.

The counters `Tor` and `Tob` are abstracted to the moment they reach zero. With
`timing = "timely"` that is only when nothing is under way, and it is served at
once, which assumes Tob < Tor; with `"late"` it may be at any moment, and then
only that a wait ends is promised. The line may lose bytes or damage one
transmission at a time, before any other fault, into any of `Noise`, but it
never forges an acknowledgement or a header of its own. Each package has one
acknowledgement (`Acks`).

`OS_AUX_ResendPackage` tests the count of retransmissions and takes it down in two
steps, in both threads: `TimerCounts` and `TimerResends`, and, when a NAK is read,
`TxReady` and `TxAgain` (`app` is `"again"` in between). On a timely system no thread comes
in between; on a late one both can find the count at one, and it wraps from zero to
its largest value (modulo `Counts` here). `CountSeen` bounds the count from which the
timer thread is followed. `TypeOK` says that the count of a timely system does not
wrap, `WaitEnds` that a sender waits for ever only where it has.

`Delivery`: a message is confirmed only after it arrived; it may arrive again, for
packages carry no number. `Reliable` says where this holds: not for STX, whose
receiver stays in its last state after a good package.

Which messages a fault may not make of which others is a matter of the constants.
`AuxNoise` says it: `Reader` is what of a port decides how it takes the next byte,
`Verdict` what the port answers at the last byte of a package, `Hearing` the reader
after some bytes with its verdicts on the way. `Transmissions` are the forms in
which a package may arrive, whole or after one fault, and `Harmless(S)` says that
each of them is missed, refused or taken for the message it is, by a reader of `S`,
and leaves a reader of `S`. `StopAndWait` adds that one end talks, packages have one
acknowledgement, and messages fit the buffer and their length bytes (`Fits`).

### Dukpt

`reg`, `inUse`, `cur`, `ctr` and `typed` are secure files and survive a power cut;
`ident` stands for `g_InitialKeyID` and `g_InitialKeyType`, which are in RAM only.
`pc`, `op`, `i`, `base`, `work` are the call in progress: every write to a file is
an action, so that power can fail between any two, or in one (`PowerCut` loses
the file being written and then all files are wiped, as `load_secure_file` does
when it meets that file; here at once). An injection is `SetKeys`, `EraseReg` and
`EraseType` for the old key, `PutInitial` to `FirstCounter` for the new one, and
`PutType`; a request is `Request`, `SetShift`, then `Skip` or `DeriveWorking`,
`ClearReg`, `UnuseReg` and `NextCounter`.

A key is a symbol: the sequence of derivations from an initial key, each with its
usage, ID and counter. The counter is the set of its one-bits. `Set_Shift_Register`
stores every index it tries, and nobody reads one of those: one step. `answers`
and `loads` are history. An answer has its working key and the counter in the key
serial number that goes out with it (`Answer`): `AES_DUKPT_RequestPinEntry` reads the
counter again after the update has counted on (`DUKPT-AES.c:725-726`, 1077-1085), so
that it names the transaction after the key's own. `HostAgrees` says so: the key is the
host's for the counter before the one it is told, and a host that takes that
counter as it is derives the key of the next request. The one-bit overflow test `(1 << 32) - 1` of a 32-bit
counter compiles to "all ones" (`Exceeded`). Left out: the cryptography, key
lengths, and which of several key types is asked for.

### Sfs and FileStore

`mib` is `MEM_INFO`, `fib` the directory (`FIT`), `iPre`, `iNext` and `data` the
clusters `pBLOCK`, `file` the list `plFILE` with the handle of each open file,
`reply` what the last call returned. A call is one action: nothing else runs in
this code. Cluster 0 is where `MEM_INFO` and the directory lie, so that link 0
means "none", and `iPre[0]` is the two bytes `FS_type` and `cluster_size`.

`SFS_DISK` is zero after a start, and neither `FS_RamInit` nor `SFS_init` formats
it: until the AP does, a create is refused and an open or a delete reads through
the null pointer `FIT`, which ends the SP in `SegV_handler` (reply `killed`). A
program is assumed to format with no file open, to give non-empty names, and to
use only handles it was given. Left out: modes, the listing, failing allocations.

`FileStore` has files as sequences of bytes and a position for each handle. It
counts clusters exactly, so that the refinement also says that no call is
refused while there is room, after any history.

## Runs

| Run | Question | Result |
|---|---|---|
| `pst_any` | a timer device and a buzzer device used at any pace, in any order, and a fork of the tamper thread at any moment | `TypeOK`, `CallbackSafe`, `DeviceLimit` hold |
| `pst_stack` | an application that uses timers only, closes last in, first out and waits two ticks between calls, with no tamper | `NoneStarved`, `HandlesUnique`, `HandlesLive`, `ClosedAreDead`, `TimersRun`, `CallsReturn` hold |
| `sp_serve` | boot, downloads, key storage, calls, tamper, one power cut | `TypeOK`, `OneCall`, `RefusedAfterTamper`, `VerifiedOnly`, `ApiRefined` hold |
| `sp_tamper` | tamper and two power cuts while nothing is stored | `StoppedClean`, `KeysGone`, `Answered` hold |
| `sp_store` | a call that stores a key while the tamper response runs | `StoppedClean` fails |
| `store` | loads, updates, clean-ups, a power cut, each set of faults | `TypeOK`, `Consistent`, `NoOldKey`, `WaitEnough`, `VaultRefined`, `CallsEnd` hold |
| `aux` | one end sends over a line with faults, every protocol | `TypeOK`, `AcknowledgedKept`, `DuplicatesPaid`, `DeliveryRefined`, `Repaired`, `WaitEnds` hold |
| `aux_turn` | both ends talk in turn and one acknowledgement is lost | `SohAcknowledges` fails |
| `dukpt` | injections, refused ones, deletions, requests, a power cut | `TypeOK`, `HostAgrees`, `UniqueKeys`, `ForwardSecrecy`, `CheckedKeys`, `RequestsEnd` hold |
| `dukpt_skip` | a counter value with too many one-bits | `Skips` fails |
| `dukpt_ident` | a restart after an injection | `IdentHeld` fails |
| `sfs` | two files made, grown, overwritten, deleted and made again on a disk that fills up | `TypeOK`, `ClustersKept`, `Erased`, `HeaderKept`, `StoreRefined` hold |

The failing runs are findings: each shows, on the code as it is, a trace that
contradicts a comment of the code, quoted in `PROJECT.json`.

`pst_stack` is a contract of use. What it rules out the code does not survive, and
none of its properties would notice: each is violated as soon as the restriction is
lifted that keeps it. Closed in another order, a live process ends up behind a valid
`PS_END`, where the scan never reaches it (`NoneStarved`; `OS_PROCS.c:185`), and a tid is
handed out twice (`HandlesUnique`; 280). Without the pace an open loses its entry to a
kill between its two writes (`HandlesLive`; 130), and a close returns before the kill
(`ClosedAreDead`; 174). With a buzzer a close can lose its signal or its LRC to the scan,
so that the buzzer is never killed (`ClosedAreDead`; `DEV_BUZ.c:369`). `api_tim_close2(0)`
and `api_tim_close3(0)` close the tasks of the first timer (`CloseAllTarget`;
`API_TMR.c:203`), which is not last in, first out either. `LIB_WaitTime` (`OS_LIB.c:1984`)
ignores a timer that failed to open and would wait for ever on a starved one.

Further disagreements that a passing property states as an exception: two forks at
once mix their entries and pass the limit (`CallbackSafe`, `DeviceLimit`, above); the
count of retransmissions wraps on a late system (`TypeOK`, `WaitEnds` of `AuxLink`);
`fsync(fp)` syncs nothing and a wipe is not durable (`NoOldKey`); a driver failure on a
good file wipes all of them (`VaultRefined`); the serial number names the counter after
the key's own (`HostAgrees`). `HeaderKept` names two calls that write a cluster link over
`cluster_size`, after which `SFS_fdir` reports wrong sizes until the next format.

**Bounds.** `pst_*`: two or three entries and one or two processes per
device. The table's behaviours need a killed entry, a live one behind it and a
free one, which three entries give; a full table and a full device are reached;
`pst_any` uses two entries, two devices and one handle because three threads are free
to interleave at every access; one fork of the tamper thread beside the API thread's
is enough for two at once, and one call after the tamper (`CallsAfter`) for a scan
and a kill beside them. `BeepCycles` is two there: a beep that is the last one and a beep
that is not. In `pst_stack`, `MaxOpen` is one more than the table has entries.
`sp_*`: two calls, one of which stores, are enough to tell one call's result from
another's; one power cut while storing and two while erasing put a cut into every
step of the removal, and into the boot after a cut.
`store`: two files and two keys, so that an update of one file is told from the
other's and from an older one; one cut, between any two steps of an update, a
wipe or the recovery, after which the next boot and its loads run to their end.
`aux`: two messages, of which one is an `ACK` byte and one holds `SOH` and `STX`,
so that content looks like protocol; two faults and two retransmissions, which
`Repaired` relates; a late timer with one message and no fault, for the late timer
itself makes the resends; counts modulo four, of which the timer thread is followed
from two down, so that the wrap is met. `MCHarmless` says that messages, noise and buffer are those
of a stop-and-wait link in every protocol that is timely: it is a conjunct of the
initial states that `aux` starts from (`MCInit`), of which there are none where it fails.
`dukpt`: three registers (counters 0 to 7), at most two one-bits, two injections,
five requests, one refused injection or deletion, one cut: skipped registers, a
carry over two bits, the greatest counter and a second injection in the middle
are all met, in about 470 thousand states.
`sfs`: two names, two directory entries, three clusters of two bytes; texts of one
and three bytes stay in a cluster, reach into the next or add two; the disk and
the directory fill up, and clusters come back in another order than they left.
Deadlock is checked for the process table, the link, DUKPT and the file system. It
is not for the server, which stops for good when the SP is killed and the AP is
gone, nor for the secure files, where a failed clean-up ends the SP.

**Fairness.** `ProcessTable`: the timer thread (`TimerNext`) and a call that has
begun (`ApiStep`) keep running; the application need not call. `SpServer`: the
main thread and the tamper thread keep running, and an AP that waits on
`sem_B` takes the token. `SecureStore`: the thread in a call and the process of
`rm` keep running. `AuxLink`: applications poll and read, the timer thread runs;
nobody has to send. `Dukpt`: a call that runs goes on. Operator, AP, tamper
events, faults and power cuts are never forced. Nothing needs strong fairness.
The code justifies this with threads that do not block each other: they share no
lock.

## Proofs

All theorems hold for every value of the constants that the named `ASSUME`s
allow; TLC evaluates the assumptions in every run. Each inductive invariant below
was first checked by TLC as an invariant of the run of its module, under the
hypothesis of the theorem where it has one.

`Induction` states induction for a set in place of an operator, which the provers
can use: a set of naturals with 0 and the successor of each of its elements is
all of them (`Induction`), the same up to a bound (`BoundedInduction`), and a
function that is given by its value at 0 and by each value from the one before
exists (`Recursion`). With it `Chain` of `Sfs`, `XorAll` of `AuxLink` and the host
of `Dukpt` are shown to obey their definitions and are reasoned about by
induction over their arguments.

`ProcessTableProofs`

* `TypeCorrect`: by induction on steps, one lemma per thread (`ApiType`,
  `TimerType`, `TamperType`), resting on lemmas about writes to an entry.
* `CallbackCorrect`: `CallbackSafe` alone is not inductive. The invariant adds
  that live entries carry a stored callback, which fits the PID unless the entry is
  in `crossed` (`LiveWhole`), that an entry that is being forked and is not in `crossed`
  belongs to its thread and is filled in program order (`ForkOwns`, for the API and
  the tamper thread), that two forks under way have both their entries in `crossed`
  (`Apart`), and that an entry the timer thread has seen running stays live
  until it acts (`Acts`). It says why the writes of `PS_ForkProcess` come in that
  order: `State` last. For any number of forks by the tamper thread.
* `DeviceLimitCorrect`: the invariant adds that between the count and the
  registration of a fork that is alone the number of a device's live processes
  outside `crossed` only falls (`Room`, for each of the two threads).

`ProcessTableStackProofs`, under `TimersAsStack`: handles are closed last in, first
out, two ticks pass between calls, there are no buzzers, and no tamper is found
while the application runs, as in `pst_stack`

* `NoneStarvedCorrect`, `HandlesUniqueCorrect`, `HandlesLiveCorrect` and
  `ClosedAreDeadCorrect` from `TableInv`. `StackInv`: the handles, oldest first, are
  the first entries of the table, live and settled, each with a tid that counts
  the older handles of its device, and everything behind the entry after them
  is free. `CallInv` says how far a call has brought that one entry. `ScanInv` says
  what the timer thread may have read of it: a scan that met the entry before the
  call wrote to it goes on with what it saw, so for each step of the scan the
  states are named in which the entry is harmless to it. The two ticks are
  needed where a kill that was under way meets the next open.

`SpServerProofs`

* `TypeCorrect` and `OneCallCorrect` from `TokenInv`: the token is in `sem_A`, in
  the serve loop or in `sem_B`, a call in hand is a call that was posted
  (`CallKnown`), and the AP lives only beside the serve loop or a dead SP
  (`LaunchedOnce`).
* `RefusalCorrect`: a late call implies a detected tamper, which stays detected
  until the power is cut, and a waiting AP.
* `VerificationCorrect`: what each boot check established holds from there on.
* `StoppedCleanCorrect`, under the assumptions `Puts = {}` and `Menu = {}` that
  `sp_tamper` also makes: what a removal step removed stays removed. `sp_store`
  shows that the first assumption is needed.
* `ApiCorrect`: the refinement. `Own` adds that the call of a waiting AP is the
  one posted or served; `Phases` tabulates the refinement mapping; `SimulationStep`
  maps each action to a step of `ApiCall` or to none.

`SecureStoreProofs`

* `TypeCorrect`, and `ConsistentCorrect` for `Consistent`, which is inductive as it
  stands: it says for each step of the thread what may be in the file system.
* `NoOldKeyCorrect` for `NoOldKey`, with `Consistent`: it is kept because a new key
  comes to a file only in an update, and every update ends in `sync()`.
* `WaitEnoughCorrect`: `WipeInv` follows a wipe through its phases, from the removal
  by `rm` to the files made again, on a device whose removal is faster than the wait.
* `VaultCorrect`: the refinement, with `Consistent` as its invariant; each action
  maps to a step of `Vault` or to none.

`DukptProofs`

* `TypeCorrect`: every loop stays within the registers.
* `UniqueKeysCorrect` and `ForwardSecrecyCorrect` from `KeyInv`, the heart of the
  proof. What has to be excluded is that a key is derived again, and no property of
  the answers alone is inductive. `RootInv`: no key anywhere
  names an injection still to come. `LeafInv`: a register never holds a working key.
  `ApartInv`: no register's key is a prefix of another's, except while an
  injection or an update spreads a key over registers. `LoadInv` and `RequestInv`
  say how far such a loop has come, and that the base key in hand is no prefix of
  an answer. `OpInv` ties the locals to the step.
* `CheckedKeysCorrect` from `StatusInv`: as long as power has not failed and the key
  type is set, every register in use holds a key that was injected, or the one
  in hand is about to be marked unused.
* `HostAgreesCorrect` from `HostInv`: the answer's key is the host's for the counter
  before the one in its serial number. The host derives from the top one-bit of the
  counter down, the terminal keeps a key for each suffix and counts upwards: the
  two meet in `Ahead`, which says of every register in use that it holds the host's
  key for the counter it stands for (`Path`), and that this counter is still to
  come. `PlusCarry` describes a count as a carry over a run of one-bits;
  `HostKeyNext` and `HostPathTail`, by induction over the registers, say how the
  host's key for a counter follows from that of a shorter one. While nothing
  has failed or been deleted.

`AuxLinkProofs`

* `TypeCorrect` and `AcknowledgedKeptCorrect` from `AuxInv`, for any messages, noise
  and number of faults. The buffer is exceeded by the byte that makes a message
  too long and by no more (`PortOK`). `CountOK` bounds the count of retransmissions of a
  timely system: a thread that is about to take it down found it above zero, and no
  other has touched it since (`CountEnd`); a late system wraps it. A
  complete message lies in the buffer only while the receiver waits with its
  acknowledgement or the application has been told (`EndOK`), and then neither a
  further byte nor the timer thread touches it, so that what was received is what
  was read and what still waits (`KeptEnd`).
* The attempt showed that two guards of `DataLinkRx`'s `CASE` overlapped (`WAIT_ACK`
  and a message that is too long), so that its value was TLC's choice; it is the
  order of the code now. `XorAll` became a recursive function.
* `PackageReadBack`: in each format but STX, the receiver fed with a package byte by
  byte answers once, at the end, with an acknowledgement of the message that was put
  in, and starts anew. `Digits` is the arithmetic of the length bytes, `TopDigit` their
  bound; the rest is induction over the bytes (`HearingMore` and the lemmas around it).
* `DuplicatesPaidCorrect` and `DeliveryCorrect`, for `Spec /\ StopAndWait`, with any number
  of messages, faults and retransmissions. Both follow from `LinkInv`, which adds to
  `AuxInv` where the sender is (`SenderSure`), that at most one answer is under way
  and the timer thread decides to send again only where nothing is (`LineSure`), that
  an arrival that is not acknowledged yet has a fault to pay for it (`Credit`), and
  `Track`: the bytes under way and the reader in front of them are what is left of one
  transmission of the latest message, not yet judged, or of one that was judged, with
  at most the next whole package behind it. Without `Track` nothing says that the
  message a receiver reads is the one that was sent: it speaks of bytes, and
  `Harmless` is what a step of the line needs to keep it. `LinkDelivers` maps each step
  to a step of `Delivery` or none.
* The hypothesis is needed: a message in which a whole package lies is delivered from
  within when the `SOH` in front of it is lost, and with several acknowledgements per
  package a stale one confirms the next message. It can be met: by any messages that
  fit where the line has no faults (`FaultFreeStopAndWait`), and with faults by the
  constants of `aux`, as TLC finds (`MCHarmless`).

`SfsProofs`

* `TypeCorrect`, `ClustersKeptCorrect` and `ErasedCorrect` from `SfsInv`. Its core is
  `KeptInv`: chains are functions from places to clusters, every cluster has exactly
  one place (`Placed`), and the links follow the places (`Chained`). Every call
  moves the first clusters of one chain behind the end of another (`Moved`): create
  moves one from the free chain to a new one, a write any number, and a delete
  moves the whole chain, so that one lemma about places (`MovedPlaced`) and one about
  links (`MovedChained`) carry all three. `WriteEnds` is the arithmetic of a write:
  how many clusters it adds, and what it leaves unused of the last.
* `HeaderKeptCorrect`: a call writes `iPre[0]` only where the free list has no first
  cluster.
* `StoreCorrect`: the refinement. `StoreInv` adds that a file fills its clusters but
  for a part of the last one, so that `FileStore`'s count of clusters is the disk's;
  `RoomSeen` matches the refusals. There is one lemma per call (`CreateSeen`, ...,
  `WriteSeen`); `OthersSame` says that files a call is not about keep their bytes, and
  `WrittenFile` that a byte of a file is the new one where one was put, and the old
  one elsewhere. It needs that `None`, the null pointer, is no handle, number
  or text (`NoneAssumption`).

Only model-checked:

* The liveness properties `CallsReturn`, `TimersRun`, `KeysGone`, `Answered`, `CallsEnd`,
  `Repaired`, `WaitEnds` and `RequestsEnd`: liveness under fairness is out of the
  prover's reach.
* That `Harmless` holds of given messages and noise, for the constants of `aux`. That it
  holds of a whole class of messages is a fact about XOR checksums that the provers
  were not given.

Every safety invariant and every action property of a passing run, and each of its
refinements, is stated by a theorem.

## Not modelled

In modelled components: lengths of replies and the bodies of the calls in the
server, the LAN thread, the DSS protocol; serial port settings, the bypass and
service modes of AUX; in PEDK, dual control, master/session keys, TDES DUKPT and
PIN entry; in the file systems, the flash and SD media, which are Linux files.

Not at all: EMV contact and contactless kernels (`EMVK/`, `ctls/`, the largest
part of the repository: sequential, data driven ports of the schemes' published
kernels), SRED, key blocks (formats and cryptography without interleaving),
display, keyboard, printer, card reader and modem drivers, diagnostics, and the
vendored headers. `PROJECT.json` gives the reason for each.

## Plan

1. `DualControl`: the password sessions of `PED_DualPasswordControl`, with its
   time limits and error counters, over `Vault`.
2. `TickCounter`: counters read byte by byte under the timer's carries, and
   `LIB_WaitTime`; `Buzzer5A`: the auto-close handshake.
3. `TimerPool` (`bsp_timer.c`) and `LanSessions` (`API_LAN.c`).
4. `ProtoT1`: block numbers and retransmission against a card.
5. Proofs: the safety properties of the modules above, and a class of messages of
   which `Harmless` holds in the presence of faults.
