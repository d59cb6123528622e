------------------------------ MODULE SpServer ------------------------------
(***************************************************************************)
(* SP/IPC_server.c: the secure processor's process.  Its main thread boots *)
(* the device, launches the application (AP, /home/AP/IPC_client) and then *)
(* serves the AP's API calls out of a shared memory guarded by two         *)
(* semaphores.  A tamper thread polls the SNVS registers and, when one     *)
(* reports a tamper, removes the AP and the secure files and kills the SP. *)
(* The power can be cut at any time.                                       *)
(***************************************************************************)
EXTENDS Integers

CONSTANTS
  Calls,    \* the API calls (PID and function number) the AP makes
  Puts,     \* those that store key material, through OS_SECM_PutData
  Menu,     \* what the operator does in DSS_main
  MaxCuts   \* bound: how often the power is cut

ASSUME CallAssumption == Puts \subseteq Calls /\ {"none", "failed"} \cap Calls = {}
ASSUME MenuAssumption == Menu \subseteq {"burn", "kms"}
ASSUME BoundAssumption == MaxCuts \in Nat

VARIABLES
  snvs,     \* SNVS registers, on battery: tamper latched, SRTC valid, device mark
  disk,     \* the AP file, SP_initFilePath, the secure directory and its files
  main,     \* the SP's main thread
  tamper,   \* the SP's tamper thread
  isTamperDetected,
  isAPRunning,
  client,   \* the AP process, from fork() on
  semA,     \* a call waits for the SP
  semB,     \* a reply waits for the AP
  shm,      \* shm_data: the return value and the call
  cuts      \* power cuts so far

vars == <<snvs, disk, main, tamper, isTamperDetected, isAPRunning, client,
          semA, semB, shm, cuts>>
device == <<snvs, disk, cuts>>
links == <<semA, semB, shm>>
flags == <<isTamperDetected, isAPRunning>>

BootPcs == {"boot", "srtc", "poll", "device", "sp_init", "key", "ap", "sem"}
ErasePcs == {"warn", "kill_ap", "rm_ap", "rm_files", "rm_dir", "kill_sp"}
ServePcs == {"check", "call", "load", "store", "ret", "post"}
MainPcs == BootPcs \cup ErasePcs \cup ServePcs \cup {"try", "dss", "burn", "dead"}
Running == {"idle", "filled", "waiting"}

MainAt(pc) == [pc |-> pc, call |-> "none", ret |-> "none"]
ClientAt(pc) == [pc |-> pc, call |-> "none", got |-> "none", late |-> FALSE]

Init ==
  /\ snvs \in [tampered : {FALSE}, srtc : BOOLEAN, mark : BOOLEAN]
  /\ disk \in {d \in [ap : {"none", "signed", "unsigned"}, spInit : BOOLEAN,
                      dir : BOOLEAN, files : {"none", "fresh", "keys"}] :
                 d.dir <=> d.files # "none"}
  /\ main = MainAt("boot")
  /\ tamper = "off"
  /\ isTamperDetected = FALSE
  /\ isAPRunning = FALSE
  /\ client = ClientAt("none")
  /\ semA = 0
  /\ semB = 0
  /\ shm = [ret |-> "none", call |-> "none"]
  /\ cuts = 0

-----------------------------------------------------------------------------
(* The main thread: boot.                                                  *)

MainGoto(pc) == main' = [main EXCEPT !.pc = pc]

(* openTamperRegister ... init_secure_file: an absent secure directory is  *)
(* made again, with files of zeros                                         *)
Boot ==
  /\ main.pc = "boot"
  /\ disk' = IF disk.dir THEN disk
             ELSE [disk EXCEPT !.dir = TRUE, !.files = "fresh"]
  /\ MainGoto("srtc")
  /\ UNCHANGED <<snvs, tamper, flags, client, links, cuts>>

CheckSrtc ==
  /\ main.pc = "srtc"
  /\ MainGoto(IF ~snvs.srtc /\ snvs.tampered THEN "warn" ELSE "poll")
  /\ UNCHANGED <<device, tamper, flags, client, links>>

StartPollingNot ==                                                \* mutant
  /\ main.pc = "poll"
  /\ MainGoto("device")
  /\ UNCHANGED <<device, tamper, flags, client, links>>

StartPolling ==
  /\ main.pc = "poll"
  /\ tamper' = "poll"
  /\ MainGoto("device")
  /\ UNCHANGED <<device, flags, client, links>>

(* Tamper_IsSecureDevice, SP_initFilePath, the 'y' key: DSS_main does not  *)
(* return                                                                  *)
CheckDevice ==
  /\ \/ main.pc = "device" /\ MainGoto(IF snvs.mark THEN "sp_init" ELSE "dss")
     \/ main.pc = "sp_init" /\ MainGoto(IF disk.spInit THEN "dss" ELSE "key")
     \/ main.pc = "key" /\ \E pc \in {"dss", "ap"} : MainGoto(pc)
  /\ UNCHANGED <<device, tamper, flags, client, links>>

CheckApUnverified ==                                              \* mutant
  /\ main.pc = "ap"
  /\ MainGoto(IF disk.ap = "none" THEN "dss" ELSE "sem")
  /\ UNCHANGED <<device, tamper, flags, client, links>>

(* stat and Verify_AP_Signature; a file that fails is removed *)
CheckAp ==
  /\ main.pc = "ap"
  /\ \/ disk.ap = "signed" /\ MainGoto("sem") /\ UNCHANGED disk
     \/ disk.ap # "signed" /\ MainGoto("dss") /\ disk' = [disk EXCEPT !.ap = "none"]
  /\ UNCHANGED <<snvs, cuts, tamper, flags, client, links>>

SemInit ==
  /\ main.pc = "sem"
  /\ semA' = 0
  /\ semB' = 0
  /\ MainGoto("try")
  /\ UNCHANGED <<device, tamper, flags, client, shm>>

-----------------------------------------------------------------------------
(* The main thread: DSS_main.  The AP download removes the old file and    *)
(* writes what it received; the key management stores keys.                *)

Download ==
  /\ \/ /\ main.pc = "dss"
        /\ "burn" \in Menu
        /\ disk' = [disk EXCEPT !.ap = "none"]
        /\ MainGoto("burn")
     \/ /\ main.pc = "burn"
        /\ \E ap \in {"signed", "unsigned"} : disk' = [disk EXCEPT !.ap = ap]
        /\ MainGoto("dss")
  /\ UNCHANGED <<snvs, cuts, tamper, flags, client, links>>

ManageKeys ==
  /\ main.pc = "dss"
  /\ "kms" \in Menu
  /\ ~disk.spInit /\ snvs.mark
  /\ MainGoto("load")
  /\ UNCHANGED <<device, tamper, flags, client, links>>

-----------------------------------------------------------------------------
(* The main thread: the serve loop.                                        *)

(* sem_trywait fails, and the AP is not launched yet: fork() *)
Launch ==
  /\ main.pc = "try"
  /\ semA = 0
  /\ ~isAPRunning
  /\ client' = ClientAt("forked")
  /\ isAPRunning' = TRUE
  /\ UNCHANGED <<device, main, tamper, isTamperDetected, links>>

TakeKept ==                                                       \* mutant
  /\ main.pc = "try"
  /\ semA > 0
  /\ main' = [main EXCEPT !.pc = "check", !.call = shm.call]
  /\ UNCHANGED <<device, tamper, flags, client, links>>

(* sem_trywait takes a token, SHM_Handler reads the header *)
Take ==
  /\ main.pc = "try"
  /\ semA > 0
  /\ semA' = semA - 1
  /\ main' = [main EXCEPT !.pc = "check", !.call = shm.call]
  /\ UNCHANGED <<device, tamper, flags, client, semB, shm>>

CheckTamperNever ==                                               \* mutant
  /\ main.pc = "check"
  /\ MainGoto("call")
  /\ UNCHANGED <<device, tamper, flags, client, links>>

(* IPC_FunctionCaller: after a tamper it returns apiFailed at once *)
CheckTamper ==
  /\ main.pc = "check"
  /\ main' = IF isTamperDetected THEN [main EXCEPT !.pc = "ret", !.ret = "failed"]
             ELSE [main EXCEPT !.pc = "call"]
  /\ UNCHANGED <<device, tamper, flags, client, links>>

(* mutant: the reply is posted before the return value is written *)
CallUnwritten ==
  /\ main.pc = "call"
  /\ MainGoto("post")
  /\ UNCHANGED <<device, tamper, flags, client, links>>

(* the call itself *)
Call ==
  /\ main.pc = "call"
  /\ main' = [main EXCEPT !.pc = IF main.call \in Puts THEN "load" ELSE "ret",
                          !.ret = main.call]
  /\ UNCHANGED <<device, tamper, flags, client, links>>

(* OS_SECM_PutData: load_secure_file, then update_secure_file, which opens *)
(* the file anew and so creates it when it is gone                         *)
Stored == IF main.call = "none" THEN "dss" ELSE "ret"

Load ==
  /\ main.pc = "load"
  /\ MainGoto(IF disk.files = "none" THEN Stored ELSE "store")
  /\ UNCHANGED <<device, tamper, flags, client, links>>

Store ==
  /\ main.pc = "store"
  /\ disk' = IF disk.dir THEN [disk EXCEPT !.files = "keys"] ELSE disk
  /\ MainGoto(Stored)
  /\ UNCHANGED <<snvs, cuts, tamper, flags, client, links>>

(* mutant: the handler posts the reply, and so does the loop *)
PutReturnPosts ==
  /\ main.pc = "ret"
  /\ shm' = [shm EXCEPT !.ret = main.ret]
  /\ semB' = semB + 1
  /\ MainGoto("post")
  /\ UNCHANGED <<device, tamper, flags, client, semA>>

PutReturn ==
  /\ main.pc = "ret"
  /\ shm' = [shm EXCEPT !.ret = main.ret]
  /\ MainGoto("post")
  /\ UNCHANGED <<device, tamper, flags, client, semA, semB>>

(* mutant: the semaphore of the calls is posted back instead of the replies' *)
PostBOnA ==
  /\ main.pc = "post"
  /\ semA' = semA + 1
  /\ main' = MainAt("try")
  /\ UNCHANGED <<device, tamper, flags, client, semB, shm>>

PostB ==
  /\ main.pc = "post"
  /\ semB' = semB + 1
  /\ main' = MainAt("try")
  /\ UNCHANGED <<device, tamper, flags, client, semA, shm>>

-----------------------------------------------------------------------------
(* Tamper_RemoveSensitiveData, run by the tamper thread or, at boot, by    *)
(* the main thread: killall IPC_client, rm of the AP, rm -r of the secure  *)
(* directory (the files, then the directory if it is empty) and killall    *)
(* IPC_server.  A forked child bears the SP's name until it execs.         *)

(* mutant: the SP is killed before the secure directory is removed *)
EraseKillsEarly(from, to) ==
  \/ from = "warn" /\ to = "kill_ap" /\ UNCHANGED <<client, disk>>
  \/ /\ from = "kill_ap" /\ to = "kill_sp"
     /\ client' = IF client.pc \in Running THEN ClientAt("gone") ELSE client
     /\ disk' = [disk EXCEPT !.ap = "none"]

Erase(from, to) ==
  \/ from = "warn" /\ to = "kill_ap" /\ UNCHANGED <<client, disk>>
  \/ /\ from = "kill_ap" /\ to = "rm_ap"
     /\ client' = IF client.pc \in Running THEN ClientAt("gone") ELSE client
     /\ UNCHANGED disk
  \/ /\ from = "rm_ap" /\ to = "rm_files"
     /\ disk' = [disk EXCEPT !.ap = "none"]
     /\ UNCHANGED client
  \/ /\ from = "rm_files" /\ to = "rm_dir"
     /\ disk' = [disk EXCEPT !.files = "none"]
     /\ UNCHANGED client
  \/ /\ from = "rm_dir" /\ to = "kill_sp"
     /\ disk' = [disk EXCEPT !.dir = (disk.files # "none")]
     /\ UNCHANGED client

KillSp(from) ==
  /\ from = "kill_sp"
  /\ main' = MainAt("dead")
  /\ tamper' = "off"
  /\ client' = IF client.pc = "forked" THEN ClientAt("gone") ELSE client
  /\ UNCHANGED <<device, flags, links>>

MainErase ==
  \/ /\ \E to \in ErasePcs : Erase(main.pc, to) /\ MainGoto(to)
     /\ UNCHANGED <<snvs, cuts, tamper, flags, links>>
  \/ KillSp(main.pc)

(* TAMPER_Handler *)
Detect ==
  /\ tamper = "poll"
  /\ snvs.tampered
  /\ isTamperDetected' = TRUE
  /\ tamper' = "warn"
  /\ UNCHANGED <<device, main, isAPRunning, client, links>>

TamperErase ==
  \/ /\ \E to \in ErasePcs : Erase(tamper, to) /\ tamper' = to
     /\ UNCHANGED <<snvs, cuts, main, flags, links>>
  \/ KillSp(tamper)

-----------------------------------------------------------------------------
(* The AP, outside this repository: it fills in a call, posts semA, waits  *)
(* on semB and reads the return value.                                     *)

Exec ==
  /\ client.pc = "forked"
  /\ client' = ClientAt(IF disk.ap = "none" THEN "gone" ELSE "idle")
  /\ UNCHANGED <<device, main, tamper, flags, links>>

Fill(c) ==
  /\ client.pc = "idle"
  /\ shm' = [ret |-> "none", call |-> c]
  /\ client' = [client EXCEPT !.pc = "filled"]
  /\ UNCHANGED <<device, main, tamper, flags, semA, semB>>

PostA ==
  /\ client.pc = "filled"
  /\ semA' = semA + 1
  /\ client' = [client EXCEPT !.pc = "waiting", !.call = shm.call,
                              !.late = isTamperDetected]
  /\ UNCHANGED <<device, main, tamper, flags, semB, shm>>

WaitB ==
  /\ client.pc = "waiting"
  /\ semB > 0
  /\ semB' = semB - 1
  /\ client' = [client EXCEPT !.pc = "idle", !.call = "none", !.got = shm.ret,
                              !.late = FALSE]
  /\ UNCHANGED <<device, main, tamper, flags, semA, shm>>

Exit ==
  /\ client.pc \in Running
  /\ client' = ClientAt("gone")
  /\ UNCHANGED <<device, main, tamper, flags, links>>

-----------------------------------------------------------------------------
(* The device: a security violation latches in the SNVS, invalidates the   *)
(* SRTC and may clear the device mark.  A power cut loses what is in RAM.  *)

TamperEvent ==
  /\ ~snvs.tampered
  /\ \E mark \in {snvs.mark, FALSE} :
       snvs' = [tampered |-> TRUE, srtc |-> FALSE, mark |-> mark]
  /\ UNCHANGED <<disk, main, tamper, flags, client, links, cuts>>

PowerCycle ==
  /\ cuts < MaxCuts
  /\ cuts' = cuts + 1
  /\ main' = MainAt("boot")
  /\ tamper' = "off"
  /\ isTamperDetected' = FALSE
  /\ isAPRunning' = FALSE
  /\ client' = ClientAt("none")
  /\ semA' = 0
  /\ semB' = 0
  /\ shm' = [ret |-> "none", call |-> "none"]
  /\ UNCHANGED <<snvs, disk>>

-----------------------------------------------------------------------------
BootNext == Boot \/ CheckSrtc \/ StartPolling \/ CheckDevice \/ CheckAp \/ SemInit
ServeNext == Launch \/ Take \/ CheckTamper \/ Call \/ Load \/ Store \/ PutReturn \/ PostB
MainNext == BootNext \/ ServeNext \/ MainErase
DssNext == Download \/ ManageKeys
TamperNext == Detect \/ TamperErase
ClientNext == Exec \/ PostA \/ WaitB \/ Exit \/ \E c \in Calls : Fill(c)

Next == MainNext \/ DssNext \/ TamperNext \/ ClientNext \/ TamperEvent \/ PowerCycle

(* The two threads keep running, and an AP that waits for its reply takes  *)
(* it.  The operator and the AP need not do anything.                      *)
Spec == /\ Init /\ [][Next]_vars
        /\ WF_vars(MainNext) /\ WF_vars(TamperNext) /\ WF_vars(WaitB)

-----------------------------------------------------------------------------
Returns == Calls \cup {"none", "failed"}

Registers == [tampered : BOOLEAN, srtc : BOOLEAN, mark : BOOLEAN]
Disks == [ap : {"none", "signed", "unsigned"}, spInit : BOOLEAN,
          dir : BOOLEAN, files : {"none", "fresh", "keys"}]
Mains == [pc : MainPcs, call : Calls \cup {"none"}, ret : Returns]
Clients == [pc : Running \cup {"none", "forked", "gone"},
            call : Calls \cup {"none"}, got : Returns, late : BOOLEAN]
Buffers == [ret : Returns, call : Calls \cup {"none"}]

DeviceType == snvs \in Registers /\ disk \in Disks /\ cuts \in 0 .. MaxCuts
ServerType ==
  /\ main \in Mains
  /\ tamper \in ErasePcs \cup {"off", "poll"}
  /\ isTamperDetected \in BOOLEAN
  /\ isAPRunning \in BOOLEAN
LinkType == client \in Clients /\ semA \in 0 .. 1 /\ semB \in 0 .. 1 /\ shm \in Buffers
TypeOK == DeviceType /\ ServerType /\ LinkType

(* The two semaphores and the serve loop pass a single token: at most one  *)
(* call is posted, served or answered, and none while the AP is not        *)
(* waiting for one, so that neither side writes shm_data under the other.  *)
Serving == main.pc \in ServePcs /\ main.call # "none"
OneCall ==
  /\ semA + semB <= 1
  /\ Serving => semA + semB = 0
  /\ client.pc \in {"none", "forked", "idle", "filled"} =>
       ~Serving /\ semA + semB = 0

(* IPC_FunctionCaller runs no call that the AP posted after the tamper was *)
(* detected.                                                               *)
RefusedAfterTamper == Serving /\ main.pc \in {"call", "load", "store"} => ~client.late

(* An AP that runs is one whose signature was verified in this boot, on a  *)
(* device that is secure and bears no initial SP: no download, removal or  *)
(* tamper comes between the check and the launch.                          *)
VerifiedOnly ==
  client.pc \in Running =>
    /\ disk.ap \in {"none", "signed"}
    /\ ~disk.spInit
    /\ snvs.mark \/ snvs.tampered

(* Once the tamper response has killed the SP, no AP and no key is left,   *)
(* so that Tamper_RemoveSensitiveData did remove them.                     *)
StoppedClean == main.pc = "dead" => disk.ap = "none" /\ disk.files # "keys"

(* After a tamper the keys are removed for good, wherever the boot was and *)
(* however the power was cut (calls that store keys: see StoppedClean).    *)
KeysGone == snvs.tampered ~> [](disk.files # "keys")

(* A posted call is answered, unless the tamper response kills the SP.     *)
Answered == client.pc = "waiting" ~> client.pc # "waiting" \/ main.pc = "dead"

(* The shared memory call implements its abstract promise.                 *)
ServedPc == Serving /\ main.pc \in {"load", "store", "ret", "post"}
ApiPhase ==
  CASE client.pc \notin Running -> "off"
    [] client.pc \in {"idle", "filled"} -> "idle"
    [] client.pc = "waiting" /\ (semA > 0 \/ main.pc \in {"check", "call"}) -> "asked"
    [] client.pc = "waiting" /\ (semB > 0 \/ ServedPc) -> "served"
    [] OTHER -> "lost"
ApiReply == IF ApiPhase # "served" THEN "none"
            ELSE IF main.pc \in {"load", "store", "ret"} THEN main.ret ELSE shm.ret

Api == INSTANCE ApiCall WITH Failed <- "failed", None <- "none", phase <- ApiPhase,
                             call <- client.call, reply <- ApiReply, got <- client.got
ApiRefined == Api!Spec

=============================================================================
