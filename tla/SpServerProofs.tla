--------------------------- MODULE SpServerProofs ---------------------------
(***************************************************************************)
(* Theorems about SpServer, for all calls, menus and numbers of power      *)
(* cuts: the single token of the two semaphores, the refusal of late       *)
(* calls, the verification of the AP, the cleanliness of a stopped device  *)
(* and the refinement of ApiCall.                                          *)
(***************************************************************************)
EXTENDS SpServer, TLAPS

(* The main thread has launched the AP, or may at once. *)
Serves == main.pc = "try" \/ Serving

(* The call in hand is the one that was posted. *)
CallKnown ==
  /\ client.pc = "filled" \/ semA > 0 => shm.call \in Calls
  /\ main.call # "none" => main.pc \in ServePcs
  /\ main.pc \in {"check", "call", "ret", "post"} => main.call # "none"

(* The AP is launched once a boot, out of the serve loop, and lives on     *)
(* only beside the serve loop or a dead SP.                                *)
LaunchedOnce ==
  /\ ~isAPRunning => client.pc = "none"
  /\ client.pc # "none" => Serves \/ main.pc = "dead"

TokenInv == TypeOK /\ OneCall /\ CallKnown /\ LaunchedOnce

USE DEF MainAt, ClientAt, MainGoto, device, links, flags, Running,
        BootPcs, ErasePcs, ServePcs, MainPcs, Returns, Registers, Disks, Mains, Clients, Buffers

LEMMA InitToken == Init => TokenInv
<1> SUFFICES ASSUME Init PROVE TokenInv
  OBVIOUS
<1>1. DeviceType
  <2>1. snvs \in Registers
    BY Zenon DEF Init
  <2>2. disk \in Disks
    BY Zenon DEF Init
  <2>3. cuts \in 0 .. MaxCuts
    BY BoundAssumption DEF Init
  <2> QED
    BY <2>1, <2>2, <2>3 DEF DeviceType
<1>2. ServerType
  BY DEF Init, ServerType
<1>3. LinkType
  BY DEF Init, LinkType
<1>4. OneCall /\ CallKnown /\ LaunchedOnce
  BY DEF Init, OneCall, CallKnown, LaunchedOnce, Serving, Serves
<1> QED
  BY <1>1, <1>2, <1>3, <1>4 DEF TokenInv, TypeOK

LEMMA BootToken == TokenInv /\ BootNext => TokenInv'
<1> SUFFICES ASSUME TokenInv, BootNext PROVE TokenInv'
  OBVIOUS
<1> USE DEF TokenInv, TypeOK, DeviceType, ServerType, LinkType, OneCall, CallKnown,
        LaunchedOnce, Serving, Serves
<1>1. CASE Boot
  <2>1. DeviceType'
    BY <1>1 DEF Boot
  <2>2. ServerType'
    BY <1>1 DEF Boot
  <2>3. LinkType'
    BY <1>1 DEF Boot
  <2>4. OneCall' /\ CallKnown' /\ LaunchedOnce'
    BY <1>1 DEF Boot
  <2> QED
    BY <2>1, <2>2, <2>3, <2>4
<1>2. CASE CheckSrtc
  BY <1>2 DEF CheckSrtc
<1>3. CASE StartPolling
  BY <1>3 DEF StartPolling
<1>4. CASE CheckDevice
  BY <1>4 DEF CheckDevice
<1>5. CASE CheckAp
  BY <1>5 DEF CheckAp
<1>6. CASE SemInit
  BY <1>6 DEF SemInit
<1> QED
  BY <1>1, <1>2, <1>3, <1>4, <1>5, <1>6 DEF BootNext

LEMMA ServeToken == TokenInv /\ ServeNext => TokenInv'
<1> SUFFICES ASSUME TokenInv, ServeNext PROVE TokenInv'
  OBVIOUS
<1> USE CallAssumption
    DEF TokenInv, TypeOK, DeviceType, ServerType, LinkType, OneCall, CallKnown,
        LaunchedOnce, Serving, Serves
<1>1. CASE Launch
  BY <1>1 DEF Launch
<1>2. CASE Take
  <2>1. DeviceType'
    BY <1>2 DEF Take
  <2>2. ServerType'
    BY <1>2 DEF Take
  <2>3. LinkType'
    BY <1>2 DEF Take
  <2>4. OneCall' /\ CallKnown' /\ LaunchedOnce'
    BY <1>2 DEF Take
  <2> QED
    BY <2>1, <2>2, <2>3, <2>4
<1>3. CASE CheckTamper
  <2>1. DeviceType'
    BY <1>3 DEF CheckTamper
  <2>2. ServerType'
    <3>1. CASE isTamperDetected
      BY <1>3, <3>1 DEF CheckTamper
    <3>2. CASE ~isTamperDetected
      BY <1>3, <3>2 DEF CheckTamper
    <3> QED
      BY <3>1, <3>2
  <2>3. LinkType'
    BY <1>3 DEF CheckTamper
  <2>4. OneCall' /\ CallKnown' /\ LaunchedOnce'
    BY <1>3 DEF CheckTamper
  <2> QED
    BY <2>1, <2>2, <2>3, <2>4
<1>4. CASE Call
  <2>1. DeviceType'
    BY <1>4 DEF Call
  <2>2. ServerType'
    BY <1>4 DEF Call
  <2>3. LinkType'
    BY <1>4 DEF Call
  <2>4. OneCall' /\ CallKnown' /\ LaunchedOnce'
    BY <1>4 DEF Call
  <2> QED
    BY <2>1, <2>2, <2>3, <2>4
<1>5. CASE Load
  BY <1>5 DEF Load, Stored
<1>6. CASE Store
  BY <1>6 DEF Store, Stored
<1>7. CASE PutReturn
  BY <1>7 DEF PutReturn
<1>8. CASE PostB
  BY <1>8 DEF PostB
<1> QED
  BY <1>1, <1>2, <1>3, <1>4, <1>5, <1>6, <1>7, <1>8 DEF ServeNext

(* A step of the removal keeps the disk typed. *)
LEMMA EraseDisk ==
  ASSUME disk \in Disks, NEW from, NEW to, Erase(from, to)
  PROVE  disk' \in Disks
BY DEF Erase

LEMMA EraseToken == TokenInv /\ (MainErase \/ TamperNext) => TokenInv'
<1> SUFFICES ASSUME TokenInv, MainErase \/ TamperNext PROVE TokenInv'
  OBVIOUS
<1> USE CallAssumption
    DEF TokenInv, TypeOK, DeviceType, ServerType, LinkType, OneCall, CallKnown,
        LaunchedOnce, Serving, Serves
<1>1. CASE KillSp(main.pc) \/ KillSp(tamper)
  <2>1. DeviceType'
    BY <1>1 DEF KillSp
  <2>2. ServerType'
    BY <1>1 DEF KillSp
  <2>3. LinkType'
    <3>1. client' \in Clients
      <4>1. client' \in {client, ClientAt("gone")}
        BY <1>1 DEF KillSp
      <4>2. client \in Clients /\ ClientAt("gone") \in Clients
        OBVIOUS
      <4> QED
        BY <4>1, <4>2
    <3>2. semA' \in 0 .. 1 /\ semB' \in 0 .. 1
      BY <1>1 DEF KillSp
    <3>3. shm' \in Buffers
      BY <1>1 DEF KillSp
    <3> QED
      BY <3>1, <3>2, <3>3
  <2>4. OneCall' /\ CallKnown' /\ LaunchedOnce'
    BY <1>1 DEF KillSp
  <2> QED
    BY <2>1, <2>2, <2>3, <2>4
<1>2. ASSUME NEW to \in ErasePcs, Erase(main.pc, to), MainGoto(to),
             UNCHANGED <<snvs, cuts, tamper, flags, links>>
      PROVE  TokenInv'
  <2>1. DeviceType'
    <3>1. disk' \in Disks
      BY <1>2, EraseDisk
    <3> QED
      BY <1>2, <3>1
  <2>2. ServerType'
    BY <1>2 DEF Erase
  <2>3. LinkType'
    BY <1>2 DEF Erase
  <2>4. OneCall' /\ CallKnown' /\ LaunchedOnce'
    BY <1>2 DEF Erase
  <2> QED
    BY <2>1, <2>2, <2>3, <2>4
<1>3. ASSUME NEW to \in ErasePcs, Erase(tamper, to), tamper' = to,
             UNCHANGED <<snvs, cuts, main, flags, links>>
      PROVE  TokenInv'
  <2>1. DeviceType'
    <3>1. disk' \in Disks
      BY <1>3, EraseDisk
    <3> QED
      BY <1>3, <3>1
  <2>2. ServerType'
    BY <1>3 DEF Erase
  <2>3. LinkType'
    <3>1. client' \in Clients
      <4>1. client' \in {client, ClientAt("gone")}
        BY <1>3 DEF Erase
      <4>2. client \in Clients /\ ClientAt("gone") \in Clients
        OBVIOUS
      <4> QED
        BY <4>1, <4>2
    <3>2. semA' \in 0 .. 1 /\ semB' \in 0 .. 1
      BY <1>3 DEF Erase
    <3>3. shm' \in Buffers
      BY <1>3 DEF Erase
    <3> QED
      BY <3>1, <3>2, <3>3
  <2>4. OneCall' /\ CallKnown' /\ LaunchedOnce'
    BY <1>3 DEF Erase
  <2> QED
    BY <2>1, <2>2, <2>3, <2>4
<1>4. CASE Detect
  BY <1>4 DEF Detect
<1> QED
  BY <1>1, <1>2, <1>3, <1>4 DEF MainErase, TamperNext, TamperErase

LEMMA ClientToken == TokenInv /\ ClientNext => TokenInv'
<1> SUFFICES ASSUME TokenInv, ClientNext PROVE TokenInv'
  OBVIOUS
<1> USE CallAssumption
    DEF TokenInv, TypeOK, DeviceType, ServerType, LinkType, OneCall, CallKnown,
        LaunchedOnce, Serving, Serves
<1>1. CASE Exec
  BY <1>1 DEF Exec
<1>2. CASE PostA
  <2>1. DeviceType'
    BY <1>2 DEF PostA
  <2>2. ServerType'
    BY <1>2 DEF PostA
  <2>3. LinkType'
    <3>1. client' \in Clients
      BY <1>2 DEF PostA
    <3>2. semA' \in 0 .. 1 /\ semB' \in 0 .. 1
      BY <1>2 DEF PostA
    <3>3. shm' \in Buffers
      BY <1>2 DEF PostA
    <3> QED
      BY <3>1, <3>2, <3>3
  <2>4. OneCall' /\ CallKnown' /\ LaunchedOnce'
    BY <1>2 DEF PostA
  <2> QED
    BY <2>1, <2>2, <2>3, <2>4
<1>3. CASE WaitB
  <2>1. DeviceType'
    BY <1>3 DEF WaitB
  <2>2. ServerType'
    BY <1>3 DEF WaitB
  <2>3. LinkType'
    <3>1. client' \in Clients
      BY <1>3 DEF WaitB
    <3>2. semA' \in 0 .. 1 /\ semB' \in 0 .. 1
      BY <1>3 DEF WaitB
    <3>3. shm' \in Buffers
      BY <1>3 DEF WaitB
    <3> QED
      BY <3>1, <3>2, <3>3
  <2>4. OneCall' /\ CallKnown' /\ LaunchedOnce'
    BY <1>3 DEF WaitB
  <2> QED
    BY <2>1, <2>2, <2>3, <2>4
<1>4. CASE Exit
  BY <1>4 DEF Exit
<1>5. ASSUME NEW c \in Calls, Fill(c) PROVE TokenInv'
  BY <1>5 DEF Fill
<1> QED
  BY <1>1, <1>2, <1>3, <1>4, <1>5 DEF ClientNext

LEMMA DeviceToken ==
  TokenInv /\ (DssNext \/ TamperEvent \/ PowerCycle \/ UNCHANGED vars) => TokenInv'
<1> SUFFICES ASSUME TokenInv, DssNext \/ TamperEvent \/ PowerCycle \/ UNCHANGED vars
             PROVE  TokenInv'
  OBVIOUS
<1> USE CallAssumption, BoundAssumption
    DEF TokenInv, TypeOK, DeviceType, ServerType, LinkType, OneCall, CallKnown,
        LaunchedOnce, Serving, Serves
<1>1. CASE Download
  BY <1>1 DEF Download
<1>2. CASE ManageKeys
  BY <1>2 DEF ManageKeys
<1>3. CASE TamperEvent
  <2>1. DeviceType'
    <3>1. snvs' \in Registers
      <4>1. PICK mark \in {snvs.mark, FALSE} :
               snvs' = [tampered |-> TRUE, srtc |-> FALSE, mark |-> mark]
        BY <1>3, Zenon DEF TamperEvent
      <4>2. mark \in BOOLEAN
        BY <4>1
      <4> QED
        BY <4>1, <4>2
    <3>2. UNCHANGED <<disk, cuts>>
      BY <1>3 DEF TamperEvent
    <3> QED
      BY <3>1, <3>2
  <2>2. ServerType'
    BY <1>3 DEF TamperEvent
  <2>3. LinkType'
    BY <1>3 DEF TamperEvent
  <2>4. OneCall' /\ CallKnown' /\ LaunchedOnce'
    BY <1>3 DEF TamperEvent
  <2> QED
    BY <2>1, <2>2, <2>3, <2>4
<1>4. CASE PowerCycle
  <2>1. DeviceType'
    BY <1>4 DEF PowerCycle
  <2>2. ServerType'
    BY <1>4 DEF PowerCycle
  <2>3. LinkType'
    BY <1>4 DEF PowerCycle
  <2>4. OneCall' /\ CallKnown' /\ LaunchedOnce'
    BY <1>4 DEF PowerCycle
  <2> QED
    BY <2>1, <2>2, <2>3, <2>4
<1>5. CASE UNCHANGED vars
  BY <1>5 DEF vars
<1> QED
  BY <1>1, <1>2, <1>3, <1>4, <1>5 DEF DssNext

LEMMA TokenCorrect == Spec => []TokenInv
<1>1. TokenInv /\ [Next]_vars => TokenInv'
  BY BootToken, ServeToken, EraseToken, ClientToken, DeviceToken
  DEF Next, MainNext
<1> QED
  BY InitToken, <1>1, PTL DEF Spec

(* Every variable of the server keeps its type; in particular neither      *)
(* semaphore ever counts beyond one.                                       *)
THEOREM TypeCorrect == Spec => []TypeOK
<1>1. TokenInv => TypeOK
  BY DEF TokenInv
<1> QED
  BY TokenCorrect, <1>1, PTL

(* The two semaphores and the serve loop pass a single token.              *)
THEOREM OneCallCorrect == Spec => []OneCall
<1>1. TokenInv => OneCall
  BY DEF TokenInv
<1> QED
  BY TokenCorrect, <1>1, PTL

-----------------------------------------------------------------------------
(* A late call is in the hands of a waiting AP, beside a detected tamper.  *)
Late ==
  /\ RefusedAfterTamper
  /\ client.late => isTamperDetected /\ client.pc = "waiting"

LEMMA LateStep == TokenInv /\ Late /\ [Next]_vars => Late'
<1> SUFFICES ASSUME TokenInv, Late, [Next]_vars PROVE Late'
  OBVIOUS
<1> USE DEF Late, RefusedAfterTamper, TokenInv, TypeOK, ServerType, LinkType,
            OneCall, Serving
<1>1. CASE BootNext \/ DssNext \/ TamperEvent \/ UNCHANGED vars
  BY <1>1 DEF BootNext, Boot, CheckSrtc, StartPolling, CheckDevice, CheckAp, SemInit,
              DssNext, Download, ManageKeys, TamperEvent, vars, CallKnown
<1>2. CASE Launch \/ Take \/ Load \/ Store \/ PutReturn \/ PostB
  <2>1. CASE Launch
    BY <2>1 DEF Launch
  <2>2. CASE Take
    <3>1. main'.pc = "check" /\ UNCHANGED <<client, flags>>
      BY <2>2 DEF Take, Mains
    <3> QED
      BY <3>1 DEF flags
  <2>3. CASE Load \/ Store
    <3>1. /\ main'.pc \in {"dss", "ret", "store"} /\ main'.call = main.call
          /\ UNCHANGED <<client, flags>>
      BY <2>3 DEF Load, Store, Stored, MainGoto, Mains
    <3>2. main.call # "none" => main.pc \in {"load", "store"}
      BY <2>3 DEF Load, Store
    <3> QED
      BY <3>1, <3>2 DEF flags, ServePcs
  <2>4. CASE PutReturn \/ PostB
    <3>1. main'.pc \in {"post", "try"} /\ UNCHANGED <<client, flags>>
      BY <2>4 DEF PutReturn, PostB, MainGoto, MainAt, Mains
    <3> QED
      BY <3>1 DEF flags
  <2> QED
    BY <1>2, <2>1, <2>2, <2>3, <2>4
<1>3. CASE CheckTamper \/ Call
  <2>1. CASE CheckTamper
    BY <2>1 DEF CheckTamper
  <2>2. CASE Call
    BY <2>2 DEF Call
  <2> QED
    BY <1>3, <2>1, <2>2
<1>4. CASE MainErase
  <2>1. CASE KillSp(main.pc)
    BY <1>4, <2>1 DEF KillSp
  <2>2. ASSUME NEW to \in ErasePcs, Erase(main.pc, to), MainGoto(to), UNCHANGED flags
        PROVE  Late'
    BY <2>2 DEF Erase
  <2> QED
    BY <1>4, <2>1, <2>2 DEF MainErase
<1>5. CASE TamperNext
  <2>1. CASE Detect
    BY <2>1 DEF Detect
  <2>2. CASE KillSp(tamper)
    BY <2>2 DEF KillSp
  <2>3. ASSUME NEW to \in ErasePcs, Erase(tamper, to), UNCHANGED <<main, flags>>
        PROVE  Late'
    BY <2>3 DEF Erase
  <2> QED
    BY <1>5, <2>1, <2>2, <2>3 DEF TamperNext, TamperErase
<1>6. CASE ClientNext
  <2>1. CASE Exec \/ Exit
    BY <2>1 DEF Exec, Exit
  <2>2. ASSUME NEW c \in Calls, Fill(c) PROVE Late'
    BY <2>2 DEF Fill, Clients
  <2>3. CASE PostA
    <3>1. client.pc = "filled" /\ ~Serving
      BY <2>3 DEF PostA
    <3>2. UNCHANGED <<main, flags>>
      BY <2>3 DEF PostA
    <3>3. client'.pc = "waiting" /\ client'.late = isTamperDetected
      BY <2>3 DEF PostA, Clients
    <3>4. isTamperDetected' = isTamperDetected /\ ~Serving'
      BY <3>1, <3>2 DEF flags
    <3>5. RefusedAfterTamper'
      BY <3>4
    <3>6. client'.late => isTamperDetected'
      BY <3>3, <3>4
    <3> QED
      BY <3>3, <3>5, <3>6
  <2>4. CASE WaitB
    <3>1. client'.late = FALSE
      BY <2>4 DEF WaitB, Clients
    <3> QED
      BY <3>1
  <2> QED
    BY <1>6, <2>1, <2>2, <2>3, <2>4 DEF ClientNext
<1>7. CASE PowerCycle
  BY <1>7 DEF PowerCycle
<1> QED
  BY <1>1, <1>2, <1>3, <1>4, <1>5, <1>6, <1>7 DEF Next, MainNext, ServeNext

(* No call that was posted after the tamper was detected is run, for all   *)
(* calls and however the two threads and the AP interleave.                *)
THEOREM RefusalCorrect == Spec => []RefusedAfterTamper
<1>1. Init => Late
  BY DEF Init, Late, RefusedAfterTamper, Serving
<1>2. Late => RefusedAfterTamper
  BY DEF Late
<1> QED
  BY TokenCorrect, LateStep, <1>1, <1>2, PTL DEF Spec

-----------------------------------------------------------------------------
(* What each check of the boot has established, from there on.             *)
Verified ==
  /\ main.pc \in {"sp_init", "key", "ap", "sem"} \/ Serves \/ client.pc # "none" =>
       snvs.mark \/ snvs.tampered
  /\ main.pc \in {"key", "ap", "sem"} \/ Serves \/ client.pc # "none" => ~disk.spInit
  /\ main.pc = "sem" \/ Serves \/ client.pc # "none" => disk.ap \in {"none", "signed"}

LEMMA VerifiedStep == TokenInv /\ Verified /\ [Next]_vars => Verified'
<1> SUFFICES ASSUME TokenInv, Verified, [Next]_vars PROVE Verified'
  OBVIOUS
<1> USE DEF Verified, TokenInv, TypeOK, DeviceType, ServerType, LinkType,
            CallKnown, LaunchedOnce, Serves, Serving
<1>1. CASE BootNext
  <2>1. CASE Boot \/ CheckSrtc \/ StartPolling
    BY <2>1 DEF Boot, CheckSrtc, StartPolling
  <2>2. CASE CheckDevice
    BY <2>2 DEF CheckDevice
  <2>3. CASE CheckAp \/ SemInit
    BY <2>3 DEF CheckAp, SemInit
  <2> QED
    BY <1>1, <2>1, <2>2, <2>3 DEF BootNext
<1>2. CASE ServeNext
  <2>1. CASE Launch \/ Take \/ CheckTamper \/ Call
    BY <2>1 DEF Launch, Take, CheckTamper, Call
  <2>2. CASE Load \/ Store
    BY <2>2 DEF Load, Store, Stored
  <2>3. CASE PutReturn \/ PostB
    BY <2>3 DEF PutReturn, PostB
  <2> QED
    BY <1>2, <2>1, <2>2, <2>3 DEF ServeNext
<1>3. CASE MainErase
  <2>1. CASE KillSp(main.pc)
    BY <2>1 DEF KillSp
  <2>2. ASSUME NEW to \in ErasePcs, Erase(main.pc, to), MainGoto(to), UNCHANGED snvs
        PROVE  Verified'
    BY <2>2 DEF Erase
  <2> QED
    BY <1>3, <2>1, <2>2 DEF MainErase
<1>4. CASE TamperNext
  <2>1. CASE Detect
    BY <2>1 DEF Detect
  <2>2. CASE KillSp(tamper)
    BY <2>2 DEF KillSp
  <2>3. ASSUME NEW to \in ErasePcs, Erase(tamper, to), UNCHANGED <<snvs, main>>
        PROVE  Verified'
    BY <2>3 DEF Erase
  <2> QED
    BY <1>4, <2>1, <2>2, <2>3 DEF TamperNext, TamperErase
<1>5. CASE DssNext
  BY <1>5 DEF DssNext, Download, ManageKeys
<1>6. CASE ClientNext
  BY <1>6 DEF ClientNext, Exec, Fill, PostA, WaitB, Exit
<1>7. CASE TamperEvent
  BY <1>7 DEF TamperEvent
<1>8. CASE PowerCycle
  BY <1>8 DEF PowerCycle
<1>9. CASE UNCHANGED vars
  BY <1>9 DEF vars
<1> QED
  BY <1>1, <1>2, <1>3, <1>4, <1>5, <1>6, <1>7, <1>8, <1>9 DEF Next, MainNext

(* An AP that runs was verified, whatever the operator downloads and       *)
(* however often the power is cut.                                         *)
THEOREM VerificationCorrect == Spec => []VerifiedOnly
<1>1. Init => Verified
  BY DEF Init, Verified, Serves, Serving
<1>2. Verified => VerifiedOnly
  BY DEF Verified, VerifiedOnly
<1> QED
  BY TokenCorrect, VerifiedStep, <1>1, <1>2, PTL DEF Spec

-----------------------------------------------------------------------------
(* Where nobody stores keys or downloads an AP, what a removal step has    *)
(* removed stays removed until the SP is killed.                           *)
Wiped(pc) ==
  /\ pc \in {"rm_files", "rm_dir", "kill_sp", "dead"} => disk.ap = "none"
  /\ pc \in {"rm_dir", "kill_sp", "dead"} => disk.files # "keys"

Clean ==
  /\ Wiped(main.pc) /\ Wiped(tamper)
  /\ main.pc \notin {"burn", "load", "store"}
  /\ tamper # "off" => main.pc \notin {"boot", "srtc", "poll"} \cup ErasePcs

LEMMA CleanStep ==
  ASSUME Puts = {}, Menu = {}, TokenInv, Clean, [Next]_vars
  PROVE  Clean'
<1> USE DEF TokenInv, TypeOK, DeviceType, ServerType, Clean, Wiped
<1>1. CASE BootNext
  <2>1. CASE Boot
    BY <2>1 DEF Boot
  <2>2. CASE CheckSrtc \/ StartPolling \/ SemInit
    BY <2>2 DEF CheckSrtc, StartPolling, SemInit
  <2>3. CASE CheckDevice
    BY <2>3 DEF CheckDevice
  <2>4. CASE CheckAp
    BY <2>4 DEF CheckAp
  <2> QED
    BY <1>1, <2>1, <2>2, <2>3, <2>4 DEF BootNext
<1>2. CASE ServeNext
  <2>1. CASE Launch
    BY <2>1 DEF Launch
  <2>6. CASE Take
    BY <2>6 DEF Take
  <2>2. CASE CheckTamper
    BY <2>2 DEF CheckTamper
  <2>5. CASE Call
    BY <2>5 DEF Call
  <2>3. CASE Load \/ Store
    BY <2>3 DEF Load, Store
  <2>4. CASE PutReturn \/ PostB
    BY <2>4 DEF PutReturn, PostB
  <2> QED
    BY <1>2, <2>1, <2>2, <2>3, <2>4, <2>5, <2>6 DEF ServeNext
<1>3. CASE MainErase
  <2>1. CASE KillSp(main.pc)
    BY <2>1 DEF KillSp
  <2>2. ASSUME NEW to \in ErasePcs, Erase(main.pc, to), MainGoto(to), UNCHANGED tamper
        PROVE  Clean'
    BY <2>2 DEF Erase
  <2> QED
    BY <1>3, <2>1, <2>2 DEF MainErase
<1>4. CASE TamperNext
  <2>1. CASE Detect
    BY <2>1 DEF Detect
  <2>2. CASE KillSp(tamper)
    BY <2>2 DEF KillSp
  <2>3. ASSUME NEW to \in ErasePcs, Erase(tamper, to), tamper' = to, UNCHANGED main
        PROVE  Clean'
    BY <2>3 DEF Erase
  <2> QED
    BY <1>4, <2>1, <2>2, <2>3 DEF TamperNext, TamperErase
<1>5. CASE ClientNext
  BY <1>5 DEF ClientNext, Exec, PostA, WaitB, Exit, Fill
<1>6. CASE PowerCycle
  BY <1>6 DEF PowerCycle
<1>7. CASE DssNext \/ TamperEvent \/ UNCHANGED vars
  BY <1>7 DEF DssNext, Download, ManageKeys, TamperEvent, vars
<1> QED
  BY <1>1, <1>2, <1>3, <1>4, <1>5, <1>6, <1>7 DEF Next, MainNext

(* Where no call and no operator stores anything, a tamper response that   *)
(* has run to its end leaves no AP and no key behind.                      *)
THEOREM StoppedCleanCorrect ==
  ASSUME Puts = {}, Menu = {}
  PROVE  Spec => []StoppedClean
<1>1. Init => Clean
  BY DEF Init, Clean, Wiped
<1>2. Clean => StoppedClean
  BY DEF Clean, Wiped, StoppedClean
<1>3. TokenInv /\ Clean /\ [Next]_vars => Clean'
  BY CleanStep
<1> QED
  BY TokenCorrect, <1>1, <1>2, <1>3, PTL DEF Spec

-----------------------------------------------------------------------------
(* A waiting AP's own call is the one that is posted or served. *)
Own ==
  /\ client.pc = "waiting" /\ semA > 0 => shm.call = client.call
  /\ client.pc = "waiting" /\ Serving => main.call = client.call
  /\ client.pc # "waiting" => client.call = "none"
  /\ client.pc \notin Running => client.got = "none"

LEMMA OwnStep == TokenInv /\ Own /\ [Next]_vars => Own'
<1> SUFFICES ASSUME TokenInv, Own, [Next]_vars PROVE Own'
  OBVIOUS
<1> USE DEF Own, TokenInv, TypeOK, DeviceType, ServerType, LinkType, OneCall,
            CallKnown, LaunchedOnce, Serves, Serving
<1>1. CASE BootNext \/ DssNext
  <2>1. client.pc = "none"
    BY <1>1 DEF BootNext, Boot, CheckSrtc, StartPolling, CheckDevice, CheckAp, SemInit,
                DssNext, Download, ManageKeys
  <2>2. client' = client
    BY <1>1 DEF BootNext, Boot, CheckSrtc, StartPolling, CheckDevice, CheckAp, SemInit,
                DssNext, Download, ManageKeys
  <2> QED
    BY <2>1, <2>2
<1>2. CASE ServeNext
  <2>1. CASE Launch
    BY <2>1 DEF Launch
  <2>2. CASE Take
    BY <2>2 DEF Take
  <2>3. CASE CheckTamper
    BY <2>3 DEF CheckTamper
  <2>4. CASE Call
    BY <2>4 DEF Call
  <2>5. CASE Load
    BY <2>5 DEF Load, Stored
  <2>6. CASE Store
    BY <2>6 DEF Store, Stored
  <2>7. CASE PutReturn
    BY <2>7 DEF PutReturn
  <2>8. CASE PostB
    BY <2>8 DEF PostB
  <2> QED
    BY <1>2, <2>1, <2>2, <2>3, <2>4, <2>5, <2>6, <2>7, <2>8 DEF ServeNext
<1>3. CASE MainErase
  <2>1. CASE KillSp(main.pc)
    BY <2>1 DEF KillSp
  <2>2. ASSUME NEW to \in ErasePcs, Erase(main.pc, to), MainGoto(to), UNCHANGED links
        PROVE  Own'
    BY <2>2 DEF Erase
  <2> QED
    BY <1>3, <2>1, <2>2 DEF MainErase
<1>4. CASE TamperNext
  <2>1. CASE Detect
    BY <2>1 DEF Detect
  <2>2. CASE KillSp(tamper)
    BY <2>2 DEF KillSp
  <2>3. ASSUME NEW to \in ErasePcs, Erase(tamper, to), UNCHANGED <<main, links>>
        PROVE  Own'
    BY <2>3 DEF Erase
  <2> QED
    BY <1>4, <2>1, <2>2, <2>3 DEF TamperNext, TamperErase
<1>5. CASE ClientNext
  <2>1. CASE Exec \/ Exit
    BY <2>1 DEF Exec, Exit
  <2>2. ASSUME NEW c \in Calls, Fill(c) PROVE Own'
    BY <2>2 DEF Fill
  <2>3. CASE PostA
    BY <2>3 DEF PostA
  <2>4. CASE WaitB
    BY <2>4 DEF WaitB
  <2> QED
    BY <1>5, <2>1, <2>2, <2>3, <2>4 DEF ClientNext
<1>6. CASE PowerCycle
  BY <1>6 DEF PowerCycle
<1>7. CASE TamperEvent \/ UNCHANGED vars
  BY <1>7 DEF TamperEvent, vars
<1> QED
  BY <1>1, <1>2, <1>3, <1>4, <1>5, <1>6, <1>7 DEF Next, MainNext

(* The values of ApiPhase and ApiReply, state by state. *)
Asks == semA > 0 \/ main.pc \in {"check", "call"}
Answers == semB > 0 \/ ServedPc

Table ==
  /\ client.pc \notin Running => ApiPhase = "off" /\ ApiReply = "none"
  /\ client.pc \in {"idle", "filled"} => ApiPhase = "idle" /\ ApiReply = "none"
  /\ client.pc = "waiting" /\ Asks => ApiPhase = "asked" /\ ApiReply = "none"
  /\ client.pc = "waiting" /\ Serving /\ main.pc \in {"load", "store", "ret"} =>
       ApiPhase = "served" /\ ApiReply = main.ret
  /\ client.pc = "waiting" /\ (semB > 0 \/ (Serving /\ main.pc = "post")) =>
       ApiPhase = "served" /\ ApiReply = shm.ret
  /\ client.pc = "waiting" /\ ~Asks /\ ~Answers =>
       ApiPhase = "lost" /\ ApiReply = "none"

LEMMA Phases == TokenInv => Table
<1> SUFFICES ASSUME TokenInv PROVE Table
  OBVIOUS
<1> USE DEF Table, ApiPhase, ApiReply, Asks, Answers, ServedPc, Serving
<1>1. CASE client.pc \notin Running
  BY <1>1
<1>2. CASE client.pc \in {"idle", "filled"}
  BY <1>2
<1>3. CASE client.pc = "waiting"
  <2>1. ~(Asks /\ Answers)
    BY DEF TokenInv, TypeOK, LinkType, OneCall, CallKnown
  <2>2. CASE Asks
    <3>1. ApiPhase = "asked"
      BY <1>3, <2>1, <2>2 DEF Asks, Answers
    <3> QED
      BY <1>3, <2>1, <2>2, <3>1
  <2>3. CASE Answers
    <3>1. ApiPhase = "served"
      BY <1>3, <2>1, <2>3
    <3>2. semB > 0 => main.pc \notin {"load", "store", "ret"}
      BY <1>3 DEF TokenInv, OneCall, LaunchedOnce, Serves, TypeOK, LinkType
    <3> QED
      BY <1>3, <2>1, <2>3, <3>1, <3>2
  <2>4. CASE ~Asks /\ ~Answers
    <3>1. ApiPhase = "lost"
      BY <1>3, <2>4
    <3> QED
      BY <1>3, <2>4, <3>1
  <2> QED
    BY <1>3, <2>2, <2>3, <2>4
<1> QED
  BY <1>1, <1>2, <1>3 DEF TokenInv, TypeOK, LinkType

Known == TokenInv /\ Own /\ Table

LEMMA KillSpClient ==
  ASSUME NEW pc, KillSp(pc)
  PROVE  client' # client => client.pc = "forked" /\ client' = ClientAt("gone")
BY DEF KillSp

LEMMA WaitBClient ==
  ASSUME client \in Clients, WaitB
  PROVE  client'.pc = "idle" /\ client'.call = "none" /\ client'.got = shm.ret
BY DEF WaitB

(* A step that leaves the two processes and their links alone is none of   *)
(* ApiCall's.                                                              *)
LEMMA Stutters ==
  ASSUME UNCHANGED <<main, client, semA, semB, shm>>
  PROVE  UNCHANGED Api!vars
BY DEF Api!vars, ApiPhase, ApiReply, ServedPc, Serving

(* Every step of the server is a step of ApiCall or none. *)
LEMMA SimulationStep ==
  ASSUME Known, Known', [Next]_vars
  PROVE  [Api!Next]_(Api!vars)
<1> USE DEF Known, Table, Own, TokenInv, TypeOK, DeviceType, ServerType, LinkType,
            OneCall, CallKnown, LaunchedOnce, Serves, Serving, ServedPc, Asks, Answers
<1> DEFINE Same == UNCHANGED <<ApiPhase, client.call, ApiReply, client.got>>
<1>0. Same => UNCHANGED Api!vars
  BY DEF Api!vars
<1>1. CASE BootNext \/ DssNext
  <2>1. client.pc = "none" /\ client' = client
    BY <1>1 DEF BootNext, Boot, CheckSrtc, StartPolling, CheckDevice, CheckAp, SemInit,
                DssNext, Download, ManageKeys
  <2>2. Same
    BY <2>1
  <2> QED
    BY <1>0, <2>2
<1>2. CASE ServeNext
  <2>1. CASE Launch
    <3>1. client.pc = "none" /\ client'.pc = "forked"
      BY <2>1 DEF Launch
    <3>2. Same
      BY <3>1
    <3> QED
      BY <1>0, <3>2
  <2>2. CASE Take
    <3>1. Same
      BY <2>2 DEF Take
    <3> QED
      BY <1>0, <3>1
  <2>3. CASE CheckTamper
    <3>1. CASE client.pc = "waiting" /\ isTamperDetected
      <4>1. ApiPhase = "asked" /\ ApiPhase' = "served" /\ ApiReply' = "failed"
        BY <2>3, <3>1 DEF CheckTamper
      <4>2. client' = client
        BY <2>3 DEF CheckTamper
      <4>3. Api!Serve("failed")
        BY <4>1, <4>2 DEF Api!Serve
      <4> QED
        BY <4>3 DEF Api!Next
    <3>2. CASE ~(client.pc = "waiting" /\ isTamperDetected)
      <4>1. Same
        BY <2>3, <3>2 DEF CheckTamper
      <4> QED
        BY <1>0, <4>1
    <3> QED
      BY <3>1, <3>2
  <2>4. CASE Call
    <3>1. CASE client.pc = "waiting"
      <4>1. ApiPhase = "asked" /\ ApiPhase' = "served" /\ ApiReply' = client.call
        BY <2>4, <3>1 DEF Call
      <4>2. client' = client
        BY <2>4 DEF Call
      <4>3. Api!Serve(client.call)
        BY <4>1, <4>2 DEF Api!Serve
      <4> QED
        BY <4>3 DEF Api!Next
    <3>2. CASE client.pc # "waiting"
      <4>1. Same
        BY <2>4, <3>2 DEF Call
      <4> QED
        BY <1>0, <4>1
    <3> QED
      BY <3>1, <3>2
  <2>5. CASE Load
    <3>1. Same
      BY <2>5 DEF Load, Stored
    <3> QED
      BY <1>0, <3>1
  <2>6. CASE Store
    <3>1. Same
      BY <2>6 DEF Store, Stored
    <3> QED
      BY <1>0, <3>1
  <2>7. CASE PutReturn
    <3>1. Same
      BY <2>7 DEF PutReturn
    <3> QED
      BY <1>0, <3>1
  <2>8. CASE PostB
    <3>1. client' = client
      BY <2>8 DEF PostB
    <3>2. ApiPhase' = ApiPhase /\ ApiReply' = ApiReply
      <4>1. CASE client.pc = "waiting"
        <5>1. semB' > 0 /\ shm' = shm
          BY <2>8 DEF PostB
        <5>2. ApiPhase = "served" /\ ApiReply = shm.ret
          BY <2>8, <4>1 DEF PostB
        <5>3. ApiPhase' = "served" /\ ApiReply' = shm'.ret
          BY <3>1, <4>1, <5>1
        <5> QED
          BY <5>1, <5>2, <5>3
      <4>2. CASE client.pc \notin Running
        BY <3>1, <4>2
      <4> QED
        BY <2>8, <4>1, <4>2 DEF PostB
    <3> QED
      BY <1>0, <3>1, <3>2
  <2> QED
    BY <1>2, <2>1, <2>2, <2>3, <2>4, <2>5, <2>6, <2>7, <2>8 DEF ServeNext
<1>3. ASSUME ApiPhase' = "off", client'.call = "none", client'.got = "none"
      PROVE  Api!Next
  <2>1. ApiReply' = "none"
    BY <1>3 DEF ApiReply
  <2> QED
    BY <1>3, <2>1 DEF Api!Next, Api!Stop, Api!Off
<1>4. ASSUME NEW pc, KillSp(pc) PROVE [Api!Next]_(Api!vars)
  <2>1. CASE client.pc = "waiting" /\ Serving
    <3>1. ApiPhase \in {"asked", "served"} /\ ApiPhase' = "lost" /\ ApiReply' = "none"
      BY <1>4, <2>1 DEF KillSp
    <3>2. client' = client
      BY <1>4, <2>1 DEF KillSp
    <3> QED
      BY <3>1, <3>2 DEF Api!Next, Api!Lose
  <2>2. CASE ~(client.pc = "waiting" /\ Serving)
    <3>1. UNCHANGED links /\ main' = MainAt("dead")
      BY <1>4 DEF KillSp
    <3>2. CASE client.pc = "waiting" /\ semA > 0
      <4>1. client' = client
        BY <1>4, <3>2 DEF KillSp
      <4> QED
        BY <1>0, <3>1, <3>2, <4>1
    <3>3. CASE client.pc = "waiting" /\ semB > 0
      <4>1. client' = client
        BY <1>4, <3>3 DEF KillSp
      <4>2. ApiPhase = "served" /\ ApiReply = shm.ret
        BY <3>3
      <4>3. client'.pc = "waiting" /\ semB' > 0 /\ shm' = shm /\ Table'
        BY <3>1, <3>3, <4>1
      <4>4. ApiPhase' = "served" /\ ApiReply' = shm'.ret
        BY <4>3
      <4> QED
        BY <1>0, <4>1, <4>2, <4>3, <4>4
    <3>4. CASE client.pc = "waiting" /\ semA = 0 /\ semB = 0
      <4>1. client' = client
        BY <1>4, <3>4 DEF KillSp
      <4> QED
        BY <1>0, <2>2, <3>1, <3>4, <4>1
    <3>5. CASE client.pc # "waiting"
      <4>1. client' # client => client.pc = "forked" /\ client' = ClientAt("gone")
        BY <1>4, KillSpClient
      <4> QED
        BY <1>0, <3>5, <4>1
    <3> QED
      BY <3>2, <3>3, <3>4, <3>5
  <2> QED
    BY <2>1, <2>2
<1>5. CASE MainErase
  <2>1. ASSUME NEW to \in ErasePcs, Erase(main.pc, to), MainGoto(to), UNCHANGED links
        PROVE  UNCHANGED Api!vars
    <3>1. client.pc = "none" /\ client' = client
      BY <2>1 DEF Erase
    <3>2. Same
      BY <3>1
    <3> QED
      BY <1>0, <3>2
  <2> QED
    BY <1>4, <1>5, <2>1 DEF MainErase
<1>6. CASE TamperNext
  <2>1. CASE Detect
    BY <2>1, Stutters DEF Detect
  <2>2. ASSUME NEW to \in ErasePcs, Erase(tamper, to), UNCHANGED <<main, links>>
        PROVE  [Api!Next]_(Api!vars)
    <3>1. client' = client \/ client' = ClientAt("gone")
      BY <2>2 DEF Erase
    <3>2. CASE client' = client
      BY <2>2, <3>2, Stutters
    <3>3. CASE client' = ClientAt("gone")
      BY <1>3, <3>3
    <3> QED
      BY <3>1, <3>2, <3>3
  <2> QED
    BY <1>4, <1>6, <2>1, <2>2 DEF TamperNext, TamperErase
<1>7. CASE ClientNext
  <2>1. CASE Exec
    <3>1. CASE disk.ap = "none"
      <4>1. Same
        BY <2>1, <3>1 DEF Exec
      <4> QED
        BY <1>0, <4>1
    <3>2. CASE disk.ap # "none"
      <4>1. ApiPhase = "off" /\ ApiPhase' = "idle" /\ ApiReply = "none" /\ ApiReply' = "none"
        BY <2>1, <3>2 DEF Exec
      <4>2. UNCHANGED <<client.call, client.got>>
        BY <2>1, <3>2 DEF Exec
      <4> QED
        BY <4>1, <4>2 DEF Api!Next, Api!Start
    <3> QED
      BY <3>1, <3>2
  <2>2. CASE Exit
    BY <1>3, <2>2 DEF Exit
  <2>3. ASSUME NEW c \in Calls, Fill(c) PROVE Same
    BY <2>3 DEF Fill
  <2>4. CASE PostA
    <3>1. ApiPhase = "idle" /\ ApiPhase' = "asked" /\ ApiReply = "none" /\ ApiReply' = "none"
      BY <2>4 DEF PostA
    <3>2. client'.call = shm.call /\ client'.got = client.got /\ shm.call \in Calls
      BY <2>4 DEF PostA
    <3>3. Api!Ask(shm.call)
      BY <3>1, <3>2 DEF Api!Ask
    <3> QED
      BY <3>2, <3>3 DEF Api!Next
  <2>5. CASE WaitB
    <3>1. ApiPhase = "served" /\ ApiReply = shm.ret
      BY <2>5 DEF WaitB
    <3>2. ApiPhase' = "idle" /\ ApiReply' = "none"
      BY <2>5, WaitBClient
    <3>3. client'.call = "none" /\ client'.got = shm.ret
      BY <2>5, WaitBClient
    <3> QED
      BY <3>1, <3>2, <3>3 DEF Api!Next, Api!Return
  <2> QED
    BY <1>0, <1>7, <2>1, <2>2, <2>3, <2>4, <2>5 DEF ClientNext
<1>8. CASE PowerCycle
  BY <1>3, <1>8 DEF PowerCycle
<1>9. CASE TamperEvent \/ UNCHANGED vars
  BY <1>9, Stutters DEF TamperEvent, vars
<1> QED
  BY <1>1, <1>2, <1>5, <1>6, <1>7, <1>8, <1>9 DEF Next, MainNext

(* The shared memory call implements its abstract promise: a call is       *)
(* served at most once, by running it or by refusing it, and the AP gets   *)
(* back the result of its own call.                                        *)
THEOREM ApiCorrect == Spec => ApiRefined
<1>1. Init => Own
  BY DEF Init, Own, Serving
<1>2. Init => Api!Init
  <2>1. Init => client = ClientAt("none")
    BY DEF Init
  <2>2. Init => Table
    BY InitToken, Phases
  <2> QED
    BY <2>1, <2>2 DEF Table, Api!Init, Api!Off
<1>3. Spec => []Known
  BY TokenCorrect, OwnStep, Phases, <1>1, PTL DEF Spec, Known
<1>4. Known /\ Known' /\ [Next]_vars => [Api!Next]_(Api!vars)
  BY SimulationStep
<1> QED
  BY <1>2, <1>3, <1>4, PTL DEF Spec, ApiRefined, Api!Spec

=============================================================================
