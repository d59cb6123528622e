---------------------------- MODULE SecureStore ----------------------------
(***************************************************************************)
(* The secure files of PEDK/OS_SECM.c, one file operation at a time, with  *)
(* a power cut between any two of them: they are made at boot, loaded,     *)
(* updated in place, and removed and made again when one of them does not  *)
(* decrypt.  dir and file are what the running system sees, diskDir and    *)
(* disk are what a power cut may leave of it: all that was there since the *)
(* last sync().  Only update_secure_file calls that; the fsync(fp) of      *)
(* init_secure_file takes a stream for a descriptor and does nothing.      *)
(***************************************************************************)
EXTENDS Naturals, FiniteSets

CONSTANTS
  Files,      \* fileInfo[]
  Keys,       \* contents an update stores
  MaxCuts,    \* bound on power cuts
  Faults      \* of FaultKinds, those that a device may have

ASSUME FileAssumption == IsFiniteSet(Files) /\ Files # {} /\ "none" \notin Files
ASSUME KeyAssumption == Keys \cap {"zero", "torn", "absent", "lost", "none"} = {}
FaultKinds == {"fail", "full", "slow"}
ASSUME FaultAssumption == MaxCuts \in Nat /\ Faults \subseteq FaultKinds

VARIABLES
  dir, file,          \* secure_directory as the system sees it
  diskDir, disk,      \* what a power cut may leave of it
  main,               \* the thread that runs OS_SECM
  rm,                 \* the process of popen("rm -r")
  ap,                 \* /home/AP/IPC_client
  cuts,
  faults              \* what goes wrong on this device, fixed from the start

vars == <<dir, file, diskDir, disk, main, rm, ap, cuts, faults>>
seen == <<dir, file>>
flash == <<diskDir, disk>>

MayFail == "fail" \in faults      \* the CAAM driver, an allocation, a call may fail
MayFill == "full" \in faults      \* a write may come up short, which goes unseen
SlowRm == "slow" \in faults       \* rm -r may outlast the wait of load_secure_file

NoFile == "none"
Readable == Keys \cup {"zero"}
Contents == Readable \cup {"torn", "absent"}
Pcs == {"boot", "create", "fill", "idle", "load", "open", "write", "sync",
        "wait", "init", "pclose", "kill", "rmap", "freed", "dead"}

\* pc: the next step; f: the file in hand; todo: the files still to do;
\* new: the file that is being made; v: what to store, or "none" to read;
\* wiping: in the error path of a load; ret: what the last update returned
Locals == [pc : Pcs, f : Files \cup {NoFile}, todo : SUBSET Files,
           new : Files \cup {NoFile}, v : Readable \cup {"none"},
           wiping : BOOLEAN, ret : BOOLEAN]

Idle == [pc |-> "idle", f |-> NoFile, todo |-> {}, new |-> NoFile, v |-> "none",
         wiping |-> FALSE, ret |-> TRUE]
Booting == [Idle EXCEPT !.pc = "boot"]

Init ==
  /\ dir = FALSE /\ diskDir = {FALSE}
  /\ file = [g \in Files |-> "absent"] /\ disk = [g \in Files |-> {"absent"}]
  /\ main = Booting
  /\ rm = FALSE
  /\ ap = "run"
  /\ cuts = 0
  /\ faults \in SUBSET Faults

----------------------------------------------------------------------------
Goto(pc) == main' = [main EXCEPT !.pc = pc]

\* What the system sees of g or of the directory is c. Whether a power cut
\* leaves c or what was there before is open until the next sync.
SetFile(g, c) ==
  /\ file' = [file EXCEPT ![g] = c]
  /\ disk' = [disk EXCEPT ![g] = @ \cup {c}]
SetDir(d) == dir' = d /\ diskDir' = diskDir \cup {d}

\* A file is finished with: the loop of ClearAllSecureFile takes the next one.
AfterFile(ok) ==
  LET rest == main.todo \ {main.f} IN
  IF rest = {} THEN main' = [Idle EXCEPT !.ret = ok]
  ELSE \E g \in rest : main' = [main EXCEPT !.pc = "load", !.f = g, !.todo = rest,
                                            !.wiping = FALSE, !.ret = ok]

\* init_secure_file is done, at boot or inside load_secure_file.
AfterInit == IF main.wiping THEN Goto("pclose") ELSE main' = Idle

InitSecureFile ==
  /\ main.pc \in {"boot", "init"}
  /\ \/ /\ dir
        /\ AfterInit
        /\ UNCHANGED dir
        /\ UNCHANGED diskDir
     \/ /\ ~dir
        /\ SetDir(TRUE)
        /\ Goto("create")
     \/ /\ ~dir /\ MayFail      \* mkdir fails
        /\ AfterInit
        /\ UNCHANGED <<dir, diskDir>>
  /\ UNCHANGED <<file, disk, rm, ap, cuts, faults>>

Missing == {g \in Files : file[g] = "absent"}

\* fopen(fileName, "w")
Create(g) ==
  /\ main.pc = "create" /\ g \in Missing
  /\ SetFile(g, "torn")
  /\ main' = [main EXCEPT !.pc = "fill", !.new = g]
  /\ UNCHANGED <<dir, diskDir, rm, ap, cuts, faults>>

\* fwrite never returns less than zero, so a short write passes. The fsync
\* fails unseen. On the last file the loop ends.
Fill ==
  /\ main.pc = "fill"
  /\ \/ SetFile(main.new, "zero")
     \/ MayFill /\ UNCHANGED <<file, disk>>
  /\ IF Missing = {} THEN AfterInit ELSE Goto("create")
  /\ UNCHANGED <<dir, diskDir, rm, ap, cuts, faults>>

\* An error return leaves the rest of the files missing. The clean-up of a
\* buffer with the size of another one may bring the process down.
CreateFails ==
  /\ MayFail /\ main.pc = "create"
  /\ AfterInit \/ Goto("dead")
  /\ UNCHANGED <<seen, flash, rm, ap, cuts, faults>>

----------------------------------------------------------------------------
\* Every reader and writer of a file starts with load_secure_file.
Access(g, v) ==
  /\ main.pc = "idle"
  /\ main' = [Idle EXCEPT !.pc = "load", !.f = g, !.todo = {g}, !.v = v]
  /\ UNCHANGED <<seen, flash, rm, ap, cuts, faults>>

GetData(g) == Access(g, "none")
PutData(g, v) == Access(g, v)
ClearData(g) == Access(g, "zero")

ClearAllSecureFile ==
  /\ main.pc = "idle"
  /\ \E g \in Files :
       main' = [Idle EXCEPT !.pc = "load", !.f = g, !.todo = Files, !.v = "zero"]
  /\ UNCHANGED <<seen, flash, rm, ap, cuts, faults>>

\* No file, or no driver: nothing is read, and nothing will be written. After
\* a failed allocation the clean-up writes through a null pointer.
LoadNull ==
  /\ main.pc = "load"
  /\ \/ file[main.f] = "absent" /\ AfterFile(main.ret)
     \/ MayFail /\ AfterFile(main.ret)
     \/ MayFail /\ Goto("dead")
  /\ UNCHANGED <<seen, flash, rm, ap, cuts, faults>>

\* Mutant of LoadData: OS_SECM_GetData goes on into the update.
LoadDataUpdates ==
  /\ main.pc = "load"
  /\ file[main.f] \in Readable
  /\ Goto("open")
  /\ UNCHANGED <<seen, flash, rm, ap, cuts, faults>>

LoadData ==
  /\ main.pc = "load"
  /\ file[main.f] \in Readable
  /\ IF main.v = "none" THEN AfterFile(main.ret) ELSE Goto("open")
  /\ UNCHANGED <<seen, flash, rm, ap, cuts, faults>>

\* Mutant of DecryptFails: what does not decrypt is taken for data.
DecryptFailsKept ==
  /\ main.pc = "load"
  /\ file[main.f] = "torn"
  /\ Goto("open")
  /\ UNCHANGED <<seen, flash, rm, ap, cuts, faults>>

\* The driver reports an error, whether the blob is at fault or not: the whole
\* directory goes.
DecryptFails ==
  /\ main.pc = "load"
  /\ \/ file[main.f] = "torn"
     \/ MayFail /\ file[main.f] # "absent"
  /\ rm' = TRUE
  /\ main' = [main EXCEPT !.pc = "wait", !.wiping = TRUE]
  /\ UNCHANGED <<seen, flash, ap, cuts, faults>>

\* Mutant of WaitTime: no wait.
WaitTimeNone ==
  /\ main.pc = "wait"
  /\ Goto("init")
  /\ UNCHANGED <<seen, flash, rm, ap, cuts, faults>>

\* LIB_WaitTime(50), meant to be long enough
WaitTime ==
  /\ main.pc = "wait"
  /\ ~rm \/ SlowRm
  /\ Goto("init")
  /\ UNCHANGED <<seen, flash, rm, ap, cuts, faults>>

\* Mutant of Pclose: it does not wait.
PcloseEarly ==
  /\ main.pc = "pclose"
  /\ Goto("kill")
  /\ UNCHANGED <<seen, flash, rm, ap, cuts, faults>>

\* pclose waits for the end of rm.
Pclose ==
  /\ main.pc = "pclose" /\ ~rm
  /\ Goto("kill")
  /\ UNCHANGED <<seen, flash, rm, ap, cuts, faults>>

KillAp ==
  /\ main.pc = "kill"
  /\ ap' = IF ap = "run" THEN "dead" ELSE ap
  /\ Goto("rmap")
  /\ UNCHANGED <<seen, flash, rm, cuts, faults>>

RmAp ==
  /\ main.pc = "rmap"
  /\ ap' = "gone"
  /\ Goto("freed")
  /\ UNCHANGED <<seen, flash, rm, cuts, faults>>

\* popen gives no stream, and pclose takes none.
PopenFails ==
  /\ MayFail /\ main.pc \in {"kill", "rmap"}
  /\ Goto("dead")
  /\ UNCHANGED <<seen, flash, rm, ap, cuts, faults>>

\* fclose of a stream that pclose has freed: the process may end there.
LoadFailed ==
  /\ main.pc = "freed"
  /\ AfterFile(main.ret) \/ Goto("dead")
  /\ UNCHANGED <<seen, flash, rm, ap, cuts, faults>>

----------------------------------------------------------------------------
\* One of the error paths returns no value.
UpdateFails ==
  /\ MayFail /\ main.pc = "open"
  /\ \E ok \in BOOLEAN : AfterFile(ok)
  /\ UNCHANGED <<seen, flash, rm, ap, cuts, faults>>

\* fopen(filePath, "w") empties the file.
Open ==
  /\ main.pc = "open"
  /\ SetFile(main.f, "torn")
  /\ Goto("write")
  /\ UNCHANGED <<dir, diskDir, rm, ap, cuts, faults>>

\* Here too a short write passes.
Write ==
  /\ main.pc = "write"
  /\ \/ SetFile(main.f, main.v)
     \/ MayFill /\ UNCHANGED <<file, disk>>
  /\ Goto("sync")
  /\ UNCHANGED <<dir, diskDir, rm, ap, cuts, faults>>

\* Mutant of Sync: fsync(fp), as in init_secure_file.
SyncNone ==
  /\ main.pc = "sync"
  /\ AfterFile(TRUE)
  /\ UNCHANGED <<seen, flash, rm, ap, cuts, faults>>

Sync ==
  /\ main.pc = "sync"
  /\ disk' = [g \in Files |-> {file[g]}] /\ diskDir' = {dir}
  /\ AfterFile(TRUE)
  /\ UNCHANGED <<seen, rm, ap, cuts, faults>>

----------------------------------------------------------------------------
RmFile(g) ==
  /\ rm /\ file[g] # "absent"
  /\ SetFile(g, "absent")
  /\ UNCHANGED <<dir, diskDir, main, rm, ap, cuts, faults>>

\* Mutant of RmDir: rm does not end.
RmDirHangs ==
  /\ rm /\ Missing = Files
  /\ SetDir(FALSE)
  /\ UNCHANGED <<file, disk, main, rm, ap, cuts, faults>>

RmDir ==
  /\ rm /\ Missing = Files
  /\ SetDir(FALSE) /\ rm' = FALSE
  /\ UNCHANGED <<file, disk, main, ap, cuts, faults>>

\* What was not synced may be on flash memory or not, for each file on its own.
PowerCut ==
  /\ cuts < MaxCuts /\ cuts' = cuts + 1
  /\ \E kept \in [Files -> Contents] :
       /\ \A g \in Files : kept[g] \in disk[g]
       /\ file' = kept /\ disk' = [g \in Files |-> {kept[g]}]
  /\ \E d \in diskDir : dir' = d /\ diskDir' = {d}
  /\ (\E g \in Files : file'[g] # "absent") => dir'
  /\ main' = Booting
  /\ rm' = FALSE
  /\ ap' = IF ap = "dead" THEN "run" ELSE ap
  /\ UNCHANGED faults

UseFile == \E g \in Files : \/ GetData(g) \/ ClearData(g)
                            \/ \E v \in Keys : PutData(g, v)
MainStep ==
  \/ InitSecureFile \/ Fill \/ CreateFails \/ (\E g \in Files : Create(g))
  \/ LoadNull \/ LoadData \/ DecryptFails
  \/ WaitTime \/ Pclose \/ KillAp \/ RmAp \/ PopenFails \/ LoadFailed
  \/ UpdateFails \/ Open \/ Write \/ Sync
RmStep == RmDir \/ \E g \in Files : RmFile(g)

Next == UseFile \/ ClearAllSecureFile \/ MainStep \/ RmStep \/ PowerCut

Spec == Init /\ [][Next]_vars
FairSpec == Spec /\ WF_vars(MainStep) /\ WF_vars(RmStep)

----------------------------------------------------------------------------
TypeOK ==
  /\ dir \in BOOLEAN /\ diskDir \subseteq BOOLEAN
  /\ file \in [Files -> Contents] /\ disk \in [Files -> SUBSET Contents]
  /\ main \in Locals
  /\ rm \in BOOLEAN
  /\ ap \in {"run", "dead", "gone"}
  /\ cuts \in 0..MaxCuts
  /\ faults \subseteq Faults

\* Where each step of the thread may find the files: one that is updated could
\* be read, one that is being made or written is torn, all are in a directory,
\* and the process of rm runs only while load_secure_file waits for it.
Consistent ==
  /\ main.wiping \/ main.pc \in {"load", "open", "write", "sync"} => main.f \in Files
  /\ Missing # Files \/ main.pc \in {"create", "fill"} => dir
  /\ main.pc \in {"open", "write", "sync"} => main.v # "none"
  /\ main.pc = "open" => file[main.f] \in Readable
  /\ main.pc = "write" => file[main.f] = "torn"
  /\ main.pc = "fill" => main.new \in Files /\ file[main.new] = "torn"
  /\ rm => main.wiping /\ dir /\ main.pc \in {"wait", "init", "pclose"}
  /\ main.pc \in {"wait", "init", "pclose", "kill", "rmap", "freed"} => main.wiping
  /\ main.pc \in {"boot", "idle", "load", "open", "write", "sync"} => ~main.wiping
  /\ \A g \in Files : file[g] \in disk[g]

Updating(g) == main.f = g /\ main.pc \in {"write", "sync"}

\* A power cut never goes back past the last completed update of a file: a key
\* that can be read is what every cut leaves, and where a wipe has removed a
\* key, that key and no older one may come back (until the next update of any
\* file: nothing in the wipe syncs the removal).
NoOldKey ==
  \A g \in Files : ~Updating(g) =>
    /\ file[g] \in Keys => disk[g] = {file[g]}
    /\ \A j, k \in disk[g] \cap Keys : j = k

\* A thread that is in a call comes back from it, or a clean-up ended it.
CallsEnd == main.pc # "idle" ~> main.pc \in {"idle", "dead"}

\* The files are there again when load_secure_file goes on after a wipe, as
\* long as its wait of 500 ms outlasts the removal (a slower one leaves none).
WaitEnough == main.pc = "kill" /\ ~MayFail /\ ~SlowRm => Missing = {}

----------------------------------------------------------------------------
Read(content) == IF content \in Readable THEN content ELSE "lost"

Val == [g \in Files |-> Read(file[g])]
Safe == [g \in Files |-> {Read(c) : c \in disk[g]}]
Pend == IF main.pc \in {"write", "sync"} THEN main.f ELSE NoFile

V == INSTANCE Vault WITH Values <- Keys, Zero <- "zero", Lost <- "lost", None <- NoFile,
                         val <- Val, safe <- Safe, pend <- Pend, wiping <- main.wiping,
                         frail <- MayFail

\* Reads and updates through the files, the wipe and the cuts included, are
\* those of a vault in which a completed update is durable, an interrupted one
\* costs its own file only, and nothing is removed before a file is lost or
\* the driver has failed.
VaultRefined == V!Spec

=============================================================================
