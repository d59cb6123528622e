------------------------- MODULE SecureStoreProofs -------------------------
(***************************************************************************)
(* SecureStore keeps its types and its consistency, and implements Vault,  *)
(* for every set of files and contents, any number of power cuts and every *)
(* failure that the constants allow.                                       *)
(***************************************************************************)
EXTENDS SecureStore, TLAPS

LEMMA ContentFacts ==
  /\ "none" \notin Files
  /\ "zero" \in Readable /\ "zero" \in Contents
  /\ "torn" \in Contents /\ "torn" \notin Readable
  /\ "absent" \in Contents /\ "absent" \notin Readable
  /\ \A c \in Readable : c \in Contents
  /\ \A c \in Contents : c \in Readable \/ c = "torn" \/ c = "absent"
  /\ \A c \in Keys : c \in Readable
BY FileAssumption, KeyAssumption DEF Readable, Contents

----------------------------------------------------------------------------
\* The steps that end a call or init_secure_file leave main well typed.
LEMMA GotoType ==
  ASSUME main \in Locals, NEW p \in Pcs, Goto(p)
  PROVE  main' \in Locals
BY DEF Goto, Locals

LEMMA IdleType == Idle \in Locals /\ Booting \in Locals
BY DEF Idle, Booting, Locals, Pcs, NoFile, Readable

LEMMA AfterFileType ==
  ASSUME main \in Locals, NEW ok \in BOOLEAN, AfterFile(ok)
  PROVE  main' \in Locals
<1>1. CASE main.todo \ {main.f} = {}
  BY <1>1 DEF AfterFile, Idle, Locals, Pcs, NoFile, Readable
<1>2. CASE main.todo \ {main.f} # {}
  <2> DEFINE rest == main.todo \ {main.f}
  <2>1. PICK g \in rest : main' = [main EXCEPT !.pc = "load", !.f = g, !.todo = rest,
                                             !.wiping = FALSE, !.ret = ok]
    BY <1>2 DEF AfterFile
  <2>2. rest \subseteq Files /\ g \in Files
    BY <2>1 DEF Locals
  <2> HIDE DEF rest
  <2> QED BY <2>1, <2>2 DEF Locals, Pcs
<1> QED BY <1>1, <1>2

LEMMA AfterInitType ==
  ASSUME main \in Locals, AfterInit
  PROVE  main' \in Locals
BY GotoType, IdleType DEF AfterInit, Pcs

\* A change of a file or of the directory keeps their types, and what is seen
\* stays among what a power cut may leave.
LEMMA SetFileType ==
  ASSUME TypeOK, NEW g \in Files, NEW c \in Contents, SetFile(g, c)
  PROVE  file' \in [Files -> Contents] /\ disk' \in [Files -> SUBSET Contents]
BY DEF TypeOK, SetFile

LEMMA SetFileEffect ==
  ASSUME TypeOK, NEW g \in Files, NEW c, SetFile(g, c)
  PROVE  /\ file'[g] = c /\ disk'[g] = disk[g] \cup {c}
         /\ \A h \in Files \ {g} : file'[h] = file[h] /\ disk'[h] = disk[h]
         /\ (\A h \in Files : file[h] \in disk[h]) => \A h \in Files : file'[h] \in disk'[h]
BY DEF TypeOK, SetFile

LEMMA SetDirType ==
  ASSUME TypeOK, NEW d \in BOOLEAN, SetDir(d)
  PROVE  dir' \in BOOLEAN /\ diskDir' \subseteq BOOLEAN
BY DEF TypeOK, SetDir

LEMMA TypeStep == TypeOK /\ Consistent /\ [Next]_vars => TypeOK'
<1> SUFFICES ASSUME TypeOK, Consistent, [Next]_vars PROVE TypeOK'
  OBVIOUS
<1> USE ContentFacts DEF TypeOK, seen, flash
<1> USE FaultAssumption
<1>1. CASE UseFile
  <2>1. PICK g \in Files, v \in Readable \cup {"none"} : Access(g, v)
    BY <1>1 DEF UseFile, GetData, PutData, ClearData
  <2> QED BY <2>1 DEF Access, Idle, Locals, Pcs, NoFile
<1>2. CASE ClearAllSecureFile
  <2>1. main' \in Locals
    <3>1. PICK g \in Files :
            main' = [Idle EXCEPT !.pc = "load", !.f = g, !.todo = Files, !.v = "zero"]
      BY <1>2 DEF ClearAllSecureFile
    <3> QED BY <3>1 DEF Idle, Locals, Pcs, NoFile
  <2> QED BY <1>2, <2>1 DEF ClearAllSecureFile
<1>3. CASE MainStep
  <2>1. CASE InitSecureFile
    <3>1. main' \in Locals
      BY <2>1, AfterInitType, GotoType DEF InitSecureFile, Pcs
    <3>2. dir' \in BOOLEAN /\ diskDir' \subseteq BOOLEAN
      BY <2>1, SetDirType DEF InitSecureFile
    <3> QED BY <2>1, <3>1, <3>2 DEF InitSecureFile
  <2>2. CASE Fill
    <3>1. main' \in Locals
      BY <2>2, AfterInitType, GotoType DEF Fill, Pcs
    <3>2. main.new \in Files
      BY <2>2 DEF Fill, Consistent
    <3>3. file' \in [Files -> Contents] /\ disk' \in [Files -> SUBSET Contents]
      BY <2>2, <3>2, SetFileType DEF Fill
    <3> QED BY <2>2, <3>1, <3>3 DEF Fill
  <2>3. CASE CreateFails
    BY <2>3, AfterInitType, GotoType DEF CreateFails, Pcs
  <2>4. CASE \E g \in Files : Create(g)
    <3>1. PICK g \in Files : Create(g)
      BY <2>4
    <3>2. main' \in Locals
      BY <3>1 DEF Create, Locals, Pcs
    <3>3. file' \in [Files -> Contents] /\ disk' \in [Files -> SUBSET Contents]
      BY <3>1, SetFileType DEF Create
    <3> QED BY <3>1, <3>2, <3>3 DEF Create
  <2>5. CASE LoadNull
    <3>1. main.ret \in BOOLEAN
      BY DEF Locals
    <3>2. main' \in Locals
      BY <2>5, <3>1, AfterFileType, GotoType DEF LoadNull, Pcs
    <3> QED BY <2>5, <3>2 DEF LoadNull
  <2>6. CASE LoadData
    <3>1. main.ret \in BOOLEAN
      BY DEF Locals
    <3> QED BY <2>6, <3>1, AfterFileType, GotoType DEF LoadData, Pcs
  <2>7. CASE DecryptFails
    BY <2>7 DEF DecryptFails, Locals, Pcs
  <2>8. CASE WaitTime \/ Pclose \/ KillAp \/ RmAp \/ PopenFails
    <3>1. main' \in Locals
      BY <2>8, GotoType DEF WaitTime, Pclose, KillAp, RmAp, PopenFails, Pcs
    <3> QED BY <2>8, <3>1 DEF WaitTime, Pclose, KillAp, RmAp, PopenFails
  <2>9. CASE LoadFailed
    <3>1. main.ret \in BOOLEAN
      BY DEF Locals
    <3> QED BY <2>9, <3>1, AfterFileType, GotoType DEF LoadFailed, Pcs
  <2>10. CASE UpdateFails
    BY <2>10, AfterFileType DEF UpdateFails
  <2>11. CASE Open
    <3>1. main' \in Locals
      BY <2>11, GotoType DEF Open, Pcs
    <3>2. main.f \in Files
      BY <2>11 DEF Open, Consistent
    <3>3. file' \in [Files -> Contents] /\ disk' \in [Files -> SUBSET Contents]
      BY <2>11, <3>2, SetFileType DEF Open
    <3> QED BY <2>11, <3>1, <3>3 DEF Open
  <2>12. CASE Write
    <3>1. main.v \in Contents /\ main.f \in Files
      BY <2>12 DEF Locals, Consistent, Write
    <3>2. main' \in Locals
      BY <2>12, GotoType DEF Write, Pcs
    <3>3. file' \in [Files -> Contents] /\ disk' \in [Files -> SUBSET Contents]
      BY <2>12, <3>1, SetFileType DEF Write
    <3> QED BY <2>12, <3>2, <3>3 DEF Write
  <2>13. CASE Sync
    <3>1. main' \in Locals
      BY <2>13, AfterFileType DEF Sync
    <3>2. disk' \in [Files -> SUBSET Contents] /\ diskDir' \subseteq BOOLEAN
      BY <2>13 DEF Sync
    <3> QED BY <2>13, <3>1, <3>2 DEF Sync
  <2> QED BY <1>3, <2>1, <2>2, <2>3, <2>4, <2>5, <2>6, <2>7, <2>8, <2>9, <2>10,
             <2>11, <2>12, <2>13 DEF MainStep
<1>4. CASE RmStep
  <2>1. CASE RmDir
    BY <2>1, SetDirType DEF RmDir
  <2>2. CASE \E g \in Files : RmFile(g)
    BY <2>2, SetFileType DEF RmFile
  <2> QED BY <1>4, <2>1, <2>2 DEF RmStep
<1>5. CASE PowerCut
  <2>1. main' \in Locals
    BY <1>5, IdleType DEF PowerCut
  <2>2. file' \in [Files -> Contents] /\ disk' \in [Files -> SUBSET Contents]
    BY <1>5 DEF PowerCut
  <2>3. dir' \in BOOLEAN /\ diskDir' \subseteq BOOLEAN
    BY <1>5 DEF PowerCut
  <2>4. cuts' \in 0..MaxCuts
    BY <1>5 DEF PowerCut
  <2> QED BY <1>5, <2>1, <2>2, <2>3, <2>4 DEF PowerCut
<1>6. CASE UNCHANGED vars
  BY <1>6 DEF vars
<1> QED BY <1>1, <1>2, <1>3, <1>4, <1>5, <1>6 DEF Next

----------------------------------------------------------------------------
LEMMA AfterFileEffect ==
  ASSUME main \in Locals, NEW ok \in BOOLEAN, AfterFile(ok)
  PROVE  /\ main'.pc \in {"idle", "load"}
         /\ main'.pc = "load" => main'.f \in Files
         /\ main'.wiping = FALSE
<1>1. CASE main.todo \ {main.f} = {}
  BY <1>1 DEF AfterFile, Idle
<1>2. CASE main.todo \ {main.f} # {}
  <2>1. PICK g \in main.todo \ {main.f} :
          main' = [main EXCEPT !.pc = "load", !.f = g, !.todo = main.todo \ {main.f},
                               !.wiping = FALSE, !.ret = ok]
    BY <1>2 DEF AfterFile
  <2>2. g \in Files
    BY <2>1 DEF Locals
  <2>3. main'.pc = "load" /\ main'.f = g /\ main'.wiping = FALSE
    BY <2>1 DEF Locals
  <2> QED BY <2>2, <2>3
<1> QED BY <1>1, <1>2

LEMMA GotoEffect ==
  ASSUME main \in Locals, NEW p, Goto(p)
  PROVE  /\ main'.pc = p /\ main'.f = main.f /\ main'.v = main.v
         /\ main'.new = main.new /\ main'.wiping = main.wiping
BY DEF Goto, Locals

LEMMA AfterInitEffect ==
  ASSUME main \in Locals, AfterInit
  PROVE  \/ /\ main.wiping /\ main'.pc = "pclose" /\ main'.f = main.f
            /\ main'.wiping = main.wiping
         \/ /\ ~main.wiping /\ main'.pc = "idle" /\ main'.wiping = FALSE
BY GotoEffect DEF AfterInit, Idle

LEMMA ConsistentStep == TypeOK /\ Consistent /\ [Next]_vars => Consistent'
<1> SUFFICES ASSUME TypeOK, Consistent, [Next]_vars PROVE Consistent'
  OBVIOUS
<1> USE ContentFacts DEF Consistent, Missing, seen, flash
<1>0. /\ main \in Locals /\ file \in [Files -> Contents] /\ disk \in [Files -> SUBSET Contents]
      /\ rm \in BOOLEAN /\ main.ret \in BOOLEAN /\ main.wiping \in BOOLEAN
  BY DEF TypeOK, Locals
<1>1. CASE UseFile
  <2>1. PICK g \in Files, v \in Readable \cup {"none"} : Access(g, v)
    BY <1>1 DEF UseFile, GetData, PutData, ClearData
  <2>2. main'.pc = "load" /\ main'.f = g /\ main'.wiping = FALSE /\ ~rm
    BY <2>1, <1>0 DEF Access, Idle
  <2> QED BY <2>1, <2>2, <1>0 DEF Access
<1>2. CASE ClearAllSecureFile
  <2>1. PICK g \in Files : main' = [Idle EXCEPT !.pc = "load", !.f = g, !.todo = Files,
                                               !.v = "zero"]
    BY <1>2 DEF ClearAllSecureFile
  <2>2. main'.pc = "load" /\ main'.f = g /\ main'.wiping = FALSE /\ ~rm
    BY <2>1, <1>2, <1>0 DEF ClearAllSecureFile, Idle
  <2> QED BY <1>2, <2>2, <1>0 DEF ClearAllSecureFile
<1>3. CASE MainStep
  <2>1. CASE InitSecureFile
    <3>1. CASE dir /\ AfterInit
      BY <2>1, <3>1, <1>0, AfterInitEffect DEF InitSecureFile
    <3>0. UNCHANGED <<file, disk, rm>>
      BY <2>1 DEF InitSecureFile
    <3>2. CASE ~dir /\ SetDir(TRUE) /\ Goto("create")
      <4>1. dir' /\ main'.pc = "create" /\ main'.wiping = main.wiping /\ main'.f = main.f
        BY <3>2, <1>0, GotoEffect DEF SetDir
      <4>2. ~rm
        BY <3>2
      <4> QED BY <3>0, <4>1, <4>2, <1>0
    <3>3. CASE ~dir /\ AfterInit /\ UNCHANGED dir
      <4>1. Missing = Files
        BY <3>3
      <4> QED BY <3>0, <3>3, <4>1, <1>0, AfterInitEffect
    <3> QED BY <2>1, <3>1, <3>2, <3>3 DEF InitSecureFile
  <2>2. CASE Fill
    <3>1. ~rm /\ ~rm' /\ dir /\ dir' /\ main.new \in Files /\ file[main.new] = "torn"
      BY <2>2 DEF Fill
    <3>2. \A g \in Files : file'[g] \in disk'[g]
      <4>1. CASE SetFile(main.new, "zero")
        BY <4>1, <3>1, SetFileEffect
      <4> QED BY <2>2, <4>1 DEF Fill
    <3>3. CASE AfterInit
      BY <2>2, <3>1, <3>2, <3>3, <1>0, AfterInitEffect
    <3>4. CASE Goto("create")
      BY <2>2, <3>1, <3>2, <3>4, <1>0, GotoEffect
    <3> QED BY <2>2, <3>3, <3>4 DEF Fill
  <2>3. CASE CreateFails
    <3>1. CASE AfterInit
      BY <2>3, <3>1, <1>0, AfterInitEffect DEF CreateFails
    <3>2. CASE Goto("dead")
      BY <2>3, <3>2, <1>0, GotoEffect DEF CreateFails
    <3> QED BY <2>3, <3>1, <3>2 DEF CreateFails
  <2>4. CASE \E g \in Files : Create(g)
    <3>1. PICK g \in Files : Create(g)
      BY <2>4
    <3>2. main'.pc = "fill" /\ main'.new = g /\ main'.wiping = main.wiping
      BY <3>1, <1>0 DEF Create, Locals
    <3>3. file'[g] = "torn" /\ \A h \in Files : file'[h] \in disk'[h]
      BY <3>1, SetFileEffect DEF Create
    <3> QED BY <3>1, <3>2, <3>3, <1>0 DEF Create
  <2>5. CASE LoadNull
    <3>1. CASE AfterFile(main.ret)
      BY <2>5, <3>1, <1>0, AfterFileEffect DEF LoadNull
    <3>2. CASE Goto("dead")
      BY <2>5, <3>2, <1>0, GotoEffect DEF LoadNull
    <3> QED BY <2>5, <3>1, <3>2 DEF LoadNull
  <2>6. CASE LoadData
    <3>1. CASE AfterFile(main.ret)
      BY <2>6, <3>1, <1>0, AfterFileEffect DEF LoadData
    <3>2. CASE main.v # "none" /\ Goto("open")
      BY <2>6, <3>2, <1>0, GotoEffect DEF LoadData
    <3> QED BY <2>6, <3>1, <3>2 DEF LoadData
  <2>7. CASE DecryptFails
    <3>1. main'.pc = "wait" /\ main'.f = main.f /\ main'.wiping = TRUE
      BY <2>7, <1>0 DEF DecryptFails, Locals
    <3> QED BY <2>7, <3>1, <1>0 DEF DecryptFails
  <2>8. CASE WaitTime
    BY <2>8, <1>0, GotoEffect DEF WaitTime
  <2>9. CASE Pclose \/ KillAp \/ RmAp \/ PopenFails
    BY <2>9, <1>0, GotoEffect DEF Pclose, KillAp, RmAp, PopenFails
  <2>10. CASE LoadFailed
    <3>1. CASE AfterFile(main.ret)
      BY <2>10, <3>1, <1>0, AfterFileEffect DEF LoadFailed
    <3>2. CASE Goto("dead")
      BY <2>10, <3>2, <1>0, GotoEffect DEF LoadFailed
    <3> QED BY <2>10, <3>1, <3>2 DEF LoadFailed
  <2>11. CASE UpdateFails
    BY <2>11, <1>0, AfterFileEffect DEF UpdateFails
  <2>12. CASE Open
    <3>1. main'.pc = "write" /\ main'.f = main.f /\ main'.v = main.v /\ ~main'.wiping
      BY <2>12, <1>0, GotoEffect DEF Open
    <3>2. /\ file'[main.f] = "torn" /\ \A h \in Files \ {main.f} : file'[h] = file[h]
          /\ \A h \in Files : file'[h] \in disk'[h]
      BY <2>12, SetFileEffect DEF Open
    <3> QED BY <2>12, <3>1, <3>2, <1>0 DEF Open
  <2>13. CASE Write
    <3>1. main'.pc = "sync" /\ main'.f = main.f /\ main'.v = main.v /\ ~main'.wiping
      BY <2>13, <1>0, GotoEffect DEF Write
    <3>2. \A h \in Files \ {main.f} : file'[h] = file[h]
      BY <2>13, SetFileEffect DEF Write
    <3>3. \A h \in Files : file'[h] \in disk'[h]
      <4>0. main.f \in Files /\ \A h \in Files : file[h] \in disk[h]
        BY <2>13 DEF Write
      <4>1. CASE SetFile(main.f, main.v)
        BY <4>0, <4>1, SetFileEffect
      <4> QED BY <2>13, <4>0, <4>1 DEF Write
    <3>4. file'[main.f] # "absent"
      <4>0. main.f \in Files /\ main.v \in Readable /\ file[main.f] = "torn"
        BY <2>13, <1>0 DEF Write, Locals
      <4>1. CASE SetFile(main.f, main.v)
        BY <4>0, <4>1, SetFileEffect
      <4> QED BY <2>13, <4>0, <4>1 DEF Write
    <3> QED BY <2>13, <3>1, <3>2, <3>3, <3>4, <1>0 DEF Write
  <2>14. CASE Sync
    <3>1. \A h \in Files : file'[h] \in disk'[h]
      BY <2>14 DEF Sync
    <3> QED BY <2>14, <3>1, <1>0, AfterFileEffect DEF Sync
  <2> QED BY <1>3, <2>1, <2>2, <2>3, <2>4, <2>5, <2>6, <2>7, <2>8, <2>9, <2>10,
             <2>11, <2>12, <2>13, <2>14 DEF MainStep
<1>4. CASE RmStep
  <2>1. CASE RmDir
    BY <2>1, <1>0 DEF RmDir, SetDir
  <2>2. CASE \E g \in Files : RmFile(g)
    <3>1. PICK g \in Files : RmFile(g)
      BY <2>2
    <3>2. /\ file'[g] = "absent" /\ \A h \in Files \ {g} : file'[h] = file[h]
          /\ \A h \in Files : file'[h] \in disk'[h]
      BY <3>1, SetFileEffect DEF RmFile
    <3> QED BY <3>1, <3>2, <1>0 DEF RmFile
  <2> QED BY <1>4, <2>1, <2>2 DEF RmStep
<1>5. CASE PowerCut
  <2>1. main'.pc = "boot" /\ main'.wiping = FALSE /\ ~rm'
    BY <1>5 DEF PowerCut, Booting, Idle
  <2>2. Missing' # Files => dir'
    BY <1>5 DEF PowerCut
  <2>3. \A h \in Files : file'[h] \in disk'[h]
    BY <1>5 DEF PowerCut
  <2> QED BY <2>1, <2>2, <2>3
<1>6. CASE UNCHANGED vars
  BY <1>6 DEF vars
<1> QED BY <1>1, <1>2, <1>3, <1>4, <1>5, <1>6 DEF Next

LEMMA InitConsistent == Init => TypeOK /\ Consistent
<1> SUFFICES ASSUME Init PROVE TypeOK /\ Consistent
  OBVIOUS
<1>1. main.pc = "boot" /\ main.wiping = FALSE /\ main \in Locals /\ 0 \in 0..MaxCuts
  BY IdleType, FaultAssumption DEF Init, Booting, Idle
<1>2. TypeOK
  BY <1>1, ContentFacts DEF Init, TypeOK
<1>3. Consistent
  BY <1>1 DEF Init, Consistent, Missing
<1> QED BY <1>2, <1>3

\* The state of the files and of the thread keeps its type, whatever fails.
THEOREM TypeCorrect == Spec => []TypeOK
<1>1. TypeOK /\ Consistent /\ [Next]_vars => (TypeOK /\ Consistent)'
  BY TypeStep, ConsistentStep
<1> QED BY InitConsistent, <1>1, PTL DEF Spec

\* The thread and the process of rm find the files as their steps need them,
\* after every cut, for any files, contents and failures.
THEOREM ConsistentCorrect == Spec => []Consistent
<1>1. TypeOK /\ Consistent /\ [Next]_vars => (TypeOK /\ Consistent)'
  BY TypeStep, ConsistentStep
<1> QED BY InitConsistent, <1>1, PTL DEF Spec

----------------------------------------------------------------------------
\* What a power cut may leave grows with each change of a file and comes down to
\* one content with the sync that ends an update: no step but those of its own
\* update ever adds a key.
LEMMA NoOldKeyStep ==
  ASSUME TypeOK, Consistent, NoOldKey, [Next]_vars
  PROVE  NoOldKey'
<1> USE ContentFacts DEF seen, flash
<1>0. /\ main \in Locals /\ "zero" \notin Keys /\ "torn" \notin Keys /\ "absent" \notin Keys
  BY KeyAssumption DEF TypeOK
\* The files stay, and no update is under way before the step.
<1>1. ASSUME UNCHANGED <<file, disk>>, main.pc \notin {"write", "sync"} PROVE NoOldKey'
  BY <1>1 DEF NoOldKey, Updating
\* One file gets a content that is no key, and no update is under way.
<1>2. ASSUME NEW g \in Files, NEW c, c \notin Keys, SetFile(g, c),
             main.pc \notin {"write", "sync"}
      PROVE  NoOldKey'
  <2>1. \A h \in Files : disk'[h] \cap Keys = disk[h] \cap Keys
    BY <1>2, SetFileEffect
  <2>2. \A h \in Files : file'[h] \in Keys => file'[h] = file[h] /\ disk'[h] = disk[h]
    BY <1>2, SetFileEffect
  <2> QED BY <1>2, <2>1, <2>2 DEF NoOldKey, Updating
\* Each file has one content left.
<1>3. ASSUME \A h \in Files : disk'[h] = {file'[h]} PROVE NoOldKey'
  BY <1>3 DEF NoOldKey
<1>4. CASE UseFile \/ ClearAllSecureFile
  BY <1>1, <1>4 DEF UseFile, GetData, PutData, ClearData, Access, ClearAllSecureFile
<1>5. CASE InitSecureFile \/ CreateFails \/ LoadNull \/ LoadData \/ DecryptFails
  BY <1>1, <1>5 DEF InitSecureFile, CreateFails, LoadNull, LoadData, DecryptFails
<1>6. CASE WaitTime \/ Pclose \/ KillAp \/ RmAp \/ PopenFails \/ LoadFailed \/ UpdateFails
  BY <1>1, <1>6 DEF WaitTime, Pclose, KillAp, RmAp, PopenFails, LoadFailed, UpdateFails
<1>7. CASE Fill
  <2>1. main.new \in Files /\ main.pc \notin {"write", "sync"}
    BY <1>7 DEF Fill, Consistent
  <2>2. SetFile(main.new, "zero") \/ UNCHANGED <<file, disk>>
    BY <1>7 DEF Fill
  <2> QED BY <1>0, <1>1, <1>2, <2>1, <2>2
<1>8. CASE \E g \in Files : Create(g)
  <2>1. PICK g \in Files : SetFile(g, "torn") /\ main.pc = "create"
    BY <1>8 DEF Create
  <2> QED BY <1>0, <1>2, <2>1
<1>9. CASE Open
  <2>1. main.f \in Files /\ main.pc = "open" /\ SetFile(main.f, "torn")
    BY <1>9 DEF Open, Consistent
  <2> QED BY <1>0, <1>2, <2>1
\* The file that is updated is left out until the sync.
<1>10. CASE Write
  <2>1. main'.pc = "sync" /\ main'.f = main.f /\ main.pc = "write" /\ main.f \in Files
    BY <1>10, <1>0, GotoEffect DEF Write, Consistent
  <2>2. \A h \in Files \ {main.f} : file'[h] = file[h] /\ disk'[h] = disk[h]
    BY <1>10, <2>1, SetFileEffect DEF Write
  <2> QED BY <2>1, <2>2 DEF NoOldKey, Updating
<1>11. CASE Sync
  BY <1>3, <1>11 DEF Sync
<1>12. CASE RmDir
  <2>1. UNCHANGED <<file, disk>> /\ main.pc \notin {"write", "sync"}
    BY <1>12 DEF RmDir, Consistent
  <2> QED BY <1>1, <2>1
<1>13. CASE \E g \in Files : RmFile(g)
  <2>1. PICK g \in Files : SetFile(g, "absent") /\ main.pc \notin {"write", "sync"}
    BY <1>13 DEF RmFile, Consistent
  <2> QED BY <1>0, <1>2, <2>1
<1>14. CASE PowerCut
  BY <1>3, <1>14 DEF PowerCut
<1>15. CASE UNCHANGED vars
  BY <1>15 DEF vars, NoOldKey, Updating
<1> QED BY <1>4, <1>5, <1>6, <1>7, <1>8, <1>9, <1>10, <1>11, <1>12, <1>13, <1>14, <1>15
       DEF Next, MainStep, RmStep

\* A power cut brings back no key older than the last completed update of its
\* file, and none where a newer one can be read, whatever wipes and failures
\* there were, for any files and keys and any number of cuts.
THEOREM NoOldKeyCorrect == Spec => []NoOldKey
<1>1. Init => NoOldKey
  BY KeyAssumption DEF Init, NoOldKey
<1>2. TypeOK /\ Consistent /\ NoOldKey /\ [Next]_vars => NoOldKey'
  BY NoOldKeyStep
<1> QED BY <1>1, <1>2, TypeCorrect, ConsistentCorrect, PTL DEF Spec

----------------------------------------------------------------------------
\* The steps of a wipe where the wait is long enough and nothing else fails:
\* nothing is left when the wait ends, all is made again before pclose.
WipeInv ==
  /\ main.wiping /\ main.pc # "wait" => ~rm
  /\ main.pc = "init" \/ (main.pc = "wait" /\ ~rm) => ~dir /\ Missing = Files
  /\ main.pc \in {"pclose", "kill"} => Missing = {}

LEMMA WipeStep ==
  ASSUME TypeOK, Consistent, WipeInv, [Next]_vars, ~MayFail, ~SlowRm
  PROVE  WipeInv'
<1> USE ContentFacts DEF WipeInv, Missing, seen, flash
<1>0. /\ main \in Locals /\ rm \in BOOLEAN /\ main.ret \in BOOLEAN /\ main.wiping \in BOOLEAN
  BY DEF TypeOK, Locals
<1>1. ASSUME main'.wiping = FALSE, main'.pc \in {"boot", "idle", "load", "create", "fill",
                                               "open", "write", "sync", "dead"}
      PROVE  WipeInv'
  BY <1>1
<1>2. CASE UseFile \/ ClearAllSecureFile
  <2>1. main'.pc = "load" /\ main'.wiping = FALSE
    BY <1>2 DEF UseFile, GetData, PutData, ClearData, Access, ClearAllSecureFile, Idle
  <2> QED BY <1>1, <2>1
<1>3. CASE MainStep
  <2>1. CASE InitSecureFile
    <3>1. CASE dir /\ AfterInit
      <4>1. ~main.wiping
        BY <2>1, <3>1 DEF InitSecureFile, Consistent
      <4> QED BY <1>1, <4>1, <3>1, <1>0, AfterInitEffect
    <3>2. CASE ~dir /\ Goto("create")
      BY <2>1, <3>2, <1>0, GotoEffect DEF InitSecureFile, Consistent
    <3> QED BY <2>1, <3>1, <3>2 DEF InitSecureFile
  <2>2. CASE Fill
    <3>1. main.new \in Files /\ ~rm /\ rm' = rm
      BY <2>2, <1>0 DEF Fill, Consistent
    <3>2. CASE Missing = {} /\ AfterInit
      <4>1. CASE main.wiping
        <5>1. main'.pc = "pclose" /\ main'.wiping
          BY <3>2, <4>1, <1>0, AfterInitEffect
        <5>2. Missing' = {}
          BY <2>2, <3>1, <3>2, SetFileEffect DEF Fill
        <5> QED BY <3>1, <5>1, <5>2
      <4>2. CASE ~main.wiping
        BY <1>1, <3>2, <4>2, <1>0, AfterInitEffect
      <4> QED BY <4>1, <4>2
    <3>3. CASE Goto("create")
      <4>1. main'.pc = "create" /\ main'.wiping = main.wiping
        BY <3>3, <1>0, GotoEffect
      <4> QED BY <2>2, <3>1, <4>1 DEF Fill
    <3> QED BY <2>2, <3>2, <3>3 DEF Fill
  <2>3. CASE CreateFails
    BY <2>3 DEF CreateFails
  <2>4. CASE \E g \in Files : Create(g)
    <3>1. PICK g \in Files : Create(g)
      BY <2>4
    <3>2. main'.pc = "fill" /\ main'.wiping = main.wiping /\ ~rm /\ ~rm'
      BY <3>1, <1>0 DEF Create, Locals, Consistent
    <3> QED BY <3>1, <3>2
  <2>5. CASE LoadNull \/ UpdateFails \/ Sync
    BY <2>5, <1>0, <1>1, AfterFileEffect DEF LoadNull, UpdateFails, Sync
  <2>6. CASE LoadData
    <3>1. CASE AfterFile(main.ret)
      BY <3>1, <1>0, <1>1, AfterFileEffect
    <3>2. CASE Goto("open")
      <4>1. main'.pc = "open" /\ main'.wiping = FALSE
        BY <2>6, <3>2, <1>0, GotoEffect DEF LoadData, Consistent
      <4> QED BY <1>1, <4>1
    <3> QED BY <2>6, <3>1, <3>2 DEF LoadData
  <2>7. CASE DecryptFails
    <3>1. main'.pc = "wait" /\ rm'
      BY <2>7, <1>0 DEF DecryptFails, Locals
    <3> QED BY <3>1
  <2>8. CASE WaitTime
    BY <2>8, <1>0, GotoEffect DEF WaitTime
  <2>9. CASE Pclose \/ KillAp \/ RmAp \/ PopenFails
    BY <2>9, <1>0, GotoEffect DEF Pclose, KillAp, RmAp, PopenFails, Consistent
  <2>10. CASE LoadFailed
    <3>1. CASE AfterFile(main.ret)
      BY <3>1, <1>0, <1>1, AfterFileEffect
    <3>2. CASE Goto("dead")
      BY <2>10, <3>2, <1>0, GotoEffect DEF LoadFailed
    <3> QED BY <2>10, <3>1, <3>2 DEF LoadFailed
  <2>11. CASE Open \/ Write
    <3>1. main'.pc \in {"write", "sync"} /\ main'.wiping = FALSE
      BY <2>11, <1>0, GotoEffect DEF Open, Write, Consistent
    <3> QED BY <1>1, <3>1
  <2> QED BY <1>3, <2>1, <2>2, <2>3, <2>4, <2>5, <2>6, <2>7, <2>8, <2>9, <2>10,
             <2>11 DEF MainStep
<1>4. CASE RmStep
  <2>1. main' = main /\ rm
    BY <1>4 DEF RmStep, RmDir, RmFile
  <2>2. main.pc = "wait"
    BY <2>1 DEF Consistent
  <2>3. CASE RmDir
    BY <2>1, <2>2, <2>3 DEF RmDir, SetDir
  <2>4. CASE \E g \in Files : RmFile(g)
    BY <2>1, <2>2, <2>4 DEF RmFile
  <2> QED BY <1>4, <2>3, <2>4 DEF RmStep
<1>5. CASE PowerCut
  <2>1. main'.pc = "boot" /\ main'.wiping = FALSE
    BY <1>5 DEF PowerCut, Booting, Idle
  <2> QED BY <1>1, <2>1
<1>6. CASE UNCHANGED vars
  BY <1>6 DEF vars
<1> QED BY <1>2, <1>3, <1>4, <1>5, <1>6 DEF Next

LEMMA FaultsFixed == [Next]_vars => faults' = faults
BY DEF Next, vars, UseFile, GetData, PutData, ClearData, Access, ClearAllSecureFile, MainStep,
       RmStep, InitSecureFile, Fill, CreateFails, Create, LoadNull, LoadData, DecryptFails,
       WaitTime, Pclose, KillAp, RmAp, PopenFails, LoadFailed, UpdateFails, Open, Write, Sync,
       RmDir, RmFile, PowerCut

\* Where the removal ends within the 500 ms that load_secure_file waits for it, no
\* file is missing when it goes on, for any number of files and power cuts.
THEOREM WaitEnoughCorrect == Spec => []WaitEnough
<1> DEFINE All == TypeOK /\ Consistent /\ (MayFail \/ SlowRm \/ WipeInv)
<1>1. Init => All
  <2>1. Init => main.pc = "boot" /\ main.wiping = FALSE
    BY DEF Init, Booting, Idle
  <2> QED BY <2>1, InitConsistent DEF WipeInv
<1>2. All /\ [Next]_vars => All'
  <2> SUFFICES ASSUME All, [Next]_vars PROVE All'
    OBVIOUS
  <2>1. CASE MayFail \/ SlowRm
    <3>1. (MayFail \/ SlowRm)'
      BY <2>1, FaultsFixed DEF MayFail, SlowRm
    <3> QED BY <3>1, TypeStep, ConsistentStep
  <2>2. CASE ~MayFail /\ ~SlowRm
    BY <2>2, TypeStep, ConsistentStep, WipeStep
  <2> QED BY <2>1, <2>2
<1>3. All => WaitEnough
  BY DEF WipeInv, WaitEnough
<1> HIDE DEF All
<1> QED BY <1>1, <1>2, <1>3, PTL DEF Spec

----------------------------------------------------------------------------
\* Refinement of Vault.
Vals == Keys \cup {"zero", "lost"}

LEMMA MapFacts ==
  /\ \A c \in Readable : Read(c) = c /\ c # "lost"
  /\ Read("torn") = "lost" /\ Read("absent") = "lost"
  /\ \A c \in Contents : Read(c) \in Vals
<1>1. "lost" \notin Readable
  BY KeyAssumption DEF Readable
<1> QED BY <1>1, ContentFacts DEF Read, Readable, Vals

\* A step that changes neither what is read nor what is safe stutters.
LEMMA Stutters ==
  ASSUME UNCHANGED <<file, disk, main.wiping, MayFail>>,
         main.pc \notin {"write", "sync"}, main'.pc \notin {"write", "sync"}
  PROVE  UNCHANGED V!vars
BY DEF V!vars, Val, Safe, Pend

\* A change of a file sets its value.
LEMMA SetMaps ==
  ASSUME TypeOK, NEW g \in Files, NEW c \in Contents, SetFile(g, c)
  PROVE  V!Set(g, Read(c))
<1>1. Val' = [Val EXCEPT ![g] = Read(c)]
  <2>1. Val'[g] = Read(c) /\ \A h \in Files \ {g} : Val'[h] = Val[h]
    BY SetFileEffect DEF Val
  <2> QED BY <2>1 DEF Val
<1>2. Safe' = [Safe EXCEPT ![g] = @ \cup {Read(c)}]
  <2>1. \A h \in Files \ {g} : Safe'[h] = Safe[h]
    BY SetFileEffect DEF Safe
  <2>2. Safe'[g] = Safe[g] \cup {Read(c)}
    BY SetFileEffect DEF Safe
  <2> QED BY <2>1, <2>2 DEF Safe
<1> QED BY <1>1, <1>2 DEF V!Set

\* A change from one content that cannot be read to another does not show.
LEMMA SetLost ==
  ASSUME TypeOK, Consistent, NEW g \in Files, NEW c \in {"torn", "absent"}, SetFile(g, c),
         file[g] \notin Readable
  PROVE  UNCHANGED <<Val, Safe>>
<1>1. c \in Contents /\ Read(c) = "lost" /\ Read(file[g]) = "lost"
  BY ContentFacts, MapFacts DEF Read
<1>2. V!Set(g, "lost")
  BY <1>1, SetMaps
<1>3. Val[g] = "lost" /\ "lost" \in Safe[g]
  BY <1>1 DEF Consistent, Val, Safe
<1>4. Val' = [Val EXCEPT ![g] = "lost"] /\ Safe' = [Safe EXCEPT ![g] = @ \cup {"lost"}]
  BY <1>2 DEF V!Set
<1>5. Safe[g] \cup {"lost"} = Safe[g]
  BY <1>3
<1>6. Val = [Val EXCEPT ![g] = Val[g]] /\ Safe = [Safe EXCEPT ![g] = Safe[g]]
  BY DEF Val, Safe
<1> QED BY <1>3, <1>4, <1>5, <1>6

LEMMA RefineStep ==
  ASSUME TypeOK, Consistent, [Next]_vars
  PROVE  [V!Next]_(V!vars)
<1> USE ContentFacts DEF seen, flash
<1>0. /\ main \in Locals /\ file \in [Files -> Contents] /\ disk \in [Files -> SUBSET Contents]
      /\ main.ret \in BOOLEAN /\ main.wiping \in BOOLEAN /\ "none" \notin Files
  BY FileAssumption DEF TypeOK, Locals
<1>f. MayFail' = MayFail
  BY FaultsFixed DEF MayFail
<1>1. CASE UseFile \/ ClearAllSecureFile
  <2>1. main.pc = "idle" /\ main'.pc = "load" /\ main'.wiping = FALSE /\ main.wiping = FALSE
    BY <1>1, <1>0 DEF UseFile, GetData, PutData, ClearData, Access, ClearAllSecureFile, Idle, Consistent
  <2>2. UNCHANGED <<file, disk>>
    BY <1>1 DEF UseFile, GetData, PutData, ClearData, Access, ClearAllSecureFile
  <2> QED BY <1>f, <2>1, <2>2, Stutters
<1>2. CASE InitSecureFile
  <2>1. main'.pc \in {"pclose", "idle", "create"} /\ main'.wiping = main.wiping
    BY <1>2, <1>0, AfterInitEffect, GotoEffect DEF InitSecureFile
  <2> QED BY <1>2, <1>f, <2>1, Stutters DEF InitSecureFile
<1>3. CASE Fill
  <2>1. main.pc = "fill" /\ main'.pc \in {"pclose", "idle", "create"} /\ main'.wiping = main.wiping
    BY <1>3, <1>0, AfterInitEffect, GotoEffect DEF Fill
  <2>2. main.new \in Files /\ file[main.new] = "torn"
    BY <2>1 DEF Consistent
  <2>3. CASE UNCHANGED <<file, disk>>
    BY <1>f, <2>1, <2>3, Stutters
  <2>4. CASE SetFile(main.new, "zero")
    <3>1. V!Set(main.new, "zero")
      BY <2>2, <2>4, SetMaps, MapFacts
    <3>2. Val[main.new] = "lost"
      BY <2>2, MapFacts DEF Val
    <3>3. Pend = NoFile /\ Pend' = NoFile
      BY <2>1 DEF Pend
    <3>4. V!Fresh(main.new)
      BY <1>f, <2>1, <3>1, <3>2, <3>3 DEF V!Fresh
    <3> QED BY <2>2, <3>4 DEF V!Next
  <2> QED BY <1>3, <2>3, <2>4 DEF Fill
<1>4. CASE CreateFails
  <2>1. main'.pc \in {"pclose", "idle", "dead"} /\ main'.wiping = main.wiping
    BY <1>4, <1>0, AfterInitEffect, GotoEffect DEF CreateFails
  <2> QED BY <1>4, <1>f, <2>1, Stutters DEF CreateFails
<1>5. CASE \E g \in Files : Create(g)
  <2>1. PICK g \in Files : Create(g)
    BY <1>5
  <2>2. main'.pc = "fill" /\ main'.wiping = main.wiping /\ main.pc = "create"
    BY <2>1, <1>0 DEF Create, Locals
  <2>3. file[g] \notin Readable /\ SetFile(g, "torn")
    BY <2>1 DEF Create, Missing
  <2>4. UNCHANGED <<Val, Safe>>
    BY <2>3, SetLost
  <2> QED BY <1>f, <2>2, <2>4 DEF V!vars, Pend
<1>6. CASE LoadNull \/ UpdateFails
  <2>1. /\ main.pc \in {"load", "open"} /\ main'.pc \in {"idle", "load", "dead"}
        /\ main'.wiping = FALSE /\ main.wiping = FALSE
    BY <1>6, <1>0, AfterFileEffect, GotoEffect DEF LoadNull, UpdateFails, Consistent
  <2> QED BY <1>6, <1>f, <2>1, Stutters DEF LoadNull, UpdateFails
<1>7. CASE LoadData
  <2>1. /\ main.pc = "load" /\ main'.pc \in {"idle", "load", "open"}
        /\ main'.wiping = FALSE /\ main.wiping = FALSE
    BY <1>7, <1>0, AfterFileEffect, GotoEffect DEF LoadData, Consistent
  <2> QED BY <1>7, <1>f, <2>1, Stutters DEF LoadData
<1>8. CASE DecryptFails
  <2>1. main.pc = "load" /\ ~main.wiping /\ main.f \in Files /\ (MayFail \/ file[main.f] = "torn")
    BY <1>8 DEF DecryptFails, Consistent
  <2>2. main'.pc = "wait" /\ main'.wiping = TRUE
    BY <1>8, <1>0 DEF DecryptFails, Locals
  <2>3. UNCHANGED <<Val, Safe, Pend>> /\ Pend = NoFile
    BY <1>8, <2>1, <2>2 DEF DecryptFails, Val, Safe, Pend
  <2>4. MayFail \/ Val[main.f] = "lost"
    BY <2>1, MapFacts DEF Val
  <2>5. V!StartWipe
    BY <1>f, <2>1, <2>2, <2>3, <2>4 DEF V!StartWipe
  <2> QED BY <2>5 DEF V!Next
<1>9. CASE WaitTime \/ Pclose \/ KillAp \/ RmAp \/ PopenFails
  <2>1. /\ main.pc \notin {"write", "sync"} /\ main'.pc \notin {"write", "sync"}
        /\ main'.wiping = main.wiping
    BY <1>9, <1>0, GotoEffect DEF WaitTime, Pclose, KillAp, RmAp, PopenFails
  <2> QED BY <1>9, <1>f, <2>1, Stutters DEF WaitTime, Pclose, KillAp, RmAp, PopenFails
<1>10. CASE LoadFailed
  <2>1. main.pc = "freed" /\ main.wiping
    BY <1>10, <1>0 DEF LoadFailed, Consistent
  <2>2. CASE Goto("dead")
    <3>1. main'.pc = "dead" /\ main'.wiping = main.wiping
      BY <2>2, <1>0, GotoEffect
    <3> QED BY <1>10, <1>f, <2>1, <3>1, Stutters DEF LoadFailed
  <2>3. CASE AfterFile(main.ret)
    <3>1. main'.pc \in {"idle", "load"} /\ main'.wiping = FALSE
      BY <2>3, <1>0, AfterFileEffect
    <3>2. UNCHANGED <<Val, Safe, Pend>>
      BY <1>10, <2>1, <3>1 DEF LoadFailed, Val, Safe, Pend
    <3>3. V!EndWipe
      BY <1>f, <2>1, <3>1, <3>2, <1>0 DEF V!EndWipe
    <3> QED BY <3>3 DEF V!Next
  <2> QED BY <1>10, <2>2, <2>3 DEF LoadFailed
<1>11. CASE Open
  <2>1. /\ main.pc = "open" /\ main.f \in Files /\ file[main.f] \in Readable /\ ~main.wiping
        /\ SetFile(main.f, "torn")
    BY <1>11 DEF Open, Consistent
  <2>2. main'.pc = "write" /\ main'.f = main.f /\ main'.wiping = main.wiping
    BY <1>11, <1>0, GotoEffect DEF Open
  <2>3. V!Set(main.f, "lost")
    BY <2>1, SetMaps, MapFacts
  <2>4. Val[main.f] # "lost"
    BY <2>1, MapFacts DEF Val
  <2>5. Pend = NoFile /\ Pend' = main.f
    BY <2>1, <2>2 DEF Pend
  <2>6. V!Begin(main.f)
    BY <1>f, <2>1, <2>2, <2>3, <2>4, <2>5 DEF V!Begin
  <2> QED BY <2>1, <2>6 DEF V!Next
<1>12. CASE Write
  <2>1. /\ main.pc = "write" /\ main.f \in Files /\ file[main.f] = "torn"
        /\ main.v \in Readable /\ ~main.wiping
    BY <1>12, <1>0 DEF Write, Consistent, Locals
  <2>2. main'.pc = "sync" /\ main'.f = main.f /\ main'.wiping = main.wiping
    BY <1>12, <1>0, GotoEffect DEF Write
  <2>3. Pend = main.f /\ Pend' = Pend
    BY <2>1, <2>2 DEF Pend
  <2>4. CASE UNCHANGED <<file, disk>>
    BY <1>f, <2>2, <2>3, <2>4 DEF V!vars, Val, Safe
  <2>5. CASE SetFile(main.f, main.v)
    <3>1. V!Set(main.f, main.v)
      BY <2>1, <2>5, SetMaps, MapFacts
    <3>2. V!Put(main.v)
      BY <1>0, <1>f, <2>1, <2>2, <2>3, <3>1 DEF V!Put, NoFile
    <3>3. main.v \in Keys \cup {"zero", "lost"}
      BY <2>1 DEF Readable
    <3> QED BY <3>2, <3>3 DEF V!Next
  <2> QED BY <1>12, <2>4, <2>5 DEF Write
<1>13. CASE Sync
  <2>1. main.pc = "sync" /\ main.f \in Files /\ main.wiping = FALSE
    BY <1>13, <1>0 DEF Sync, Consistent
  <2>2. main'.pc \in {"idle", "load"} /\ main'.wiping = FALSE
    BY <1>13, <1>0, AfterFileEffect DEF Sync
  <2>3. Val' = Val
    BY <1>13 DEF Sync, Val
  <2>4. Safe' = [g \in Files |-> {Val[g]}]
    BY <1>13 DEF Sync, Safe, Val
  <2>5. Pend = main.f /\ Pend' = NoFile
    BY <2>1, <2>2 DEF Pend
  <2>6. V!End
    BY <1>f, <2>1, <2>2, <2>3, <2>4, <2>5, <1>0 DEF V!End, NoFile
  <2> QED BY <2>6 DEF V!Next
<1>14. CASE RmDir
  <2>1. main.pc \notin {"write", "sync"}
    BY <1>14 DEF RmDir, Consistent
  <2> QED BY <1>14, <1>f, <2>1, Stutters DEF RmDir
<1>15. CASE \E g \in Files : RmFile(g)
  <2>1. PICK g \in Files : RmFile(g)
    BY <1>15
  <2>2. main.wiping /\ main' = main
    BY <2>1 DEF RmFile, Consistent
  <2>3. V!Set(g, "lost")
    BY <2>1, SetMaps, MapFacts DEF RmFile
  <2>4. Pend' = Pend
    BY <2>2 DEF Pend
  <2>5. V!Remove(g)
    BY <1>f, <2>2, <2>3, <2>4 DEF V!Remove
  <2> QED BY <2>5 DEF V!Next
<1>16. CASE PowerCut
  <2>1. main'.pc = "boot" /\ main'.wiping = FALSE
    BY <1>16 DEF PowerCut, Booting, Idle
  <2>2. PICK kept \in [Files -> Contents] :
          /\ \A g \in Files : kept[g] \in disk[g]
          /\ file' = kept /\ disk' = [g \in Files |-> {kept[g]}]
    BY <1>16 DEF PowerCut
  <2>3. \A g \in Files : Val'[g] = Read(kept[g])
    BY <2>2 DEF Val
  <2>4. \A g \in Files : Val'[g] \in Safe[g]
    BY <2>2, <2>3 DEF Safe
  <2>5. Safe' = [g \in Files |-> {Val'[g]}]
    BY <2>2, <2>3 DEF Safe
  <2>6. Val' \in [Files -> Keys \cup {"zero", "lost"}]
    <3>1. \A g \in Files : Read(kept[g]) \in Vals
      BY <2>2, MapFacts
    <3>2. Val' = [g \in Files |-> Read(kept[g])]
      BY <2>2 DEF Val
    <3> QED BY <3>1, <3>2 DEF Vals
  <2>7. Pend' = NoFile
    BY <2>1 DEF Pend
  <2>8. V!Cut
    BY <1>f, <2>1, <2>4, <2>5, <2>6, <2>7 DEF V!Cut
  <2> QED BY <2>8 DEF V!Next
<1>17. CASE UNCHANGED vars
  BY <1>17 DEF vars, V!vars, Val, Safe, Pend, MayFail
<1> QED BY <1>1, <1>2, <1>3, <1>4, <1>5, <1>6, <1>7, <1>8, <1>9, <1>10, <1>11, <1>12,
           <1>13, <1>14, <1>15, <1>16, <1>17 DEF Next, MainStep, RmStep

\* A completed update is durable, a cut loses the file being updated only, and
\* only a lost file or a driver that fails brings the others down: SecureStore
\* implements Vault.
THEOREM VaultCorrect == Spec => VaultRefined
<1>1. Init => V!Init
  <2> SUFFICES ASSUME Init PROVE V!Init
    OBVIOUS
  <2>1. main.pc = "boot" /\ main.wiping = FALSE
    BY DEF Init, Booting, Idle
  <2>2. Val = [g \in Files |-> "lost"]
    BY MapFacts DEF Init, Val
  <2>3. Safe = [g \in Files |-> {"lost"}]
    BY MapFacts DEF Init, Safe
  <2>4. Pend = NoFile /\ MayFail \in BOOLEAN
    BY <2>1 DEF Pend, MayFail
  <2> QED BY <2>1, <2>2, <2>3, <2>4 DEF V!Init
<1>2. Spec => []TypeOK /\ []Consistent
  BY TypeCorrect, ConsistentCorrect
<1>3. TypeOK /\ Consistent /\ [Next]_vars => [V!Next]_(V!vars)
  BY RefineStep
<1> QED BY <1>1, <1>2, <1>3, PTL DEF Spec, VaultRefined, V!Spec

=============================================================================
