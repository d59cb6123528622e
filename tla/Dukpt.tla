------------------------------- MODULE Dukpt -------------------------------
\* AES DUKPT of PEDK (DUKPT-AES.c): an initial key is injected, turned into one
\* intermediate derivation key for each bit of the transaction counter, and never
\* kept; every request derives a working key from the register of the counter's
\* lowest bit, replaces that register by its descendants and counts on. Registers,
\* flags, counter and key type live in secure files, each written by a step of its
\* own; the initial key's ID and type live in RAM only. Keys are symbols: the path
\* of derivations from an initial key. Encryption is left out.

EXTENDS Integers, Sequences, SequencesExt, FiniteSets

CONSTANTS
  NumReg,       \* NUM_REG: registers, and bits of the transaction counter
  MaxWork,      \* MAX_WORK: one-bits of a counter value that is used
  Loads,        \* bound: initial keys injected
  Spoils,       \* bound: deletions, and injections whose serial number is refused
  Requests,     \* bound: requests for a working key
  Cuts          \* bound: power cuts

ASSUME DukptAssumption ==
  /\ NumReg \in Nat \ {0} /\ MaxWork \in Nat
  /\ Loads \in Nat /\ Spoils \in Nat /\ Requests \in Nat /\ Cuts \in Nat

Regs == 0..(NumReg - 1)

\* The counter is a word of NumReg bits: the set of its one-bits.
Counters == SUBSET Regs

\* Who asks for a working key: PED_AES_DUKPT_GenPinBlock at once,
\* SRED_AES_DUKPT_GetMacKey after it has looked at the key status.
Usages == {"pin", "mac"}

VARIABLES
  reg,          \* IntermediateDerivationKeyRegister (secure file)
  inUse,        \* IntermediateDerivationKeyInUse (secure file)
  cur,          \* CurrentDerivationKey (secure file)
  ctr,          \* TransactionCounter (secure file)
  typed,        \* is the AES DUKPT key type set? (secure file)
  ident,        \* g_InitialKeyID and g_InitialKeyType: of which injection, or 0
  pc,           \* next step of the call, "idle", or "off"
  op,           \* the call: "load", "refused", "delete" or a usage
  i,            \* index of the loop
  base,         \* baseKey
  work,         \* workingKey
  loads,        \* initial keys injected so far
  answers,      \* working keys handed out, with the counter told with each
  spoils, requests, cuts

files == <<reg, inUse, cur, ctr, typed>>

locals == <<op, i, base, work>>

bounds == <<spoils, requests, cuts>>

vars == <<files, ident, pc, locals, loads, answers, bounds>>

----------------------------------------------------------------------------
\* Keys and counters

\* A derivation: its usage, the ID and type it is done under, and its counter.
Derivation == {"initial", "derive"} \cup Usages

Keys == Seq(Derivation \X Nat \X Counters)

Zero == <<>>

Initial(n) == << <<"initial", n, {}>> >>

Derive(key, usage, n, c) == Append(key, <<usage, n, c>>)

\* Does the key come from an initial key, and not from an erased register?
Injected(key) == key # Zero /\ key[1][1] = "initial"

\* c + (1 << k), whose carry falls off the highest bit
Plus(c, k) ==
  LET z == CHOOSE z \in k..NumReg : z \notin c /\ k..(z - 1) \subseteq c
  IN (c \ (k..(z - 1))) \cup ({z} \cap Regs)

\* Mutant: the counter is left out.
WithBitAlone(c, k) == {k}

\* c | (1 << k)
WithBit(c, k) == c \cup {k}

Ones(c) == Cardinality(c)

\* The right-most one-bit.
Lowest(c) == IF c = {} THEN 0 ELSE CHOOSE k \in c : \A j \in c : k <= j

\* Has the counter reached (1 << NUM_REG) - 1? The shift is as wide as the type,
\* and compiles to 0.
Exceeded(c) == c = Regs

\* What the host derives from an initial key for a counter: one derivation for
\* each one-bit, from the highest down.
HostKey(n, c) ==
  LET key[k \in 0..NumReg] ==  \* by the k highest bits
        IF k = 0 THEN Initial(n)
        ELSE IF NumReg - k \notin c THEN key[k - 1]
        ELSE Derive(key[k - 1], "derive", n, c \cap ((NumReg - k)..NumReg))
  IN  key[NumReg]

Init ==
  /\ reg = [r \in Regs |-> Zero]
  /\ inUse = [r \in Regs |-> FALSE]
  /\ cur = 0
  /\ ctr = {}
  /\ typed = FALSE
  /\ ident = 0
  /\ pc = "idle"
  /\ op = "delete" /\ i = 0 /\ base = Zero /\ work = Zero
  /\ loads = 0
  /\ answers = <<>>
  /\ spoils = 0 /\ requests = 0 /\ cuts = 0

\* The locals of a call end with it.
Return == i' = 0 /\ base' = Zero /\ work' = Zero /\ UNCHANGED op

----------------------------------------------------------------------------
\* PED_EraseAesDUKPT, called by the operator's menu and by every injection.

Delete ==
  /\ pc = "idle" /\ spoils < Spoils
  /\ op' = "delete" /\ spoils' = spoils + 1
  /\ pc' = "erase" /\ i' = 0
  /\ UNCHANGED <<files, ident, base, work, loads, answers, requests, cuts>>

\* PED_SetAESDUKPT with a good initial key; its serial number is looked at only
\* after the old keys are erased.
SetKeys ==
  /\ pc = "idle" /\ loads < Loads
  /\ \/ op' = "load" /\ UNCHANGED spoils
     \/ op' = "refused" /\ spoils < Spoils /\ spoils' = spoils + 1
  /\ pc' = "erase" /\ i' = 0
  /\ UNCHANGED <<files, ident, base, work, loads, answers, requests, cuts>>

EraseReg ==
  /\ pc = "erase"
  /\ reg' = [reg EXCEPT ![i] = Zero]
  /\ IF i = NumReg - 1 THEN pc' = "eraseType" /\ UNCHANGED i
     ELSE i' = i + 1 /\ UNCHANGED pc
  /\ UNCHANGED <<inUse, cur, ctr, typed, ident, op, base, work, loads, answers, bounds>>

\* Mutant: the key type is kept.
EraseTypeKept ==
  /\ pc = "eraseType"
  /\ pc' = IF op = "load" THEN "putInitial" ELSE "idle"
  /\ Return
  /\ UNCHANGED <<files, ident, loads, answers, bounds>>

EraseType ==
  /\ pc = "eraseType"
  /\ typed' = FALSE
  /\ pc' = IF op = "load" THEN "putInitial" ELSE "idle"
  /\ Return
  /\ UNCHANGED <<reg, inUse, cur, ctr, ident, loads, answers, bounds>>

----------------------------------------------------------------------------
\* AES_DUKPT_LoadInitialKey

PutInitial ==
  /\ pc = "putInitial"
  /\ loads' = loads + 1
  /\ reg' = [reg EXCEPT ![0] = Initial(loads + 1)]
  /\ pc' = "useInitial"
  /\ UNCHANGED <<inUse, cur, ctr, typed, ident, locals, answers, bounds>>

UseInitial ==
  /\ pc = "useInitial"
  /\ inUse' = [inUse EXCEPT ![0] = TRUE]
  /\ pc' = "resetCurrent"
  /\ UNCHANGED <<reg, cur, ctr, typed, ident, locals, loads, answers, bounds>>

ResetCurrent ==
  /\ pc = "resetCurrent"
  /\ cur' = 0
  /\ ident' = loads
  /\ pc' = "resetCounter"
  /\ UNCHANGED <<reg, inUse, ctr, typed, locals, loads, answers, bounds>>

ResetCounter ==
  /\ pc = "resetCounter"
  /\ ctr' = {}
  /\ base' = reg[cur] /\ i' = NumReg - 1
  /\ pc' = "derive"
  /\ UNCHANGED <<reg, inUse, cur, typed, ident, op, work, loads, answers, bounds>>

\* The loop of Update_Derivation_Keys, from register i down to register 0.
DeriveReg ==
  /\ pc = "derive"
  /\ reg' = [reg EXCEPT ![i] = Derive(base, "derive", ident, WithBit(ctr, i))]
  /\ pc' = "use"
  /\ UNCHANGED <<inUse, cur, ctr, typed, ident, locals, loads, answers, bounds>>

\* Mutant: the loop runs once more, and the index wraps.
UseRegOnceMore ==
  /\ pc = "use"
  /\ inUse' = [inUse EXCEPT ![i] = TRUE]
  /\ IF i >= 0 THEN i' = i - 1 /\ pc' = "derive"
     ELSE /\ pc' = IF op = "load" THEN "firstCounter" ELSE "clear"
          /\ UNCHANGED i
  /\ UNCHANGED <<reg, cur, ctr, typed, ident, op, base, work, loads, answers, bounds>>

UseReg ==
  /\ pc = "use"
  /\ inUse' = [inUse EXCEPT ![i] = TRUE]
  /\ IF i > 0 THEN i' = i - 1 /\ pc' = "derive"
     ELSE /\ pc' = IF op = "load" THEN "firstCounter" ELSE "clear"
          /\ UNCHANGED i
  /\ UNCHANGED <<reg, cur, ctr, typed, ident, op, base, work, loads, answers, bounds>>

FirstCounter ==
  /\ pc = "firstCounter"
  /\ ctr' = Plus(ctr, 0)
  /\ pc' = "putType"
  /\ UNCHANGED <<reg, inUse, cur, typed, ident, locals, loads, answers, bounds>>

\* The caller of PED_SetAESDUKPT stores the type of a key that was accepted.
PutType ==
  /\ pc = "putType"
  /\ typed' = TRUE
  /\ pc' = "idle"
  /\ Return
  /\ UNCHANGED <<reg, inUse, cur, ctr, ident, loads, answers, bounds>>

----------------------------------------------------------------------------
\* AES_DUKPT_GenerateWorkingKeys

\* PED_VerifyKeyStatus_AES_DUKPT
KeyStatus == typed /\ \E r \in Regs : reg[r] # Zero

Request(u) ==
  /\ pc = "idle" /\ requests < Requests
  /\ u = "mac" => KeyStatus
  /\ op' = u /\ requests' = requests + 1
  /\ pc' = "shift"
  /\ UNCHANGED <<files, ident, i, base, work, loads, answers, spoils, cuts>>

\* Set_Shift_Register writes every index on its way to the last; none of them is
\* read, for each request starts here.
SetShift ==
  /\ pc = "shift"
  /\ cur' = Lowest(ctr)
  /\ pc' = "find"
  /\ UNCHANGED <<reg, inUse, ctr, typed, ident, locals, loads, answers, bounds>>

\* Mutant: the counter is not stored, and Set_Shift_Register reads the old one.
SkipUnstored ==
  /\ pc = "find" /\ ~inUse[cur]
  /\ pc' = IF Exceeded(Plus(ctr, cur)) THEN "idle" ELSE "shift"
  /\ Return
  /\ UNCHANGED <<files, ident, loads, answers, bounds>>

\* Past an invalid register: the counter advances by its bit, and may wrap to 0.
Skip ==
  /\ pc = "find" /\ ~inUse[cur]
  /\ ctr' = Plus(ctr, cur)
  /\ pc' = IF Exceeded(ctr') THEN "idle" ELSE "shift"
  /\ Return
  /\ UNCHANGED <<reg, inUse, cur, typed, ident, loads, answers, bounds>>

\* Create_Derivation_Data does not know the type asked for.
RefuseType ==
  /\ pc = "find" /\ inUse[cur]
  /\ pc' = "idle"
  /\ UNCHANGED <<files, ident, locals, loads, answers, bounds>>

\* Mutant: the key is handed out before the registers are replaced.
DeriveWorkingEarly ==
  /\ pc = "find" /\ inUse[cur] /\ Ones(ctr) <= MaxWork
  /\ base' = reg[cur] /\ i' = cur
  /\ work' = Derive(reg[cur], op, ident, ctr)
  /\ answers' = Append(answers, [key |-> work', ksn |-> ctr, load |-> loads])
  /\ pc' = "derive"
  /\ UNCHANGED <<files, ident, op, loads, bounds>>

\* The working key, then Update_State_for_next_Transaction.
DeriveWorking ==
  /\ pc = "find" /\ inUse[cur] /\ Ones(ctr) <= MaxWork
  /\ base' = reg[cur] /\ i' = cur
  /\ work' = Derive(reg[cur], op, ident, ctr)
  /\ pc' = "derive"
  /\ UNCHANGED <<files, ident, op, loads, answers, bounds>>

\* Too many one-bits: OS_SECM_GetData is given the value of the index for an
\* address, and the SP ends in its SIGSEGV handler.
SkipCrash ==
  /\ pc = "find" /\ inUse[cur] /\ Ones(ctr) > MaxWork
  /\ pc' = "off" /\ ident' = 0
  /\ Return
  /\ UNCHANGED <<files, loads, answers, bounds>>

ClearReg ==
  /\ pc = "clear"
  /\ reg' = [reg EXCEPT ![cur] = Zero]
  /\ pc' = "unuse"
  /\ UNCHANGED <<inUse, cur, ctr, typed, ident, locals, loads, answers, bounds>>

UnuseReg ==
  /\ pc = "unuse"
  /\ inUse' = [inUse EXCEPT ![cur] = FALSE]
  /\ pc' = "count"
  /\ UNCHANGED <<reg, cur, ctr, typed, ident, locals, loads, answers, bounds>>

\* AES_DUKPT_RequestPinEntry and AES_DUKPT_GetKSN read the counter c again for the
\* key serial number, after the update: c is no longer the key's own.
Answer(c) == [key |-> work, ksn |-> c, load |-> loads]

\* The last counter value fails its request after the key has been derived.
NextCounter ==
  /\ pc = "count"
  /\ ctr' = Plus(ctr, 0)
  /\ answers' = IF Exceeded(ctr') THEN answers
                ELSE Append(answers, Answer(ctr'))
  /\ pc' = "idle"
  /\ Return
  /\ UNCHANGED <<reg, inUse, cur, typed, ident, loads, bounds>>

----------------------------------------------------------------------------
\* Power. Vault: a file that was being written when power failed may be lost, and
\* then all files are removed and made again, empty. That happens when the file
\* is loaded next; here, at once.

Wipe ==
  /\ reg' = [r \in Regs |-> Zero]
  /\ inUse' = [r \in Regs |-> FALSE]
  /\ cur' = 0 /\ ctr' = {} /\ typed' = FALSE

PowerCut ==
  /\ pc # "off" /\ cuts < Cuts
  /\ UNCHANGED files \/ (pc # "idle" /\ Wipe)
  /\ pc' = "off" /\ ident' = 0
  /\ cuts' = cuts + 1
  /\ Return
  /\ UNCHANGED <<loads, answers, spoils, requests>>

\* main reads the flags, the index and the counter again, not the ID or the type.
Restart ==
  /\ pc = "off"
  /\ pc' = "idle"
  /\ UNCHANGED <<files, ident, locals, loads, answers, bounds>>

\* The SP waits for the next call.
Rest == pc = "idle" /\ UNCHANGED vars

Erase == EraseReg \/ EraseType

LoadInitialKey ==
  PutInitial \/ UseInitial \/ ResetCurrent \/ ResetCounter \/ FirstCounter \/ PutType

GenerateWorkingKeys ==
  SetShift \/ Skip \/ RefuseType \/ DeriveWorking \/ SkipCrash
    \/ ClearReg \/ UnuseReg \/ NextCounter

Step == Erase \/ LoadInitialKey \/ DeriveReg \/ UseReg \/ GenerateWorkingKeys

Next ==
  Delete \/ SetKeys \/ (\E u \in Usages : Request(u)) \/ Step \/ PowerCut \/ Restart \/ Rest

Spec == Init /\ [][Next]_vars

\* A call that runs goes on.
FairSpec == Spec /\ WF_vars(Step)

----------------------------------------------------------------------------
\* Properties

\* Files and locals keep their types; no loop leaves the registers.
TypeOK ==
  /\ reg \in [Regs -> Keys] /\ inUse \in [Regs -> BOOLEAN]
  /\ cur \in Regs /\ ctr \in Counters /\ typed \in BOOLEAN
  /\ ident \in 0..loads /\ loads \in 0..Loads
  /\ pc \in {"idle", "off", "erase", "eraseType", "putInitial", "useInitial",
             "resetCurrent", "resetCounter", "derive", "use", "firstCounter", "putType",
             "shift", "find", "clear", "unuse", "count"}
  /\ op \in {"load", "refused", "delete"} \cup Usages
  /\ i \in Regs /\ base \in Keys /\ work \in Keys
  /\ answers \in Seq([key : Keys, ksn : Counters, load : 0..Loads])
  /\ spoils \in 0..Spoils /\ requests \in 0..Requests /\ cuts \in 0..Cuts

\* As long as the SP has not been off since the injection and nothing was
\* deleted, a working key is the one the host derives for the counter before the
\* one in the key serial number it is given (a host that takes that counter itself
\* derives the key of the next request).
HostAgrees ==
  cuts = 0 /\ spoils = 0 =>
    \A n \in 1..Len(answers) :
      LET a == answers[n]
          c == Last(a.key)[3]
      IN a.ksn = Plus(c, 0) /\ Front(a.key) = HostKey(a.load, c)

\* No working key that comes from an injected key is handed out twice, whatever
\* power cuts interrupt.
UniqueKeys ==
  \A m, n \in 1..Len(answers) :
    m # n /\ Injected(answers[m].key) => answers[m].key # answers[n].key

\* Once a working key has been handed out, no key it was derived from is left in a
\* register, so that it cannot be derived again: neither after a power cut nor in
\* the course of a new injection.
ForwardSecrecy ==
  \A n \in 1..Len(answers), r \in Regs :
    Injected(reg[r]) => ~IsPrefix(reg[r], answers[n].key)

\* A caller that looks at the key status first never gets a key derived from an
\* erased register, whatever was deleted or refused before; a power cut between
\* the erasure of a register and its flag breaks this.
CheckedKeys ==
  cuts = 0 =>
    \A n \in 1..Len(answers) :
      Last(answers[n].key)[1] = "mac" => Injected(answers[n].key)

\* While a register is in use, a request ends: skipping invalid registers finds
\* it. (With none in use the counter runs round for ever.)
RequestsEnd ==
  pc = "shift" /\ (\E r \in Regs : inUse[r]) ~> pc \in {"idle", "off"}

\* A counter value with too many one-bits is passed over, as the comment on that
\* branch says: "skip transaction counter values with more than MAX_WORK bits".
Skips == [][pc = "find" /\ inUse[cur] /\ Ones(ctr) > MaxWork => pc' # "off"]_vars

\* As long as a key is loaded, the ID and type it was injected with are held:
\* "this register will hold the left-most 64 bits of the initial key serial number".
IdentHeld == typed /\ pc = "idle" => ident = loads
=============================================================================
