---------------------------- MODULE DukptProofs ----------------------------
(***************************************************************************)
(* No working key is handed out twice or can be derived again, a caller    *)
(* that checks the key status never gets one from an erased register, and  *)
(* the host derives the same key: for any number of registers, injections, *)
(* requests and power cuts. The counter is a set of bits here, so that no  *)
(* arithmetic on powers of two is needed.                                  *)
(***************************************************************************)
EXTENDS Dukpt, SequenceTheorems, FiniteSetTheorems, WellFoundedInduction, Induction, TLAPS

----------------------------------------------------------------------------
\* Keys: their prefixes are the keys they were derived from.

Triples == Derivation \X Nat \X Counters

LEMMA PrefixDef ==
  ASSUME NEW a \in Keys, NEW b \in Keys
  PROVE  IsPrefix(a, b) <=> Len(a) <= Len(b) /\ \A j \in 1..Len(a) : a[j] = b[j]
<1> DEFINE l == Len(a)
<1>1. l \in Nat /\ Len(b) \in Nat
  BY DEF Keys
<1>2. SUFFICES ASSUME l <= Len(b)
               PROVE  SubSeq(a, 1, l) = SubSeq(b, 1, l) <=> \A j \in 1..l : a[j] = b[j]
  BY DEF IsPrefix
<1>3. SubSeq(a, 1, l) = a
  BY SubSeqFull DEF Keys
<1>4. \A j \in 1..l : b[j] \in Triples
  BY <1>1, <1>2, ElementOfSeq DEF Keys, Triples
<1>5. /\ SubSeq(b, 1, l) \in Keys
      /\ Len(SubSeq(b, 1, l)) = l
      /\ \A j \in 1..l : SubSeq(b, 1, l)[j] = b[j]
  <2>1. /\ SubSeq(b, 1, l) \in Seq(Triples)
        /\ Len(SubSeq(b, 1, l)) = IF 1 <= l THEN l - 1 + 1 ELSE 0
        /\ \A j \in 1..(l - 1 + 1) : SubSeq(b, 1, l)[j] = b[1 + j - 1]
    BY <1>1, <1>4, SubSeqProperties
  <2> QED BY <2>1, <1>1 DEF Keys, Triples
<1>6. ASSUME \A j \in 1..l : a[j] = b[j]
      PROVE  a = SubSeq(b, 1, l)
  BY <1>5, <1>6, SeqEqual DEF Keys
<1> QED BY <1>3, <1>5, <1>6

LEMMA PrefixRefl == ASSUME NEW a \in Keys PROVE IsPrefix(a, a)
BY PrefixDef DEF Keys

LEMMA AppendKey ==
  ASSUME NEW b \in Keys, NEW x \in Triples
  PROVE  /\ Append(b, x) \in Keys
         /\ Len(Append(b, x)) = Len(b) + 1
         /\ Append(b, x)[Len(b) + 1] = x
         /\ \A j \in 1..Len(b) : Append(b, x)[j] = b[j]
         /\ Len(b) \in Nat
BY DEF Keys, Triples

LEMMA LenKey == ASSUME NEW a \in Keys PROVE Len(a) \in Nat
BY DEF Keys

\* The keys that a derived key comes from are itself and those its parent comes from.
LEMMA PrefixAppend ==
  ASSUME NEW a \in Keys, NEW b \in Keys, NEW x \in Triples
  PROVE  IsPrefix(a, Append(b, x)) <=> IsPrefix(a, b) \/ a = Append(b, x)
<1> DEFINE c == Append(b, x)
<1>1. /\ c \in Keys /\ Len(c) = Len(b) + 1
      /\ \A j \in 1..Len(b) : c[j] = b[j]
      /\ Len(a) \in Nat /\ Len(b) \in Nat
  BY AppendKey, LenKey
<1> HIDE DEF c
<1>2. IsPrefix(a, c) <=> Len(a) <= Len(c) /\ \A j \in 1..Len(a) : a[j] = c[j]
  BY <1>1, PrefixDef
<1>3. IsPrefix(a, b) <=> Len(a) <= Len(b) /\ \A j \in 1..Len(a) : a[j] = b[j]
  BY PrefixDef
<1>4. CASE Len(a) <= Len(b)
  <2>1. \A j \in 1..Len(a) : c[j] = b[j]
    BY <1>1, <1>4
  <2>2. a # c
    BY <1>1, <1>4
  <2> QED BY <2>1, <2>2, <1>1, <1>2, <1>3, <1>4 DEF c
<1>5. CASE Len(a) > Len(b)
  <2>1. IsPrefix(a, c) => a = c
    <3> SUFFICES ASSUME IsPrefix(a, c) PROVE a = c
      OBVIOUS
    <3>1. Len(a) = Len(c) /\ \A j \in 1..Len(a) : a[j] = c[j]
      BY <1>1, <1>2, <1>5
    <3> QED BY <3>1, <1>1, SeqEqual DEF Keys
  <2>2. a = c => IsPrefix(a, c)
    BY <1>1, PrefixRefl
  <2> QED BY <2>1, <2>2, <1>1, <1>3, <1>5 DEF c
<1> QED BY <1>1, <1>4, <1>5

LEMMA PrefixTrans ==
  ASSUME NEW a \in Keys, NEW b \in Keys, NEW c \in Keys, IsPrefix(a, b), IsPrefix(b, c)
  PROVE  IsPrefix(a, c)
<1>1. Len(a) <= Len(b) /\ \A j \in 1..Len(a) : a[j] = b[j]
  BY PrefixDef
<1>2. Len(b) <= Len(c) /\ \A j \in 1..Len(b) : b[j] = c[j]
  BY PrefixDef
<1>3. Len(a) \in Nat /\ Len(b) \in Nat /\ Len(c) \in Nat
  BY LenKey
<1>4. Len(a) <= Len(c) /\ \A j \in 1..Len(a) : a[j] = c[j]
  BY <1>1, <1>2, <1>3
<1> QED BY <1>4, PrefixDef

LEMMA AppendPrefix ==
  ASSUME NEW b \in Keys, NEW c \in Keys, NEW x \in Triples
  PROVE  /\ IsPrefix(b, Append(b, x))
         /\ ~IsPrefix(Append(b, x), b)
         /\ IsPrefix(Append(b, x), c) => IsPrefix(b, c)
<1>1. IsPrefix(b, Append(b, x))
  BY PrefixAppend, PrefixRefl
<1>2. ~IsPrefix(Append(b, x), b)
  <2>1. IsPrefix(Append(b, x), b) => Len(Append(b, x)) <= Len(b)
    BY PrefixDef, AppendKey
  <2> QED BY <2>1, AppendKey
<1>3. IsPrefix(Append(b, x), c) => IsPrefix(b, c)
  BY <1>1, PrefixTrans, AppendKey
<1> QED BY <1>1, <1>2, <1>3

\* A prefix of a key is no key, or comes from the same injection.
LEMMA PrefixInjected ==
  ASSUME NEW a \in Keys, NEW b \in Keys, IsPrefix(a, b)
  PROVE  a # Zero => b # Zero /\ b[1] = a[1]
<1> SUFFICES ASSUME a # Zero PROVE b # Zero /\ b[1] = a[1]
  OBVIOUS
<1>1. Len(a) \in Nat /\ Len(a) # 0 /\ Len(b) \in Nat
  BY EmptySeq, LenKey DEF Keys, Zero
<1>2. Len(a) <= Len(b) /\ \A j \in 1..Len(a) : a[j] = b[j]
  BY PrefixDef
<1>3. Len(Zero) = 0
  BY DEF Zero
<1> QED BY <1>1, <1>2, <1>3

----------------------------------------------------------------------------
\* Derivations and initial keys

LEMMA DeriveFacts ==
  ASSUME NEW k \in Keys, NEW u \in Derivation \ {"initial"}, NEW n \in Nat,
         NEW c \in Counters
  PROVE  /\ Derive(k, u, n, c) \in Keys
         /\ Derive(k, u, n, c) # Zero
         /\ Last(Derive(k, u, n, c)) = <<u, n, c>>
         /\ Injected(Derive(k, u, n, c)) <=> Injected(k)
         /\ Injected(k) => Derive(k, u, n, c)[1] = k[1]
         /\ IsPrefix(k, Derive(k, u, n, c))
         /\ ~IsPrefix(Derive(k, u, n, c), k)
<1> DEFINE d == Append(k, <<u, n, c>>)
<1>1. <<u, n, c>> \in Triples
  BY DEF Triples
<1>2. /\ d \in Keys /\ Len(d) = Len(k) + 1 /\ d[Len(k) + 1] = <<u, n, c>>
      /\ \A j \in 1..Len(k) : d[j] = k[j]
      /\ Len(k) \in Nat /\ IsPrefix(k, d) /\ ~IsPrefix(d, k)
  BY <1>1, AppendKey, AppendPrefix
<1> HIDE DEF d
<1>3. d # Zero
  BY <1>2 DEF Zero
<1>4. Injected(d) <=> Injected(k)
  <2>1. CASE k = Zero
    <3>1. d[1] = <<u, n, c>>
      BY <2>1, <1>2 DEF Zero
    <3> QED BY <3>1, <2>1 DEF Injected
  <2>2. CASE k # Zero
    BY <2>2, <1>2, <1>3, PrefixInjected DEF Injected
  <2> QED BY <2>1, <2>2
<1>5. Injected(k) => d[1] = k[1]
  BY <1>2, PrefixInjected DEF Injected
<1>6. Last(d) = <<u, n, c>>
  BY <1>2 DEF Last
<1> QED BY <1>2, <1>3, <1>4, <1>5, <1>6 DEF d, Derive

LEMMA DerivePrefix ==
  ASSUME NEW k \in Keys, NEW u \in Derivation \ {"initial"}, NEW n \in Nat,
         NEW c \in Counters, NEW a \in Keys
  PROVE  /\ IsPrefix(a, Derive(k, u, n, c)) <=> IsPrefix(a, k) \/ a = Derive(k, u, n, c)
         /\ IsPrefix(Derive(k, u, n, c), a) => IsPrefix(k, a)
<1>1. <<u, n, c>> \in Triples
  BY DEF Triples
<1> QED BY <1>1, PrefixAppend, AppendPrefix DEF Derive

LEMMA InitialFacts ==
  ASSUME NEW n \in Nat
  PROVE  /\ Initial(n) \in Keys
         /\ Initial(n) # Zero
         /\ Last(Initial(n))[1] = "initial"
         /\ Injected(Initial(n))
         /\ Initial(n)[1][2] = n
         /\ \A a \in Keys : IsPrefix(a, Initial(n)) => a = Zero \/ a = Initial(n)
<1>1. <<"initial", n, {}>> \in Triples
  BY DEF Triples, Derivation, Counters
<1>2. Initial(n) \in Keys /\ Len(Initial(n)) = 1 /\ Initial(n)[1] = <<"initial", n, {}>>
  BY <1>1 DEF Initial, Keys, Triples
<1>3. Initial(n) # Zero
  BY <1>2 DEF Zero
<1>4. ASSUME NEW a \in Keys, IsPrefix(a, Initial(n)), a # Zero PROVE a = Initial(n)
  <2>1. Len(a) \in Nat /\ Len(a) # 0
    BY <1>4, EmptySeq, LenKey DEF Keys, Zero
  <2>2. Len(a) <= Len(Initial(n)) /\ \A j \in 1..Len(a) : a[j] = Initial(n)[j]
    BY <1>2, <1>4, PrefixDef
  <2>3. Len(a) = 1
    <3>1. Len(a) <= 1
      BY ONLY <2>2, <1>2
    <3>2. \A l \in Nat : l # 0 /\ l <= 1 => l = 1
      OBVIOUS
    <3> QED BY ONLY <2>1, <3>1, <3>2
  <2>4. Len(a) = Len(Initial(n)) /\ \A j \in 1..Len(a) : a[j] = Initial(n)[j]
    BY <2>2, <2>3, <1>2
  <2> QED BY <2>4, <1>2, SeqEqual DEF Keys
<1> QED BY <1>2, <1>3, <1>4 DEF Injected, Last

LEMMA ZeroFacts ==
  /\ Zero \in Keys /\ ~Injected(Zero)
  /\ \A a \in Keys : Injected(a) => ~IsPrefix(a, Zero)
<1>1. Zero \in Keys /\ Len(Zero) = 0
  BY DEF Zero, Keys
<1> QED BY <1>1, PrefixInjected DEF Injected

LEMMA InjectedPrefix ==
  ASSUME NEW a \in Keys, NEW b \in Keys, Injected(a), IsPrefix(a, b)
  PROVE  Injected(b) /\ b[1] = a[1]
BY PrefixInjected DEF Injected

----------------------------------------------------------------------------
\* Counters: the lowest one-bit, and siblings under it.

LEMMA LowestFacts ==
  ASSUME NEW c \in Counters
  PROVE  /\ Lowest(c) \in Regs
         /\ \A r \in Regs : r < Lowest(c) => r \notin c
         /\ c = {} => Lowest(c) = 0
         /\ c # {} => Lowest(c) \in c
<1>1. Regs \subseteq Nat /\ 0 \in Regs
  BY DukptAssumption DEF Regs
<1>2. CASE c = {}
  BY <1>1, <1>2 DEF Lowest
<1>3. CASE c # {}
  <2>1. PICK k \in c : \A j \in c : ~(<<j, k>> \in OpToRel(<, Nat))
    BY <1>1, <1>3, WFMin, NatLessThanWellFounded DEF Counters
  <2>2. \A j \in c : k <= j
    <3> SUFFICES ASSUME NEW j \in c PROVE k <= j
      OBVIOUS
    <3>1. j \in Nat /\ k \in Nat
      BY <1>1 DEF Counters
    <3>2. ~(j < k)
      BY <3>1, <2>1 DEF OpToRel
    <3> QED BY <3>1, <3>2
  <2>3. Lowest(c) \in c /\ \A j \in c : Lowest(c) <= j
    BY <2>2, <1>3 DEF Lowest
  <2>4. Lowest(c) \in Regs
    BY <2>3 DEF Counters
  <2>5. ASSUME NEW r \in Regs, r < Lowest(c) PROVE r \notin c
    <3>1. r \in Nat /\ Lowest(c) \in Nat
      BY <2>4, <1>1
    <3>2. r \in c => Lowest(c) <= r
      BY <2>3
    <3> QED BY <3>1, <3>2, <2>5
  <2> QED BY <2>3, <2>4, <2>5, <1>3
<1> QED BY <1>2, <1>3

LEMMA CounterFacts ==
  ASSUME NEW c \in Counters, NEW k \in Regs
  PROVE  Plus(c, k) \in Counters /\ WithBit(c, k) \in Counters
BY DEF Counters, Plus, WithBit

----------------------------------------------------------------------------
\* The inductive invariant

LoadSteps ==
  {"putInitial", "useInitial", "resetCurrent", "resetCounter", "firstCounter", "putType"}

\* Which calls are at which steps, and that an injection that begins may end.
OpInv ==
  /\ op = "load" /\ pc \in {"erase", "eraseType", "putInitial"} => loads < Loads
  /\ pc \in {"erase", "eraseType"} => op \in {"load", "refused", "delete"}
  /\ pc \in LoadSteps => op = "load"
  /\ pc \in {"derive", "use"} => op \in Usages \cup {"load"}
  /\ pc \in {"shift", "find", "clear", "unuse", "count"} => op \in Usages

Requesting == op \in Usages /\ pc \in {"derive", "use", "clear", "unuse", "count"}

Loading == op = "load" /\ pc \in {"derive", "use"}

\* Has the update in progress been at register r?
Replaced(r) == (pc = "derive" => r > i) /\ (pc = "use" => r >= i)

Child(r) == Derive(base, "derive", ident, WithBit(ctr, r))

\* No key comes from an injection to come.
Rooted(k) == Injected(k) => k[1][2] <= loads

RootInv ==
  /\ \A r \in Regs : Rooted(reg[r])
  /\ \A n \in 1..Len(answers) : Rooted(answers[n].key)
  /\ Rooted(base) /\ Rooted(work)

\* Registers hold keys that are there to be derived from.
LeafInv == \A r \in Regs : reg[r] # Zero => Last(reg[r])[1] \in {"initial", "derive"}

\* The registers that an injection, interrupted or not, leaves beside the initial
\* key it started from.
Unfinished(r) ==
  /\ reg[0] = Initial(loads) /\ ctr = {} /\ inUse[0]
  /\ reg[r] = Derive(Initial(loads), "derive", loads, {r})

\* Apart from that, no register descends from another.
ApartInv ==
  \A r, s \in Regs : s < r =>
    /\ Injected(reg[r]) => ~IsPrefix(reg[r], reg[s])
    /\ Injected(reg[s]) /\ IsPrefix(reg[s], reg[r]) => s = 0 /\ Unfinished(r)

\* How far an injection has come.
LoadInv ==
  /\ pc = "erase" => \A r \in Regs : r < i => reg[r] = Zero
  /\ pc \in {"eraseType", "putInitial"} => \A r \in Regs : reg[r] = Zero
  /\ pc \in {"useInitial", "resetCurrent", "resetCounter"} =>
       /\ loads >= 1
       /\ reg[0] = Initial(loads) /\ \A r \in Regs : r # 0 => reg[r] = Zero
  /\ pc \in {"resetCurrent", "resetCounter"} => inUse[0]
  /\ pc = "resetCounter" => cur = 0 /\ ident = loads
  /\ Loading \/ pc = "firstCounter" =>
       /\ loads >= 1
       /\ base = Initial(loads) /\ ident = loads /\ ctr = {} /\ inUse[0]
       /\ \A r \in Regs :
            reg[r] = IF Replaced(r) THEN Child(r) ELSE IF r = 0 THEN base ELSE Zero
  /\ pc = "putType" => \A r \in Regs : Injected(reg[r])

\* The registers that a request has replaced, those it will replace, and those
\* above them.
Done(r) ==
  r <= cur /\ Replaced(r) =>
    reg[r] = IF r = cur /\ pc \in {"unuse", "count"} THEN Zero ELSE Child(r)

ToReplace(r) ==
  r < cur /\ ~Replaced(r) =>
    /\ Injected(base) => ~IsPrefix(base, reg[r])
    /\ Injected(reg[r]) => ~IsPrefix(reg[r], base)

Above(r) ==
  r > cur =>
    /\ Injected(base) /\ IsPrefix(base, reg[r]) =>
         cur = 0 /\ reg[r] = Derive(base, "derive", loads, {r})
    /\ Injected(reg[r]) => ~IsPrefix(reg[r], base)

\* How far a request has come, and that its base key is no prefix of what was
\* handed out before.
RequestInv ==
  /\ pc = "find" => cur = Lowest(ctr)
  /\ Requesting =>
       /\ cur = Lowest(ctr)
       /\ pc \in {"derive", "use"} => i <= cur
       /\ work = Derive(base, op, ident, ctr)
       /\ Injected(base) => \A n \in 1..Len(answers) : ~IsPrefix(base, answers[n].key)
       /\ \A r \in Regs : Done(r) /\ ToReplace(r) /\ Above(r)

\* What the key status stands for while no power cut has happened.
StatusInv ==
  /\ pc \in LoadSteps \/ Loading => ~typed
  /\ cuts = 0 /\ typed /\ pc \notin {"erase", "eraseType"} =>
       \A r \in Regs : inUse[r] => Injected(reg[r]) \/ (pc = "unuse" /\ r = cur)
  /\ cuts = 0 /\ op = "mac" /\ (Requesting \/ pc \in {"shift", "find"}) => typed
  /\ cuts = 0 /\ typed /\ Requesting => Injected(base)

KeyInv ==
  /\ OpInv /\ RootInv /\ LeafInv /\ ApartInv /\ LoadInv /\ RequestInv
  /\ ForwardSecrecy /\ UniqueKeys

----------------------------------------------------------------------------
\* Types

LEMMA KeyTypes ==
  ASSUME TypeOK
  PROVE  /\ Zero \in Keys
         /\ \A n \in Nat : Initial(n) \in Keys
         /\ \A k \in Regs :
              /\ Plus(ctr, k) \in Counters
              /\ WithBit(ctr, k) \in Counters
              /\ Derive(base, "derive", ident, WithBit(ctr, k)) \in Keys
         /\ op \in Usages => \A k \in Keys : Derive(k, op, ident, ctr) \in Keys
         /\ Lowest(ctr) \in Regs /\ {} \in Counters
         /\ 0 \in Regs /\ NumReg - 1 \in Regs
         /\ ident \in Nat /\ loads \in Nat
<1>1. ident \in Nat /\ loads \in Nat
  BY DukptAssumption DEF TypeOK
<1>2. "derive" \in Derivation \ {"initial"} /\ Usages \subseteq Derivation \ {"initial"}
  BY DEF Derivation, Usages
<1>3. Lowest(ctr) \in Regs /\ {} \in Counters /\ 0 \in Regs /\ NumReg - 1 \in Regs
  BY LowestFacts, DukptAssumption DEF TypeOK, Counters, Regs
<1> QED BY <1>1, <1>2, <1>3, ZeroFacts, InitialFacts, CounterFacts, DeriveFacts DEF TypeOK

LEMMA OpStep == TypeOK /\ OpInv /\ [Next]_vars => OpInv'
<1> SUFFICES ASSUME TypeOK, OpInv, [Next]_vars PROVE OpInv'
  OBVIOUS
<1> USE DukptAssumption DEF OpInv, Usages, LoadSteps
<1>1. CASE Delete \/ SetKeys \/ \E u \in Usages : Request(u)
  BY <1>1 DEF Delete, SetKeys, Request
<1>2. CASE Erase
  BY <1>2 DEF Erase, EraseReg, EraseType, Return, TypeOK
<1>3. CASE LoadInitialKey
  BY <1>3 DEF LoadInitialKey, PutInitial, UseInitial, ResetCurrent, ResetCounter,
              FirstCounter, PutType, Return, locals
<1>4. CASE DeriveReg \/ UseReg
  BY <1>4 DEF DeriveReg, UseReg, locals
<1>5. CASE GenerateWorkingKeys
  BY <1>5 DEF GenerateWorkingKeys, SetShift, Skip, RefuseType, DeriveWorking, SkipCrash,
              ClearReg, UnuseReg, NextCounter, Return, locals
<1>6. CASE PowerCut \/ Restart \/ Rest \/ UNCHANGED vars
  BY <1>6 DEF PowerCut, Restart, Rest, Return, vars, locals
<1> QED BY <1>1, <1>2, <1>3, <1>4, <1>5, <1>6 DEF Next, Step

LEMMA TypeStep == TypeOK /\ OpInv /\ [Next]_vars => TypeOK'
<1> SUFFICES ASSUME TypeOK, OpInv, [Next]_vars PROVE TypeOK'
  OBVIOUS
<1>1. CASE Delete \/ SetKeys \/ \E u \in Usages : Request(u)
  BY <1>1, KeyTypes, DukptAssumption DEF Delete, SetKeys, Request, TypeOK, files
<1>2. CASE Erase
  <2>1. CASE EraseReg
    <3>1. i + 1 \in Regs \/ i = NumReg - 1
      BY DukptAssumption DEF TypeOK, Regs
    <3> QED BY <2>1, <3>1, KeyTypes DEF EraseReg, TypeOK, bounds
  <2>2. CASE EraseType
    BY <2>2, KeyTypes, DukptAssumption DEF EraseType, Return, TypeOK, bounds
  <2> QED BY <1>2, <2>1, <2>2 DEF Erase
<1>3. CASE LoadInitialKey
  BY <1>3, KeyTypes, DukptAssumption
     DEF LoadInitialKey, PutInitial, UseInitial, ResetCurrent, ResetCounter, FirstCounter,
         PutType, Return, locals, TypeOK, bounds, OpInv, LoadSteps
<1>4. CASE DeriveReg \/ UseReg
  <2>1. CASE DeriveReg
    BY <2>1, KeyTypes DEF DeriveReg, locals, TypeOK, bounds
  <2>2. CASE UseReg
    <3>1. i > 0 => i - 1 \in Regs
      BY DukptAssumption DEF TypeOK, Regs
    <3> QED BY <2>2, <3>1 DEF UseReg, TypeOK, bounds
  <2> QED BY <1>4, <2>1, <2>2
<1>5. CASE GenerateWorkingKeys
  <2>1. CASE SetShift \/ Skip \/ RefuseType \/ SkipCrash \/ ClearReg \/ UnuseReg
    <3>1. CASE SetShift
      BY <3>1, KeyTypes DEF SetShift, locals, bounds, TypeOK
    <3>2. CASE Skip
      BY <3>2, KeyTypes DEF Skip, Return, bounds, TypeOK
    <3>3. CASE RefuseType \/ SkipCrash
      BY <3>3, KeyTypes, DukptAssumption DEF RefuseType, SkipCrash, Return, locals, files,
           bounds, TypeOK
    <3>4. CASE ClearReg \/ UnuseReg
      BY <3>4, KeyTypes DEF ClearReg, UnuseReg, locals, bounds, TypeOK
    <3> QED BY <2>1, <3>1, <3>2, <3>3, <3>4
  <2>2. CASE DeriveWorking
    <3>1. op \in Usages
      BY <2>2 DEF DeriveWorking, OpInv
    <3>2. reg[cur] \in Keys
      BY DEF TypeOK
    <3>3. Derive(reg[cur], op, ident, ctr) \in Keys
      BY <3>1, <3>2, KeyTypes
    <3> QED BY <2>2, <3>2, <3>3 DEF DeriveWorking, files, bounds, TypeOK
  <2>3. CASE NextCounter
    <3> DEFINE R == [key : Keys, ksn : Counters, load : 0..Loads]
               a == Answer(Plus(ctr, 0))
    <3>1. a \in R /\ answers \in Seq(R)
      BY KeyTypes, DukptAssumption DEF TypeOK, Answer
    <3>2. answers' \in Seq(R)
      <4>1. answers' = answers \/ answers' = Append(answers, a)
        BY <2>3 DEF NextCounter
      <4> HIDE DEF R, a
      <4> QED BY <3>1, <4>1
    <3> QED BY <2>3, <3>2, KeyTypes, DukptAssumption DEF NextCounter, Return, bounds, TypeOK
  <2> QED BY <1>5, <2>1, <2>2, <2>3 DEF GenerateWorkingKeys
<1>6. CASE PowerCut
  <2>1. reg' \in [Regs -> Keys] /\ inUse' \in [Regs -> BOOLEAN]
    BY <1>6, ZeroFacts DEF PowerCut, Wipe, files, TypeOK
  <2>2. cur' \in Regs /\ ctr' \in Counters /\ typed' \in BOOLEAN
    BY <1>6, KeyTypes DEF PowerCut, Wipe, files, TypeOK
  <2> QED BY <1>6, <2>1, <2>2, KeyTypes, DukptAssumption DEF PowerCut, Return, TypeOK
<1>7. CASE Restart \/ Rest \/ UNCHANGED vars
  BY <1>7 DEF Restart, Rest, vars, locals, files, bounds, TypeOK
<1> QED BY <1>1, <1>2, <1>3, <1>4, <1>5, <1>6, <1>7 DEF Next, Step

LEMMA InitType == Init => TypeOK /\ OpInv
BY ZeroFacts, DukptAssumption DEF Init, TypeOK, OpInv, Usages, LoadSteps, Regs, Counters

\* The files and the locals keep their types: no loop leaves the registers, and
\* every key is a path of derivations.
THEOREM TypeCorrect == Spec => []TypeOK
<1>1. TypeOK /\ OpInv /\ [Next]_vars => (TypeOK /\ OpInv)'
  BY TypeStep, OpStep
<1> QED BY InitType, <1>1, PTL DEF Spec

----------------------------------------------------------------------------
\* Facts that the steps rest on

IInv == TypeOK /\ KeyInv

LEMMA AnswerTypes ==
  ASSUME TypeOK
  PROVE  /\ Len(answers) \in Nat
         /\ \A n \in 1..Len(answers) : answers[n].key \in Keys
<1> DEFINE R == [key : Keys, ksn : Counters, load : 0..Loads]
<1>1. answers \in Seq(R) /\ \A a \in R : a.key \in Keys
  BY DEF TypeOK
<1> HIDE DEF R
<1> QED BY <1>1, ElementOfSeq

\* NextCounter answers with the working key, or not at all.
LEMMA AnswerStep ==
  ASSUME TypeOK, NextCounter
  PROVE  \/ answers' = answers
         \/ /\ Len(answers') = Len(answers) + 1
            /\ answers'[Len(answers) + 1].key = work
            /\ \A n \in 1..Len(answers) : answers'[n] = answers[n]
<1>1. answers \in Seq([key : Keys, ksn : Counters, load : 0..Loads])
  BY DEF TypeOK
<1>2. answers' = answers \/ answers' = Append(answers, Answer(ctr'))
  BY DEF NextCounter
<1>3. Answer(ctr').key = work
  BY DEF Answer
<1> QED BY <1>1, <1>2, <1>3

LEMMA ChildFacts ==
  ASSUME TypeOK, NEW r \in Regs
  PROVE  /\ Child(r) \in Keys
         /\ Child(r) # Zero
         /\ Last(Child(r))[1] = "derive"
         /\ Injected(Child(r)) <=> Injected(base)
         /\ Injected(base) => Child(r)[1] = base[1]
         /\ \A a \in Keys :
              /\ IsPrefix(a, Child(r)) <=> IsPrefix(a, base) \/ a = Child(r)
              /\ IsPrefix(Child(r), a) => IsPrefix(base, a)
         /\ ~IsPrefix(Child(r), base)
<1>1. "derive" \in Derivation \ {"initial"}
  BY DEF Derivation, Usages
<1>2. ident \in Nat /\ base \in Keys /\ WithBit(ctr, r) \in Counters
  BY KeyTypes DEF TypeOK
<1> QED BY <1>1, <1>2, DeriveFacts, DerivePrefix DEF Child

LEMMA ChildEqual ==
  ASSUME TypeOK, NEW r \in Regs, NEW n \in Nat, NEW c \in Counters,
         Child(r) = Derive(base, "derive", n, c)
  PROVE  WithBit(ctr, r) = c
<1>1. "derive" \in Derivation \ {"initial"}
  BY DEF Derivation, Usages
<1>2. ident \in Nat /\ base \in Keys /\ WithBit(ctr, r) \in Counters
  BY KeyTypes DEF TypeOK
<1>3. Last(Child(r)) = <<"derive", ident, WithBit(ctr, r)>>
  BY <1>1, <1>2, DeriveFacts DEF Child
<1>4. Last(Derive(base, "derive", n, c)) = <<"derive", n, c>>
  BY <1>1, <1>2, DeriveFacts
<1> QED BY <1>3, <1>4

\* The keys that one update stores differ.
LEMMA Siblings ==
  ASSUME TypeOK, NEW r \in Regs, NEW s \in Regs, s # r, s \notin ctr
  PROVE  Child(r) # Child(s)
<1>1. s \in WithBit(ctr, s) /\ s \notin WithBit(ctr, r)
  BY DEF WithBit
<1>2. ident \in Nat /\ WithBit(ctr, s) \in Counters
  BY KeyTypes DEF TypeOK
<1> QED BY <1>1, <1>2, ChildEqual DEF Child

\* Which steps change the registers, the answers, the base key and the counter's
\* index of injections.
LEMMA Changes ==
  ASSUME [Next]_vars
  PROVE  /\ reg' = reg \/ EraseReg \/ PutInitial \/ DeriveReg \/ ClearReg \/ PowerCut
         /\ answers' = answers \/ NextCounter
         /\ loads' = loads \/ PutInitial
         /\ (base' = base /\ work' = work) \/ (base' = Zero /\ work' = Zero)
              \/ ResetCounter \/ DeriveWorking
         /\ cuts' = cuts \/ PowerCut
<1>1. CASE Delete \/ SetKeys \/ \E u \in Usages : Request(u)
  BY <1>1 DEF Delete, SetKeys, Request, files
<1>2. CASE Erase
  BY <1>2 DEF Erase, EraseReg, EraseType, Return, bounds
<1>3. CASE LoadInitialKey
  BY <1>3 DEF LoadInitialKey, PutInitial, UseInitial, ResetCurrent, ResetCounter,
              FirstCounter, PutType, Return, locals, bounds
<1>4. CASE DeriveReg \/ UseReg
  BY <1>4 DEF DeriveReg, UseReg, locals, bounds
<1>5. CASE GenerateWorkingKeys
  BY <1>5 DEF GenerateWorkingKeys, SetShift, Skip, RefuseType, DeriveWorking, SkipCrash,
              ClearReg, UnuseReg, NextCounter, Return, locals, files, bounds
<1>6. CASE PowerCut
  BY <1>6 DEF PowerCut, Return
<1>7. CASE Restart \/ Rest \/ UNCHANGED vars
  BY <1>7 DEF Restart, Rest, vars, locals, files, bounds
<1> QED BY <1>1, <1>2, <1>3, <1>4, <1>5, <1>6, <1>7 DEF Next, Step

----------------------------------------------------------------------------
\* Every part of the invariant is kept by every step.

LEMMA LeafStep == IInv /\ [Next]_vars => LeafInv'
<1> SUFFICES ASSUME IInv, [Next]_vars PROVE LeafInv'
  OBVIOUS
<1> USE DEF IInv, KeyInv, LeafInv
<1>1. CASE reg' = reg
  BY <1>1
<1>2. CASE EraseReg \/ ClearReg
  BY <1>2 DEF EraseReg, ClearReg, TypeOK
<1>3. CASE PutInitial
  BY <1>3, InitialFacts, KeyTypes DEF PutInitial, TypeOK
<1>4. CASE DeriveReg
  <2>1. reg' = [reg EXCEPT ![i] = Child(i)]
    BY <1>4 DEF DeriveReg, Child
  <2> QED BY <2>1, ChildFacts DEF TypeOK
<1>5. CASE PowerCut
  BY <1>5 DEF PowerCut, Wipe, files
<1> QED BY <1>1, <1>2, <1>3, <1>4, <1>5, Changes

LEMMA RootStep == IInv /\ [Next]_vars => RootInv'
<1> SUFFICES ASSUME IInv, [Next]_vars PROVE RootInv'
  OBVIOUS
<1> USE DEF IInv, KeyInv, RootInv, Rooted
<1>1. loads' \in Nat /\ loads \in Nat /\ loads <= loads'
  BY Changes, KeyTypes DEF PutInitial
<1>2. \A k \in Keys : Injected(k) => k[1][2] \in Nat
  BY DEF Keys, Injected, Zero
<1>3. ASSUME NEW k \in Keys, Rooted(k) PROVE Rooted(k)'
  BY <1>1, <1>2, <1>3
<1>4. \A r \in Regs : Rooted(reg[r])'
  <2>1. CASE reg' = reg
    BY <2>1, <1>3 DEF TypeOK
  <2>2. CASE EraseReg \/ ClearReg
    BY <2>2, <1>3, ZeroFacts DEF EraseReg, ClearReg, TypeOK
  <2>3. CASE PutInitial
    BY <2>3, <1>1, <1>3, InitialFacts DEF PutInitial, TypeOK
  <2>4. CASE DeriveReg
    <3>1. reg' = [reg EXCEPT ![i] = Child(i)] /\ loads' = loads
      BY <2>4 DEF DeriveReg, Child
    <3> QED BY <3>1, ChildFacts DEF TypeOK
  <2>5. CASE PowerCut
    BY <2>5, <1>3, ZeroFacts DEF PowerCut, Wipe, files, TypeOK
  <2> QED BY <2>1, <2>2, <2>3, <2>4, <2>5, Changes
<1>5. Rooted(base)' /\ Rooted(work)'
  <2>1. CASE base' = base /\ work' = work
    BY <2>1, <1>3 DEF TypeOK
  <2>2. CASE base' = Zero /\ work' = Zero
    BY <2>2, ZeroFacts
  <2>3. CASE ResetCounter
    BY <2>3, <1>3 DEF ResetCounter, TypeOK
  <2>4. CASE DeriveWorking
    <3>1. reg[cur] \in Keys /\ loads' = loads /\ base' = reg[cur]
      BY <2>4 DEF DeriveWorking, TypeOK
    <3>2. op \in Derivation \ {"initial"}
      BY <2>4 DEF DeriveWorking, OpInv, Derivation, Usages
    <3>3. Injected(work') => Injected(reg[cur]) /\ work'[1] = reg[cur][1]
      <4>1. ident \in Nat /\ ctr \in Counters
        BY KeyTypes DEF TypeOK
      <4>2. work' = Derive(reg[cur], op, ident, ctr)
        BY <2>4 DEF DeriveWorking
      <4> QED BY <4>1, <4>2, <3>1, <3>2, DeriveFacts
    <3> QED BY <3>1, <3>3 DEF TypeOK
  <2> QED BY <2>1, <2>2, <2>3, <2>4, Changes
<1>6. \A n \in 1..Len(answers') : Rooted(answers[n].key)'
  <2>1. CASE answers' = answers
    BY <2>1, <1>3, AnswerTypes
  <2>2. CASE NextCounter
    <3>1. CASE answers' = answers
      BY <3>1, <1>3, AnswerTypes
    <3>2. CASE /\ Len(answers') = Len(answers) + 1
               /\ answers'[Len(answers) + 1].key = work
               /\ \A n \in 1..Len(answers) : answers'[n] = answers[n]
      <4> SUFFICES ASSUME NEW n \in 1..Len(answers') PROVE Rooted(answers[n].key)'
        OBVIOUS
      <4>1. n \in 1..Len(answers) \/ n = Len(answers) + 1
        BY <3>2, AnswerTypes
      <4>2. loads' = loads
        BY <2>2 DEF NextCounter
      <4> QED BY <4>1, <4>2, <3>2, AnswerTypes
    <3> QED BY <2>2, <3>1, <3>2, AnswerStep
  <2> QED BY <2>1, <2>2, Changes
<1> QED BY <1>4, <1>5, <1>6

\* While an injection derives, register 0 holds its initial key until it is
\* replaced, and the base key of an update is no prefix of what was handed out.
LEMMA BaseFresh ==
  ASSUME IInv, DeriveReg
  PROVE  Injected(base) => \A n \in 1..Len(answers) : ~IsPrefix(base, answers[n].key)
<1> USE DEF IInv, KeyInv
<1>1. CASE op \in Usages
  BY <1>1 DEF DeriveReg, RequestInv, Requesting
<1>2. CASE op = "load"
  <2>1. Loading /\ ~Replaced(0) /\ 0 \in Regs
    BY <1>2, KeyTypes DEF Loading, DeriveReg, Replaced, TypeOK, Regs
  <2>2. reg[0] = base
    BY <2>1 DEF LoadInv
  <2> QED BY <2>1, <2>2 DEF ForwardSecrecy
<1> QED BY <1>1, <1>2 DEF DeriveReg, OpInv

\* The key that NextCounter hands out descends from no register any more.
LEMMA WorkFresh ==
  ASSUME IInv, NextCounter
  PROVE  /\ Injected(work) => \A n \in 1..Len(answers) : work # answers[n].key
         /\ \A r \in Regs : Injected(reg[r]) => ~IsPrefix(reg[r], work)
<1> USE DEF IInv, KeyInv
<1>1. /\ op \in Usages /\ Requesting
      /\ work = Derive(base, op, ident, ctr)
      /\ base \in Keys /\ ident \in Nat /\ ctr \in Counters
      /\ op \in Derivation \ {"initial"}
  BY KeyTypes DEF NextCounter, OpInv, Requesting, RequestInv, Derivation, Usages, TypeOK
<1>2. /\ Injected(work) <=> Injected(base)
      /\ IsPrefix(base, work)
      /\ Last(work)[1] = op
      /\ work \in Keys
      /\ \A a \in Keys : IsPrefix(a, work) <=> IsPrefix(a, base) \/ a = work
  BY <1>1, DeriveFacts, DerivePrefix DEF Usages
<1>3. Injected(work) => \A n \in 1..Len(answers) : work # answers[n].key
  BY <1>1, <1>2 DEF RequestInv
<1>4. ASSUME NEW r \in Regs, Injected(reg[r]), IsPrefix(reg[r], work) PROVE FALSE
  <2>1. reg[r] # work
    <3>1. reg[r] # Zero
      BY <1>4 DEF Injected
    <3>2. Last(reg[r])[1] \in {"initial", "derive"}
      BY <3>1 DEF LeafInv
    <3> QED BY <3>2, <1>1, <1>2 DEF Usages
  <2>2. IsPrefix(reg[r], base) /\ reg[r] \in Keys
    BY <2>1, <1>2, <1>4 DEF TypeOK
  <2>3. CASE r <= cur
    <3>1. reg[r] = Zero \/ reg[r] = Child(r)
      BY <2>3, <1>1 DEF RequestInv, Done, NextCounter, Replaced
    <3> QED BY <3>1, <2>2, <1>4, ZeroFacts, ChildFacts
  <2>4. CASE r > cur
    BY <2>4, <2>2, <1>1, <1>4 DEF RequestInv, Above
  <2> QED BY <2>3, <2>4 DEF TypeOK, Regs
<1> QED BY <1>3, <1>4

LEMMA SecrecyStep == IInv /\ [Next]_vars => ForwardSecrecy'
<1> SUFFICES ASSUME IInv, [Next]_vars PROVE ForwardSecrecy'
  OBVIOUS
<1> USE DEF IInv, KeyInv, ForwardSecrecy
<1>1. CASE answers' = answers
  <2>1. CASE reg' = reg
    BY <1>1, <2>1
  <2>2. CASE EraseReg \/ ClearReg
    BY <1>1, <2>2, ZeroFacts DEF EraseReg, ClearReg, TypeOK
  <2>3. CASE PutInitial
    <3>1. ASSUME NEW n \in 1..Len(answers) PROVE ~IsPrefix(Initial(loads + 1), answers[n].key)
      <4>1. answers[n].key \in Keys /\ Rooted(answers[n].key) /\ loads + 1 \in Nat
        BY AnswerTypes, KeyTypes DEF RootInv
      <4> QED BY <4>1, InitialFacts, InjectedPrefix, KeyTypes DEF Rooted
    <3> QED BY <1>1, <2>3, <3>1 DEF PutInitial, TypeOK
  <2>4. CASE DeriveReg
    <3>1. reg' = [reg EXCEPT ![i] = Child(i)] /\ i \in Regs
      BY <2>4 DEF DeriveReg, Child, TypeOK
    <3>2. Injected(Child(i)) =>
            \A n \in 1..Len(answers) : ~IsPrefix(Child(i), answers[n].key)
      BY <2>4, <3>1, BaseFresh, ChildFacts, AnswerTypes
    <3> QED BY <1>1, <3>1, <3>2 DEF TypeOK
  <2>5. CASE PowerCut
    BY <1>1, <2>5, ZeroFacts DEF PowerCut, Wipe, files
  <2> QED BY <2>1, <2>2, <2>3, <2>4, <2>5, Changes
<1>2. CASE NextCounter
  <2>1. reg' = reg
    BY <1>2 DEF NextCounter
  <2>2. CASE /\ Len(answers') = Len(answers) + 1
             /\ answers'[Len(answers) + 1].key = work
             /\ \A n \in 1..Len(answers) : answers'[n] = answers[n]
    <3> SUFFICES ASSUME NEW n \in 1..Len(answers'), NEW r \in Regs, Injected(reg[r])
                 PROVE  ~IsPrefix(reg[r], answers'[n].key)
      BY <2>1
    <3>1. n \in 1..Len(answers) \/ n = Len(answers) + 1
      BY <2>2, AnswerTypes
    <3> QED BY <3>1, <2>2, <1>2, WorkFresh
  <2> QED BY <1>1, <1>2, <2>2, AnswerStep
<1> QED BY <1>1, <1>2, Changes

LEMMA UniqueStep == IInv /\ [Next]_vars => UniqueKeys'
<1> SUFFICES ASSUME IInv, [Next]_vars PROVE UniqueKeys'
  OBVIOUS
<1> USE DEF IInv, KeyInv, UniqueKeys
<1>1. CASE answers' = answers
  BY <1>1
<1>2. CASE NextCounter
  <2>1. CASE /\ Len(answers') = Len(answers) + 1
             /\ answers'[Len(answers) + 1].key = work
             /\ \A n \in 1..Len(answers) : answers'[n] = answers[n]
    <3> SUFFICES ASSUME NEW m \in 1..Len(answers'), NEW n \in 1..Len(answers'),
                        m # n, Injected(answers'[m].key)
                 PROVE  answers'[m].key # answers'[n].key
      OBVIOUS
    <3>1. /\ m \in 1..Len(answers) \/ m = Len(answers) + 1
          /\ n \in 1..Len(answers) \/ n = Len(answers) + 1
      BY <2>1, AnswerTypes
    <3> QED BY <3>1, <2>1, <1>2, WorkFresh
  <2> QED BY <1>1, <1>2, <2>1, AnswerStep
<1> QED BY <1>1, <1>2, Changes

LEMMA LoadStep == IInv /\ [Next]_vars => LoadInv'
<1> SUFFICES ASSUME IInv, [Next]_vars PROVE LoadInv'
  OBVIOUS
<1> USE DEF IInv, KeyInv
<1> USE DukptAssumption
<1>1. CASE Delete \/ SetKeys \/ \E u \in Usages : Request(u)
  BY <1>1 DEF Delete, SetKeys, Request, LoadInv, Loading, Regs
<1>2. CASE Erase
  <2>1. CASE EraseReg
    BY <2>1 DEF EraseReg, LoadInv, Loading, TypeOK, Regs
  <2>2. CASE EraseType
    BY <2>2 DEF EraseType, LoadInv, Loading
  <2> QED BY <1>2, <2>1, <2>2 DEF Erase
<1>3. CASE LoadInitialKey
  <2>1. CASE PutInitial
    BY <2>1, KeyTypes DEF PutInitial, LoadInv, Loading, TypeOK, Regs
  <2>2. CASE UseInitial
    BY <2>2, KeyTypes DEF UseInitial, LoadInv, Loading, TypeOK
  <2>3. CASE ResetCurrent
    BY <2>3 DEF ResetCurrent, LoadInv, Loading
  <2>4. CASE ResetCounter
    BY <2>4 DEF ResetCounter, LoadInv, Loading, Replaced, Regs
  <2>5. CASE FirstCounter
    <3>1. \A r \in Regs : reg[r] = Child(r)
      BY <2>5 DEF FirstCounter, LoadInv, Replaced
    <3>2. Injected(base)
      BY <2>5, InitialFacts, KeyTypes DEF FirstCounter, LoadInv
    <3> QED BY <2>5, <3>1, <3>2, ChildFacts DEF FirstCounter, LoadInv, Loading
  <2>6. CASE PutType
    BY <2>6 DEF PutType, LoadInv, Loading
  <2> QED BY <1>3, <2>1, <2>2, <2>3, <2>4, <2>5, <2>6 DEF LoadInitialKey
<1>4. CASE DeriveReg
  <2>1. /\ reg' = [reg EXCEPT ![i] = Child(i)] /\ i \in Regs
        /\ UNCHANGED <<inUse, cur, ctr, ident, op, i, base, loads>>
        /\ pc = "derive" /\ pc' = "use"
    BY <1>4 DEF DeriveReg, Child, TypeOK, locals
  <2>2. \A r \in Regs : Child(r)' = Child(r) /\ (Replaced(r)' <=> r = i \/ Replaced(r))
    BY <2>1 DEF Child, Replaced, Regs
  <2> QED BY <2>1, <2>2 DEF LoadInv, Loading, TypeOK
<1>5. CASE UseReg
  <2>1. /\ UNCHANGED <<reg, cur, ctr, ident, op, base, loads>>
        /\ inUse[0] => inUse'[0]
        /\ pc = "use" /\ pc' \in {"derive", "firstCounter", "clear"}
        /\ pc' = "derive" => i' = i - 1
        /\ pc' # "derive" => i = 0
        /\ pc' = "firstCounter" => op = "load"
    BY <1>5, KeyTypes DEF UseReg, TypeOK, Regs
  <2>2. \A r \in Regs : Child(r)' = Child(r) /\ (Replaced(r)' <=> Replaced(r))
    BY <2>1 DEF Child, Replaced, TypeOK, Regs
  <2> QED BY <2>1, <2>2 DEF LoadInv, Loading
<1>6. CASE GenerateWorkingKeys
  BY <1>6 DEF GenerateWorkingKeys, SetShift, Skip, RefuseType, DeriveWorking, SkipCrash,
              ClearReg, UnuseReg, NextCounter, locals, Return, OpInv, Usages, LoadInv, Loading
<1>7. CASE PowerCut \/ Restart
  BY <1>7 DEF PowerCut, Restart, LoadInv, Loading
<1>8. CASE UNCHANGED vars
  BY <1>8 DEF vars, files, locals, LoadInv, Loading, Replaced, Child
<1> QED BY <1>1, <1>2, <1>3, <1>4, <1>5, <1>6, <1>7, <1>8 DEF Next, Step, Rest

\* A request starts from a register that no other descends from, unless an
\* injection was interrupted: then the counter is 0, and the register is 0.
LEMMA RequestStart ==
  ASSUME IInv, DeriveWorking
  PROVE  RequestInv'
<1> USE DEF IInv, KeyInv
<1>1. /\ cur \in Regs /\ cur = Lowest(ctr) /\ op \in Usages
      /\ base' = reg[cur] /\ i' = cur /\ pc' = "derive"
      /\ work' = Derive(reg[cur], op, ident, ctr)
      /\ UNCHANGED <<reg, inUse, cur, ctr, ident, op, answers, loads>>
  BY DEF DeriveWorking, files, RequestInv, OpInv, TypeOK
<1>2. \A r \in Regs : ~(r <= cur /\ Replaced(r)')
  BY <1>1 DEF Replaced, Regs
<1>3. Injected(base') => \A n \in 1..Len(answers) : ~IsPrefix(base', answers[n].key)
  BY <1>1 DEF ForwardSecrecy
<1>4. ctr = {} => cur = 0
  BY <1>1, LowestFacts DEF TypeOK
<1>5. ASSUME NEW r \in Regs, r < cur
      PROVE  /\ Injected(base') => ~IsPrefix(base', reg[r])
             /\ Injected(reg[r]) => ~IsPrefix(reg[r], base')
  <2>1. r # cur /\ (cur = 0 => r # 0)
    BY <1>1, <1>5 DEF Regs
  <2> QED BY <1>1, <1>4, <1>5, <2>1 DEF ApartInv, Unfinished, Regs
<1>6. ASSUME NEW r \in Regs, r > cur
      PROVE  /\ Injected(base') /\ IsPrefix(base', reg[r]) =>
                  cur = 0 /\ reg[r] = Derive(base', "derive", loads, {r})
             /\ Injected(reg[r]) => ~IsPrefix(reg[r], base')
  BY <1>1, <1>6 DEF ApartInv, Unfinished
<1>7. \A r \in Regs : Done(r)' /\ ToReplace(r)' /\ Above(r)'
  BY <1>1, <1>2, <1>5, <1>6 DEF Done, ToReplace, Above
<1>8. cur <= cur
  BY <1>1 DEF Regs
<1> QED BY <1>1, <1>3, <1>7, <1>8 DEF RequestInv

LEMMA RequestStep == IInv /\ [Next]_vars => RequestInv'
<1> SUFFICES ASSUME IInv, [Next]_vars PROVE RequestInv'
  OBVIOUS
<1> USE DEF IInv, KeyInv
<1>1. CASE Delete \/ SetKeys \/ \E u \in Usages : Request(u)
  BY <1>1 DEF Delete, SetKeys, Request, RequestInv, Requesting
<1>2. CASE Erase
  BY <1>2 DEF Erase, EraseReg, EraseType, RequestInv, Requesting
<1>3. CASE LoadInitialKey
  BY <1>3 DEF LoadInitialKey, PutInitial, UseInitial, ResetCurrent, ResetCounter,
       FirstCounter, PutType, locals, Return, RequestInv, Requesting, OpInv, LoadSteps, Usages
<1>4. CASE DeriveReg
  <2>1. /\ reg' = [reg EXCEPT ![i] = Child(i)] /\ i \in Regs
        /\ UNCHANGED <<cur, ctr, ident, op, i, base, work, loads, answers>>
        /\ pc = "derive" /\ pc' = "use"
    BY <1>4 DEF DeriveReg, Child, TypeOK, locals
  <2>2. \A r \in Regs : Child(r)' = Child(r) /\ (Replaced(r)' <=> r = i \/ Replaced(r))
    BY <2>1 DEF Child, Replaced, Regs
  <2>3. Requesting' => Requesting
    BY <2>1 DEF Requesting
  <2>4. ASSUME Requesting, NEW r \in Regs PROVE Done(r)' /\ ToReplace(r)' /\ Above(r)'
    <3>1. Done(r) /\ ToReplace(r) /\ Above(r) /\ i <= cur
      BY <2>1, <2>4 DEF RequestInv
    <3>2. Done(r)'
      BY <3>1, <2>1, <2>2 DEF Done, TypeOK
    <3>3. r = i \/ (reg'[r] = reg[r] /\ (Replaced(r)' <=> Replaced(r)))
      BY <2>1, <2>2 DEF TypeOK
    <3>4. r = i => Replaced(r)' /\ ~(r > cur)
      BY <3>1, <2>1, <2>2 DEF TypeOK, Regs
    <3>5. ToReplace(r)'
      BY <3>1, <3>3, <3>4, <2>1 DEF ToReplace
    <3>6. Above(r)'
      BY <3>1, <3>3, <3>4, <2>1 DEF Above
    <3> QED BY <3>2, <3>5, <3>6
  <2> QED BY <2>1, <2>3, <2>4 DEF RequestInv
<1>5. CASE UseReg
  <2>1. /\ UNCHANGED <<reg, cur, ctr, ident, op, base, work, loads, answers>>
        /\ pc = "use" /\ pc' \in {"derive", "firstCounter", "clear"}
        /\ pc' = "derive" => i' = i - 1
        /\ pc' # "derive" => i = 0
    BY <1>5, KeyTypes DEF UseReg, TypeOK, Regs
  <2>2. \A r \in Regs : Child(r)' = Child(r) /\ (Replaced(r)' <=> Replaced(r))
    BY <2>1 DEF Child, Replaced, TypeOK, Regs
  <2>3. Requesting' => Requesting
    BY <2>1 DEF Requesting
  <2>4. ASSUME Requesting, NEW r \in Regs PROVE Done(r)' /\ ToReplace(r)' /\ Above(r)'
    <3>1. Done(r) /\ ToReplace(r) /\ Above(r)
      BY <2>1, <2>4 DEF RequestInv
    <3> QED BY <3>1, <2>1, <2>2 DEF Done, ToReplace, Above
  <2>5. i <= cur => i - 1 <= cur
    BY DEF TypeOK, Regs
  <2> QED BY <2>1, <2>3, <2>4, <2>5 DEF RequestInv
<1>6. CASE SetShift \/ Skip \/ RefuseType \/ SkipCrash \/ NextCounter
  BY <1>6, KeyTypes DEF SetShift, Skip, RefuseType, SkipCrash, NextCounter, Return,
       RequestInv, Requesting
<1>7. CASE DeriveWorking
  BY <1>7, RequestStart
<1>8. CASE ClearReg \/ UnuseReg
  <2>1. /\ reg' = reg \/ reg' = [reg EXCEPT ![cur] = Zero]
        /\ pc = "clear" => reg' = [reg EXCEPT ![cur] = Zero]
        /\ UNCHANGED <<cur, ctr, ident, op, i, base, work, loads, answers>>
        /\ pc \in {"clear", "unuse"} /\ pc' \in {"unuse", "count"}
    BY <1>8 DEF ClearReg, UnuseReg, locals
  <2>2. \A r \in Regs : Child(r)' = Child(r) /\ Replaced(r)' /\ Replaced(r)
    BY <2>1 DEF Child, Replaced
  <2>3. Requesting' => Requesting
    BY <2>1 DEF Requesting
  <2>4. cur \in Regs /\ reg \in [Regs -> Keys]
    BY DEF TypeOK
  <2>5. ASSUME Requesting, NEW r \in Regs PROVE Done(r)' /\ ToReplace(r)' /\ Above(r)'
    <3>1. Done(r) /\ ToReplace(r) /\ Above(r)
      BY <2>1, <2>5 DEF RequestInv
    <3>2. r > cur => reg'[r] = reg[r]
      <4>1. r > cur => r # cur
        BY <2>4, DukptAssumption DEF Regs
      <4> QED BY <4>1, <2>1, <2>4
    <3>3. Done(r)'
      BY <3>1, <2>1, <2>2, <2>4 DEF Done
    <3> QED BY <3>1, <3>2, <3>3, <2>1, <2>2 DEF ToReplace, Above
  <2> QED BY <2>1, <2>3, <2>5 DEF RequestInv
<1>9. CASE PowerCut \/ Restart
  BY <1>9 DEF PowerCut, Restart, RequestInv, Requesting
<1>10. CASE UNCHANGED vars
  BY <1>10 DEF vars, files, locals, RequestInv, Requesting, Replaced, Child, Done, ToReplace,
        Above
<1> QED BY <1>1, <1>2, <1>3, <1>4, <1>5, <1>6, <1>7, <1>8, <1>9, <1>10
        DEF Next, Step, Rest, GenerateWorkingKeys

\* The registers that an injection has left so far descend from its initial key
\* alone.
LEMMA LoadApart ==
  ASSUME TypeOK, LoadInv, Loading \/ pc = "firstCounter"
  PROVE  /\ ApartInv
         /\ pc = "firstCounter" => ~\E r \in Regs : Unfinished(r)
<1>1. /\ loads \in Nat /\ loads >= 1 /\ 0 \in Regs
      /\ base = Initial(loads) /\ ident = loads /\ ctr = {} /\ inUse[0]
      /\ \A r \in Regs : reg[r] = IF Replaced(r) THEN Child(r) ELSE IF r = 0 THEN base ELSE Zero
  BY KeyTypes DEF LoadInv
<1>2. base \in Keys /\ Injected(base) /\ Zero \in Keys /\ ~Injected(Zero) /\ base # Zero
  BY <1>1, InitialFacts, ZeroFacts
<1>3. \A r \in Regs : WithBit(ctr, r) = {r}
  BY <1>1 DEF WithBit
<1>4. \A a \in Keys : Injected(a) => ~IsPrefix(a, Zero)
  BY ZeroFacts
<1>5. \A r \in Regs : ~IsPrefix(Child(r), base) /\ Injected(Child(r)) /\ Child(r) \in Keys
  BY <1>2, ChildFacts
<1>6. ASSUME NEW r \in Regs, NEW s \in Regs, r # s PROVE ~IsPrefix(Child(r), Child(s))
  BY <1>1, <1>5, <1>6, ChildFacts, Siblings
<1>7. ASSUME NEW r \in Regs, NEW s \in Regs, s < r PROVE r # s /\ r # 0
  BY <1>7, DukptAssumption DEF Regs
<1>8. ASSUME NEW r \in Regs, NEW s \in Regs, s < r, Injected(reg[r])
      PROVE  ~IsPrefix(reg[r], reg[s])
  <2>1. reg[r] = Child(r) /\ (reg[s] = Child(s) \/ reg[s] = base \/ reg[s] = Zero)
    BY <1>1, <1>2, <1>7, <1>8
  <2> QED BY <2>1, <1>4, <1>5, <1>6, <1>7, <1>8
<1>9. ASSUME NEW r \in Regs, NEW s \in Regs, s < r, Injected(reg[s]), IsPrefix(reg[s], reg[r])
      PROVE  s = 0 /\ Unfinished(r)
  <2>1. reg[r] = Child(r)
    BY <1>1, <1>2, <1>4, <1>7, <1>9 DEF TypeOK
  <2>2. s = 0 /\ reg[s] = base
    BY <2>1, <1>1, <1>2, <1>6, <1>7, <1>9
  <2> QED BY <2>1, <2>2, <1>1, <1>3 DEF Unfinished, Child
<1>10. pc = "firstCounter" => reg[0] # Initial(loads)
  <2>1. pc = "firstCounter" => reg[0] = Child(0)
    BY <1>1 DEF Replaced
  <2>2. IsPrefix(base, base)
    BY <1>2, PrefixRefl
  <2> QED BY <2>1, <2>2, <1>1, <1>5
<1> QED BY <1>8, <1>9, <1>10 DEF ApartInv, Unfinished

LEMMA LoadingApart == TypeOK /\ LoadInv /\ Loading => ApartInv
BY LoadApart

\* A register that a request replaces descends from no other, and none from it.
LEMMA RequestApart ==
  ASSUME IInv, DeriveReg, op \in Usages, NEW r \in Regs, r # i
  PROVE  /\ Injected(reg[r]) => ~IsPrefix(reg[r], Child(i))
         /\ Injected(Child(i)) => ~IsPrefix(Child(i), reg[r])
<1> USE DEF IInv, KeyInv
<1>1. /\ Requesting /\ pc = "derive" /\ cur = Lowest(ctr) /\ i <= cur
      /\ Done(r) /\ ToReplace(r) /\ Above(r)
      /\ i \in Regs /\ cur \in Regs /\ reg[r] \in Keys /\ base \in Keys
      /\ loads \in Nat /\ {r} \in Counters
  BY KeyTypes DEF DeriveReg, RequestInv, Requesting, TypeOK, Counters
<1>2. /\ Injected(Child(i)) <=> Injected(base)
      /\ \A a \in Keys : /\ IsPrefix(a, Child(i)) <=> IsPrefix(a, base) \/ a = Child(i)
                         /\ IsPrefix(Child(i), a) => IsPrefix(base, a)
      /\ IsPrefix(base, Child(i)) /\ ~IsPrefix(Child(i), base)
      /\ Child(i) \in Keys
  BY <1>1, ChildFacts, PrefixRefl
<1>3. CASE r < i
  <2>1. r < cur /\ ~Replaced(r)
    BY <1>1, <1>3, DukptAssumption DEF Replaced, Regs
  <2> QED BY <2>1, <1>1, <1>2 DEF ToReplace
<1>4. CASE i < r /\ r <= cur
  <2>1. reg[r] = Child(r)
    BY <1>1, <1>4 DEF Done, Replaced
  <2>2. i \notin ctr
    <3>1. i < cur
      BY <1>1, <1>4, DukptAssumption DEF Regs
    <3> QED BY <3>1, <1>1, LowestFacts DEF TypeOK
  <2>3. Child(r) # Child(i)
    BY <2>2, <1>1, Siblings
  <2>4. ~IsPrefix(Child(r), base) /\ ~IsPrefix(Child(i), base)
    BY <1>1, ChildFacts
  <2>5. IsPrefix(Child(i), Child(r)) <=> IsPrefix(Child(i), base) \/ Child(i) = Child(r)
    BY <1>2, ChildFacts
  <2> QED BY <2>1, <2>3, <2>4, <2>5, <1>1, <1>2
<1>5. CASE cur < r
  <2>1. ASSUME Injected(base), IsPrefix(base, reg[r])
        PROVE  reg[r] # Child(i) /\ ~IsPrefix(Child(i), reg[r])
    <3>1. cur = 0 /\ i = 0 /\ r # 0 /\ reg[r] = Derive(base, "derive", loads, {r})
      BY <2>1, <1>1, <1>5, DukptAssumption DEF Above, Regs
    <3>2. WithBit(ctr, 0) # {r}
      BY <3>1 DEF WithBit
    <3>3. reg[r] # Child(i)
      BY <3>1, <3>2, <1>1, ChildEqual
    <3>4. IsPrefix(Child(i), reg[r]) => IsPrefix(Child(i), base) \/ Child(i) = reg[r]
      BY <3>1, <1>1, <1>2, DerivePrefix DEF Derivation, Usages
    <3> QED BY <3>3, <3>4, <1>2
  <2> QED BY <2>1, <1>1, <1>2, <1>5 DEF Above
<1> QED BY <1>1, <1>3, <1>4, <1>5, DukptAssumption DEF Regs

\* While an injection is unfinished register 0 is in use, so that no request skips
\* it: what one step makes of the exception.
LEMMA UnfinishedStep ==
  ASSUME IInv, [Next]_vars, reg' = reg, NEW r \in Regs, Unfinished(r)
  PROVE  Unfinished(r)'
<1> USE DEF IInv, KeyInv
<1>1. 0 \in Regs /\ (ctr = {} => Lowest(ctr) = 0) /\ Initial(loads) # Zero /\ loads \in Nat
  BY KeyTypes, LowestFacts, InitialFacts DEF TypeOK
<1>2. ctr = {} /\ reg[0] = Initial(loads) /\ inUse[0]
  BY DEF Unfinished
<1>3. loads' = loads
  BY <1>1, <1>2, Changes, KeyTypes DEF PutInitial, LoadInv
<1>4. ctr' = ctr
  <2>1. CASE Delete \/ SetKeys \/ \E u \in Usages : Request(u)
    BY <2>1 DEF Delete, SetKeys, Request, files
  <2>2. CASE Erase \/ DeriveReg \/ UseReg
    BY <2>2 DEF Erase, EraseReg, EraseType, DeriveReg, UseReg
  <2>3. CASE LoadInitialKey
    <3>1. CASE FirstCounter
      BY <3>1, LoadApart DEF FirstCounter
    <3> QED BY <2>3, <3>1, <1>2 DEF LoadInitialKey, PutInitial, UseInitial, ResetCurrent,
            ResetCounter, PutType
  <2>4. CASE GenerateWorkingKeys
    <3>1. CASE Skip
      BY <3>1, <1>1, <1>2 DEF Skip, RequestInv
    <3>2. CASE NextCounter
      <4>1. reg[cur] = Zero /\ cur = 0
        BY <3>2, <1>1, <1>2, DukptAssumption
           DEF NextCounter, RequestInv, Requesting, OpInv, Done, Replaced, Regs
      <4> QED BY <4>1, <1>1, <1>2
    <3> QED BY <2>4, <3>1, <3>2 DEF GenerateWorkingKeys, SetShift, RefuseType,
            DeriveWorking, SkipCrash, ClearReg, UnuseReg, files
  <2>5. CASE PowerCut
    BY <2>5, <1>1, <1>2 DEF PowerCut, Wipe, files
  <2>6. CASE Restart \/ Rest \/ UNCHANGED vars
    BY <2>6 DEF Restart, Rest, vars, files
  <2> QED BY <2>1, <2>2, <2>3, <2>4, <2>5, <2>6 DEF Next, Step
<1>5. inUse'[0]
  <2>1. CASE UnuseReg
    <3>1. reg[cur] = Zero
      BY <2>1, DukptAssumption
         DEF UnuseReg, RequestInv, Requesting, OpInv, Done, Replaced, Regs, TypeOK
    <3>2. cur # 0
      BY <3>1, <1>1, <1>2
    <3> QED BY <2>1, <3>2, <1>2 DEF UnuseReg, TypeOK
  <2>2. CASE PowerCut
    BY <2>2, <1>1, <1>2 DEF PowerCut, Wipe, files
  <2>3. CASE Delete \/ SetKeys \/ \E u \in Usages : Request(u)
    BY <2>3, <1>2 DEF Delete, SetKeys, Request, files
  <2>4. CASE Erase \/ DeriveReg \/ UseReg
    BY <2>4, <1>1, <1>2 DEF Erase, EraseReg, EraseType, DeriveReg, UseReg, TypeOK
  <2>5. CASE LoadInitialKey
    BY <2>5, <1>1, <1>2 DEF LoadInitialKey, PutInitial, UseInitial, ResetCurrent,
            ResetCounter, FirstCounter, PutType, TypeOK
  <2>6. CASE SetShift \/ Skip \/ RefuseType \/ DeriveWorking \/ SkipCrash \/ ClearReg
               \/ NextCounter
    BY <2>6, <1>2 DEF SetShift, Skip, RefuseType, DeriveWorking, SkipCrash, ClearReg,
            NextCounter, files
  <2>7. CASE Restart \/ Rest \/ UNCHANGED vars
    BY <2>7, <1>2 DEF Restart, Rest, vars, files
  <2> QED BY <2>1, <2>2, <2>3, <2>4, <2>5, <2>6, <2>7 DEF Next, Step, GenerateWorkingKeys
<1> QED BY <1>3, <1>4, <1>5 DEF Unfinished

LEMMA ApartStep == IInv /\ [Next]_vars => ApartInv'
<1> SUFFICES ASSUME IInv, [Next]_vars PROVE ApartInv'
  OBVIOUS
<1> USE DEF IInv, KeyInv
<1>1. CASE reg' = reg
  BY <1>1, UnfinishedStep DEF ApartInv
<1>2. CASE EraseReg \/ ClearReg
  <2>1. PICK k \in Regs : reg' = [reg EXCEPT ![k] = Zero]
    BY <1>2 DEF EraseReg, ClearReg, TypeOK
  <2>2. UNCHANGED <<loads, ctr, inUse>>
    BY <1>2 DEF EraseReg, ClearReg
  <2>3. \A r \in Regs : reg'[r] = IF r = k THEN Zero ELSE reg[r]
    BY <2>1 DEF TypeOK
  <2> SUFFICES ASSUME NEW r \in Regs, NEW s \in Regs, s < r
               PROVE  /\ Injected(reg'[r]) => ~IsPrefix(reg'[r], reg'[s])
                      /\ Injected(reg'[s]) /\ IsPrefix(reg'[s], reg'[r]) => s = 0 /\ Unfinished(r)'
    BY DEF ApartInv
  <2>4. reg[r] \in Keys /\ reg[s] \in Keys /\ 0 \in Regs
    BY KeyTypes DEF TypeOK
  <2>5. CASE r = k \/ s = k
    BY <2>3, <2>4, <2>5, ZeroFacts
  <2>6. CASE r # k /\ s # k
    BY <2>2, <2>3, <2>4, <2>6 DEF ApartInv, Unfinished
  <2> QED BY <2>5, <2>6
<1>3. CASE PutInitial
  <2>1. \A r \in Regs : r # 0 => reg'[r] = Zero
    BY <1>3 DEF PutInitial, LoadInv, TypeOK
  <2>2. \A r \in Regs, s \in Regs : s < r => r # 0
    BY DukptAssumption DEF Regs
  <2>3. reg' \in [Regs -> Keys]
    BY TypeStep DEF TypeOK
  <2> QED BY <2>1, <2>2, <2>3, ZeroFacts DEF ApartInv
<1>4. CASE DeriveReg
  <2>1. /\ reg' = [reg EXCEPT ![i] = Child(i)] /\ i \in Regs
        /\ UNCHANGED <<inUse, ctr, op, loads>> /\ pc' = "use"
    BY <1>4 DEF DeriveReg, Child, TypeOK, locals
  <2>2. CASE op = "load"
    <3>1. (TypeOK /\ LoadInv)'
      BY TypeStep, LoadStep
    <3>2. Loading'
      BY <2>1, <2>2 DEF Loading
    <3>3. (TypeOK /\ LoadInv /\ Loading)' => ApartInv'
      BY LoadingApart, PTL
    <3> QED BY <3>1, <3>2, <3>3
  <2>3. CASE op \in Usages
    <3> SUFFICES ASSUME NEW r \in Regs, NEW s \in Regs, s < r
                 PROVE  /\ Injected(reg'[r]) => ~IsPrefix(reg'[r], reg'[s])
                        /\ Injected(reg'[s]) /\ IsPrefix(reg'[s], reg'[r]) =>
                             s = 0 /\ Unfinished(r)'
      BY DEF ApartInv
    <3>1. r # s /\ 0 \in Regs
      BY KeyTypes, DukptAssumption DEF Regs
    <3>2. \A q \in Regs : reg'[q] = IF q = i THEN Child(i) ELSE reg[q]
      BY <2>1 DEF TypeOK
    <3>3. CASE r = i
      BY <3>1, <3>2, <3>3, <1>4, <2>3, RequestApart
    <3>4. CASE s = i
      BY <3>1, <3>2, <3>4, <1>4, <2>3, RequestApart
    <3>5. CASE r # i /\ s # i
      BY <3>1, <3>2, <3>5, <2>1 DEF ApartInv, Unfinished
    <3> QED BY <3>3, <3>4, <3>5
  <2> QED BY <1>4, <2>2, <2>3 DEF DeriveReg, OpInv
<1>5. CASE PowerCut
  <2>1. reg' = reg \/ \A r \in Regs : reg'[r] = Zero
    BY <1>5 DEF PowerCut, Wipe, files
  <2> QED BY <2>1, <1>1, ZeroFacts DEF ApartInv
<1> QED BY <1>1, <1>2, <1>3, <1>4, <1>5, Changes

----------------------------------------------------------------------------
\* The theorems on keys

LEMMA InitKeys == Init => KeyInv
<1> SUFFICES ASSUME Init PROVE KeyInv
  OBVIOUS
<1>1. /\ pc = "idle" /\ op = "delete" /\ base = Zero /\ work = Zero /\ answers = <<>>
      /\ \A r \in Regs : reg[r] = Zero
  BY DEF Init
<1>2. ~Injected(Zero) /\ \A a \in Keys : Injected(a) => ~IsPrefix(a, Zero)
  BY ZeroFacts
<1>3. Len(answers) = 0
  BY <1>1
<1> QED BY <1>1, <1>2, <1>3 DEF KeyInv, OpInv, RootInv, Rooted, LeafInv, ApartInv, LoadInv,
        LoadSteps, Loading, RequestInv, Requesting, ForwardSecrecy, UniqueKeys

LEMMA KeyStep == IInv /\ [Next]_vars => IInv'
BY TypeStep, OpStep, RootStep, LeafStep, ApartStep, LoadStep, RequestStep, SecrecyStep,
   UniqueStep DEF IInv, KeyInv

LEMMA KeysHold == Spec => []IInv
<1>1. Init => IInv
  BY InitType, InitKeys DEF IInv
<1> QED BY <1>1, KeyStep, PTL DEF Spec

\* No working key that comes from an injected key is handed out twice, however
\* many power cuts interrupt the updates of the registers.
THEOREM UniqueKeysCorrect == Spec => []UniqueKeys
<1>1. IInv => UniqueKeys
  BY DEF IInv, KeyInv
<1> QED BY <1>1, KeysHold, PTL

\* No register holds a key that a working key was derived from, once that has been
\* handed out.
THEOREM ForwardSecrecyCorrect == Spec => []ForwardSecrecy
<1>1. IInv => ForwardSecrecy
  BY DEF IInv, KeyInv
<1> QED BY <1>1, KeysHold, PTL

----------------------------------------------------------------------------
\* The key status

LEMMA StatusStep == IInv /\ StatusInv /\ [Next]_vars => StatusInv'
<1> SUFFICES ASSUME IInv, StatusInv, [Next]_vars PROVE StatusInv'
  OBVIOUS
<1> USE DEF IInv, KeyInv
<1>1. CASE Delete \/ SetKeys \/ \E u \in Usages : Request(u)
  BY <1>1 DEF Delete, SetKeys, Request, KeyStatus, StatusInv, Loading, Requesting, LoadSteps,
       Usages, files
<1>2. CASE Erase
  BY <1>2 DEF Erase, EraseReg, EraseType, Return, OpInv, StatusInv, Loading, Requesting,
       LoadSteps, Usages, bounds
<1>3. CASE LoadInitialKey
  <2>1. CASE PutType
    BY <2>1 DEF PutType, Return, StatusInv, LoadInv, OpInv, Loading, Requesting, LoadSteps, Usages
  <2> QED BY <1>3, <2>1 DEF LoadInitialKey, PutInitial, UseInitial, ResetCurrent, ResetCounter,
         FirstCounter, StatusInv, OpInv, Loading, Requesting, LoadSteps, Usages, locals
<1>4. CASE DeriveReg
  <2>1. /\ reg' = [reg EXCEPT ![i] = Child(i)] /\ i \in Regs
        /\ UNCHANGED <<inUse, op, typed, base, cuts>> /\ pc = "derive" /\ pc' = "use"
    BY <1>4 DEF DeriveReg, Child, TypeOK, locals, bounds
  <2>2. Injected(Child(i)) <=> Injected(base)
    BY <2>1, ChildFacts
  <2> QED BY <2>1, <2>2 DEF StatusInv, OpInv, Loading, Requesting, LoadSteps, TypeOK
<1>5. CASE UseReg
  <2>1. /\ inUse' = [inUse EXCEPT ![i] = TRUE] /\ i \in Regs
        /\ UNCHANGED <<reg, op, typed, base, cuts>>
        /\ pc = "use" /\ pc' \in {"derive", "firstCounter", "clear"}
        /\ pc' = "clear" => op # "load"
        /\ pc' = "firstCounter" => op = "load"
    BY <1>5 DEF UseReg, TypeOK, bounds
  <2>2. CASE op = "load"
    BY <2>1, <2>2 DEF StatusInv, Loading, Requesting, LoadSteps, Usages
  <2>3. CASE op \in Usages
    <3>1. Requesting /\ reg[i] = Child(i)
      BY <2>1, <2>3, DukptAssumption DEF Requesting, RequestInv, Done, Replaced, Regs
    <3>2. Injected(Child(i)) <=> Injected(base)
      BY <2>1, ChildFacts
    <3> QED BY <2>1, <2>3, <3>1, <3>2 DEF StatusInv, Loading, Requesting, LoadSteps, Usages, TypeOK
  <2> QED BY <2>1, <2>2, <2>3 DEF OpInv
<1>6. CASE SetShift \/ Skip \/ RefuseType \/ SkipCrash \/ NextCounter
  BY <1>6 DEF SetShift, Skip, RefuseType, SkipCrash, NextCounter, Return, OpInv,
       StatusInv, Loading, Requesting, LoadSteps, Usages, files, locals, bounds
<1>7. CASE DeriveWorking
  BY <1>7 DEF DeriveWorking, OpInv, StatusInv, Loading, Requesting, LoadSteps, Usages, files,
       bounds, TypeOK
<1>8. CASE ClearReg \/ UnuseReg
  BY <1>8 DEF ClearReg, UnuseReg, OpInv, StatusInv, Loading, Requesting, LoadSteps, Usages,
       locals, bounds, TypeOK
<1>9. CASE PowerCut
  BY <1>9 DEF PowerCut, Wipe, Return, files, StatusInv, Loading, LoadSteps, TypeOK
<1>10. CASE Restart \/ Rest \/ UNCHANGED vars
  BY <1>10 DEF Restart, Rest, vars, files, locals, bounds, StatusInv, Loading, Requesting,
       LoadSteps
<1> QED BY <1>1, <1>2, <1>3, <1>4, <1>5, <1>6, <1>7, <1>8, <1>9, <1>10
        DEF Next, Step, GenerateWorkingKeys

LEMMA CheckedStep == IInv /\ StatusInv /\ CheckedKeys /\ [Next]_vars => CheckedKeys'
<1> SUFFICES ASSUME IInv, StatusInv, CheckedKeys, [Next]_vars, cuts' = 0 PROVE CheckedKeys'
  BY DEF CheckedKeys
<1> USE DEF IInv, KeyInv
<1>1. cuts = 0
  BY Changes, DukptAssumption DEF PowerCut, TypeOK
<1>2. CASE answers' = answers
  BY <1>1, <1>2 DEF CheckedKeys
<1>3. CASE NextCounter
  <2>1. /\ op \in Usages /\ op \in Derivation \ {"initial"} /\ Requesting
        /\ work = Derive(base, op, ident, ctr)
        /\ base \in Keys /\ ident \in Nat /\ ctr \in Counters
    BY <1>3, KeyTypes DEF NextCounter, OpInv, Requesting, RequestInv, Derivation, Usages, TypeOK
  <2>2. Last(work)[1] = op /\ (Injected(work) <=> Injected(base))
    BY <2>1, DeriveFacts
  <2>3. op = "mac" => Injected(work)
    BY <1>1, <2>1, <2>2 DEF StatusInv
  <2>4. CASE /\ Len(answers') = Len(answers) + 1
             /\ answers'[Len(answers) + 1].key = work
             /\ \A n \in 1..Len(answers) : answers'[n] = answers[n]
    <3> SUFFICES ASSUME NEW n \in 1..Len(answers'), Last(answers'[n].key)[1] = "mac"
                 PROVE  Injected(answers'[n].key)
      BY DEF CheckedKeys
    <3>1. n \in 1..Len(answers) \/ n = Len(answers) + 1
      BY <2>4, AnswerTypes
    <3> QED BY <1>1, <2>2, <2>3, <2>4, <3>1 DEF CheckedKeys
  <2> QED BY <1>2, <1>3, <2>4, AnswerStep
<1> QED BY <1>2, <1>3, Changes

\* A caller that checks the key status before it asks for a working key never gets
\* one that was derived from an erased register, if no power cut has separated the
\* erasure of a register from that of its flag.
THEOREM CheckedKeysCorrect == Spec => []CheckedKeys
<1>1. Init => StatusInv /\ CheckedKeys
  BY DEF Init, StatusInv, CheckedKeys, Loading, Requesting, LoadSteps
<1>2. IInv /\ StatusInv /\ CheckedKeys /\ [Next]_vars => (StatusInv /\ CheckedKeys)'
  BY StatusStep, CheckedStep
<1> QED BY <1>1, <1>2, KeysHold, PTL DEF Spec

----------------------------------------------------------------------------
\* The host's key

\* The keys by the highest bits of a counter, up to the m highest.
HostPath(key, n, c, m) ==
  key = [k \in 0..m |->
           IF k = 0 THEN Initial(n)
           ELSE IF NumReg - k \notin c THEN key[k - 1]
           ELSE Derive(key[k - 1], "derive", n, c \cap ((NumReg - k)..NumReg))]

\* HostKey is what its definition says: the keys by the highest bits exist.
LEMMA HostPathExists ==
  ASSUME NEW n, NEW c
  PROVE  \A m \in Nat : \E key : HostPath(key, n, c, m)
<1> DEFINE S == {m \in Nat : \E key : HostPath(key, n, c, m)}
<1>1. 0 \in S
  <2>1. HostPath([k \in 0..0 |-> Initial(n)], n, c, 0)
    BY DEF HostPath
  <2> QED BY <2>1
<1>2. ASSUME NEW m \in S PROVE m + 1 \in S
  <2>1. PICK key : HostPath(key, n, c, m)
    OBVIOUS
  <2> DEFINE next == IF NumReg - (m + 1) \notin c THEN key[m]
                     ELSE Derive(key[m], "derive", n, c \cap ((NumReg - (m + 1))..NumReg))
             more == [k \in 0..(m + 1) |-> IF k = m + 1 THEN next ELSE key[k]]
  <2>2. ASSUME NEW k \in 0..(m + 1)
        PROVE  more[k] = IF k = 0 THEN Initial(n)
                         ELSE IF NumReg - k \notin c THEN more[k - 1]
                         ELSE Derive(more[k - 1], "derive", n, c \cap ((NumReg - k)..NumReg))
    <3>1. CASE k = m + 1
      <4>1. k # 0 /\ k - 1 = m /\ k - 1 \in 0..(m + 1) /\ k - 1 # m + 1
        BY <3>1
      <4>2. more[k] = next /\ more[k - 1] = key[m]
        BY <3>1, <4>1
      <4> QED BY <3>1, <4>1, <4>2
    <3>2. CASE k # m + 1
      <4>1. k \in 0..m /\ more[k] = key[k]
        BY <3>2
      <4>2. k # 0 => more[k - 1] = key[k - 1]
        BY <4>1
      <4> HIDE DEF more
      <4> QED BY <2>1, <4>1, <4>2 DEF HostPath
    <3> QED BY <3>1, <3>2
  <2>3. HostPath(more, n, c, m + 1)
    BY <2>2, Zenon DEF HostPath
  <2> QED BY <2>3
<1>3. S = Nat
  <2>1. S \in SUBSET Nat
    OBVIOUS
  <2> HIDE DEF S
  <2> QED BY <1>1, <1>2, <2>1, Induction
<1> QED BY <1>3

LEMMA HostKeyPath ==
  ASSUME NEW n, NEW c
  PROVE  \E key : HostPath(key, n, c, NumReg) /\ HostKey(n, c) = key[NumReg]
<1> DEFINE F == CHOOSE key : HostPath(key, n, c, NumReg)
<1>1. HostPath(F, n, c, NumReg)
  BY HostPathExists, DukptAssumption
<1>2. HostKey(n, c) = F[NumReg]
  BY DEF HostKey, HostPath
<1> QED BY <1>1, <1>2

\* Below its lowest one-bit a counter adds no derivation.
LEMMA HostPathTail ==
  ASSUME NEW n, NEW c, NEW key, HostPath(key, n, c, NumReg), NEW m \in 0..NumReg,
         \A k \in c : k >= NumReg - m, c \in Counters
  PROVE  key[NumReg] = key[m]
<1> DEFINE S == {k \in m..NumReg : key[k] = key[m]}
<1>1. NumReg \in Nat /\ m \in Nat
  BY DukptAssumption
<1>2. ASSUME NEW k \in m..(NumReg - 1), k \in S PROVE k + 1 \in S
  <2>1. k + 1 \in 0..NumReg /\ k + 1 # 0 /\ k + 1 \in m..NumReg
    BY <1>1
  <2>2. NumReg - (k + 1) \notin c
    BY <1>1 DEF Counters, Regs
  <2>3. key[k + 1] = key[(k + 1) - 1]
    BY <2>1, <2>2 DEF HostPath
  <2>4. (k + 1) - 1 = k /\ key[k] = key[m]
    BY <1>1, <1>2
  <2> QED BY <2>1, <2>3, <2>4
<1>3. m \in S
  BY <1>1
<1>4. m..NumReg \subseteq S
  <2> HIDE DEF S
  <2> QED BY <1>1, <1>2, <1>3, BoundedInduction
<1> QED BY <1>1, <1>4

\* A counter without one-bits stands for the initial key.
LEMMA HostKeyEmpty ==
  ASSUME NEW n
  PROVE  HostKey(n, {}) = Initial(n)
<1>1. PICK key : HostPath(key, n, {}, NumReg) /\ HostKey(n, {}) = key[NumReg]
  BY HostKeyPath
<1>2. 0 \in 0..NumReg
  BY DukptAssumption
<1>3. key[0] = Initial(n)
  BY <1>1, <1>2 DEF HostPath
<1>4. key[NumReg] = key[0]
  BY <1>1, <1>2, HostPathTail DEF Counters
<1> QED BY <1>1, <1>3, <1>4

\* A one-bit below all others adds the last derivation.
LEMMA HostKeyNext ==
  ASSUME NEW n, NEW c \in Counters, NEW r \in Regs, \A k \in c : k > r
  PROVE  HostKey(n, c \cup {r}) = Derive(HostKey(n, c), "derive", n, c \cup {r})
<1> DEFINE d == c \cup {r}
           m == NumReg - r
<1>1. /\ NumReg \in Nat /\ r \in Nat /\ m \in 1..NumReg /\ m - 1 \in 0..NumReg
      /\ d \in Counters /\ NumReg - m = r /\ \A k \in c : k \in (r + 1)..NumReg
  BY DukptAssumption DEF Regs, Counters
<1>2. PICK a : HostPath(a, n, c, NumReg) /\ HostKey(n, c) = a[NumReg]
  BY HostKeyPath
<1>3. PICK b : HostPath(b, n, d, NumReg) /\ HostKey(n, d) = b[NumReg]
  BY HostKeyPath
<1> DEFINE S == {k \in 0..NumReg : a[k] = b[k]}
<1>4. 0 \in S
  BY <1>1, <1>2, <1>3 DEF HostPath
<1>5. ASSUME NEW k \in 0..((m - 1) - 1), k \in S PROVE k + 1 \in S
  <2> DEFINE j == NumReg - (k + 1)
  <2>1. /\ k + 1 \in 0..NumReg /\ k + 1 # 0 /\ j > r /\ (k + 1) - 1 = k
        /\ j \in Int
    BY <1>1
  <2>2. (j \in c <=> j \in d) /\ c \cap (j..NumReg) = d \cap (j..NumReg)
    BY <1>1, <2>1
  <2>3. a[k + 1] = IF j \notin c THEN a[k] ELSE Derive(a[k], "derive", n, c \cap (j..NumReg))
    BY <1>2, <2>1 DEF HostPath
  <2>4. b[k + 1] = IF j \notin d THEN b[k] ELSE Derive(b[k], "derive", n, d \cap (j..NumReg))
    BY <1>3, <2>1 DEF HostPath
  <2>5. a[k] = b[k]
    BY <1>5
  <2>6. a[k + 1] = b[k + 1]
    <3> HIDE DEF j, d, S
    <3> QED BY <2>2, <2>3, <2>4, <2>5
  <2> QED BY <2>1, <2>6
<1>6. a[m - 1] = b[m - 1]
  <2>1. 0..(m - 1) \subseteq S
    <3> HIDE DEF S, d, m
    <3>1. m - 1 \in Nat /\ 0 \in Nat
      BY <1>1
    <3> QED BY <3>1, <1>4, <1>5, BoundedInduction
  <2> QED BY <1>1, <2>1
<1>7. a[NumReg] = a[m - 1]
  <2>1. \A k \in c : k >= NumReg - (m - 1)
    BY <1>1
  <2> HIDE DEF m
  <2> QED BY <1>1, <1>2, <2>1, HostPathTail
<1>8. b[m] = Derive(b[m - 1], "derive", n, d)
  <2>1. NumReg - m \in d /\ m # 0 /\ m \in 0..NumReg
    BY <1>1
  <2>2. d \cap ((NumReg - m)..NumReg) = d
    <3>1. \A k \in d : k \in r..NumReg
      BY <1>1
    <3> HIDE DEF d, m
    <3> QED BY <1>1, <3>1
  <2> HIDE DEF m, d
  <2> QED BY <1>3, <2>1, <2>2 DEF HostPath
<1>9. b[NumReg] = b[m]
  <2>1. \A k \in d : k >= NumReg - m
    BY <1>1
  <2>2. m \in 0..NumReg
    BY <1>1
  <2> HIDE DEF m, d
  <2> QED BY <1>1, <1>3, <2>1, <2>2, HostPathTail
<1> QED BY <1>2, <1>3, <1>6, <1>7, <1>8, <1>9

\* The counter that the key of register r stands for, below the one-bits of c.
Path(c, r) == {k \in c : k > r} \cup {r}

\* The counter has as many one-bits as crash the SP at every request.
Stuck == inUse[Lowest(ctr)] /\ Ones(ctr) > MaxWork

\* A register in use is still to come, and holds the host's key.
Ahead(r) ==
  /\ ctr # {} /\ r >= Lowest(ctr)
  /\ r \in ctr => r = Lowest(ctr)
  /\ reg[r] = HostKey(loads, Path(ctr, r))

Settled == pc \in {"idle", "off", "shift", "find", "putType"}

\* What keeps terminal and host in step, while nothing is deleted or cut.
InStep ==
  /\ pc \in {"erase", "eraseType"} => op = "load"
  /\ Settled => (ident = loads \/ Stuck) /\ \A r \in Regs : inUse[r] => Ahead(r)
  /\ Requesting =>
       /\ ctr # {} /\ ident = loads /\ base = HostKey(loads, ctr)
       /\ \A r \in Regs : r > cur /\ inUse[r] => Ahead(r)
       /\ \A r \in Regs : r < cur /\ inUse[r] => Replaced(r)
       /\ pc = "count" => ~inUse[cur]

HostInv == cuts = 0 /\ spoils = 0 => InStep

LEMMA PlusCarry ==
  ASSUME NEW c \in Counters, NEW k \in Regs
  PROVE  \E z \in k..NumReg :
           /\ z \notin c /\ k..(z - 1) \subseteq c
           /\ Plus(c, k) = (c \ (k..(z - 1))) \cup ({z} \cap Regs)
<1> DEFINE Z == {z \in k..NumReg : z \notin c}
<1>1. NumReg \in Nat /\ k \in Nat /\ NumReg \in k..NumReg /\ NumReg \notin c
  BY DukptAssumption DEF Regs, Counters
<1>2. PICK z \in Z : \A y \in Z : z <= y
  <2>1. Z \in SUBSET Nat /\ Z # {}
    BY <1>1
  <2> HIDE DEF Z
  <2> QED BY <2>1, LeastElement
<1>3. z \in k..NumReg /\ z \notin c /\ k..(z - 1) \subseteq c
  BY <1>1, <1>2
<1> DEFINE w == CHOOSE x \in k..NumReg : x \notin c /\ k..(x - 1) \subseteq c
<1>4. w \in k..NumReg /\ w \notin c /\ k..(w - 1) \subseteq c
  BY <1>3
<1>5. Plus(c, k) = (c \ (k..(w - 1))) \cup ({w} \cap Regs)
  BY DEF Plus
<1> HIDE DEF w
<1> QED BY <1>4, <1>5

LEMMA LowestIs ==
  ASSUME NEW c \in Counters, NEW z \in c, \A k \in c : k >= z
  PROVE  Lowest(c) = z
<1>1. Lowest(c) \in c /\ Lowest(c) \in Regs /\ z \in Regs /\ ~(z < Lowest(c))
  BY LowestFacts DEF Counters
<1>2. Lowest(c) >= z
  BY <1>1
<1>3. Lowest(c) \in Nat /\ z \in Nat
  BY <1>1, DukptAssumption DEF Regs
<1> QED BY <1>1, <1>2, <1>3

\* Counting on does not touch the one-bits above a register that is not among them.
LEMMA PathKept ==
  ASSUME NEW c \in Counters, NEW k \in Regs, \A j \in c : j >= k,
         NEW r \in Regs, r >= k, r \notin c
  PROVE  /\ Plus(c, k) # {} /\ r >= Lowest(Plus(c, k))
         /\ r \in Plus(c, k) => r = Lowest(Plus(c, k))
         /\ Path(Plus(c, k), r) = Path(c, r)
<1> DEFINE d == Plus(c, k)
<1>1. PICK z \in k..NumReg : /\ z \notin c /\ k..(z - 1) \subseteq c
                             /\ d = (c \ (k..(z - 1))) \cup ({z} \cap Regs)
  BY PlusCarry
<1>2. d \in Counters
  BY CounterFacts
<1> HIDE DEF d
<1>3. NumReg \in Nat /\ Regs = 0..(NumReg - 1) /\ c \subseteq 0..(NumReg - 1)
  BY DukptAssumption DEF Regs, Counters
<1>4. z <= r /\ z \in Regs
  <2>1. r \notin k..(z - 1)
    BY <1>1
  <2> QED BY <1>1, <1>3, <2>1
<1>5. z \in d /\ \A j \in d : j >= z
  BY <1>1, <1>3, <1>4
<1>6. Lowest(d) = z
  BY <1>2, <1>5, LowestIs
<1>7. r \in d => r = z
  BY <1>1
<1>8. {j \in d : j > r} = {j \in c : j > r}
  <2>1. ASSUME NEW j \in d, j > r PROVE j \in c
    BY <2>1, <1>1, <1>3, <1>4
  <2>2. ASSUME NEW j \in c, j > r PROVE j \in d
    <3>1. j \notin k..(z - 1)
      BY <2>2, <1>1, <1>3, <1>4
    <3> QED BY <3>1, <1>1
  <2> QED BY <2>1, <2>2
<1> QED BY <1>4, <1>5, <1>6, <1>7, <1>8 DEF d, Path

\* Below the lowest one-bit, a child of the host's key is the host's key.
LEMMA ChildHost ==
  ASSUME TypeOK, base = HostKey(loads, ctr), ident = loads, NEW r \in Regs,
         \A k \in ctr : k > r
  PROVE  Child(r) = HostKey(loads, Path(ctr, r))
<1>1. Path(ctr, r) = ctr \cup {r}
  BY DEF Path
<1>2. HostKey(loads, ctr \cup {r}) = Derive(HostKey(loads, ctr), "derive", loads, ctr \cup {r})
  BY HostKeyNext DEF TypeOK
<1> QED BY <1>1, <1>2 DEF Child, WithBit

LEMMA CtrFinite == TypeOK => Ones(ctr) \in Nat
<1> SUFFICES ASSUME TypeOK PROVE Ones(ctr) \in Nat
  OBVIOUS
<1>1. IsFiniteSet(Regs)
  BY FS_Interval, DukptAssumption DEF Regs
<1>2. IsFiniteSet(ctr)
  BY <1>1, FS_Subset DEF TypeOK, Counters
<1> QED BY <1>2, FS_CardinalityType DEF Ones

LEMMA UndisturbedBefore ==
  ASSUME TypeOK, [Next]_vars, cuts' = 0, spoils' = 0
  PROVE  cuts = 0 /\ spoils = 0
<1>1. cuts = 0
  BY Changes, DukptAssumption DEF PowerCut, TypeOK
<1>2. spoils' = spoils \/ spoils' = spoils + 1
  BY DEF Next, Step, Delete, SetKeys, Request, Erase, EraseReg, EraseType, LoadInitialKey,
       PutInitial, UseInitial, ResetCurrent, ResetCounter, FirstCounter, PutType, DeriveReg,
       UseReg, GenerateWorkingKeys, SetShift, Skip, RefuseType, DeriveWorking, SkipCrash,
       ClearReg, UnuseReg, NextCounter, PowerCut, Restart, Rest, vars, bounds
<1> QED BY <1>1, <1>2, DukptAssumption DEF TypeOK

LEMMA HostStep == IInv /\ HostInv /\ [Next]_vars => HostInv'
<1> SUFFICES ASSUME IInv, HostInv, [Next]_vars, cuts' = 0, spoils' = 0 PROVE InStep'
  BY DEF HostInv
<1> USE DEF IInv, KeyInv
<1>1. cuts = 0
  BY UndisturbedBefore
<1>2. spoils = 0
  BY UndisturbedBefore
<1>3. InStep
  BY <1>1, <1>2 DEF HostInv
<1>4. CASE Delete \/ SetKeys \/ \E u \in Usages : Request(u)
  <2>1. /\ pc = "idle" /\ UNCHANGED <<reg, inUse, ctr, ident, loads>>
        /\ (pc' = "erase" /\ op' = "load") \/ pc' = "shift"
    BY <1>2, <1>4 DEF Delete, SetKeys, Request, files
  <2> QED BY <1>3, <2>1 DEF InStep, Settled, Stuck, Ahead, Requesting
<1>5. CASE Erase
  BY <1>3, <1>5 DEF Erase, EraseReg, EraseType, Return, InStep, Settled, Requesting
<1>6. CASE PutInitial \/ UseInitial \/ ResetCurrent \/ ResetCounter
  BY <1>6 DEF PutInitial, UseInitial, ResetCurrent, ResetCounter, InStep, Settled,
       Requesting, OpInv, LoadSteps, Usages, locals
<1>7. CASE FirstCounter
  <2>1. /\ pc' = "putType" /\ op = "load" /\ ctr = {} /\ ident = loads /\ base = Initial(loads)
        /\ ctr' = Plus(ctr, 0) /\ UNCHANGED <<reg, inUse, ident, loads>>
        /\ \A r \in Regs : reg[r] = Child(r)
    BY <1>7 DEF FirstCounter, OpInv, LoadSteps, LoadInv, Replaced, locals
  <2>2. 0 \in Regs /\ \A r \in Regs : r >= 0
    BY DukptAssumption DEF Regs
  <2>3. base = HostKey(loads, ctr)
    BY <2>1, HostKeyEmpty
  <2>4. ASSUME NEW r \in Regs PROVE Ahead(r)'
    <3>1. Child(r) = HostKey(loads, Path(ctr, r))
      BY <2>1, <2>3, ChildHost
    <3>2. /\ ctr' # {} /\ r >= Lowest(ctr')
          /\ r \in ctr' => r = Lowest(ctr')
          /\ Path(ctr', r) = Path(ctr, r)
      BY <2>1, <2>2, PathKept DEF TypeOK
    <3> QED BY <2>1, <3>1, <3>2 DEF Ahead
  <2> QED BY <2>1, <2>4 DEF InStep, Settled, Requesting
<1>8. CASE PutType
  BY <1>3, <1>8 DEF PutType, Return, InStep, Settled, Stuck, Ahead, Requesting
<1>9. CASE DeriveReg
  <2>1. /\ reg' = [reg EXCEPT ![i] = Child(i)] /\ i \in Regs /\ pc = "derive" /\ pc' = "use"
        /\ UNCHANGED <<inUse, cur, ctr, ident, op, i, base, loads>>
    BY <1>9 DEF DeriveReg, Child, TypeOK, locals
  <2>2. Requesting' => Requesting /\ i <= cur
    BY <2>1 DEF Requesting, RequestInv
  <2>3. ASSUME Requesting, NEW r \in Regs, r > cur, inUse[r] PROVE Ahead(r)'
    <3>1. r # i /\ Ahead(r)
      BY <1>3, <2>1, <2>2, <2>3 DEF InStep, TypeOK, Requesting, RequestInv, Regs
    <3> QED BY <2>1, <3>1 DEF Ahead, TypeOK
  <2>4. ASSUME Requesting, NEW r \in Regs, r < cur, inUse[r] PROVE Replaced(r)'
    BY <1>3, <2>1, <2>4 DEF InStep, Replaced, Regs
  <2> QED BY <1>3, <2>1, <2>2, <2>3, <2>4 DEF InStep, Settled, Requesting
<1>10. CASE UseReg
  <2>1. /\ inUse' = [inUse EXCEPT ![i] = TRUE] /\ i \in Regs
        /\ UNCHANGED <<reg, cur, ctr, ident, op, base, loads>>
        /\ pc = "use" /\ pc' \in {"derive", "firstCounter", "clear"}
        /\ pc' = "derive" => i' = i - 1
        /\ pc' # "derive" => i = 0
        /\ pc' = "firstCounter" => op = "load"
    BY <1>10, KeyTypes DEF UseReg, TypeOK, Regs
  <2>2. Requesting' => Requesting /\ i <= cur
    BY <2>1 DEF Requesting, RequestInv
  <2>3. ASSUME Requesting, NEW r \in Regs, r > cur, inUse'[r] PROVE Ahead(r)'
    <3>1. r # i
      BY <2>1, <2>2, <2>3 DEF TypeOK, Requesting, RequestInv, Regs
    <3>2. Ahead(r)
      BY <1>3, <2>1, <2>3, <3>1 DEF InStep, TypeOK
    <3> QED BY <2>1, <3>2 DEF Ahead
  <2>4. ASSUME Requesting, NEW r \in Regs, r < cur, inUse'[r] PROVE Replaced(r)'
    <3>1. r = i \/ inUse[r]
      BY <2>1, <2>4 DEF TypeOK
    <3>2. r >= i
      BY <1>3, <2>1, <2>4, <3>1 DEF InStep, Replaced, Regs
    <3> QED BY <2>1, <3>2 DEF Replaced, Regs
  <2> QED BY <1>3, <2>1, <2>2, <2>3, <2>4 DEF InStep, Settled, Requesting
<1>11. CASE SetShift \/ RefuseType
  BY <1>3, <1>11 DEF SetShift, RefuseType, files, locals, InStep, Settled, Stuck, Ahead, Requesting
<1>12. CASE Skip
  <2>1. /\ pc = "find" /\ cur = Lowest(ctr) /\ ~inUse[cur] /\ ctr' = Plus(ctr, cur)
        /\ cur \in Regs /\ UNCHANGED <<reg, inUse, ident, loads>> /\ pc' \in {"idle", "shift"}
    BY <1>12 DEF Skip, RequestInv, TypeOK
  <2>2. ident = loads
    BY <1>3, <2>1 DEF InStep, Settled, Stuck
  <2>3. ASSUME NEW r \in Regs, inUse[r] PROVE Ahead(r)'
    <3>1. Ahead(r) /\ r # cur
      BY <1>3, <2>1, <2>3 DEF InStep, Settled
    <3>2. r >= cur /\ r \notin ctr /\ \A j \in ctr : j >= cur
      <4>1. \A j \in ctr : j \in Regs /\ ~(j < cur)
        BY <2>1, LowestFacts DEF TypeOK, Counters
      <4> QED BY <2>1, <3>1, <4>1, DukptAssumption DEF Ahead, Regs
    <3>3. /\ ctr' # {} /\ r >= Lowest(ctr')
          /\ r \in ctr' => r = Lowest(ctr')
          /\ Path(ctr', r) = Path(ctr, r)
      BY <2>1, <3>2, PathKept DEF TypeOK
    <3> QED BY <2>1, <3>1, <3>3 DEF Ahead
  <2> QED BY <2>1, <2>2, <2>3 DEF InStep, Settled, Requesting
<1>13. CASE DeriveWorking
  <2>1. /\ pc = "find" /\ cur = Lowest(ctr) /\ inUse[cur] /\ ~(Ones(ctr) > MaxWork)
        /\ base' = reg[cur] /\ pc' = "derive" /\ op \in Usages
        /\ cur \in Regs /\ UNCHANGED <<reg, inUse, cur, ctr, ident, op, loads>>
    <3>1. Ones(ctr) <= MaxWork => ~(Ones(ctr) > MaxWork)
      BY CtrFinite, DukptAssumption
    <3> QED BY <1>13, <3>1 DEF DeriveWorking, files, RequestInv, OpInv, TypeOK
  <2>2. /\ ident = loads /\ Ahead(cur)
        /\ \A r \in Regs : inUse[r] => Ahead(r)
    BY <1>3, <2>1 DEF InStep, Settled, Stuck
  <2>3. Path(ctr, cur) = ctr
    <3>1. cur \in ctr /\ \A j \in ctr : j \in Regs /\ ~(j < cur)
      BY <2>1, <2>2, LowestFacts DEF TypeOK, Counters, Ahead
    <3> QED BY <3>1, DukptAssumption DEF Path, Regs
  <2>4. ctr # {} /\ base' = HostKey(loads, ctr)
    BY <2>1, <2>2, <2>3 DEF Ahead
  <2>5. ASSUME NEW r \in Regs, inUse[r], r < cur PROVE FALSE
    BY <2>1, <2>2, <2>5, DukptAssumption DEF Ahead, Regs
  <2> QED BY <2>1, <2>2, <2>4, <2>5 DEF InStep, Settled, Requesting, Ahead
<1>14. CASE SkipCrash
  <2>1. /\ pc = "find" /\ cur = Lowest(ctr) /\ inUse[cur] /\ Ones(ctr) > MaxWork
        /\ pc' = "off" /\ UNCHANGED <<reg, inUse, ctr, loads>>
    BY <1>14 DEF SkipCrash, files, RequestInv
  <2> QED BY <1>3, <2>1 DEF InStep, Settled, Stuck, Ahead, Requesting
<1>15. CASE ClearReg \/ UnuseReg
  <2>1. /\ Requesting /\ cur \in Regs /\ UNCHANGED <<cur, ctr, ident, op, i, base, loads>>
        /\ \A r \in Regs : r # cur => reg'[r] = reg[r] /\ inUse'[r] = inUse[r]
        /\ pc' = "count" => ~inUse'[cur]
        /\ pc' \in {"unuse", "count"}
    BY <1>15 DEF ClearReg, UnuseReg, locals, TypeOK, OpInv, Requesting
  <2>2. ASSUME NEW r \in Regs, r > cur, inUse'[r] PROVE Ahead(r)'
    <3>1. r # cur
      BY <2>1, <2>2, DukptAssumption DEF Regs
    <3> QED BY <1>3, <2>1, <2>2, <3>1 DEF InStep, Ahead
  <2> QED BY <1>3, <2>1, <2>2 DEF InStep, Settled, Requesting, Replaced
<1>16. CASE NextCounter
  <2>1. /\ Requesting /\ pc = "count" /\ pc' = "idle" /\ ctr' = Plus(ctr, 0) /\ ~inUse[cur]
        /\ cur = Lowest(ctr) /\ cur \in Regs /\ UNCHANGED <<reg, inUse, ident, loads>>
        /\ ident = loads /\ ctr # {} /\ base = HostKey(loads, ctr)
    BY <1>3, <1>16 DEF NextCounter, InStep, RequestInv, Requesting, OpInv, TypeOK
  <2>2. 0 \in Regs /\ \A r \in Regs : r \in Nat
    BY DukptAssumption DEF Regs
  <2>3. \A j \in ctr : j \in Regs /\ j \in Nat /\ j >= 0 /\ ~(j < cur)
    BY <2>1, <2>2, LowestFacts DEF TypeOK, Counters
  <2>4. ASSUME NEW r \in Regs, inUse[r] PROVE Ahead(r)'
    <3>1. r \notin ctr /\ reg[r] = HostKey(loads, Path(ctr, r))
      <4>1. CASE r < cur
        <5>1. Replaced(r) /\ Done(r) /\ r <= cur /\ r # cur
          BY <1>3, <2>1, <2>2, <2>4, <4>1 DEF InStep, RequestInv
        <5>2. reg[r] = Child(r)
          BY <5>1 DEF Done
        <5>3. \A k \in ctr : k > r
          BY <2>1, <2>2, <2>3, <4>1
        <5> QED BY <2>1, <2>2, <5>2, <5>3, ChildHost
      <4>2. CASE r > cur
        <5>1. Ahead(r) /\ r # cur
          BY <1>3, <2>1, <2>2, <2>4, <4>2 DEF InStep
        <5> QED BY <2>1, <5>1 DEF Ahead
      <4> QED BY <2>1, <2>2, <2>4, <4>1, <4>2
    <3>2. /\ ctr' # {} /\ r >= Lowest(ctr')
          /\ r \in ctr' => r = Lowest(ctr')
          /\ Path(ctr', r) = Path(ctr, r)
      BY <2>1, <2>2, <2>3, <3>1, PathKept DEF TypeOK
    <3> QED BY <2>1, <3>1, <3>2 DEF Ahead
  <2> QED BY <2>1, <2>4 DEF InStep, Settled, Requesting
<1>17. CASE PowerCut
  BY <1>1, <1>17, DukptAssumption DEF PowerCut, TypeOK
<1>18. CASE Restart
  BY <1>3, <1>18 DEF Restart, files, locals, InStep, Settled, Stuck, Ahead, Requesting
<1>19. CASE Rest \/ UNCHANGED vars
  BY <1>3, <1>19 DEF Rest, vars, files, locals, InStep, Settled, Stuck, Ahead, Requesting, Replaced
<1> QED BY <1>4, <1>5, <1>6, <1>7, <1>8, <1>9, <1>10, <1>11, <1>12, <1>13, <1>14, <1>15,
           <1>16, <1>17, <1>18, <1>19 DEF Next, Step, LoadInitialKey, GenerateWorkingKeys

\* A derived key without its last derivation is the key it was derived from.
LEMMA FrontDerive ==
  ASSUME NEW k \in Keys, NEW u \in Derivation \ {"initial"}, NEW n \in Nat,
         NEW c \in Counters
  PROVE  Front(Derive(k, u, n, c)) = k /\ Last(Derive(k, u, n, c))[3] = c
<1> DEFINE d == Append(k, <<u, n, c>>)
<1>1. <<u, n, c>> \in Triples
  BY DEF Triples
<1>2. /\ d \in Keys /\ Len(d) = Len(k) + 1 /\ Len(k) \in Nat
      /\ \A j \in 1..Len(k) : d[j] = k[j] /\ d[j] \in Triples
  BY <1>1, AppendKey, ElementOfSeq DEF Keys, Triples
<1> HIDE DEF d
<1>3. /\ SubSeq(d, 1, Len(k)) \in Seq(Triples)
      /\ Len(SubSeq(d, 1, Len(k))) = IF 1 <= Len(k) THEN Len(k) - 1 + 1 ELSE 0
      /\ \A j \in 1..(Len(k) - 1 + 1) : SubSeq(d, 1, Len(k))[j] = d[1 + j - 1]
  BY <1>2, SubSeqProperties
<1>4. SubSeq(d, 1, Len(k)) = k
  BY <1>2, <1>3, SeqEqual DEF Keys, Triples
<1>5. Front(d) = SubSeq(d, 1, Len(d) - 1) /\ Len(d) - 1 = Len(k)
  BY <1>2 DEF Front
<1>6. Last(d) = <<u, n, c>>
  BY DeriveFacts DEF Derive, d
<1>7. Derive(k, u, n, c) = d
  BY DEF d, Derive
<1> QED BY <1>4, <1>5, <1>6, <1>7

LEMMA AgreeStep == IInv /\ HostInv /\ HostAgrees /\ [Next]_vars => HostAgrees'
<1> SUFFICES ASSUME IInv, HostInv, HostAgrees, [Next]_vars, cuts' = 0, spoils' = 0
             PROVE  HostAgrees'
  BY DEF HostAgrees
<1> USE DEF IInv, KeyInv
<1>1. cuts = 0 /\ spoils = 0
  BY UndisturbedBefore
<1>2. CASE answers' = answers
  BY <1>1, <1>2 DEF HostAgrees
<1>3. CASE NextCounter /\ answers' # answers
  <2> DEFINE R == [key : Keys, ksn : Counters, load : 0..Loads]
             a == Answer(Plus(ctr, 0))
  <2>1. answers \in Seq(R) /\ answers' = Append(answers, a) /\ Requesting
    BY <1>3 DEF NextCounter, TypeOK, Requesting, OpInv
  <2>2. /\ work = Derive(base, op, ident, ctr) /\ base = HostKey(loads, ctr)
        /\ op \in Derivation \ {"initial"} /\ base \in Keys /\ ident \in Nat /\ ctr \in Counters
    BY <1>1, <2>1, KeyTypes DEF HostInv, InStep, RequestInv, TypeOK, Requesting, Derivation, Usages
  <2>3. /\ a.ksn = Plus(Last(a.key)[3], 0)
        /\ Front(a.key) = HostKey(a.load, Last(a.key)[3])
    <3>1. Front(work) = base /\ Last(work)[3] = ctr
      BY <2>2, FrontDerive
    <3> QED BY <2>2, <3>1 DEF Answer
  <2>4. ASSUME NEW n \in 1..Len(answers')
        PROVE  \/ n \in 1..Len(answers) /\ answers'[n] = answers[n]
               \/ answers'[n] = a
    <3> HIDE DEF R, a
    <3>1. Append(answers, a)[n] = IF n = Len(answers) + 1 THEN a ELSE answers[n]
      BY <2>1
    <3> QED BY <2>1, <2>4, <3>1
  <2> HIDE DEF R, a
  <2> QED BY <1>1, <2>3, <2>4 DEF HostAgrees
<1> QED BY <1>2, <1>3, Changes

\* As long as nothing is deleted and the SP is not switched off, every working key
\* is the one the host derives from the initial key for the counter before the one
\* it is told, however many registers there are and whatever the counter skips.
THEOREM HostAgreesCorrect == Spec => []HostAgrees
<1>1. Init => HostInv /\ HostAgrees
  <2> SUFFICES ASSUME Init PROVE HostInv /\ HostAgrees
    OBVIOUS
  <2>1. /\ pc = "idle" /\ ident = 0 /\ loads = 0 /\ answers = <<>>
        /\ \A r \in Regs : ~inUse[r]
    BY DEF Init
  <2>2. Len(answers) = 0
    BY <2>1
  <2> QED BY <2>1, <2>2 DEF HostInv, InStep, Settled, Requesting, HostAgrees
<1>2. IInv /\ HostInv /\ HostAgrees /\ [Next]_vars => (HostInv /\ HostAgrees)'
  BY HostStep, AgreeStep
<1> QED BY <1>1, <1>2, KeysHold, PTL DEF Spec
=============================================================================
