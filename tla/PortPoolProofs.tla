--------------------------- MODULE PortPoolProofs ---------------------------
(***************************************************************************)
(* For every range of ports, number of attempts and set of callers: a pair *)
(* of ports is in one place at any time, and the pool is an allocator as   *)
(* PairAllocator describes it.                                             *)
(***************************************************************************)
EXTENDS PortPool, FiniteSetTheorems, SequenceTheorems, TLAPS

-----------------------------------------------------------------------------
(* Sequences without repetition.                                           *)

Distinct(s) == \A i, j \in DOMAIN s : s[i] = s[j] => i = j

LEMMA ElementsOfSeq ==
    ASSUME NEW S, NEW s \in Seq(S)
    PROVE  ToSet(s) \subseteq S
BY ElementOfSeq, LenProperties DEF ToSet

(* Taking the head out of a sequence takes one element out of its set. *)
LEMMA TakeHead ==
    ASSUME NEW S, NEW s \in Seq(S), s # <<>>
    PROVE  /\ Tail(s) \in Seq(S)
           /\ Head(s) \in S
           /\ Head(s) \in ToSet(s)
           /\ ToSet(Tail(s)) \subseteq ToSet(s)
           /\ Distinct(s) => /\ Distinct(Tail(s))
                             /\ ToSet(Tail(s)) = ToSet(s) \ {Head(s)}
<1>1. /\ Tail(s) \in Seq(S) /\ Head(s) = s[1] /\ Head(s) \in S
      /\ Len(s) \in Nat \ {0} /\ DOMAIN s = 1..Len(s)
      /\ DOMAIN Tail(s) = 1..(Len(s) - 1)
      /\ \A i \in 1..(Len(s) - 1) : Tail(s)[i] = s[i + 1]
  <2>1. Len(s) \in Nat \ {0} /\ DOMAIN s = 1..Len(s)
    BY EmptySeq, LenProperties
  <2>2. Tail(s) \in Seq(S) /\ Head(s) \in S /\ Len(Tail(s)) = Len(s) - 1
    BY HeadTailProperties
  <2>3. DOMAIN Tail(s) = 1..(Len(s) - 1)
    BY <2>2, LenProperties
  <2>4. Head(s) = s[1] /\ \A i \in 1..(Len(s) - 1) : Tail(s)[i] = s[i + 1]
    BY <2>1, SMT
  <2> QED
    BY <2>1, <2>2, <2>3, <2>4
<1>2. Head(s) \in ToSet(s)
  BY <1>1 DEF ToSet
<1>3. ToSet(Tail(s)) \subseteq ToSet(s)
  BY <1>1 DEF ToSet
<1>4. ASSUME Distinct(s)
      PROVE  Distinct(Tail(s)) /\ ToSet(Tail(s)) = ToSet(s) \ {Head(s)}
  <2>1. Distinct(Tail(s))
    BY <1>1, <1>4 DEF Distinct
  <2>2. Head(s) \notin ToSet(Tail(s))
    BY <1>1, <1>4 DEF Distinct, ToSet
  <2>3. ASSUME NEW e \in ToSet(s), e # Head(s)
        PROVE  e \in ToSet(Tail(s))
    <3>1. PICK i \in 1..Len(s) : e = s[i]
      BY <1>1 DEF ToSet
    <3>2. i - 1 \in 1..(Len(s) - 1) /\ e = Tail(s)[i - 1]
      BY <1>1, <2>3, <3>1
    <3> QED
      BY <1>1, <3>2 DEF ToSet
  <2> QED
    BY <1>3, <2>1, <2>2, <2>3
<1> QED
  BY <1>1, <1>2, <1>3, <1>4

LEMMA PutLast ==
    ASSUME NEW S, NEW s \in Seq(S), NEW e \in S
    PROVE  /\ Append(s, e) \in Seq(S)
           /\ Append(s, e) # <<>>
           /\ ToSet(Append(s, e)) = ToSet(s) \cup {e}
           /\ Distinct(s) /\ e \notin ToSet(s) => Distinct(Append(s, e))
<1>1. /\ Append(s, e) \in Seq(S) /\ Append(s, e) # <<>>
      /\ Len(s) \in Nat /\ DOMAIN s = 1..Len(s)
      /\ DOMAIN Append(s, e) = 1..(Len(s) + 1)
      /\ \A i \in 1..Len(s) : Append(s, e)[i] = s[i]
      /\ Append(s, e)[Len(s) + 1] = e
  BY AppendProperties, LenProperties
<1>2. ToSet(Append(s, e)) = ToSet(s) \cup {e}
  <2>1. ASSUME NEW i \in 1..(Len(s) + 1)
        PROVE  Append(s, e)[i] \in ToSet(s) \cup {e}
    <3>1. CASE i = Len(s) + 1
      BY <1>1, <3>1
    <3>2. CASE i \in 1..Len(s)
      BY <1>1, <3>2 DEF ToSet
    <3> QED
      BY <1>1, <3>1, <3>2
  <2>2. ASSUME NEW i \in 1..Len(s)
        PROVE  s[i] \in ToSet(Append(s, e))
    BY <1>1 DEF ToSet
  <2>3. e \in ToSet(Append(s, e))
    BY <1>1 DEF ToSet
  <2> QED
    BY <1>1, <2>1, <2>2, <2>3 DEF ToSet
<1>3. ASSUME Distinct(s), e \notin ToSet(s)
      PROVE  Distinct(Append(s, e))
  <2>1. \A i \in 1..Len(s) : s[i] # e
    BY <1>1, <1>3 DEF ToSet
  <2> QED
    BY <1>1, <1>3, <2>1 DEF Distinct
<1> QED
  BY <1>1, <1>2, <1>3

-----------------------------------------------------------------------------
(* Types.                                                                  *)

LEMMA Offsets == /\ Offset \subseteq Nat /\ NoOffset \notin Offset
                 /\ IsFiniteSet(Offset)
<1>1. (maxPort - minPort) \div 2 - 1 \in Int
  BY PoolAssumption, SMT
<1>2. IsFiniteSet(Offset)
  BY <1>1, FS_Interval DEF Offset
<1> QED
  BY <1>1, <1>2 DEF Offset, NoOffset

(* The shuffled array has every offset, once. *)
LEMMA Shuffled ==
    ASSUME NEW s \in SetToSeqs(Offset)
    PROVE  s \in Seq(Offset) /\ Distinct(s) /\ ToSet(s) = Offset
<1> DEFINE D == 1..Cardinality(Offset)
<1>1. Cardinality(Offset) \in Nat
  BY Offsets, FS_CardinalityType
<1>2. s \in [D -> Offset] /\ \A i, j \in D : i # j => s[i] # s[j]
  BY DEF SetToSeqs
<1>3. s \in Seq(Offset) /\ DOMAIN s = D
  BY <1>1, <1>2
<1>4. s \in Injection(D, Offset)
  BY <1>2 DEF Injection, IsInjective
<1>5. Cardinality(D) = Cardinality(Offset)
  BY <1>1, FS_Interval
<1>6. s \in Surjection(D, Offset)
  BY <1>4, <1>5, Offsets, FS_Injection
<1>7. ToSet(s) = Offset
  BY <1>2, <1>3, <1>6 DEF Surjection, ToSet
<1> QED
  BY <1>2, <1>3, <1>7 DEF Distinct

(* Whatever is taken from a pool that is not empty keeps the types. *)
LEMMA TakeTypes ==
    ASSUME TypeOK, NEW c \in Caller, NEW p \in Seq(Offset), p # <<>>,
           NEW n \in 0..(maxAttempts - 1), Take(c, p, n)
    PROVE  /\ availablePortOffsets' \in Seq(Offset)
           /\ (pc \in [Caller -> {"idle", "bind", "listening", "answer"}])'
           /\ (nextOffset \in [Caller -> Offset \cup {NoOffset}])'
           /\ (\A d \in Caller : pc[d] = "idle" <=> nextOffset[d] = NoOffset)'
           /\ (second \in [Caller -> BOOLEAN])'
           /\ (attempts \in [Caller -> 0..(maxAttempts - 1)])'
           /\ (tried \in [Caller -> SUBSET Offset])'
<1>1. Head(p) \in Offset /\ Tail(p) \in Seq(Offset) /\ Head(p) # NoOffset
  BY TakeHead, Offsets
<1> QED
  BY <1>1 DEF Take, TypeOK

LEMMA SettleTypes ==
    ASSUME TypeOK, NEW c \in Caller, NEW p \in Seq(Offset), Settle(c, p)
    PROVE  /\ availablePortOffsets' \in Seq(Offset)
           /\ (pc \in [Caller -> {"idle", "bind", "listening", "answer"}])'
           /\ (nextOffset \in [Caller -> Offset \cup {NoOffset}])'
           /\ (\A d \in Caller : pc[d] = "idle" <=> nextOffset[d] = NoOffset)'
           /\ (second \in [Caller -> BOOLEAN])'
           /\ (attempts \in [Caller -> 0..(maxAttempts - 1)])'
           /\ (tried \in [Caller -> SUBSET Offset])'
<1>1. 0 \in 0..(maxAttempts - 1)
  BY PoolAssumption
<1> QED
  BY <1>1 DEF Settle, TypeOK

LEMMA TypeInit == Init => TypeOK
<1> SUFFICES ASSUME Init PROVE TypeOK
  OBVIOUS
<1>1. availablePortOffsets \in Seq(Offset)
  BY Shuffled DEF Init
<1>2. 0 \in 0..(maxAttempts - 1)
  BY PoolAssumption
<1> QED
  BY <1>1, <1>2 DEF Init, TypeOK

LEMMA TypeStep == TypeOK /\ [Next]_vars => TypeOK'
<1> SUFFICES ASSUME TypeOK, [Next]_vars PROVE TypeOK'
  OBVIOUS
<1>1. CASE UNCHANGED vars
  BY <1>1 DEF TypeOK, vars, callVars
<1>2. ASSUME NEW c \in Caller, ChoosePorts(c) PROVE TypeOK'
  <2>1. 0 \in 0..(maxAttempts - 1)
    BY PoolAssumption
  <2>2. ToSet(Tail(availablePortOffsets)) \subseteq Offset
    BY <1>2, TakeHead, ElementsOfSeq DEF ChoosePorts, TypeOK
  <2> QED
    BY <1>2, <2>1, <2>2, TakeTypes DEF ChoosePorts, TypeOK
<1>3. ASSUME NEW c \in Caller, Bind(c) PROVE TypeOK'
  BY <1>3 DEF Bind, TypeOK
<1>4. ASSUME NEW c \in Caller, Close(c) PROVE TypeOK'
  BY <1>4 DEF Close, TypeOK
<1>5. ASSUME NEW c \in Caller, ProbeSecond(c) PROVE TypeOK'
  BY <1>5 DEF ProbeSecond, TypeOK
<1>6. ASSUME NEW c \in Caller, ReturnPair(c) PROVE TypeOK'
  <2>1. nextOffset[c] \in Offset
    BY <1>6 DEF ReturnPair, TypeOK
  <2> QED
    BY <1>6, <2>1, SettleTypes DEF ReturnPair, TypeOK
<1>7. ASSUME NEW c \in Caller, TryAnother(c) PROVE TypeOK'
  <2> DEFINE pool == Returned(availablePortOffsets, nextOffset[c])
  <2>1. nextOffset[c] \in Offset
    BY <1>7 DEF TryAnother, TypeOK
  <2>2. pool \in Seq(Offset) /\ pool # <<>>
    BY <2>1, PutLast DEF Returned, TypeOK
  <2>3. attempts[c] + 1 \in 0..(maxAttempts - 1)
    BY <1>7, PoolAssumption DEF TryAnother, TypeOK
  <2>4. Take(c, pool, attempts[c] + 1) /\ Touch(Head(pool)) /\ UNCHANGED <<available, held>>
    BY <1>7 DEF TryAnother
  <2> HIDE DEF pool
  <2> QED
    BY <2>2, <2>3, <2>4, TakeTypes DEF Touch, TypeOK
<1>8. ASSUME NEW c \in Caller, GiveUp(c) PROVE TypeOK'
  <2>1. nextOffset[c] \in Offset
    BY <1>8 DEF GiveUp, TypeOK
  <2>2. Returned(availablePortOffsets, nextOffset[c]) \in Seq(Offset)
    BY <2>1, PutLast DEF Returned, TypeOK
  <2> QED
    BY <1>8, <2>2, SettleTypes DEF GiveUp, TypeOK
<1>9. ASSUME NEW c \in Caller, ReleasePorts(c) PROVE TypeOK'
  <2>1. PICK o \in held[c] : /\ held' = [held EXCEPT ![c] = @ \ {o}]
                             /\ availablePortOffsets' = Returned(availablePortOffsets, o)
    BY <1>9 DEF ReleasePorts
  <2>2. availablePortOffsets' \in Seq(Offset)
    BY <2>1, PutLast DEF Returned, TypeOK
  <2> QED
    BY <1>9, <2>1, <2>2 DEF ReleasePorts, callVars, TypeOK
<1> QED
  BY <1>1, <1>2, <1>3, <1>4, <1>5, <1>6, <1>7, <1>8, <1>9 DEF Next, Probe, Continue

(* Type correctness of the pool and its calls, for every range of ports.   *)
THEOREM TypeCorrect == Spec => []TypeOK
BY TypeInit, TypeStep, PTL DEF Spec

-----------------------------------------------------------------------------
(* Where the offsets are.                                                  *)

InPool == ToSet(availablePortOffsets)
Somewhere(o) == \/ o \in InPool
                \/ \E c \in Caller : nextOffset[c] = o
                \/ \E c \in Caller : o \in held[c]

(* The strengthening of EachPairOnce: no two places have an offset in      *)
(* common, and every offset has one.                                       *)
PoolInv ==
    /\ Distinct(availablePortOffsets)
    /\ \A c \in Caller : nextOffset[c] \notin InPool
    /\ \A c \in Caller : held[c] \cap InPool = {}
    /\ \A c, d \in Caller : nextOffset[c] \notin held[d]
    /\ \A c, d \in Caller : nextOffset[c] = nextOffset[d] /\ nextOffset[c] # NoOffset => c = d
    /\ \A c, d \in Caller : c # d => held[c] \cap held[d] = {}
    /\ \A o \in Offset : Somewhere(o)

LEMMA PoolInit == Init => PoolInv
BY Shuffled, Offsets DEF Init, PoolInv, InPool, Somewhere

(* NoOffset is in no place, and a call that runs has an offset.            *)
LEMMA NoOffsetNowhere ==
    ASSUME TypeOK
    PROVE  /\ InPool \subseteq Offset /\ NoOffset \notin InPool
           /\ \A c \in Caller : held[c] \subseteq Offset /\ NoOffset \notin held[c]
           /\ \A c \in Caller : pc[c] # "idle" => nextOffset[c] \in Offset
<1>1. InPool \subseteq Offset
  BY ElementsOfSeq DEF InPool, TypeOK
<1> QED
  BY <1>1, Offsets DEF TypeOK

LEMMA PoolStep == TypeOK /\ TypeOK' /\ PoolInv /\ [Next]_vars => PoolInv'
<1> SUFFICES ASSUME TypeOK, TypeOK', PoolInv, [Next]_vars PROVE PoolInv'
  OBVIOUS
<1> USE NoOffsetNowhere, Offsets
<1>0. ASSUME UNCHANGED <<availablePortOffsets, nextOffset, held>>
      PROVE  PoolInv'
  BY <1>0 DEF PoolInv, InPool, Somewhere
<1>1. CASE UNCHANGED vars
  BY <1>0, <1>1 DEF vars, callVars
<1>2. ASSUME NEW c \in Caller, ChoosePorts(c) PROVE PoolInv'
  <2> DEFINE h == Head(availablePortOffsets)
  <2>1. /\ h \in Offset /\ h \in InPool /\ Distinct(availablePortOffsets')
        /\ InPool' = InPool \ {h}
    BY <1>2, TakeHead DEF ChoosePorts, Take, TypeOK, PoolInv, InPool
  <2>2. nextOffset' = [nextOffset EXCEPT ![c] = h] /\ held' = held /\ nextOffset[c] = NoOffset
    BY <1>2 DEF ChoosePorts, Take, TypeOK
  <2> HIDE DEF h
  <2>3. ASSUME NEW o \in Offset PROVE Somewhere(o)'
    <3>1. Somewhere(o) /\ nextOffset'[c] = h
      BY <2>2 DEF PoolInv, TypeOK
    <3>2. CASE o \in InPool
      BY <2>1, <3>1, <3>2 DEF Somewhere
    <3>3. ASSUME NEW d \in Caller, nextOffset[d] = o PROVE Somewhere(o)'
      BY <2>2, <3>3 DEF Somewhere, TypeOK
    <3>4. CASE \E d \in Caller : o \in held[d]
      BY <2>2, <3>4 DEF Somewhere
    <3> QED
      BY <3>1, <3>2, <3>3, <3>4 DEF Somewhere
  <2> QED
    BY <2>1, <2>2, <2>3 DEF PoolInv, TypeOK
<1>3. ASSUME NEW c \in Caller, Bind(c) \/ Close(c) \/ ProbeSecond(c) PROVE PoolInv'
  BY <1>0, <1>3 DEF Bind, Close, ProbeSecond
<1>6. ASSUME NEW c \in Caller, ReturnPair(c) PROVE PoolInv'
  <2>1. /\ nextOffset[c] \in Offset
        /\ availablePortOffsets' = availablePortOffsets /\ InPool' = InPool
        /\ nextOffset' = [nextOffset EXCEPT ![c] = NoOffset]
        /\ held' = [held EXCEPT ![c] = @ \cup {nextOffset[c]}]
    BY <1>6 DEF ReturnPair, Settle, InPool
  <2>2. ASSUME NEW o \in Offset PROVE Somewhere(o)'
    <3>1. Somewhere(o)
      BY DEF PoolInv
    <3>2. CASE o \in InPool
      BY <2>1, <3>2 DEF Somewhere
    <3>3. ASSUME NEW d \in Caller, nextOffset[d] = o, d # c PROVE Somewhere(o)'
      BY <2>1, <3>3 DEF Somewhere, TypeOK
    <3>4. CASE nextOffset[c] = o
      <4>1. o \in held'[c]
        BY <2>1, <3>4 DEF TypeOK
      <4> QED
        BY <4>1 DEF Somewhere
    <3>5. ASSUME NEW d \in Caller, o \in held[d] PROVE Somewhere(o)'
      <4>1. o \in held'[d]
        BY <2>1, <3>5 DEF TypeOK
      <4> QED
        BY <4>1 DEF Somewhere
    <3> QED
      BY <3>1, <3>2, <3>3, <3>4, <3>5 DEF Somewhere
  <2> QED
    BY <2>1, <2>2 DEF PoolInv, TypeOK
<1>7. ASSUME NEW c \in Caller, TryAnother(c) PROVE PoolInv'
  <2> DEFINE pool == Append(availablePortOffsets, nextOffset[c])
             h == Head(pool)
  <2>1. nextOffset[c] \in Offset /\ nextOffset[c] \notin InPool
    BY <1>7 DEF TryAnother, PoolInv
  <2>2. /\ pool \in Seq(Offset) /\ pool # <<>> /\ Distinct(pool)
        /\ ToSet(pool) = InPool \cup {nextOffset[c]}
    <3>1. availablePortOffsets \in Seq(Offset) /\ Distinct(availablePortOffsets)
      BY DEF TypeOK, PoolInv
    <3> QED
      BY <2>1, <3>1, PutLast DEF InPool
  <2>3. /\ availablePortOffsets' = Tail(pool) /\ held' = held
        /\ nextOffset' = [nextOffset EXCEPT ![c] = h]
    BY <1>7 DEF TryAnother, Take, Returned
  <2> HIDE DEF pool
  <2>4. /\ h \in Offset /\ h \in InPool \cup {nextOffset[c]}
        /\ Distinct(availablePortOffsets')
        /\ InPool' = (InPool \cup {nextOffset[c]}) \ {h}
    BY <2>2, <2>3, TakeHead DEF InPool
  <2> HIDE DEF h
  <2>5. ASSUME NEW o \in Offset PROVE Somewhere(o)'
    <3>1. Somewhere(o) /\ nextOffset'[c] = h
      BY <2>3 DEF PoolInv, TypeOK
    <3>2. CASE o \in InPool \/ o = nextOffset[c]
      BY <2>4, <3>1, <3>2 DEF Somewhere
    <3>3. ASSUME NEW d \in Caller, nextOffset[d] = o, d # c PROVE Somewhere(o)'
      BY <2>3, <3>3 DEF Somewhere, TypeOK
    <3>4. CASE \E d \in Caller : o \in held[d]
      BY <2>3, <3>4 DEF Somewhere
    <3> QED
      BY <3>1, <3>2, <3>3, <3>4 DEF Somewhere
  <2> QED
    BY <2>1, <2>3, <2>4, <2>5 DEF PoolInv, TypeOK
<1>8. ASSUME NEW c \in Caller, GiveUp(c) PROVE PoolInv'
  <2>1. /\ nextOffset[c] \in Offset /\ nextOffset[c] \notin InPool
        /\ availablePortOffsets' = Append(availablePortOffsets, nextOffset[c])
        /\ nextOffset' = [nextOffset EXCEPT ![c] = NoOffset] /\ held' = held
    BY <1>8 DEF GiveUp, Settle, Returned, PoolInv
  <2>2. Distinct(availablePortOffsets') /\ InPool' = InPool \cup {nextOffset[c]}
    BY <2>1, PutLast DEF TypeOK, PoolInv, InPool
  <2>3. ASSUME NEW o \in Offset PROVE Somewhere(o)'
    BY <2>1, <2>2 DEF PoolInv, Somewhere, TypeOK
  <2> QED
    BY <2>1, <2>2, <2>3 DEF PoolInv, TypeOK
<1>9. ASSUME NEW c \in Caller, ReleasePorts(c) PROVE PoolInv'
  <2>1. PICK o \in held[c] : /\ held' = [held EXCEPT ![c] = @ \ {o}]
                             /\ availablePortOffsets' = Append(availablePortOffsets, o)
    BY <1>9 DEF ReleasePorts, Returned
  <2>2. o \in Offset /\ o \notin InPool /\ nextOffset' = nextOffset
    BY <1>9 DEF ReleasePorts, callVars, PoolInv
  <2>3. Distinct(availablePortOffsets') /\ InPool' = InPool \cup {o}
    BY <2>1, <2>2, PutLast DEF TypeOK, PoolInv, InPool
  <2>4. ASSUME NEW q \in Offset PROVE Somewhere(q)'
    BY <2>1, <2>2, <2>3 DEF PoolInv, Somewhere, TypeOK
  <2> QED
    BY <2>1, <2>2, <2>3, <2>4 DEF PoolInv, TypeOK
<1> QED
  BY <1>1, <1>2, <1>3, <1>6, <1>7, <1>8, <1>9 DEF Next, Probe, Continue

LEMMA PoolCorrect == Spec => [](TypeOK /\ PoolInv)
<1>1. Init => TypeOK /\ PoolInv
  BY TypeInit, PoolInit
<1>2. (TypeOK /\ PoolInv) /\ [Next]_vars => (TypeOK /\ PoolInv)'
  BY TypeStep, PoolStep
<1> QED
  BY <1>1, <1>2, PTL DEF Spec

LEMMA PlaceIsUnique == TypeOK /\ PoolInv => EachPairOnce
<1> SUFFICES ASSUME TypeOK, PoolInv, NEW o \in Offset
             PROVE  \E place \in Places(o) : Places(o) = {place}
  BY DEF EachPairOnce
<1>1. CASE o \in InPool
  <2>1. PICK i \in DOMAIN availablePortOffsets : availablePortOffsets[i] = o
    BY <1>1 DEF InPool, ToSet
  <2>2. \A j \in DOMAIN availablePortOffsets : availablePortOffsets[j] = o => j = i
    BY <2>1 DEF PoolInv, Distinct
  <2>3. \A c \in Caller : nextOffset[c] # o /\ o \notin held[c]
    BY <1>1 DEF PoolInv
  <2>4. Places(o) = {<<"pool", i>>}
    BY <2>1, <2>2, <2>3 DEF Places
  <2> QED
    BY <2>4
<1>2. ASSUME NEW c \in Caller, nextOffset[c] = o
      PROVE  \E place \in Places(o) : Places(o) = {place}
  <2>1. \A j \in DOMAIN availablePortOffsets : availablePortOffsets[j] # o
    BY <1>2 DEF PoolInv, InPool, ToSet
  <2>2. \A d \in Caller : (nextOffset[d] = o => d = c) /\ o \notin held[d]
    BY <1>2, Offsets DEF PoolInv
  <2>3. Places(o) = {<<"probed", c>>}
    BY <1>2, <2>1, <2>2 DEF Places
  <2> QED
    BY <2>3
<1>3. ASSUME NEW c \in Caller, o \in held[c]
      PROVE  \E place \in Places(o) : Places(o) = {place}
  <2>1. \A j \in DOMAIN availablePortOffsets : availablePortOffsets[j] # o
    BY <1>3 DEF PoolInv, InPool, ToSet
  <2>2. \A d \in Caller : nextOffset[d] # o /\ (o \in held[d] => d = c)
    BY <1>3 DEF PoolInv
  <2>3. Places(o) = {<<"held", c>>}
    BY <1>3, <2>1, <2>2 DEF Places
  <2> QED
    BY <2>3
<1> QED
  BY <1>1, <1>2, <1>3 DEF PoolInv, Somewhere

(* No pair of ports is ever lost or in two places, for any number of       *)
(* concurrent calls.                                                       *)
THEOREM NoPairLostOrDoubled == Spec => []EachPairOnce
BY PoolCorrect, PlaceIsUnique, PTL

(* Different offsets stand for different ports. *)
LEMMA PortsDiffer ==
    ASSUME NEW o \in Offset, NEW q \in Offset, o # q,
           NEW b \in {0, 1}
    PROVE  FirstPort(o) + b \notin PairPorts(q)
<1>1. o \in Nat /\ q \in Nat /\ minPort \in Nat
  BY Offsets, PoolAssumption
<1> QED
  BY <1>1, SMT DEF FirstPort, PairPorts

LEMMA ProbesDisjoint == TypeOK /\ PoolInv => ProbesMeetOnlyOthers
<1> SUFFICES ASSUME TypeOK, PoolInv, NEW c \in Calls
             PROVE  /\ \A d \in Caller, o \in Offset :
                         o \in held[d] => ProbedPort(c) \notin PairPorts(o)
                    /\ \A d \in Calls \ {c} : ProbedPort(c) # ProbedPort(d)
  BY DEF ProbesMeetOnlyOthers
<1> DEFINE Bit(d) == IF second[d] THEN 1 ELSE 0
<1>1. \A d \in Calls : d \in Caller /\ nextOffset[d] \in Offset
  BY NoOffsetNowhere DEF Calls
<1>2. \A d \in Calls : Bit(d) \in {0, 1} /\ ProbedPort(d) = FirstPort(nextOffset[d]) + Bit(d)
  BY DEF ProbedPort
<1> HIDE DEF Bit
<1>3. ASSUME NEW d \in Caller, NEW o \in Offset, o \in held[d]
      PROVE  ProbedPort(c) \notin PairPorts(o)
  <2>1. nextOffset[c] # o
    BY <1>1, <1>3 DEF PoolInv
  <2> QED
    BY <1>1, <1>2, <2>1, PortsDiffer
<1>4. ASSUME NEW d \in Calls \ {c}
      PROVE  ProbedPort(c) # ProbedPort(d)
  <2>1. nextOffset[c] # nextOffset[d]
    BY <1>1, Offsets DEF PoolInv
  <2>2. ProbedPort(c) \notin PairPorts(nextOffset[d])
    BY <1>1, <1>2, <2>1, PortsDiffer
  <2>3. ProbedPort(d) \in PairPorts(nextOffset[d])
    <3>1. nextOffset[d] \in Nat /\ minPort \in Nat
      BY <1>1, Offsets, PoolAssumption
    <3> QED
      BY <1>2, <3>1 DEF PairPorts, FirstPort
  <2> QED
    BY <2>2, <2>3
<1> QED
  BY <1>3, <1>4

(* A probe never meets a pair that is in use, nor another probe.           *)
THEOREM ProbesMeetNoneOfOurs == Spec => []ProbesMeetOnlyOthers
BY PoolCorrect, ProbesDisjoint, PTL

-----------------------------------------------------------------------------
(* The pool is a queue.                                                    *)

(* Elements of U come before all others in s. *)
First(s, U) == \A i, j \in DOMAIN s : i < j /\ s[j] \in U => s[i] \in U

LEMMA FirstOfTail ==
    ASSUME NEW S, NEW s \in Seq(S), s # <<>>, Distinct(s), NEW U, First(s, U)
    PROVE  First(Tail(s), U \ {Head(s)})
<1>1. /\ Len(s) \in Nat \ {0} /\ DOMAIN s = 1..Len(s) /\ Head(s) = s[1]
      /\ DOMAIN Tail(s) = 1..(Len(s) - 1)
      /\ \A i \in 1..(Len(s) - 1) : Tail(s)[i] = s[i + 1]
  <2>1. Len(s) \in Nat \ {0} /\ DOMAIN s = 1..Len(s)
    BY EmptySeq, LenProperties
  <2>2. Tail(s) \in Seq(S) /\ Len(Tail(s)) = Len(s) - 1
    BY HeadTailProperties
  <2>3. DOMAIN Tail(s) = 1..(Len(s) - 1)
    BY <2>2, LenProperties
  <2>4. Head(s) = s[1] /\ \A i \in 1..(Len(s) - 1) : Tail(s)[i] = s[i + 1]
    BY <2>1, SMT
  <2> QED
    BY <2>1, <2>3, <2>4
<1>2. ASSUME NEW i \in 1..(Len(s) - 1), NEW j \in 1..(Len(s) - 1), i < j,
             s[j + 1] \in U
      PROVE  s[i + 1] \in U /\ s[i + 1] # s[1]
  <2>1. i + 1 \in DOMAIN s /\ j + 1 \in DOMAIN s /\ 1 \in DOMAIN s /\ i + 1 < j + 1 /\ i + 1 # 1
    BY <1>1, <1>2
  <2> QED
    BY <1>2, <2>1 DEF First, Distinct
<1> QED
  BY <1>1, <1>2 DEF First

LEMMA FirstOfAppend ==
    ASSUME NEW S, NEW s \in Seq(S), NEW e \in S, e \notin ToSet(s),
           NEW U, U \subseteq ToSet(s), First(s, U)
    PROVE  First(Append(s, e), U)
<1>1. /\ Len(s) \in Nat /\ DOMAIN s = 1..Len(s)
      /\ DOMAIN Append(s, e) = 1..(Len(s) + 1)
      /\ \A i \in 1..Len(s) : Append(s, e)[i] = s[i]
      /\ Append(s, e)[Len(s) + 1] = e
  BY AppendProperties, LenProperties
<1>2. e \notin U
  OBVIOUS
<1>3. ASSUME NEW i \in 1..(Len(s) + 1), NEW j \in 1..(Len(s) + 1), i < j,
             Append(s, e)[j] \in U
      PROVE  Append(s, e)[i] \in U
  <2>1. j # Len(s) + 1
    BY <1>1, <1>2, <1>3
  <2>2. i \in 1..Len(s) /\ j \in 1..Len(s)
    BY <1>1, <1>3, <2>1
  <2> QED
    BY <1>1, <1>3, <2>2 DEF First
<1> QED
  BY <1>1, <1>3 DEF First

LEMMA HeadIsFirst ==
    ASSUME NEW S, NEW s \in Seq(S), NEW U, U # {}, U \subseteq ToSet(s), First(s, U)
    PROVE  s # <<>> /\ Head(s) \in U
<1>1. PICK j \in DOMAIN s : s[j] \in U
  BY DEF ToSet
<1>2. DOMAIN s = 1..Len(s) /\ Len(s) \in Nat
  BY LenProperties
<1>3. s # <<>> /\ 1 \in DOMAIN s /\ Head(s) = s[1]
  BY <1>1, <1>2
<1>4. CASE j = 1
  BY <1>1, <1>3, <1>4
<1>5. CASE j # 1
  BY <1>1, <1>2, <1>3, <1>5 DEF First
<1> QED
  BY <1>4, <1>5

(* The offsets that are untouched since a call began are the first ones of *)
(* the pool, the call has not had any of them, and as long as there are    *)
(* any its attempts were all different.                                    *)
FifoOf(c) ==
    /\ untouched[c] \subseteq InPool
    /\ untouched[c] \cap tried[c] = {}
    /\ First(availablePortOffsets, untouched[c])
    /\ untouched[c] # {} => Cardinality(tried[c]) = attempts[c] + 1
    /\ pc[c] = "idle" => tried[c] = {}
FifoInv == \A c \in Caller : FifoOf(c)

LEMMA FifoInit == Init => FifoInv
BY DEF Init, FifoInv, FifoOf, First

(* A pool that loses its head keeps what others know of it. *)
LEMMA FifoTake ==
    ASSUME NEW s \in Seq(Offset), s # <<>>, Distinct(s),
           NEW U, U \subseteq ToSet(s), First(s, U)
    PROVE  /\ U \ {Head(s)} \subseteq ToSet(Tail(s))
           /\ First(Tail(s), U \ {Head(s)})
BY TakeHead, FirstOfTail

LEMMA OneMore ==
    ASSUME NEW T \in SUBSET Offset, NEW o \in Offset, o \notin T
    PROVE  Cardinality(T \cup {o}) = Cardinality(T) + 1
<1>1. IsFiniteSet(T)
  BY Offsets, FS_Subset
<1> QED
  BY <1>1, FS_AddElement

LEMMA FifoStep == TypeOK /\ TypeOK' /\ PoolInv /\ FifoInv /\ [Next]_vars => FifoInv'
<1> SUFFICES ASSUME TypeOK, TypeOK', PoolInv, FifoInv, [Next]_vars,
                    NEW d \in Caller
             PROVE  FifoOf(d)'
  BY DEF FifoInv
<1> DEFINE av == availablePortOffsets
<1>a. av \in Seq(Offset) /\ Distinct(av) /\ InPool \subseteq Offset
  BY NoOffsetNowhere DEF TypeOK, PoolInv
<1>b. /\ untouched[d] \subseteq ToSet(av) /\ untouched[d] \cap tried[d] = {}
      /\ First(av, untouched[d]) /\ tried[d] \in SUBSET Offset
      /\ untouched[d] # {} => Cardinality(tried[d]) = attempts[d] + 1
      /\ pc[d] = "idle" => tried[d] = {}
  BY DEF FifoInv, FifoOf, InPool, TypeOK
<1>0. ASSUME UNCHANGED <<availablePortOffsets, attempts, tried, untouched>>,
             pc'[d] = "idle" => pc[d] = "idle"
      PROVE  FifoOf(d)'
  BY <1>0, <1>b DEF FifoOf, InPool
<1>1. CASE UNCHANGED vars
  BY <1>0, <1>1 DEF vars, callVars
<1>2. ASSUME NEW c \in Caller, ChoosePorts(c) PROVE FifoOf(d)'
  <2> DEFINE h == Head(av)
  <2>1. /\ av # <<>> /\ pc[c] = "idle" /\ h \in Offset
        /\ av' = Tail(av) /\ pc' = [pc EXCEPT ![c] = "bind"]
        /\ attempts' = [attempts EXCEPT ![c] = 0]
        /\ tried' = [tried EXCEPT ![c] = @ \cup {h}]
        /\ untouched' = [e \in Caller |->
                (IF e = c THEN ToSet(Tail(av)) ELSE untouched[e]) \ {h}]
    BY <1>2, <1>a, TakeHead DEF ChoosePorts, Take
  <2>2. CASE d = c
    <3>1. tried'[d] = {h} /\ attempts'[d] = 0 /\ pc'[d] = "bind"
      BY <1>b, <2>1, <2>2 DEF TypeOK
    <3>2. untouched'[d] = ToSet(av) \ {h}
      BY <1>a, <2>1, <2>2, TakeHead
    <3>3. First(av, ToSet(av))
      BY DEF First, ToSet
    <3>4. untouched'[d] \subseteq ToSet(av') /\ First(av', untouched'[d])
      BY <1>a, <2>1, <3>2, <3>3, FifoTake
    <3>5. Cardinality({h}) = 1
      BY FS_Singleton
    <3> QED
      BY <3>1, <3>2, <3>4, <3>5 DEF FifoOf, InPool
  <2>3. CASE d # c
    <3>1. untouched'[d] = untouched[d] \ {h}
      BY <2>1, <2>3
    <3>2. tried'[d] = tried[d] /\ attempts'[d] = attempts[d] /\ pc'[d] = pc[d]
      BY <2>1, <2>3 DEF TypeOK
    <3>3. untouched'[d] \subseteq ToSet(av') /\ First(av', untouched'[d])
      BY <1>a, <1>b, <2>1, <3>1, FifoTake
    <3> QED
      BY <1>b, <3>1, <3>2, <3>3 DEF FifoOf, InPool
  <2> QED
    BY <2>2, <2>3
<1>3. ASSUME NEW c \in Caller, Bind(c) \/ Close(c) \/ ProbeSecond(c) PROVE FifoOf(d)'
  <2>1. UNCHANGED <<availablePortOffsets, attempts, tried, untouched>>
    BY <1>3 DEF Bind, Close, ProbeSecond
  <2>2. pc'[d] = "idle" => pc[d] = "idle"
    BY <1>3 DEF Bind, Close, ProbeSecond, TypeOK
  <2> QED
    BY <1>0, <2>1, <2>2
<1>4. ASSUME NEW c \in Caller, NEW p, Settle(c, p), untouched' = [untouched EXCEPT ![c] = {}],
             First(p, untouched[d]), ToSet(av) \subseteq ToSet(p)
      PROVE  FifoOf(d)'
  <2>1. CASE d = c
    <3>1. untouched'[d] = {} /\ tried'[d] = {}
      BY <1>4, <2>1 DEF Settle, TypeOK
    <3> QED
      BY <3>1 DEF FifoOf, First
  <2>2. CASE d # c
    <3>1. /\ untouched'[d] = untouched[d] /\ tried'[d] = tried[d]
          /\ attempts'[d] = attempts[d] /\ pc'[d] = pc[d] /\ av' = p
      BY <1>4, <2>2 DEF Settle, TypeOK
    <3>2. untouched'[d] \subseteq ToSet(av')
      BY <1>4, <1>b, <3>1
    <3> QED
      BY <1>4, <1>b, <3>1, <3>2 DEF FifoOf, InPool
  <2> QED
    BY <2>1, <2>2
<1>6. ASSUME NEW c \in Caller, ReturnPair(c) PROVE FifoOf(d)'
  BY <1>4, <1>6, <1>b DEF ReturnPair
<1>7. ASSUME NEW c \in Caller, TryAnother(c) PROVE FifoOf(d)'
  <2> DEFINE pool == Append(av, nextOffset[c])
             h == Head(pool)
  <2>1. nextOffset[c] \in Offset /\ nextOffset[c] \notin ToSet(av)
    BY <1>7, NoOffsetNowhere DEF TryAnother, PoolInv, InPool
  <2>2. /\ pool \in Seq(Offset) /\ pool # <<>> /\ Distinct(pool)
        /\ ToSet(pool) = ToSet(av) \cup {nextOffset[c]}
    BY <1>a, <2>1, PutLast
  <2>3. First(pool, untouched[d]) /\ untouched[d] \subseteq ToSet(pool)
    BY <1>a, <1>b, <2>1, <2>2, FirstOfAppend
  <2>4. /\ av' = Tail(pool) /\ pc' = [pc EXCEPT ![c] = "bind"]
        /\ attempts' = [attempts EXCEPT ![c] = attempts[c] + 1]
        /\ tried' = [tried EXCEPT ![c] = @ \cup {h}]
        /\ untouched' = [e \in Caller |-> untouched[e] \ {h}]
    BY <1>7 DEF TryAnother, Take, Touch, Returned
  <2>5. h \in Offset
    BY <2>2, TakeHead
  <2>6. untouched[d] # {} => h \in untouched[d]
    BY <2>2, <2>3, HeadIsFirst
  <2> HIDE DEF pool
  <2>7. untouched'[d] \subseteq ToSet(av') /\ First(av', untouched'[d])
    BY <2>2, <2>3, <2>4, FifoTake
  <2>8. untouched'[d] = untouched[d] \ {h}
    BY <2>4
  <2> HIDE DEF h
  <2>9. CASE d = c
    <3>1. tried'[d] = tried[d] \cup {h} /\ attempts'[d] = attempts[d] + 1 /\ pc'[d] = "bind"
      BY <2>4, <2>9 DEF TypeOK
    <3>2. untouched'[d] # {} => Cardinality(tried'[d]) = attempts'[d] + 1
      <4>1. ASSUME untouched'[d] # {}
            PROVE  h \notin tried[d] /\ Cardinality(tried[d]) = attempts[d] + 1
        BY <1>b, <2>6, <2>8, <4>1
      <4>2. ASSUME untouched'[d] # {}
            PROVE  Cardinality(tried'[d]) = (attempts[d] + 1) + 1
        BY <1>b, <2>5, <3>1, <4>1, <4>2, OneMore
      <4> QED
        BY <3>1, <4>2
    <3>3. untouched'[d] \cap tried'[d] = {}
      BY <1>b, <2>8, <3>1
    <3> QED
      BY <2>7, <3>1, <3>2, <3>3 DEF FifoOf, InPool
  <2>10. CASE d # c
    <3>1. tried'[d] = tried[d] /\ attempts'[d] = attempts[d] /\ pc'[d] = pc[d]
      BY <2>4, <2>10 DEF TypeOK
    <3> QED
      BY <1>b, <2>7, <2>8, <3>1 DEF FifoOf, InPool
  <2> QED
    BY <2>9, <2>10
<1>8. ASSUME NEW c \in Caller, GiveUp(c) PROVE FifoOf(d)'
  <2> DEFINE pool == Append(av, nextOffset[c])
  <2>1. nextOffset[c] \in Offset /\ nextOffset[c] \notin ToSet(av)
    BY <1>8, NoOffsetNowhere DEF GiveUp, PoolInv, InPool
  <2>2. First(pool, untouched[d]) /\ ToSet(av) \subseteq ToSet(pool)
    BY <1>a, <1>b, <2>1, FirstOfAppend, PutLast
  <2>3. Settle(c, pool) /\ untouched' = [untouched EXCEPT ![c] = {}]
    BY <1>8 DEF GiveUp, Returned
  <2> QED
    BY <1>4, <2>2, <2>3
<1>9. ASSUME NEW c \in Caller, ReleasePorts(c) PROVE FifoOf(d)'
  <2>1. PICK o \in held[c] : av' = Append(av, o)
    BY <1>9 DEF ReleasePorts, Returned
  <2>2. o \in Offset /\ o \notin ToSet(av)
    BY <2>1 DEF TypeOK, PoolInv, InPool
  <2>3. First(av', untouched[d]) /\ ToSet(av) \subseteq ToSet(av')
    BY <1>a, <1>b, <2>1, <2>2, FirstOfAppend, PutLast
  <2>4. UNCHANGED <<pc, attempts, tried, untouched>>
    BY <1>9 DEF ReleasePorts, callVars
  <2> QED
    BY <1>b, <2>3, <2>4 DEF FifoOf, InPool
<1> QED
  BY <1>1, <1>2, <1>3, <1>6, <1>7, <1>8, <1>9 DEF Next, Probe, Continue

(* A call takes a pair again only when all that were free when it began    *)
(* have been taken, however many calls there are at a time.                *)
THEOREM NoEarlyRepeat == Spec => []NoRepeatBeforeAll
<1>1. Init => TypeOK /\ PoolInv /\ FifoInv
  BY TypeInit, PoolInit, FifoInit
<1>2. (TypeOK /\ PoolInv /\ FifoInv) /\ [Next]_vars => (TypeOK /\ PoolInv /\ FifoInv)'
  BY TypeStep, PoolStep, FifoStep
<1>3. TypeOK /\ PoolInv /\ FifoInv => NoRepeatBeforeAll
  <2> SUFFICES ASSUME TypeOK, FifoInv, NEW c \in Calls,
                      Cardinality(tried[c]) <= attempts[c], untouched[c] # {}
               PROVE  FALSE
    BY DEF NoRepeatBeforeAll
  <2>1. c \in Caller /\ Cardinality(tried[c]) = attempts[c] + 1
    BY DEF Calls, FifoInv, FifoOf
  <2>2. attempts[c] \in Int
    BY <2>1, PoolAssumption DEF TypeOK
  <2> QED
    BY <2>1, <2>2
<1> QED
  BY <1>1, <1>2, <1>3, PTL DEF Spec

-----------------------------------------------------------------------------
(* The pool is an allocator.                                               *)

LEMMA AllocatorStep ==
    TypeOK /\ PoolInv /\ [Next]_vars => [Abstract!Next]_<<Calls, held>>
<1> SUFFICES ASSUME TypeOK, PoolInv, [Next]_vars
             PROVE  Abstract!Next \/ UNCHANGED <<Calls, held>>
  OBVIOUS
<1>1. CASE UNCHANGED vars
  BY <1>1 DEF vars, callVars, Calls
<1>2. ASSUME NEW c \in Caller, ChoosePorts(c) PROVE Abstract!Ask(c)
  <2>1. pc[c] = "idle" /\ pc' = [pc EXCEPT ![c] = "bind"] /\ held' = held
    BY <1>2 DEF ChoosePorts, Take
  <2> QED
    BY <2>1 DEF Abstract!Ask, Calls, TypeOK
<1>3. ASSUME NEW c \in Caller, Bind(c) \/ Close(c) \/ ProbeSecond(c) \/ TryAnother(c)
      PROVE  UNCHANGED <<Calls, held>>
  <2>1. /\ pc[c] # "idle" /\ held' = held
        /\ \E there \in {"bind", "listening", "answer"} : pc' = [pc EXCEPT ![c] = there]
    BY <1>3 DEF Bind, Close, ProbeSecond, TryAnother, Take
  <2> QED
    BY <2>1 DEF Calls, TypeOK
<1>4. ASSUME NEW c \in Caller, ReturnPair(c) PROVE Abstract!Grant(c)
  <2>1. /\ pc[c] # "idle" /\ pc' = [pc EXCEPT ![c] = "idle"]
        /\ held' = [held EXCEPT ![c] = @ \cup {nextOffset[c]}]
    BY <1>4 DEF ReturnPair, Settle
  <2>2. nextOffset[c] \in Offset \ UNION {held[d] : d \in Caller}
    BY <2>1, NoOffsetNowhere DEF PoolInv
  <2>3. c \in Calls /\ Calls' = Calls \ {c}
    BY <2>1 DEF Calls, TypeOK
  <2> QED
    BY <2>1, <2>2, <2>3 DEF Abstract!Grant
<1>5. ASSUME NEW c \in Caller, GiveUp(c) PROVE Abstract!Refuse(c)
  <2>1. pc[c] # "idle" /\ pc' = [pc EXCEPT ![c] = "idle"] /\ held' = held
    BY <1>5 DEF GiveUp, Settle
  <2> QED
    BY <2>1 DEF Abstract!Refuse, Calls, TypeOK
<1>6. ASSUME NEW c \in Caller, ReleasePorts(c) PROVE Abstract!Release(c)
  BY <1>6 DEF ReleasePorts, callVars, Calls, Abstract!Release
<1> QED
  BY <1>1, <1>2, <1>3, <1>4, <1>5, <1>6
     DEF Next, Probe, Continue, Abstract!Next, Abstract!Answer

(* Every behaviour of the pool is one of PairAllocator: a pair that is     *)
(* given to a caller belongs to nobody else.                               *)
THEOREM PoolIsAllocator == Spec => Abstract!Safety
<1>1. Init => Abstract!Init
  BY DEF Init, Abstract!Init, Calls
<1> QED
  BY <1>1, AllocatorStep, PoolCorrect, PTL DEF Spec, Abstract!Safety
=============================================================================
