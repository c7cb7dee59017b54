------------------------- MODULE ChannelPoolProofs -------------------------
(***************************************************************************)
(* For any clients, objects and capacity, an object of the channel pool    *)
(* has one holder (sync/pool/channel.go).                                  *)
(***************************************************************************)
EXTENDS ChannelPool, SequenceTheorems, TLAPS

\* A receive takes the first object out of the buffer, and only that one.
LEMMA TailRange ==
  ASSUME NEW S, NEW s \in Seq(S), s # <<>>, IsInjective(s)
  PROVE  /\ Tail(s) \in Seq(S) /\ Len(Tail(s)) = Len(s) - 1 /\ Head(s) \in S
         /\ IsInjective(Tail(s))
         /\ Head(s) \in Range(s)
         /\ Range(Tail(s)) = Range(s) \ {Head(s)}
<1>1. /\ Tail(s) \in Seq(S) /\ Len(Tail(s)) = Len(s) - 1 /\ Head(s) \in S
      /\ \A i \in 1 .. Len(Tail(s)) : Tail(s)[i] = s[i + 1]
  BY HeadTailProperties
<1>2. Len(s) \in Nat \ {0} /\ DOMAIN s = 1 .. Len(s) /\ Head(s) = s[1]
  OBVIOUS
<1>3. DOMAIN Tail(s) = 1 .. Len(s) - 1
  BY <1>1
<1>4. IsInjective(Tail(s))
  BY <1>1, <1>2, <1>3 DEF IsInjective
<1>5. Head(s) \in Range(s)
  BY <1>2 DEF Range
<1>6. ASSUME NEW x \in Range(Tail(s)) PROVE x \in Range(s) \ {Head(s)}
  <2>1. PICK i \in 1 .. Len(s) - 1 : x = Tail(s)[i]
    BY <1>3, <1>6 DEF Range
  <2>2. x = s[i + 1] /\ i + 1 \in DOMAIN s /\ 1 \in DOMAIN s /\ i + 1 # 1
    BY <1>1, <1>2, <2>1
  <2> QED  BY <1>2, <2>2 DEF Range, IsInjective
<1>7. ASSUME NEW x \in Range(s) \ {Head(s)} PROVE x \in Range(Tail(s))
  <2>1. PICK i \in 1 .. Len(s) : x = s[i]
    BY <1>2, <1>7 DEF Range
  <2>2. i # 1
    BY <1>2, <1>7, <2>1
  <2>3. i - 1 \in 1 .. Len(s) - 1 /\ Tail(s)[i - 1] = x
    BY <1>1, <1>2, <2>1, <2>2
  <2> QED  BY <1>3, <2>3 DEF Range
<1> QED  BY <1>1, <1>4, <1>5, <1>6, <1>7

\* A send adds an object that was not in the buffer.
LEMMA AppendRange ==
  ASSUME NEW S, NEW s \in Seq(S), NEW x \in S, x \notin Range(s), IsInjective(s)
  PROVE  /\ Append(s, x) \in Seq(S) /\ Len(Append(s, x)) = Len(s) + 1
         /\ IsInjective(Append(s, x))
         /\ Range(Append(s, x)) = Range(s) \cup {x}
<1>1. /\ Append(s, x) \in Seq(S) /\ Len(Append(s, x)) = Len(s) + 1
      /\ \A i \in 1 .. Len(s) : Append(s, x)[i] = s[i]
      /\ Append(s, x)[Len(s) + 1] = x
  BY AppendProperties
<1>2. Len(s) \in Nat /\ DOMAIN s = 1 .. Len(s) /\ DOMAIN Append(s, x) = 1 .. Len(s) + 1
  BY <1>1
<1>3. \A i \in 1 .. Len(s) : s[i] # x
  BY <1>2 DEF Range
<1>4. IsInjective(Append(s, x))
  BY <1>1, <1>2, <1>3 DEF IsInjective
<1>5. Range(Append(s, x)) = Range(s) \cup {x}
  BY <1>1, <1>2 DEF Range
<1> QED  BY <1>1, <1>4, <1>5

-----------------------------------------------------------------------------

\* The inductive invariant: OneHolder needs only the types of the state.
PoolInv == PoolTypeOK /\ OneHolder

LEMMA PoolInvInit == PoolInit => PoolInv
<1> SUFFICES ASSUME PoolInit PROVE PoolInv
  OBVIOUS
<1>1. ch = <<>> /\ Range(ch) = {} /\ IsInjective(ch)
  BY DEF PoolInit, Range, IsInjective
<1>2. PoolTypeOK
  <2>1. ch \in Seq(Objects) /\ Len(ch) <= PoolLen
    BY PoolAssumption, <1>1
  <2>2. /\ pc \in [Clients -> {"idle", "get"}]
        /\ using \in [Clients -> Objects \cup {NoObject}]
        /\ outcome \in [Clients -> Outcomes]
    BY DEF PoolInit, Outcomes
  <2>3. objClosed \subseteq Objects /\ closing \in {"no", "taken", "drain", "done"}
    BY DEF PoolInit
  <2>4. poolNil \in BOOLEAN /\ chClosed \in BOOLEAN
    BY DEF PoolInit
  <2> QED  BY <2>1, <2>2, <2>3, <2>4 DEF PoolTypeOK
<1> QED  BY <1>1, <1>2 DEF PoolInit, PoolInv, OneHolder

LEMMA PoolInvStep == PoolInv /\ [PoolNext]_poolVars => PoolInv'
<1> SUFFICES ASSUME PoolInv, [PoolNext]_poolVars PROVE PoolInv'
  OBVIOUS
<1> USE PoolAssumption DEF PoolInv
<1>1. ASSUME NEW t \in Clients, getPool(t) PROVE PoolInv'
  <2>1. PoolTypeOK'
    BY <1>1 DEF PoolTypeOK, getPool, Return, Outcomes
  <2> QED  BY <1>1, <2>1 DEF OneHolder, getPool
<1>2. ASSUME NEW t \in Clients, Get(t), ch # <<>> PROVE PoolInv'
  <2>1. ch' = Tail(ch) /\ using' = [using EXCEPT ![t] = Head(ch)] /\ objClosed' = objClosed
    BY <1>2 DEF Get, AfterReceive
  <2>2. /\ ch' \in Seq(Objects) /\ Len(ch') = Len(ch) - 1 /\ Head(ch) \in Objects
        /\ IsInjective(ch') /\ Head(ch) \in Range(ch) /\ Range(ch') = Range(ch) \ {Head(ch)}
    BY <1>2, <2>1, TailRange DEF PoolTypeOK, OneHolder
  <2>3. PoolTypeOK'
    BY <1>2, <2>1, <2>2 DEF PoolTypeOK, Get, Return, Outcomes
  <2>4. OneHolder'
    BY <2>1, <2>2 DEF PoolTypeOK, OneHolder
  <2> QED  BY <2>3, <2>4
<1>3. ASSUME NEW t \in Clients, Get(t), ch = <<>> PROVE PoolInv'
  <2>1. PoolTypeOK'
    BY <1>3 DEF PoolTypeOK, Get, Return, Outcomes, EmptyOutcome
  <2> QED  BY <1>3, <2>1 DEF OneHolder, Get
<1>4. ASSUME NEW t \in Clients, Put(t), Refused PROVE PoolInv'
  <2>1. /\ ch' = ch /\ using' = [using EXCEPT ![t] = NoObject]
        /\ objClosed' = objClosed \cup {using[t]} /\ using[t] # NoObject
    BY <1>4 DEF Put
  <2>2. PoolTypeOK'
    BY <1>4, <2>1 DEF PoolTypeOK, Put, Return, Outcomes
  <2>3. OneHolder'
    BY <2>1 DEF PoolTypeOK, OneHolder
  <2> QED  BY <2>2, <2>3
<1>5. ASSUME NEW t \in Clients, Put(t), ~Refused PROVE PoolInv'
  <2>1. /\ ch' = Append(ch, using[t]) /\ using' = [using EXCEPT ![t] = NoObject]
        /\ objClosed' = objClosed /\ using[t] # NoObject /\ Len(ch) # PoolLen
    BY <1>5 DEF Put, Refused
  <2>2. using[t] \in Objects /\ using[t] \notin Range(ch)
    BY <2>1 DEF PoolTypeOK, OneHolder
  <2>3. /\ ch' \in Seq(Objects) /\ Len(ch') = Len(ch) + 1
        /\ IsInjective(ch') /\ Range(ch') = Range(ch) \cup {using[t]}
    BY <2>1, <2>2, AppendRange DEF PoolTypeOK, OneHolder
  <2>4. PoolTypeOK'
    <3>1. Len(ch') <= PoolLen
      BY <2>1, <2>3 DEF PoolTypeOK
    <3> QED  BY <1>5, <2>1, <2>3, <3>1 DEF PoolTypeOK, Put, Return, Outcomes
  <2>5. OneHolder'
    BY <2>1, <2>2, <2>3 DEF PoolTypeOK, OneHolder
  <2> QED  BY <2>4, <2>5
<1>6. ASSUME NEW t \in Clients, NEW o \in Objects, Create(t, o) PROVE PoolInv'
  <2>1. /\ using' = [using EXCEPT ![t] = o] /\ ch' = ch /\ objClosed' = objClosed
        /\ o \notin objClosed /\ o \notin Range(ch) /\ o \notin Range(using)
    BY <1>6 DEF Create
  <2>2. \A u \in Clients : using[u] # o
    BY <2>1 DEF PoolTypeOK, Range
  <2>3. PoolTypeOK'
    BY <1>6 DEF PoolTypeOK, Create
  <2>4. OneHolder'
    BY <2>1, <2>2 DEF PoolTypeOK, OneHolder
  <2> QED  BY <2>3, <2>4
<1>7. ASSUME CloseTake \/ CloseChannel PROVE PoolInv'
  <2>1. PoolTypeOK'
    BY <1>7 DEF PoolTypeOK, CloseTake, CloseChannel
  <2> QED  BY <1>7, <2>1 DEF OneHolder, CloseTake, CloseChannel
<1>8. ASSUME CloseDrain, ch # <<>> PROVE PoolInv'
  <2>1. /\ ch' = Tail(ch) /\ objClosed' = objClosed \cup {Head(ch)} /\ using' = using
    BY <1>8 DEF CloseDrain
  <2>2. /\ ch' \in Seq(Objects) /\ Len(ch') = Len(ch) - 1 /\ Head(ch) \in Objects
        /\ IsInjective(ch') /\ Head(ch) \in Range(ch) /\ Range(ch') = Range(ch) \ {Head(ch)}
    BY <1>8, <2>1, TailRange DEF PoolTypeOK, OneHolder
  <2>3. PoolTypeOK'
    BY <1>8, <2>1, <2>2 DEF PoolTypeOK, CloseDrain
  <2>4. OneHolder'
    BY <2>1, <2>2 DEF PoolTypeOK, OneHolder
  <2> QED  BY <2>3, <2>4
<1>9. ASSUME CloseDrain, ch = <<>> PROVE PoolInv'
  <2>1. PoolTypeOK'
    BY <1>9 DEF PoolTypeOK, CloseDrain
  <2> QED  BY <1>9, <2>1 DEF OneHolder, CloseDrain
<1>10. ASSUME UNCHANGED poolVars PROVE PoolInv'
  BY <1>10 DEF poolVars, PoolTypeOK, OneHolder
<1> QED
  BY <1>1, <1>2, <1>3, <1>4, <1>5, <1>6, <1>7, <1>8, <1>9, <1>10 DEF PoolNext

\* No object of the pool is ever with two clients, with a client and in the
\* channel, or used after it was closed: Get, Put and Close of channelPool, for
\* any number of clients and objects and any capacity.
THEOREM PoolOneHolder == PoolSpec => []OneHolder
<1>1. PoolInv => OneHolder
  BY DEF PoolInv
<1> QED
  BY <1>1, PoolInvInit, PoolInvStep, PTL DEF PoolSpec
=============================================================================
