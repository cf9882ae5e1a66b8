------------------------- MODULE QueueSpinLockProofs -------------------------
(***************************************************************************)
(* For any set of threads, the pointers of the queue spinlock describe the *)
(* line (LockInv); it follows that the lock excludes, is granted in the    *)
(* order of asking, never reaches a destroyed guard, and is a FifoLock.    *)
(***************************************************************************)
EXTENDS QueueSpinLock, SequenceTheorems, TLAPS

\* What the positions of a sequence hold after Append.
LEMMA AppendAt ==
    ASSUME NEW S, NEW s \in Seq(S), NEW e \in S
    PROVE  /\ Append(s, e) \in Seq(S)
           /\ Len(Append(s, e)) = Len(s) + 1
           /\ Append(s, e) # <<>>
           /\ \A i \in 1..Len(s) : Append(s, e)[i] = s[i]
           /\ Append(s, e)[Len(s) + 1] = e
BY AppendProperties

\* What the positions of a sequence hold after Tail.
LEMMA TailAt ==
    ASSUME NEW S, NEW s \in Seq(S), s # <<>>
    PROVE  /\ Tail(s) \in Seq(S)
           /\ Len(Tail(s)) = Len(s) - 1
           /\ Len(s) \in Nat \ {0}
           /\ Head(s) = s[1]
           /\ Tail(s) = <<>> <=> Len(s) = 1
           /\ \A i \in 1..Len(s) - 1 : Tail(s)[i] = s[i + 1]
<1>1. Len(s) \in Nat \ {0} /\ Head(s) = s[1]
  BY EmptySeq, LenProperties
<1>2. /\ Tail(s) \in Seq(S)
      /\ Len(Tail(s)) = Len(s) - 1
      /\ \A i \in 1..Len(s) - 1 : Tail(s)[i] = s[i + 1]
  BY HeadTailProperties
<1>3. Tail(s) = <<>> <=> Len(s) = 1
  BY <1>1, <1>2, EmptySeq
<1> QED BY <1>1, <1>2, <1>3

\* A line of one guard has no second, a longer one has.
LEMMA SecondExists ==
    ASSUME NEW n \in Nat \ {0}, n # 1
    PROVE  2 \in 2..n /\ 2 \in 1..n /\ 1 \in 1..n /\ n \in 1..n
OBVIOUS

\* Only the first in the line holds the lock, and it is the owner.
LEMMA HolderIsFirst ==
    ASSUME LockInv, NEW g \in Guards,
           lpc[g] \in {"own", "held", "release", "cas", "recheck", "handoff"}
    PROVE  /\ line # <<>> /\ Len(line) \in Nat \ {0} /\ line[1] = g
           /\ lpc[g] # "own" => is_owner[g]
<1>1. PICK i \in 1..Len(line) : line[i] = g
  BY DEF LockInv, LineInv
<1>2. line \in Seq(Guards) /\ Len(line) \in Nat /\ line # <<>>
  BY <1>1, EmptySeq, LenProperties DEF LockInv, TypeOK
<1>3. i = 1
  BY <1>1, <1>2 DEF LockInv, LinkInv
<1> QED BY <1>1, <1>2, <1>3 DEF LockInv, LinkInv

\* A guard about to hand the lock over has a successor that spins.
LEMMA SuccessorSpins ==
    ASSUME LockInv, NEW g \in Guards, lpc[g] = "handoff"
    PROVE  /\ line \in Seq(Guards) /\ Len(line) \in Nat \ {0, 1} /\ line[1] = g
           /\ next[g] = line[2] /\ next[g] \in Guards /\ lpc[next[g]] = "spin"
<1>1. next[g] # NULL /\ line # <<>> /\ Len(line) \in Nat \ {0} /\ line[1] = g
  BY HolderIsFirst DEF LockInv, LinkInv
<1>2. line \in Seq(Guards) /\ Len(line) # 1
  BY <1>1 DEF LockInv, TypeOK, LinkInv
<1>3. 2 \in 2..Len(line) /\ \A i \in 1..Len(line) : line[i] \in Guards
  BY <1>1, <1>2, SecondExists, ElementOfSeq
<1>4. lpc[line[2]] = "spin" /\ next[g] = line[2]
  BY <1>1, <1>3 DEF LockInv, LinkInv
<1> QED BY <1>1, <1>2, <1>3, <1>4

\* The initial state satisfies the invariant.
LEMMA LockInvInit == Init => LockInv
<1> SUFFICES ASSUME Init PROVE LockInv
  OBVIOUS
<1> USE DEF Init
<1>1. TypeOK
  BY DEF TypeOK, PCs
<1>2. LineInv
  BY LockAssumption DEF LineInv
<1>3. LinkInv
  BY LockAssumption DEF LinkInv
<1> QED BY <1>1, <1>2, <1>3 DEF LockInv

\* Acquire: a guard joins the line at its end.
LEMMA LockInvExchange ==
    ASSUME LockInv, NEW g \in Guards, Exchange(g, g)
    PROVE  LockInv'
<1> USE DEF LockInv
<1>1. /\ line \in Seq(Guards) /\ Len(line) \in Nat
      /\ line = <<>> <=> Len(line) = 0
      /\ \A i \in 1..Len(line) : line[i] \in Guards /\ line[i] # g
  BY EmptySeq, LenProperties, ElementOfSeq DEF TypeOK, LineInv, Exchange
<1>2. /\ line' \in Seq(Guards)
      /\ Len(line') = Len(line) + 1
      /\ line' # <<>>
      /\ \A i \in 1..Len(line) : line'[i] = line[i]
      /\ line'[Len(line) + 1] = g
  BY <1>1, AppendAt DEF Exchange
<1>3. TypeOK'
  BY <1>2, LockAssumption DEF TypeOK, Exchange, Goto, PCs
<1>4. lpc'[g] \in {"own", "link"} /\ \A h \in Guards : h # g => lpc'[h] = lpc[h]
  BY LockAssumption DEF TypeOK, Exchange, Goto
<1>5. LineInv'
  <2>1. \A i, j \in 1..Len(line') : line'[i] = line'[j] => i = j
    BY <1>1, <1>2 DEF LineInv
  <2>2. tail_' = line'[Len(line')]
    BY <1>1, <1>2 DEF Exchange
  <2>3. ASSUME NEW h \in Guards
        PROVE  lpc'[h] \notin {"out", "clear", "released"}
                   <=> \E i \in 1..Len(line') : line'[i] = h
    <3>1. CASE h = g
      BY <3>1, <1>1, <1>2, <1>4
    <3>2. CASE h # g
      BY <3>2, <1>1, <1>2, <1>4 DEF LineInv
    <3> QED BY <3>1, <3>2
  <2> QED BY <2>1, <2>2, <2>3, <1>2 DEF LineInv
<1>6. LinkInv'
  <2>1. next'[g] = NULL /\ \A h \in Guards : h # g => next'[h] = next[h]
    BY DEF Exchange, TypeOK
  <2>2. ~is_owner'[g] /\ \A h \in Guards : h # g => is_owner'[h] = is_owner[h]
    BY DEF Exchange, TypeOK
  <2>3. \A h \in Guards : h # g => ancestor'[h] = ancestor[h]
    BY LockAssumption DEF Exchange, TypeOK
  <2>4. line # <<>> => lpc'[g] = "link" /\ ancestor'[g] = line[Len(line)]
    BY <1>1, LockAssumption DEF Exchange, TypeOK, LineInv, Goto
  <2>5. line = <<>> => lpc'[g] = "own"
    BY <1>1, LockAssumption DEF Exchange, TypeOK, LineInv, Goto
  <2>6. line' # <<>> => /\ lpc'[line'[1]] # "link"
                        /\ lpc'[line'[1]] # "own" => is_owner'[line'[1]]
                        /\ next'[line'[Len(line')]] = NULL
    <3>1. CASE line = <<>>
      BY <3>1, <1>1, <1>2, <2>1, <2>5
    <3>2. CASE line # <<>>
      BY <3>2, <1>1, <1>2, <1>4, <2>1, <2>2 DEF LinkInv
    <3> QED BY <3>1, <3>2
  <2>7. ASSUME NEW i \in 2..Len(line')
        PROVE  /\ lpc'[line'[i]] \in {"link", "spin"}
               /\ ~is_owner'[line'[i]]
               /\ lpc'[line'[i]] = "link" => /\ ancestor'[line'[i]] = line'[i-1]
                                             /\ next'[line'[i-1]] = NULL
               /\ lpc'[line'[i]] = "spin" => next'[line'[i-1]] = line'[i]
    <3>1. CASE i = Len(line) + 1
      BY <3>1, <1>1, <1>2, <1>4, <2>1, <2>2, <2>4 DEF LinkInv
    <3>2. CASE i \in 2..Len(line)
      BY <3>2, <1>1, <1>2, <1>4, <2>1, <2>2, <2>3 DEF LinkInv
    <3> QED BY <3>1, <3>2, <1>1, <1>2
  <2>8. \A h \in Guards : lpc'[h] = "handoff" => next'[h] # NULL
    BY <1>4, <2>1 DEF LinkInv
  <2>9. \A h \in Guards : lpc'[h] = "released" => ~is_owner'[h]
    BY <1>4, <2>2 DEF LinkInv
  <2> QED BY <2>6, <2>7, <2>8, <2>9 DEF LinkInv
<1> QED BY <1>3, <1>5, <1>6

\* The steps that leave the line as it is.
LEMMA LockInvSameLine ==
    ASSUME LockInv, NEW g \in Guards,
           \/ AcquireStep(g, g)
           \/ CallRelease(g, g, "held")
           \/ Destroy(g, g)
           \/ HasNext(g, g)
           \/ CasFails(g, g)
           \/ Clear(g, g)
    PROVE  LockInv'
<1> USE DEF LockInv
<1>1. /\ line' = line /\ tail_' = tail_
      /\ line \in Seq(Guards) /\ Len(line) \in Nat
      /\ \A i \in 1..Len(line) : line[i] \in Guards
      /\ line = <<>> <=> Len(line) = 0
  BY EmptySeq, LenProperties, ElementOfSeq
     DEF TypeOK, AcquireStep, SetOwner, Link, Spin, CallRelease, Destroy,
         HasNext, CasFails, Clear
<1>2. \A h \in Guards : h # g => lpc'[h] = lpc[h]
  BY LockAssumption
     DEF TypeOK, AcquireStep, SetOwner, Link, Spin, CallRelease, Destroy,
         HasNext, CasFails, Clear, Goto
<1>3. ASSUME lpc[g] \notin {"out", "clear", "released"}
                 <=> lpc'[g] \notin {"out", "clear", "released"}
      PROVE  LineInv'
  BY <1>1, <1>2, <1>3 DEF LineInv
<1>4. CASE SetOwner(g, g)
  <2>1. TypeOK'
    BY <1>4, LockAssumption DEF SetOwner, TypeOK, Goto, PCs
  <2>2. /\ lpc[g] = "own" /\ lpc'[g] = "held" /\ is_owner'[g]
        /\ \A h \in Guards : h # g => is_owner'[h] = is_owner[h]
        /\ next' = next /\ ancestor' = ancestor
    BY <1>4, LockAssumption DEF SetOwner, TypeOK, Goto
  <2>3. line[1] = g /\ \A i \in 2..Len(line) : line[i] # g
    BY <1>1, <2>2, HolderIsFirst DEF LineInv
  <2>4. LineInv'
    BY <1>3, <2>2
  <2>5. LinkInv'
    BY <1>1, <1>2, <2>2, <2>3 DEF LinkInv
  <2> QED BY <2>1, <2>4, <2>5
<1>5. CASE Link(g, g)
  <2>1. PICK k \in 1..Len(line) : line[k] = g
    BY <1>5 DEF Link, LineInv
  <2>2. k \in 2..Len(line) /\ lpc[g] = "link" /\ ancestor[g] = line[k-1]
    BY <1>1, <1>5, <2>1 DEF Link, LinkInv
  <2>3. line[k-1] \in Guards
    BY <1>1, <2>2
  <2>4. TypeOK'
    BY <1>5, <2>2, <2>3, LockAssumption DEF Link, TypeOK, Goto, PCs
  <2>5. /\ lpc'[g] = "spin" /\ is_owner' = is_owner /\ ancestor' = ancestor
        /\ next'[line[k-1]] = g
        /\ \A h \in Guards : h # line[k-1] => next'[h] = next[h]
    BY <1>5, <2>2, <2>3, LockAssumption DEF Link, TypeOK, Goto
  <2>6. LineInv'
    BY <1>3, <2>2, <2>5
  <2>7. /\ \A i \in 1..Len(line) : i # k => line[i] # g
        /\ \A i \in 1..Len(line) : i # k - 1 => line[i] # line[k-1]
    BY <1>1, <2>1, <2>2 DEF LineInv
  <2>8. line' # <<>> => /\ lpc'[line[1]] # "link"
                        /\ lpc'[line[1]] # "own" => is_owner[line[1]]
                        /\ next'[line[Len(line)]] = NULL
    BY <1>1, <1>2, <2>2, <2>5, <2>7 DEF LinkInv
  <2>9. ASSUME NEW i \in 2..Len(line)
        PROVE  /\ lpc'[line[i]] \in {"link", "spin"}
               /\ ~is_owner[line[i]]
               /\ lpc'[line[i]] = "link" => /\ ancestor[line[i]] = line[i-1]
                                            /\ next'[line[i-1]] = NULL
               /\ lpc'[line[i]] = "spin" => next'[line[i-1]] = line[i]
    <3>1. CASE i = k
      BY <3>1, <1>1, <2>1, <2>2, <2>5 DEF LinkInv
    <3>2. CASE i # k
      <4>1. line[i] # g /\ line[i-1] # line[k-1] /\ line[i-1] \in Guards /\ line[i] \in Guards
        BY <3>2, <1>1, <2>2, <2>7
      <4>2. lpc'[line[i]] = lpc[line[i]] /\ next'[line[i-1]] = next[line[i-1]]
        BY <4>1, <1>2, <2>5
      <4> QED BY <4>2 DEF LinkInv
    <3> QED BY <3>1, <3>2
  <2>10. ASSUME NEW h \in Guards, lpc'[h] = "handoff"
         PROVE  next'[h] # NULL
    BY <2>10, <1>2, <2>5, LockAssumption DEF LinkInv
  <2>a. \A h \in Guards : lpc'[h] = "released" => ~is_owner[h]
    BY <1>2, <2>5 DEF LinkInv
  <2>11. LinkInv'
    BY <1>1, <2>5, <2>8, <2>9, <2>10, <2>a DEF LinkInv
  <2> QED BY <2>4, <2>6, <2>11
<1>6. CASE Spin(g, g)
  <2>1. TypeOK'
    BY <1>6, LockAssumption DEF Spin, TypeOK, Goto, PCs
  <2>2. /\ lpc[g] = "spin" /\ lpc'[g] = "held" /\ is_owner[g]
        /\ is_owner' = is_owner /\ next' = next /\ ancestor' = ancestor
    BY <1>6, LockAssumption DEF Spin, TypeOK, Goto
  <2>3. \A i \in 2..Len(line) : line[i] # g
    BY <1>1, <2>2 DEF LinkInv
  <2>4. LineInv'
    BY <1>3, <2>2
  <2>5. LinkInv'
    BY <1>1, <1>2, <2>2, <2>3 DEF LinkInv
  <2> QED BY <2>1, <2>4, <2>5
<1>7. CASE CallRelease(g, g, "held") \/ HasNext(g, g) \/ CasFails(g, g)
  <2>1. TypeOK'
    BY <1>7, LockAssumption DEF CallRelease, HasNext, CasFails, TypeOK, Goto, PCs
  <2>2. /\ lpc[g] \in {"held", "release", "recheck", "cas"}
        /\ lpc'[g] \in {"release", "recheck", "cas", "handoff"}
        /\ lpc'[g] = "handoff" => next[g] # NULL
        /\ is_owner' = is_owner /\ next' = next /\ ancestor' = ancestor
    BY <1>7, LockAssumption DEF CallRelease, HasNext, CasFails, TypeOK, Goto
  <2>3. line[1] = g /\ is_owner[g] /\ \A i \in 2..Len(line) : line[i] # g
    BY <1>1, <2>2, HolderIsFirst DEF LineInv
  <2>4. LineInv'
    BY <1>3, <2>2
  <2>5. LinkInv'
    BY <1>1, <1>2, <2>2, <2>3 DEF LinkInv
  <2> QED BY <2>1, <2>4, <2>5
<1>8. CASE Destroy(g, g)
  <2>1. TypeOK'
    BY <1>8, LockAssumption DEF Destroy, TypeOK, Goto, PCs
  <2>2. /\ is_owner' = is_owner /\ next' = next /\ ancestor' = ancestor
        /\ lpc'[g] = IF is_owner[g] THEN "release" ELSE "out"
    BY <1>8, LockAssumption DEF Destroy, TypeOK, Goto
  <2>3. CASE lpc[g] = "held"
    <3>1. line[1] = g /\ is_owner[g] /\ \A i \in 2..Len(line) : line[i] # g
      BY <1>1, <2>3, HolderIsFirst DEF LineInv
    <3>2. LineInv'
      BY <1>3, <2>2, <2>3, <3>1
    <3>3. LinkInv'
      BY <1>1, <1>2, <2>2, <3>1 DEF LinkInv
    <3> QED BY <2>1, <3>2, <3>3
  <2>4. CASE lpc[g] = "released"
    <3>1. ~is_owner[g] /\ \A i \in 1..Len(line) : line[i] # g
      BY <1>1, <2>4 DEF LineInv, LinkInv
    <3>2. LineInv'
      BY <1>3, <2>2, <2>4, <3>1
    <3>3. LinkInv'
      BY <1>1, <1>2, <2>2, <3>1 DEF LinkInv
    <3> QED BY <2>1, <3>2, <3>3
  <2> QED BY <1>8, <2>3, <2>4 DEF Destroy
<1>9. CASE Clear(g, g)
  <2>1. TypeOK'
    BY <1>9, LockAssumption DEF Clear, TypeOK, Goto, PCs
  <2>2. /\ lpc[g] = "clear" /\ lpc'[g] \in {"out", "released"}
        /\ \A h \in Guards : h # g => is_owner'[h] = is_owner[h]
        /\ ~is_owner'[g] /\ next' = next /\ ancestor' = ancestor
    BY <1>9, LockAssumption DEF Clear, TypeOK, Goto
  <2>3. \A i \in 1..Len(line) : line[i] # g
    BY <1>1, <2>2 DEF LineInv
  <2>4. LineInv'
    BY <1>3, <2>2
  <2>5. LinkInv'
    BY <1>1, <1>2, <2>2, <2>3 DEF LinkInv
  <2> QED BY <2>1, <2>4, <2>5
<1> QED BY <1>4, <1>5, <1>6, <1>7, <1>8, <1>9 DEF AcquireStep

\* Release without a successor: the line becomes empty.
LEMMA LockInvCasSucceeds ==
    ASSUME LockInv, NEW g \in Guards, CasSucceeds(g, g)
    PROVE  LockInv'
<1> USE DEF LockInv
<1>1. lpc[g] = "cas" /\ tail_ = g /\ tail_' = NULL
  BY DEF CasSucceeds
<1>2. line # <<>> /\ Len(line) \in Nat \ {0} /\ line[1] = g
  BY <1>1, HolderIsFirst
<1>3. line \in Seq(Guards) /\ Len(line) = 1
  <2>1. line[Len(line)] = g
    BY <1>1, <1>2 DEF LineInv
  <2>2. 1 \in 1..Len(line) /\ Len(line) \in 1..Len(line)
    BY <1>2
  <2> QED BY <1>2, <2>1, <2>2, ZenonT(60) DEF LineInv, TypeOK
<1>4. line' = <<>>
  BY <1>2, <1>3, TailAt DEF CasSucceeds, Leave
<1>5. /\ lpc'[g] = "clear" /\ \A h \in Guards : h # g => lpc'[h] = lpc[h]
      /\ next' = next /\ is_owner' = is_owner
  BY LockAssumption DEF CasSucceeds, Goto, TypeOK
<1>6. TypeOK'
  BY <1>4, LockAssumption DEF CasSucceeds, Goto, TypeOK, PCs
<1>7. \A h \in Guards : lpc'[h] \in {"out", "clear", "released"}
  BY <1>2, <1>3, <1>5 DEF LineInv
<1>8. LineInv'
  BY <1>1, <1>4, <1>7 DEF LineInv
<1>9. LinkInv'
  BY <1>4, <1>5, <1>7 DEF LinkInv
<1> QED BY <1>6, <1>8, <1>9

\* Release with a successor: the second in the line becomes the first and
\* the owner.
LEMMA LockInvSetNextOwner ==
    ASSUME LockInv, NEW g \in Guards, SetNextOwner(g, g)
    PROVE  LockInv'
<1> USE DEF LockInv
<1>1. lpc[g] = "handoff" /\ next[g] # NULL /\ tail_' = tail_ /\ next' = next /\ ancestor' = ancestor
  BY DEF SetNextOwner, LinkInv
<1>2. line # <<>> /\ Len(line) \in Nat \ {0} /\ line[1] = g
  BY <1>1, HolderIsFirst
<1>3. line \in Seq(Guards) /\ Len(line) # 1
  BY <1>1, SuccessorSpins
<1>4. 2 \in 2..Len(line) /\ \A i \in 1..Len(line) : line[i] \in Guards
  BY <1>2, <1>3, SecondExists, ElementOfSeq
<1>5. lpc[line[2]] = "spin" /\ next[g] = line[2]
  BY <1>1, SuccessorSpins
<1>6. line' = Tail(line)
  BY <1>2, <1>3, TailAt DEF SetNextOwner, Leave
<1>7. /\ line' \in Seq(Guards)
      /\ line' # <<>>
      /\ Len(line') = Len(line) - 1
      /\ \A i \in 1..Len(line) - 1 : line'[i] = line[i + 1]
  BY <1>2, <1>3, <1>6, TailAt
<1>8. lpc'[g] = "clear" /\ \A h \in Guards : h # g => lpc'[h] = lpc[h]
  BY LockAssumption DEF SetNextOwner, Goto, TypeOK
<1>9. is_owner'[line[2]] /\ \A h \in Guards : h # line[2] => is_owner'[h] = is_owner[h]
  BY <1>4, <1>5 DEF SetNextOwner, TypeOK
<1>10. TypeOK'
  BY <1>7, LockAssumption DEF SetNextOwner, Goto, TypeOK, PCs
<1>11. \A i \in 2..Len(line) : line[i] # g
  BY <1>2 DEF LineInv
<1>12. LineInv'
  <2>1. \A i, j \in 1..Len(line') : line'[i] = line'[j] => i = j
    BY <1>2, <1>7 DEF LineInv
  <2>2. tail_' = line'[Len(line')]
    BY <1>1, <1>2, <1>4, <1>7 DEF LineInv
  <2>3. ASSUME NEW h \in Guards
        PROVE  lpc'[h] \notin {"out", "clear", "released"}
                   <=> \E i \in 1..Len(line') : line'[i] = h
    <3>1. CASE h = g
      BY <3>1, <1>2, <1>7, <1>8, <1>11
    <3>2. CASE h # g
      <4>1. ASSUME NEW i \in 1..Len(line), line[i] = h
            PROVE  \E j \in 1..Len(line') : line'[j] = h
        <5>1. i - 1 \in 1..Len(line') /\ line'[i - 1] = line[i]
          BY <1>2, <1>7, <3>2, <4>1
        <5> QED BY <4>1, <5>1
      <4>2. ASSUME NEW j \in 1..Len(line'), line'[j] = h
            PROVE  \E i \in 1..Len(line) : line[i] = h
        <5>1. j + 1 \in 1..Len(line) /\ line[j + 1] = line'[j]
          BY <1>2, <1>7
        <5> QED BY <4>2, <5>1
      <4> QED BY <3>2, <4>1, <4>2, <1>8 DEF LineInv
    <3> QED BY <3>1, <3>2
  <2> QED BY <2>1, <2>2, <2>3, <1>7 DEF LineInv
<1>13. LinkInv'
  <2>1. /\ line'[1] = line[2] /\ line'[Len(line')] = line[Len(line)]
    BY <1>2, <1>4, <1>7
  <2>2. /\ lpc'[line'[1]] # "link"
        /\ lpc'[line'[1]] # "own" => is_owner'[line'[1]]
        /\ next'[line'[Len(line')]] = NULL
    BY <2>1, <1>1, <1>2, <1>4, <1>5, <1>8, <1>9, <1>11 DEF LinkInv
  <2>3. ASSUME NEW i \in 2..Len(line')
        PROVE  /\ lpc'[line'[i]] \in {"link", "spin"}
               /\ ~is_owner'[line'[i]]
               /\ lpc'[line'[i]] = "link" => /\ ancestor'[line'[i]] = line'[i-1]
                                             /\ next'[line'[i-1]] = NULL
               /\ lpc'[line'[i]] = "spin" => next'[line'[i-1]] = line'[i]
    <3>1. /\ i + 1 \in 3..Len(line) /\ line'[i] = line[i + 1] /\ line'[i - 1] = line[i]
          /\ i + 1 \in 2..Len(line) /\ (i + 1) - 1 = i
      BY <1>2, <1>7
    <3>2. line[i + 1] # line[2] /\ line[i + 1] # g /\ line[i + 1] \in Guards
      BY <3>1, <1>2, <1>4, <1>11 DEF LineInv
    <3>3. /\ lpc[line[i+1]] \in {"link", "spin"}
          /\ ~is_owner[line[i+1]]
          /\ lpc[line[i+1]] = "link" => /\ ancestor[line[i+1]] = line[i]
                                        /\ next[line[i]] = NULL
          /\ lpc[line[i+1]] = "spin" => next[line[i]] = line[i+1]
      BY <3>1, SMTT(30) DEF LinkInv
    <3> QED BY <3>1, <3>2, <3>3, <1>1, <1>8, <1>9
  <2>4. \A h \in Guards : lpc'[h] = "handoff" => next'[h] # NULL
    BY <1>1, <1>8 DEF LinkInv
  <2>5. \A h \in Guards : lpc'[h] = "released" => ~is_owner'[h]
    BY <1>5, <1>8, <1>9 DEF LinkInv
  <2> QED BY <2>2, <2>3, <2>4, <2>5 DEF LinkInv
<1> QED BY <1>10, <1>12, <1>13

\* Every step keeps the invariant.
LEMMA LockInvStep ==
    ASSUME LockInv, Next \/ UNCHANGED vars
    PROVE  LockInv'
<1>1. CASE Next
  BY <1>1, LockInvExchange, LockInvSameLine, LockInvCasSucceeds, LockInvSetNextOwner
     DEF Next, ThreadStep, ReleaseStep
<1>2. CASE UNCHANGED vars
  BY <1>2 DEF vars, LockInv, TypeOK, LineInv, LinkInv
<1> QED BY <1>1, <1>2

\* In every reachable state the pointers of the queue spinlock describe the
\* line of guards that hold it or wait for it.
THEOREM LockInvariance == Spec => []LockInv
<1>1. Init => LockInv
  BY LockInvInit
<1>2. LockInv /\ [Next]_vars => LockInv'
  BY LockInvStep
<1> QED BY <1>1, <1>2, PTL DEF Spec

\* At most one thread is between Acquire and the hand-over in Release.
THEOREM LockMutualExclusion == Spec => []MutualExclusion
<1>1. LockInv => MutualExclusion
  BY HolderIsFirst DEF MutualExclusion, Holds
<1> QED BY <1>1, LockInvariance, PTL

\* The lock goes to the threads in the order of their tail_.exchange.
THEOREM LockFirstComeFirstServed == Spec => []FirstComeFirstServed
<1>1. LockInv => FirstComeFirstServed
  <2> SUFFICES ASSUME LockInv, NEW g \in Guards, Holds(g)
               PROVE  line # <<>> /\ Head(line) = g
    BY DEF FirstComeFirstServed
  <2>1. line # <<>> /\ line[1] = g /\ line \in Seq(Guards)
    BY HolderIsFirst DEF Holds, LockInv, TypeOK
  <2> QED BY <2>1, TailAt
<1> QED BY <1>1, LockInvariance, PTL

\* No step of Acquire or Release follows a pointer to a destroyed guard.
THEOREM LockNoDanglingGuard == Spec => []NoDanglingGuard
<1>1. ASSUME LockInv PROVE NoDanglingGuard
  <2> SUFFICES ASSUME NEW g \in Guards, lpc[g] = "out"
               PROVE  /\ tail_ # g
                      /\ \A h \in Guards : lpc[h] = "link" => ancestor[h] # g
                      /\ \A h \in Guards : lpc[h] = "handoff" => next[h] # g
    BY DEF NoDanglingGuard
  <2>1. /\ line \in Seq(Guards) /\ Len(line) \in Nat /\ line # <<>> => Len(line) # 0
        /\ \A i \in 1..Len(line) : line[i] # g
    BY <1>1, EmptySeq, LenProperties DEF LockInv, LineInv, TypeOK
  <2>2. tail_ # g
    BY <1>1, <2>1, LockAssumption DEF LockInv, LineInv
  <2>3. ASSUME NEW h \in Guards, lpc[h] = "link"
        PROVE  ancestor[h] # g
    <3>1. PICK i \in 1..Len(line) : line[i] = h
      BY <1>1, <2>3 DEF LockInv, LineInv
    <3>2. i \in 2..Len(line) /\ i - 1 \in 1..Len(line)
      BY <1>1, <2>1, <2>3, <3>1 DEF LockInv, LinkInv
    <3> QED BY <1>1, <2>1, <2>3, <3>1, <3>2 DEF LockInv, LinkInv
  <2>4. ASSUME NEW h \in Guards, lpc[h] = "handoff"
        PROVE  next[h] # g
    <3>1. line # <<>> /\ Len(line) \in Nat \ {0} /\ line[1] = h /\ next[h] # NULL
      BY <1>1, <2>4, HolderIsFirst DEF LockInv, LinkInv
    <3>2. Len(line) # 1
      BY <1>1, <3>1 DEF LockInv, LinkInv
    <3>3. 2 \in 2..Len(line) /\ 2 \in 1..Len(line)
      BY <3>1, <3>2, SecondExists
    <3> QED BY <1>1, <2>1, <3>1, <3>3 DEF LockInv, LinkInv
  <2> QED BY <2>2, <2>3, <2>4
<1> QED BY <1>1, LockInvariance, PTL

\* Who is inside: the first in the line, or nobody.
LEMMA InsideIsFirst ==
    ASSUME LockInv, NEW g \in Guards, line # <<>>, line[1] = g
    PROVE  /\ Inside = IF Holds(g) THEN {g} ELSE {}
           /\ line \in Seq(Guards) /\ Head(line) = g
<1>1. \A h \in Guards : Holds(h) => h = g
  BY HolderIsFirst DEF Holds
<1>2. Inside = IF Holds(g) THEN {g} ELSE {}
  BY <1>1 DEF Inside
<1>3. line \in Seq(Guards)
  BY DEF LockInv, TypeOK
<1> QED BY <1>2, <1>3, TailAt

\* Thread g comes in or goes out.
LEMMA InsideMoves ==
    ASSUME LockInv, NEW g \in Guards, NEW to, Goto(g, to)
    PROVE  LET in == to \in {"held", "release", "cas", "recheck", "handoff"}
           IN  /\ (in <=> Holds(g)) => Inside' = Inside
               /\ in /\ Inside = {} => Inside' = {g}
               /\ ~in /\ Inside = {g} => Inside' = {}
<1>1. lpc'[g] = to /\ \A h \in Guards : h # g => lpc'[h] = lpc[h]
  BY LockAssumption DEF LockInv, TypeOK, Goto
<1>2. \A h \in Guards : h \in Inside <=> Holds(h)
  BY DEF Inside
<1> QED BY <1>1, <1>2 DEF Inside, Holds

\* Every step of a thread is a step of the abstract lock, or invisible.
LEMMA ThreadIsFifo ==
    ASSUME LockInv, NEW g \in Guards, Exchange(g, g) \/ ThreadStep(g)
    PROVE  Fifo!Next \/ UNCHANGED Fifo!vars
<1>1. CASE Exchange(g, g)
  <2>1. /\ lpc[g] = "out" /\ line' = Append(line, g)
        /\ \E to \in {"own", "link"} : Goto(g, to)
    BY <1>1 DEF Exchange
  <2>2. \A i \in 1..Len(line) : line[i] # g
    BY <2>1 DEF LockInv, LineInv
  <2>3. Inside' = Inside
    BY <2>1, InsideMoves DEF Holds
  <2> QED BY <2>1, <2>2, <2>3 DEF Fifo!Next, Fifo!Ask
<1>2. CASE SetOwner(g, g) \/ Spin(g, g)
  <2>1. lpc[g] \in {"own", "spin"} /\ Goto(g, "held") /\ line' = line
    BY <1>2 DEF SetOwner, Spin
  <2>2. line # <<>> /\ line[1] = g
    <3>1. CASE SetOwner(g, g)
      BY <3>1, HolderIsFirst DEF SetOwner
    <3>2. CASE Spin(g, g)
      <4>1. lpc[g] = "spin" /\ is_owner[g]
        BY <3>2 DEF Spin
      <4>2. PICK i \in 1..Len(line) : line[i] = g
        BY <4>1 DEF LockInv, LineInv
      <4>3. Len(line) \in Nat /\ line # <<>>
        BY <4>2, EmptySeq, LenProperties DEF LockInv, TypeOK
      <4>4. i = 1
        BY <4>1, <4>2, <4>3 DEF LockInv, LinkInv
      <4> QED BY <4>2, <4>3, <4>4
    <3> QED BY <1>2, <3>1, <3>2
  <2>3. Inside = {} /\ Head(line) = g
    BY <2>1, <2>2, InsideIsFirst DEF Holds
  <2>4. Inside' = {g}
    BY <2>1, <2>3, InsideMoves
  <2> QED BY <2>1, <2>2, <2>3, <2>4 DEF Fifo!Next, Fifo!Enter
<1>3. CASE CasSucceeds(g, g) \/ SetNextOwner(g, g)
  <2>1. lpc[g] \in {"cas", "handoff"} /\ Goto(g, "clear") /\ Leave(g)
    BY <1>3 DEF CasSucceeds, SetNextOwner
  <2>2. line # <<>> /\ line[1] = g
    BY <2>1, HolderIsFirst
  <2>3. Inside = {g} /\ Head(line) = g
    BY <2>1, <2>2, InsideIsFirst DEF Holds
  <2>4. line' = Tail(line)
    BY <2>1, <2>2, <2>3 DEF Leave
  <2>5. Inside' = {}
    BY <2>1, <2>3, InsideMoves
  <2> QED BY <2>2, <2>3, <2>4, <2>5 DEF Fifo!Next, Fifo!Leave
<1>4. CASE Link(g, g) \/ Clear(g, g)
  <2>1. /\ line' = line /\ lpc[g] \in {"link", "clear"}
        /\ \E to \in {"spin", "out", "released"} : Goto(g, to)
    BY <1>4 DEF Link, Clear
  <2>2. Inside' = Inside
    BY <2>1, InsideMoves DEF Holds
  <2> QED BY <2>1, <2>2 DEF Fifo!vars
<1>5. CASE CallRelease(g, g, "held") \/ HasNext(g, g) \/ CasFails(g, g)
  <2>1. /\ line' = line /\ lpc[g] \in {"held", "release", "cas", "recheck"}
        /\ \E to \in {"release", "cas", "recheck", "handoff"} : Goto(g, to)
    BY <1>5 DEF CallRelease, HasNext, CasFails
  <2>2. Inside' = Inside
    BY <2>1, InsideMoves DEF Holds
  <2> QED BY <2>1, <2>2 DEF Fifo!vars
<1>6. CASE Destroy(g, g)
  <2>1. /\ line' = line /\ lpc[g] \in {"held", "released"}
        /\ Goto(g, IF is_owner[g] THEN "release" ELSE "out")
    BY <1>6 DEF Destroy
  <2>2. is_owner[g] <=> lpc[g] = "held"
    BY <2>1, HolderIsFirst DEF LockInv, LinkInv
  <2>3. Inside' = Inside
    <3>1. CASE lpc[g] = "held"
      BY <3>1, <2>1, <2>2, InsideMoves DEF Holds
    <3>2. CASE lpc[g] = "released"
      BY <3>2, <2>1, <2>2, InsideMoves DEF Holds
    <3> QED BY <2>1, <3>1, <3>2
  <2> QED BY <2>1, <2>3 DEF Fifo!vars
<1> QED BY <1>1, <1>2, <1>3, <1>4, <1>5, <1>6 DEF ThreadStep, AcquireStep, ReleaseStep

\* The queue spinlock is a first-come-first-served lock: tail_.exchange takes the
\* place in the line, SetOwner or the end of the spinning enters, and the
\* compare-exchange or the hand-over to the successor leaves.
THEOREM LockRefinement == Spec => ImplementsFifoLock
<1>1. Init => Fifo!Init
  BY LockAssumption DEF Init, Fifo!Init, Inside, Holds
<1>2. LockInv /\ [Next]_vars => [Fifo!Next]_(Fifo!vars)
  <2> SUFFICES ASSUME LockInv, [Next]_vars PROVE [Fifo!Next]_(Fifo!vars)
    OBVIOUS
  <2>1. CASE UNCHANGED vars
    BY <2>1 DEF vars, Fifo!vars, Inside, Holds
  <2>2. CASE Next
    BY <2>2, ThreadIsFifo DEF Next
  <2> QED BY <2>1, <2>2
<1> QED BY <1>1, <1>2, LockInvariance, PTL DEF Spec, ImplementsFifoLock, Fifo!Spec

=============================================================================
