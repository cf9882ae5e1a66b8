------------------------ MODULE ClassicMSQueueProofs ------------------------
(***************************************************************************)
(* The classic Michael-Scott queue for any number of nodes, producers,     *)
(* consumers and pushes, and only with an allocator that does not hand out *)
(* a node while a thread refers to it (FreshOnly), which is more than the  *)
(* comment of the class asks for: the list keeps its shape, every node is  *)
(* deleted once, and Push and TryPop are linearizable.                     *)
(***************************************************************************)
EXTENDS ClassicMSQueue, SequenceTheorems, TLAPS

\* The list after a Push.
LEMMA AppendAt ==
    ASSUME NEW S, NEW s \in Seq(S), NEW e \in S
    PROVE  /\ Append(s, e) \in Seq(S)
           /\ Len(s) \in Nat /\ Len(Append(s, e)) = Len(s) + 1
           /\ \A i \in 1..Len(s) : Append(s, e)[i] = s[i]
           /\ Append(s, e)[Len(s) + 1] = e
           /\ Append(s, e) # <<>>
BY AppendProperties, LenProperties

\* The list after a TryPop.
LEMMA TailAt ==
    ASSUME NEW S, NEW s \in Seq(S), s # <<>>
    PROVE  /\ Tail(s) \in Seq(S)
           /\ Len(s) \in Nat \ {0} /\ Len(Tail(s)) = Len(s) - 1
           /\ \A i \in 1..Len(s) - 1 : Tail(s)[i] = s[i + 1]
           /\ 1 \in 1..Len(s) /\ s[1] \in S
<1>1. Len(s) \in Nat \ {0}
  BY EmptySeq, LenProperties
<1>2. 1 \in 1..Len(s)
  BY <1>1
<1>3. s[1] \in S
  BY <1>2, ElementOfSeq
<1> QED BY <1>1, <1>2, <1>3, HeadTailProperties

\* The parts of a pointer.
LEMMA PointerType ==
    ASSUME ClassicSetting
    PROVE
    /\ \A x \in Pointers : x[1] \in Nodes \union {NULL} /\ x[2] \in Nat /\ x = <<x[1], x[2]>>
    /\ \A n \in Nodes \union {NULL}, k \in Nat :
         <<n, k>> \in Pointers /\ <<n, k>>[1] = n /\ <<n, k>>[2] = k
    /\ \A x \in Nodes \X Nat : x \in Pointers /\ x[1] \in Nodes
    /\ Null \in Pointers /\ Null[1] = NULL /\ NULL \notin Nodes
BY DEF ClassicSetting, Pointers, Null

\* A thread either pushes or pops.
LEMMA ThreadKinds ==
    ASSUME ClassicSetting
    PROVE
    /\ \A p \in Producers : p \in Threads /\ p \notin Consumers
    /\ \A c \in Consumers : c \in Threads /\ c \notin Producers
    /\ \A t \in Threads : t \in Producers \/ t \in Consumers
BY DEF ClassicSetting, Threads

\* Where the pointers of the threads may lead.
LEMMA LocalTypes ==
    ASSUME ClassicSetting, TypeOK
    PROVE  /\ \A t \in Threads :
                /\ old_head[t] \in Pointers /\ old_head[t][1] \in Nodes \union {NULL}
                /\ old_tail[t] \in Pointers /\ old_tail[t][1] \in Nodes \union {NULL}
                /\ after[t] \in Pointers /\ after[t][1] \in Nodes \union {NULL}
           /\ \A n \in Nodes : next[n] \in Pointers /\ next[n][1] \in Nodes \union {NULL}
           /\ head[1] \in Nodes \union {NULL} /\ tail[1] \in Nodes /\ tail \in Pointers
           /\ Len(line) \in Nat
           /\ \A i \in 1..Len(line) : line[i] \in Nodes
           /\ \A n : InLine(n) => n \in Nodes
<1>1. \A t \in Threads : old_head[t] \in Pointers /\ old_tail[t] \in Pointers /\ after[t] \in Pointers
  BY DEF TypeOK
<1>2. \A n \in Nodes : next[n] \in Pointers
  BY DEF TypeOK
<1>3. Len(line) \in Nat /\ \A i \in 1..Len(line) : line[i] \in Nodes
  BY LenProperties, ElementOfSeq DEF TypeOK
<1>4. head \in Pointers /\ tail \in Nodes \X Nat
  BY DEF TypeOK
<1> QED BY <1>1, <1>2, <1>3, <1>4, PointerType DEF InLine

\* A queue that is not being destroyed has a first node, and tail is near the
\* end of its list.
LEMMA NotEmpty ==
    ASSUME ClassicSetting, QueueShape, ~gone
    PROVE  /\ line # <<>> /\ Len(line) \in Nat \ {0} /\ 1 \in 1..Len(line)
           /\ head[1] = line[1] /\ InLine(head[1]) /\ InLine(tail[1])
<1>1. PICK i \in 1..Len(line) : i + 1 >= Len(line) /\ line[i] = tail[1]
  BY DEF QueueShape, LineInv
<1>2. line \in Seq(Nodes) /\ Len(line) \in Nat
  BY LocalTypes DEF QueueShape, TypeOK
<1>3. Len(line) \in Nat \ {0} /\ 1 \in 1..Len(line)
  BY <1>1, <1>2
<1>4. line # <<>>
  BY <1>2, <1>3, EmptySeq
<1> QED BY <1>1, <1>3, <1>4 DEF QueueShape, LineInv, InLine

\* The link of the first node tells whether there is a second one.
LEMMA FirstLink ==
    ASSUME ClassicSetting, QueueShape, ~gone
    PROVE  IF Len(line) = 1 THEN next[line[1]][1] = NULL
           ELSE 2 \in 1..Len(line) /\ line[2] \in Nodes /\ next[line[1]][1] = line[2]
<1>1. Len(line) \in Nat \ {0} /\ 1 \in 1..Len(line)
  BY NotEmpty
<1>2. ASSUME NEW n \in Nat \ {0}, n # 1 PROVE 2 \in 1..n
  BY <1>2
<1>3. next[line[1]][1] = IF 1 = Len(line) THEN NULL ELSE line[1 + 1]
  BY <1>1 DEF QueueShape, LineInv
<1>4. Len(line) # 1 => 2 \in 1..Len(line) /\ line[2] \in Nodes
  BY <1>1, <1>2, LocalTypes DEF QueueShape
<1>5. 1 + 1 = 2
  OBVIOUS
<1> QED BY <1>3, <1>4, <1>5

\* When the destructor is done no node is left.
LEMMA AllDeleted ==
    ASSUME ClassicSetting, TypeOK', LineInv', OwnerInv', twice' = {}
    PROVE  DeletedOnce'
<1> SUFFICES ASSUME head[1]' = NULL, NEW n \in live' PROVE FALSE
  BY DEF DeletedOnce
<1>1. line' \in Seq(Nodes)
  BY DEF TypeOK
<1>2. line' = <<>>
  <2> SUFFICES ASSUME line' # <<>> PROVE FALSE
    OBVIOUS
  <2>1. head[1]' = line'[1]
    BY DEF LineInv
  <2> QED BY <1>1, <2>1, TailAt, PointerType
<1>3. Len(line') = 0
  BY <1>2, EmptySeq
<1>4. ~InLine(n)'
  BY <1>3 DEF InLine
<1>5. \A t \in Threads : pc'[t] = "idle"
  BY <1>3 DEF LineInv
<1> QED BY <1>4, <1>5, ThreadKinds DEF OwnerInv, HasNew, HasOld

\* A step of thread t leaves the locals of the other threads alone ...
OthersSame(t) ==
    /\ \A u \in Threads : u # t =>
         pc'[u] = pc[u] /\ old_head'[u] = old_head[u] /\ old_tail'[u] = old_tail[u] /\ after'[u] = after[u]
    /\ \A p \in Producers : p # t => new_node'[p] = new_node[p]
    /\ \A c \in Consumers : c # t => res'[c] = res[c] /\ answer'[c] = answer[c]

\* ... and moves tail to the next node if at all.
TailMoves ==
    \/ tail' = tail
    \/ \E i \in 1..Len(line) - 1 : tail[1] = line[i] /\ tail'[1] = line[i + 1]

\* What a step that changes no node has to show of the locals of its thread.
GoodStep(t) ==
    /\ ~gone /\ TypeOK' /\ OthersSame(t) /\ TailMoves
    /\ UNCHANGED <<head, next, value, live, twice, line, gone>>
    /\ old_head'[t] \in {old_head[t], head, Null}
    /\ old_tail'[t] \in {old_tail[t], Null} \/ (old_tail'[t] = tail /\ tail' = tail)
    /\ pc'[t] = "idle" => old_head'[t] = Null /\ old_tail'[t] = Null
    /\ t \in Producers => /\ HasNew(t)' <=> HasNew(t)
                          /\ HasNew(t) => new_node'[t] = new_node[t]
                          /\ PushKnows(t)'
    /\ t \in Consumers => ~HasOld(t) /\ ~HasOld(t)' /\ PopKnows(t)'

\* Such a step keeps the list as it is.
LEMMA GoodStepLine ==
    ASSUME ClassicSetting, QueueShape, NEW t \in Threads, GoodStep(t)
    PROVE  LineInv'
<1>1. gone' = FALSE /\ line' = line /\ next' = next /\ head' = head /\ ~gone
  BY DEF GoodStep, QueueShape, TypeOK
<1>2. \E i \in 1..Len(line) : i + 1 >= Len(line) /\ line[i] = tail'[1]
  <2>1. PICK i \in 1..Len(line) : i + 1 >= Len(line) /\ line[i] = tail[1]
    BY <1>1 DEF QueueShape, LineInv
  <2>2. Len(line) \in Nat
    BY LocalTypes DEF QueueShape
  <2>3. CASE tail' = tail
    BY <2>1, <2>3
  <2>4. CASE \E k \in 1..Len(line) - 1 : tail[1] = line[k] /\ tail'[1] = line[k + 1]
    <3>1. PICK k \in 1..Len(line) - 1 : tail[1] = line[k] /\ tail'[1] = line[k + 1]
      BY <2>4
    <3>2. k = i
      BY <2>1, <2>2, <3>1 DEF QueueShape, LineInv
    <3> QED BY <2>1, <2>2, <3>1, <3>2
  <2> QED BY <2>3, <2>4 DEF GoodStep, TailMoves
<1> QED BY <1>1, <1>2 DEF QueueShape, LineInv

\* It gives nobody a pointer to a node that is not in the list.
LEMMA GoodStepLoads ==
    ASSUME ClassicSetting, QueueShape, NEW t \in Threads, GoodStep(t), NEW u \in Threads, NEW n \in Nodes, Loaded(u, n)'
    PROVE  Loaded(u, n) \/ InLine(n)
<1>1. CASE u # t
  BY <1>1 DEF GoodStep, OthersSame, Loaded
<1>2. CASE u = t
  <2>1. InLine(head[1]) /\ InLine(tail[1])
    BY NotEmpty DEF GoodStep
  <2>2. n # NULL
    BY PointerType
  <2> QED BY <1>2, <2>1, <2>2, PointerType DEF GoodStep, Loaded
<1> QED BY <1>1, <1>2

\* It changes no owner.
LEMMA GoodStepOwner ==
    ASSUME ClassicSetting, QueueShape, NEW t \in Threads, GoodStep(t)
    PROVE  OwnerInv'
<1>1. line' = line /\ next' = next /\ live' = live /\ value' = value
  BY DEF GoodStep
<1>2. \A n : InLine(n)' <=> InLine(n)
  BY <1>1 DEF InLine
<1>3. \A p \in Producers : (HasNew(p)' <=> HasNew(p)) /\ (HasNew(p) => new_node'[p] = new_node[p])
  BY ThreadKinds DEF GoodStep, OthersSame, HasNew
<1>4. \A c \in Consumers : (HasOld(c)' <=> HasOld(c)) /\ (HasOld(c) => old_head'[c] = old_head[c])
  BY ThreadKinds DEF GoodStep, OthersSame, HasOld
<1>5. ASSUME NEW p \in Producers, HasNew(p), NEW u \in Threads
      PROVE  ~Loaded(u, new_node[p])'
  <2>1. new_node[p] \in Nodes /\ ~Loaded(u, new_node[p]) /\ ~InLine(new_node[p])
    BY <1>5 DEF QueueShape, OwnerInv, TypeOK
  <2>2. new_node[p]' = new_node[p]
    BY <1>3, <1>5
  <2>3. ASSUME NEW n \in Nodes, Loaded(u, n)' PROVE Loaded(u, n) \/ InLine(n)
    BY <2>3, GoodStepLoads
  <2> QED BY <2>1, <2>2, <2>3 DEF Loaded
<1> QED BY <1>1, <1>2, <1>3, <1>4, <1>5 DEF QueueShape, OwnerInv

\* Old pointers stay as stale as they were.
LEMMA GoodStepLoaded ==
    ASSUME ClassicSetting, QueueShape, NEW t \in Threads, GoodStep(t)
    PROVE  LoadedInv'
<1>1. line' = line /\ next' = next /\ head' = head /\ ~gone
  BY DEF GoodStep
<1>2. \A n : InLine(n)' <=> InLine(n)
  BY <1>1 DEF InLine
<1>3. ASSUME NEW u \in Threads, NEW n \in Nodes, Loaded(u, n)'
      PROVE  InLine(n)' \/ next'[n][1] # NULL
  BY <1>1, <1>2, <1>3, GoodStepLoads DEF QueueShape, LoadedInv
<1>4. \A u \in Threads : InLine(old_head[u][1])' => old_head'[u] = head'
  <2>1. ~InLine(NULL)
    BY LocalTypes, PointerType DEF QueueShape
  <2> QED BY <1>1, <1>2, <2>1, PointerType DEF GoodStep, OthersSame, QueueShape, LoadedInv
<1>5. ASSUME NEW u \in Threads, NEW i \in 1..Len(line), NEW j \in 1..Len(line),
             line[i] = old_tail'[u][1], line[j] = tail'[1]
      PROVE  i <= j
  <2>0. Len(line) \in Nat
    BY LocalTypes DEF QueueShape
  <2>1. \A k, l \in 1..Len(line) : line[k] = line[l] => k = l
    BY DEF QueueShape, LineInv
  <2>2. CASE old_tail'[u] = tail /\ tail' = tail
    BY <1>5, <2>0, <2>1, <2>2
  <2>3. CASE old_tail'[u] = old_tail[u]
    <3>1. CASE tail' = tail
      BY <1>5, <2>3, <3>1 DEF QueueShape, LoadedInv
    <3>2. CASE \E k \in 1..Len(line) - 1 : tail[1] = line[k] /\ tail'[1] = line[k + 1]
      <4>1. PICK k \in 1..Len(line) - 1 : tail[1] = line[k] /\ tail'[1] = line[k + 1]
        BY <3>2
      <4>2. k \in 1..Len(line) /\ k + 1 \in 1..Len(line)
        BY <2>0
      <4>3. i <= k
        BY <1>5, <2>3, <4>1, <4>2 DEF QueueShape, LoadedInv
      <4>4. j = k + 1
        BY <1>5, <2>1, <4>1, <4>2
      <4> QED BY <2>0, <4>3, <4>4
    <3> QED BY <3>1, <3>2 DEF GoodStep, TailMoves
  <2>4. CASE old_tail'[u] = Null
    BY <1>5, <2>4, PointerType, LocalTypes DEF QueueShape
  <2> QED BY <2>2, <2>3, <2>4 DEF GoodStep, OthersSame
<1>6. \A u \in Threads : pc'[u] = "idle" => old_head'[u] = Null /\ old_tail'[u] = Null
  BY DEF GoodStep, OthersSame, QueueShape, LoadedInv
<1> QED BY <1>1, <1>3, <1>4, <1>5, <1>6 DEF LoadedInv

\* The other threads know what they knew.
LEMMA GoodStepKnows ==
    ASSUME ClassicSetting, QueueShape, NEW t \in Threads, GoodStep(t)
    PROVE  /\ \A p \in Producers : PushKnows(p)'
           /\ \A c \in Consumers : PopKnows(c)'
<1>1. next' = next /\ head' = head /\ value' = value /\ ~gone /\ line' = line
  BY DEF GoodStep
<1>2. tail[1] # head[1] => tail'[1] # head[1]
  <2>1. Len(line) \in Nat \ {0} /\ 1 \in 1..Len(line) /\ head[1] = line[1]
    BY <1>1, NotEmpty
  <2>2. \A k, l \in 1..Len(line) : line[k] = line[l] => k = l
    BY DEF QueueShape, LineInv
  <2>3. \A i \in 1..Len(line) - 1 : line[i + 1] # line[1]
    BY <2>1, <2>2
  <2> QED BY <2>1, <2>3 DEF GoodStep, TailMoves
<1>3. ASSUME NEW p \in Producers, p # t
      PROVE  PushKnows(p)'
  BY <1>1, <1>3, ThreadKinds DEF GoodStep, OthersSame, QueueShape, PushKnows
<1>4. ASSUME NEW c \in Consumers, c # t
      PROVE  PopKnows(c)'
  BY <1>1, <1>2, <1>4, ThreadKinds DEF GoodStep, OthersSame, QueueShape, PopKnows, Behind
<1> QED BY <1>3, <1>4 DEF GoodStep

\* Altogether: a step that changes no node keeps the invariant.
LEMMA GoodStepKeeps ==
    ASSUME ClassicSetting, QueueShape, NEW t \in Threads, GoodStep(t)
    PROVE  QueueShape'
<1>1. TypeOK' /\ twice' = {}
  BY DEF GoodStep, QueueShape, DeletedOnce
<1>2. LineInv' /\ OwnerInv' /\ LoadedInv'
  BY GoodStepLine, GoodStepOwner, GoodStepLoaded
<1>3. DeletedOnce'
  BY <1>1, <1>2, AllDeleted
<1> QED BY <1>1, <1>2, <1>3, GoodStepKnows DEF QueueShape

\* Push reads tail and the link of the node it points to, and compares.
LEMMA PushReads ==
    ASSUME ClassicSetting, QueueShape, NEW p \in Producers, PushLoadTail(p) \/ PushLoadNext(p) \/ PushCheck(p)
    PROVE  QueueShape'
<1> USE ThreadKinds DEF nodeVars, localVars, Goto
<1>0. TypeOK /\ PushKnows(p) /\ p \in Threads
  BY DEF QueueShape
<1>1. ~gone
  BY <1>0 DEF QueueShape, LineInv, PushLoadTail, PushLoadNext, PushCheck
<1>2. CASE PushLoadTail(p)
  <2>1. tail \in Pointers /\ tail[1] # NULL
    BY <1>0, LocalTypes, PointerType
  <2>2. TypeOK'
    BY <1>0, <1>2, <2>1 DEF PushLoadTail, TypeOK
  <2>3. PushKnows(p)'
    BY <1>0, <1>2, <2>1 DEF PushLoadTail, TypeOK, PushKnows
  <2>4. GoodStep(p)
    BY <1>0, <1>1, <1>2, <2>2, <2>3 DEF PushLoadTail, TypeOK, GoodStep, OthersSame, TailMoves, HasNew
  <2> QED BY <1>0, <2>4, GoodStepKeeps
<1>3. CASE PushLoadNext(p)
  <2>1. next[old_tail[p][1]] \in Pointers
    BY <1>0, <1>3, LocalTypes DEF PushLoadNext, PushKnows
  <2>2. TypeOK'
    BY <1>0, <1>3, <2>1 DEF PushLoadNext, TypeOK
  <2>3. PushKnows(p)'
    BY <1>0, <1>3, <2>1 DEF PushLoadNext, TypeOK, PushKnows
  <2>4. GoodStep(p)
    BY <1>0, <1>1, <1>3, <2>2, <2>3 DEF PushLoadNext, TypeOK, GoodStep, OthersSame, TailMoves, HasNew
  <2> QED BY <1>0, <2>4, GoodStepKeeps
<1>4. CASE PushCheck(p)
  <2>2. TypeOK'
    BY <1>0, <1>4 DEF PushCheck, TypeOK
  <2>3. PushKnows(p)'
    BY <1>0, <1>4 DEF PushCheck, TypeOK, PushKnows
  <2>4. GoodStep(p)
    BY <1>0, <1>1, <1>4, <2>2, <2>3 DEF PushCheck, TypeOK, GoodStep, OthersSame, TailMoves, HasNew
  <2> QED BY <1>0, <2>4, GoodStepKeeps
<1> QED BY <1>2, <1>3, <1>4

\* A compare-exchange of tail moves it to the node behind.
LEMMA CasTailMoves ==
    ASSUME ClassicSetting, QueueShape, ~gone, NEW t \in Threads, NEW n \in Nodes, CasTail(old_tail[t], n),
           old_tail[t][1] # NULL, next[old_tail[t][1]][1] = n
    PROVE  TailMoves /\ tail' \in Nodes \X Nat
<1>0. TypeOK
  BY DEF QueueShape
<1>1. CASE tail # old_tail[t]
  BY <1>0, <1>1 DEF CasTail, TailMoves, TypeOK
<1>2. CASE tail = old_tail[t]
  <2>1. PICK i \in 1..Len(line) : line[i] = tail[1]
    BY NotEmpty DEF InLine
  <2>2. Len(line) \in Nat
    BY <1>0, LocalTypes
  <2>3. next[line[i]][1] = IF i = Len(line) THEN NULL ELSE line[i + 1]
    BY DEF QueueShape, LineInv
  <2>4. i # Len(line) /\ line[i + 1] = n
    BY <1>2, <2>1, <2>3, PointerType
  <2>5. i \in 1..Len(line) - 1
    BY <2>2, <2>4
  <2>6. tail' = <<n, tail[2] + 1>> /\ tail[2] \in Nat
    BY <1>0, <1>2 DEF CasTail, TypeOK
  <2> QED BY <2>1, <2>4, <2>5, <2>6 DEF TailMoves
<1> QED BY <1>1, <1>2

\* Push helps another Push, or swings tail to its own node.
LEMMA PushMovesTail ==
    ASSUME ClassicSetting, QueueShape, NEW p \in Producers, PushHelp(p) \/ PushSwing(p)
    PROVE  QueueShape'
<1> USE ThreadKinds DEF localVars, Goto
<1>0. TypeOK /\ PushKnows(p) /\ p \in Threads
  BY DEF QueueShape
<1>1. ~gone
  BY <1>0 DEF QueueShape, LineInv, PushHelp, PushSwing
<1>2. CASE PushHelp(p)
  <2>1. /\ after[p][1] \in Nodes /\ old_tail[p][1] # NULL
        /\ next[old_tail[p][1]][1] = after[p][1]
    BY <1>0, <1>2, LocalTypes DEF PushHelp, PushKnows
  <2>2. TailMoves /\ tail' \in Nodes \X Nat
    BY <1>0, <1>1, <1>2, <2>1, CasTailMoves DEF PushHelp
  <2>3. TypeOK'
    BY <1>0, <1>2, <2>2 DEF PushHelp, TypeOK
  <2>4. PushKnows(p)'
    BY <1>0, <1>2 DEF PushHelp, TypeOK, PushKnows
  <2>5. GoodStep(p)
    BY <1>0, <1>1, <1>2, <2>2, <2>3, <2>4 DEF PushHelp, TypeOK, GoodStep, OthersSame, HasNew
  <2> QED BY <1>0, <2>5, GoodStepKeeps
<1>3. CASE PushSwing(p)
  <2>1. /\ new_node[p] \in Nodes /\ old_tail[p][1] # NULL
        /\ next[old_tail[p][1]][1] = new_node[p]
    BY <1>0, <1>3 DEF PushSwing, PushKnows, TypeOK
  <2>2. TailMoves /\ tail' \in Nodes \X Nat
    BY <1>0, <1>1, <1>3, <2>1, CasTailMoves DEF PushSwing
  <2>3. TypeOK'
    BY <1>0, <1>3, <2>2, PointerType DEF PushSwing, Forget, TypeOK
  <2>4. PushKnows(p)'
    BY <1>0, <1>3 DEF PushSwing, TypeOK, PushKnows
  <2>5. GoodStep(p)
    BY <1>0, <1>1, <1>3, <2>2, <2>3, <2>4 DEF PushSwing, Forget, TypeOK, GoodStep, OthersSame, HasNew
  <2> QED BY <1>0, <2>5, GoodStepKeeps
<1> QED BY <1>2, <1>3

\* TryPop reads head, tail and the link of the first node.
LEMMA PopReads ==
    ASSUME ClassicSetting, QueueShape, NEW c \in Consumers, PopLoadHead(c) \/ PopLoadTail(c) \/ PopLoadNext(c)
    PROVE  QueueShape'
<1> USE ThreadKinds DEF nodeVars, localVars, Goto
<1>0. TypeOK /\ PopKnows(c) /\ c \in Threads
  BY DEF QueueShape
<1>1. ~gone
  BY <1>0 DEF QueueShape, LineInv, PopLoadHead, PopLoadTail, PopLoadNext
<1>2. /\ line # <<>> /\ Len(line) \in Nat \ {0} /\ 1 \in 1..Len(line)
      /\ head[1] = line[1] /\ InLine(head[1]) /\ InLine(tail[1])
  BY <1>1, NotEmpty
<1>3. CASE PopLoadHead(c)
  <2>1. head \in Pointers /\ head[1] # NULL
    BY <1>0, <1>2, LocalTypes, PointerType DEF TypeOK
  <2>2. TypeOK'
    BY <1>0, <1>3, <2>1 DEF PopLoadHead, TypeOK
  <2>3. PopKnows(c)'
    BY <1>0, <1>3, <2>1 DEF PopLoadHead, TypeOK, PopKnows
  <2>4. GoodStep(c)
    BY <1>0, <1>1, <1>3, <2>2, <2>3 DEF PopLoadHead, TypeOK, GoodStep, OthersSame, TailMoves, HasOld
  <2> QED BY <1>0, <2>4, GoodStepKeeps
<1>4. CASE PopLoadTail(c)
  <2>1. tail \in Pointers /\ tail[1] # NULL
    BY <1>0, LocalTypes, PointerType
  <2>2. TypeOK'
    BY <1>0, <1>4, <2>1 DEF PopLoadTail, TypeOK
  <2>3. PopKnows(c)'
    BY <1>0, <1>4, <2>1 DEF PopLoadTail, TypeOK, PopKnows, Behind
  <2>4. GoodStep(c)
    BY <1>0, <1>1, <1>4, <2>2, <2>3 DEF PopLoadTail, TypeOK, GoodStep, OthersSame, TailMoves, HasOld
  <2> QED BY <1>0, <2>4, GoodStepKeeps
<1>5. CASE PopLoadNext(c)
  <2> DEFINE link == next[old_head[c][1]]
  <2>1. old_head[c][1] \in Nodes /\ link \in Pointers /\ pc[c] = "load_next"
    BY <1>0, <1>5, LocalTypes DEF PopLoadNext, PopKnows
  <2>2. TypeOK'
    BY <1>0, <1>5, <2>1 DEF PopLoadNext, TypeOK
  <2>3. head = old_head[c] /\ ~Behind(c) => link[1] # NULL
    <3> SUFFICES ASSUME head = old_head[c], ~Behind(c), link[1] = NULL PROVE FALSE
      OBVIOUS
    <3>1. tail[1] # head[1]
      BY <1>0, <2>1 DEF PopKnows
    <3>2. line[1] = old_head[c][1]
      BY <1>2
    <3>3. Len(line) = 1
      BY <1>1, <3>2, FirstLink, PointerType
    <3>4. PICK i \in 1..Len(line) : line[i] = tail[1]
      BY <1>2 DEF InLine
    <3>5. i = 1
      BY <3>3
    <3> QED BY <1>2, <3>1, <3>4, <3>5
  <2>4. /\ pc' = [pc EXCEPT ![c] = "check"] /\ after' = [after EXCEPT ![c] = link]
        /\ answer' = IF link[1] = NULL /\ head = old_head[c] THEN [answer EXCEPT ![c] = None] ELSE answer
        /\ UNCHANGED <<head, tail, next, value, old_head, old_tail, res>>
    BY <1>5 DEF PopLoadNext
  <2>5. PopKnows(c)'
    BY <1>0, <2>1, <2>3, <2>4 DEF TypeOK, PopKnows, Behind
  <2>6. GoodStep(c)
    BY <1>0, <1>1, <1>5, <2>2, <2>5 DEF PopLoadNext, TypeOK, GoodStep, OthersSame, TailMoves, HasOld
  <2> QED BY <1>0, <2>6, GoodStepKeeps
<1> QED BY <1>3, <1>4, <1>5

\* TryPop decides what to do, helps, reads the value, or fails.
LEMMA PopDecides ==
    ASSUME ClassicSetting, QueueShape, NEW c \in Consumers,
           PopEmpty(c) \/ PopCheck(c) \/ PopValue(c) \/ (PopCas(c) /\ head # old_head[c])
    PROVE  QueueShape'
<1> USE ThreadKinds DEF nodeVars, localVars, Goto
<1>0. TypeOK /\ PopKnows(c) /\ c \in Threads
  BY DEF QueueShape
<1>1. ~gone
  BY <1>0 DEF QueueShape, LineInv, PopEmpty, PopCheck, PopValue, PopCas
<1>2. CASE PopEmpty(c)
  <2>1. TypeOK'
    BY <1>0, <1>2, PointerType DEF PopEmpty, Forget, TypeOK
  <2>2. PopKnows(c)'
    BY <1>0, <1>2 DEF PopEmpty, TypeOK, PopKnows
  <2>3. GoodStep(c)
    BY <1>0, <1>1, <1>2, <2>1, <2>2 DEF PopEmpty, Forget, TypeOK, GoodStep, OthersSame, TailMoves, HasOld
  <2> QED BY <1>0, <2>3, GoodStepKeeps
<1>3. CASE PopCheck(c)
  <2>1. TypeOK'
    BY <1>0, <1>3 DEF PopCheck, TypeOK
  <2>2. PopKnows(c)'
    BY <1>0, <1>3 DEF PopCheck, TypeOK, PopKnows, Behind
  <2>3. GoodStep(c)
    BY <1>0, <1>1, <1>3, <2>1, <2>2 DEF PopCheck, TypeOK, GoodStep, OthersSame, TailMoves, HasOld
  <2> QED BY <1>0, <2>3, GoodStepKeeps
<1>4. CASE PopValue(c)
  <2>1. after[c][1] \in Nodes
    BY <1>0, <1>4, LocalTypes DEF PopValue, PopKnows
  <2>2. TypeOK'
    BY <1>0, <1>4, <2>1 DEF PopValue, TypeOK
  <2>3. PopKnows(c)'
    BY <1>0, <1>4 DEF PopValue, TypeOK, PopKnows, Behind
  <2>4. GoodStep(c)
    BY <1>0, <1>1, <1>4, <2>2, <2>3 DEF PopValue, TypeOK, GoodStep, OthersSame, TailMoves, HasOld
  <2> QED BY <1>0, <2>4, GoodStepKeeps
<1>5. CASE PopCas(c) /\ head # old_head[c]
  <2>1. TypeOK'
    <3>1. /\ pc' = [pc EXCEPT ![c] = "again"]
          /\ UNCHANGED <<head, tail, next, value, live, twice, line, pushed, gone, answer>>
          /\ UNCHANGED <<old_head, old_tail, after, new_node, res>>
      BY <1>5 DEF PopCas
    <3> QED BY <1>0, <3>1 DEF TypeOK
  <2>2. PopKnows(c)'
    BY <1>0, <1>5 DEF PopCas, TypeOK, PopKnows, Behind
  <2>3. GoodStep(c)
    BY <1>0, <1>1, <1>5, <2>1, <2>2 DEF PopCas, TypeOK, GoodStep, OthersSame, TailMoves, HasOld
  <2> QED BY <1>0, <2>3, GoodStepKeeps
<1> QED BY <1>2, <1>3, <1>4, <1>5

\* TryPop finds tail behind and moves it.
LEMMA PopMovesTail ==
    ASSUME ClassicSetting, QueueShape, NEW c \in Consumers, PopHelp(c)
    PROVE  QueueShape'
<1> USE ThreadKinds DEF localVars, Goto
<1>0. TypeOK /\ PopKnows(c) /\ c \in Threads
  BY DEF QueueShape
<1>1. ~gone
  BY <1>0 DEF QueueShape, LineInv, PopHelp
<1>2. /\ after[c][1] \in Nodes /\ old_tail[c][1] # NULL
      /\ next[old_tail[c][1]][1] = after[c][1]
  BY <1>0, LocalTypes DEF PopHelp, PopKnows, Behind
<1>3. TailMoves /\ tail' \in Nodes \X Nat
  BY <1>0, <1>1, <1>2, CasTailMoves DEF PopHelp
<1>4. TypeOK'
  BY <1>0, <1>3 DEF PopHelp, TypeOK
<1>5. PopKnows(c)'
  BY <1>0 DEF PopHelp, TypeOK, PopKnows
<1>6. GoodStep(c)
  BY <1>0, <1>1, <1>3, <1>4, <1>5 DEF PopHelp, TypeOK, GoodStep, OthersSame, HasOld
<1> QED BY <1>0, <1>6, GoodStepKeeps

\* The allocator hands Push a node to which no thread refers: nobody's pointers
\* change.
LEMMA PushNewKeeps ==
    ASSUME ClassicSetting, QueueShape, NEW p \in Producers, PushNew(p), FreshOnly
    PROVE  QueueShape'
<1> USE ThreadKinds
<1>0. TypeOK /\ PushKnows(p) /\ p \in Threads
  BY DEF QueueShape
<1>1. PICK n \in Nodes \ live : Construct(p, n)
  BY DEF PushNew
<1>2. /\ ~gone /\ pc[p] = "idle" /\ pc' = [pc EXCEPT ![p] = "load_tail"]
      /\ live' = live \union {n} /\ next' = [next EXCEPT ![n] = Null]
      /\ value' = [value EXCEPT ![n] = pushed + 1] /\ new_node' = [new_node EXCEPT ![p] = n]
      /\ pushed < MaxPushes /\ pushed' = pushed + 1
      /\ UNCHANGED <<head, tail, twice, old_head, old_tail, after, res, gone, line, answer>>
  BY <1>1 DEF Construct, Goto
<1>3. pushed + 1 \in 1..MaxPushes /\ pushed + 1 \in 0..MaxPushes
  BY <1>0, <1>2 DEF ClassicSetting, TypeOK
<1>4. TypeOK'
  <2>1. /\ next' \in [Nodes -> Pointers] /\ value' \in [Nodes -> 1..MaxPushes \union {None}]
        /\ live' \subseteq Nodes /\ new_node' \in [Producers -> Nodes \union {NULL}]
    BY <1>0, <1>2, <1>3, PointerType DEF TypeOK
  <2> QED BY <1>0, <1>2, <1>3, <2>1 DEF TypeOK
<1>5. \A m : InLine(m)' <=> InLine(m)
  BY <1>2 DEF InLine
<1>6. \A t \in Threads : old_head[t][1] # n /\ old_tail[t][1] # n /\ after[t][1] # n
  BY <1>2 DEF FreshOnly, Referred
<1>7. ~InLine(n)
  BY DEF QueueShape, OwnerInv, InLine
<1>8. \A m \in Nodes : m # n => next'[m] = next[m] /\ value'[m] = value[m]
  BY <1>0, <1>2 DEF TypeOK
<1>9. next'[n] = Null /\ value'[n] = pushed + 1
  BY <1>0, <1>2 DEF TypeOK
<1>10. \A q \in Producers : q # p => (HasNew(q)' <=> HasNew(q)) /\ new_node'[q] = new_node[q]
  BY <1>0, <1>2 DEF TypeOK, HasNew
<1>11. HasNew(p)' /\ ~HasNew(p) /\ new_node'[p] = n
  BY <1>0, <1>2 DEF TypeOK, HasNew
<1>12. \A c \in Consumers : (HasOld(c)' <=> HasOld(c)) /\ old_head'[c] = old_head[c]
  BY <1>0, <1>2 DEF TypeOK, HasOld
<1>13. \A t \in Threads : \A m : Loaded(t, m)' <=> Loaded(t, m)
  BY <1>2 DEF Loaded
<1>14. LineInv'
  <2>1. \A i \in 1..Len(line) : line[i] # n /\ line[i] \in Nodes
    BY <1>0, <1>7, LocalTypes DEF InLine
  <2>2. \A i \in 1..Len(line) : next'[line[i]] = next[line[i]]
    BY <1>8, <2>1
  <2> QED BY <1>2, <2>2 DEF QueueShape, LineInv
<1>15. OwnerInv'
  <2>1. ASSUME NEW q \in Producers, HasNew(q)'
        PROVE  /\ new_node'[q] \in live' /\ ~InLine(new_node[q])'
               /\ next'[new_node'[q]] = Null /\ value'[new_node'[q]] \in 1..MaxPushes
               /\ \A t \in Threads : ~Loaded(t, new_node[q])'
    <3>1. CASE q = p
      BY <1>2, <1>3, <1>5, <1>6, <1>7, <1>9, <1>11, <1>13, <3>1 DEF Loaded
    <3>2. CASE q # p
      <4>1. HasNew(q) /\ new_node'[q] = new_node[q] /\ new_node[q] \in live
        BY <1>10, <2>1, <3>2 DEF QueueShape, OwnerInv
      <4>2. new_node[q] \in Nodes /\ new_node[q] # n
        BY <1>0, <1>1, <4>1 DEF TypeOK
      <4> QED BY <1>2, <1>5, <1>8, <1>13, <4>1, <4>2 DEF QueueShape, OwnerInv, Loaded
    <3> QED BY <3>1, <3>2
  <2>2. ASSUME NEW q \in Producers, NEW r \in Producers, HasNew(q)', HasNew(r)', new_node'[q] = new_node'[r]
        PROVE  q = r
    BY <1>1, <1>10, <1>11, <2>2 DEF QueueShape, OwnerInv
  <2>3. \A c \in Consumers : HasOld(c)' =>
          /\ old_head'[c][1] \in live' /\ ~InLine(old_head[c][1])'
          /\ \A d \in Consumers : HasOld(d)' /\ old_head'[d][1] = old_head'[c][1] => d = c
    BY <1>2, <1>5, <1>12 DEF QueueShape, OwnerInv
  <2>4. \A i \in 1..Len(line') : line'[i] \in live' /\ (i > 1 => value'[line'[i]] \in 1..MaxPushes)
    BY <1>0, <1>2, <1>3, <1>8, <1>9, LocalTypes DEF QueueShape, OwnerInv
  <2>5. ASSUME NEW m \in live'
        PROVE  \/ InLine(m)'
               \/ \E q \in Producers : HasNew(q)' /\ new_node'[q] = m
               \/ \E c \in Consumers : HasOld(c)' /\ old_head'[c][1] = m
    <3>1. CASE m = n
      BY <1>11, <3>1
    <3>2. CASE m \in live
      BY <1>5, <1>10, <1>11, <1>12, <3>2 DEF QueueShape, OwnerInv
    <3> QED BY <1>2, <3>1, <3>2
  <2> QED BY <2>1, <2>2, <2>3, <2>4, <2>5 DEF OwnerInv
<1>16. LoadedInv'
  <2>1. ASSUME NEW t \in Threads, NEW m \in Nodes, Loaded(t, m)
        PROVE  InLine(m) \/ next'[m][1] # NULL
    BY <1>6, <1>8, <2>1 DEF QueueShape, LoadedInv, Loaded
  <2>2. \A t \in Threads : pc'[t] = "idle" => pc[t] = "idle"
    BY <1>0, <1>2 DEF TypeOK
  <2> QED BY <1>2, <1>5, <1>13, <2>1, <2>2 DEF QueueShape, LoadedInv
<1>17. ASSUME NEW q \in Producers PROVE PushKnows(q)'
  <2>1. CASE q = p
    BY <1>0, <1>2, <2>1 DEF TypeOK, PushKnows
  <2>2. CASE q # p
    <3>1. pc'[q] = pc[q] /\ new_node'[q] = new_node[q] /\ after'[q] = after[q] /\ old_tail'[q] = old_tail[q]
      BY <1>0, <1>2, <2>2 DEF TypeOK
    <3>2. old_tail[q][1] # NULL => next'[old_tail[q][1]] = next[old_tail[q][1]]
      BY <1>0, <1>6, <1>8, LocalTypes
    <3> QED BY <3>1, <3>2 DEF QueueShape, PushKnows
  <2> QED BY <2>1, <2>2
<1>18. ASSUME NEW c \in Consumers PROVE PopKnows(c)'
  <2>1. pc'[c] = pc[c] /\ c \in Threads
    BY <1>0, <1>2 DEF TypeOK
  <2>2. old_head[c][1] # NULL => next'[old_head[c][1]] = next[old_head[c][1]]
    BY <1>0, <1>6, <1>8, <2>1, LocalTypes
  <2>3. after[c][1] # NULL => value'[after[c][1]] = value[after[c][1]]
    BY <1>0, <1>6, <1>8, <2>1, LocalTypes
  <2> QED BY <1>2, <2>1, <2>2, <2>3 DEF QueueShape, PopKnows, Behind
<1>19. DeletedOnce'
  BY <1>2, <1>4, <1>14, <1>15, AllDeleted DEF QueueShape, DeletedOnce
<1> QED BY <1>4, <1>14, <1>15, <1>16, <1>17, <1>18, <1>19 DEF QueueShape

\* The compare-exchange that links a new node succeeds at the end of the list,
\* and only when tail points there.
LEMMA LinkAtEnd ==
    ASSUME ClassicSetting, QueueShape, NEW p \in Producers, pc[p] = "link", next[old_tail[p][1]] = after[p]
    PROVE  /\ Len(line) \in Nat \ {0} /\ line[Len(line)] = old_tail[p][1] /\ tail[1] = old_tail[p][1]
           /\ after[p][1] = NULL /\ ~gone /\ old_tail[p][1] \in Nodes
<1>0. TypeOK /\ PushKnows(p) /\ p \in Threads
  BY ThreadKinds DEF QueueShape
<1>1. ~gone
  BY <1>0 DEF QueueShape, LineInv
<1>2. after[p][1] = NULL /\ old_tail[p][1] \in Nodes
  BY <1>0, LocalTypes DEF PushKnows
<1>3. InLine(old_tail[p][1])
  BY <1>0, <1>2 DEF QueueShape, LoadedInv, Loaded
<1>4. PICK k \in 1..Len(line) : line[k] = old_tail[p][1]
  BY <1>3 DEF InLine
<1>5. Len(line) \in Nat \ {0}
  BY <1>1, NotEmpty
<1>6. k = Len(line)
  <2> SUFFICES ASSUME k # Len(line) PROVE FALSE
    OBVIOUS
  <2>1. line[k + 1] = NULL
    BY <1>2, <1>4 DEF QueueShape, LineInv
  <2>2. k + 1 \in 1..Len(line)
    BY <1>5
  <2> QED BY <1>0, <2>1, <2>2, LocalTypes, PointerType
<1>7. PICK j \in 1..Len(line) : line[j] = tail[1]
  BY <1>1, NotEmpty DEF InLine
<1>8. k <= j
  BY <1>0, <1>4, <1>7 DEF QueueShape, LoadedInv
<1>9. j = k
  BY <1>5, <1>6, <1>8
<1> QED BY <1>1, <1>2, <1>4, <1>5, <1>6, <1>7, <1>9

\* Push links its node.
LEMMA PushLinkKeeps ==
    ASSUME ClassicSetting, QueueShape, NEW p \in Producers, PushLink(p)
    PROVE  QueueShape'
<1> USE ThreadKinds
<1>0. TypeOK /\ PushKnows(p) /\ p \in Threads
  BY DEF QueueShape
<1> DEFINE x == old_tail[p][1]
           n == new_node[p]
           end == Len(line)
<1>1. CASE next[x] # after[p]
  <2>1. /\ pc[p] = "link" /\ pc' = [pc EXCEPT ![p] = "load_tail"]
        /\ UNCHANGED <<nodeVars, localVars, pushed, gone, line, answer>>
    BY <1>1 DEF PushLink, Goto, nodeVars
  <2>2. TypeOK' /\ ~gone
    BY <1>0, <2>1 DEF QueueShape, LineInv, TypeOK, nodeVars, localVars
  <2>3. PushKnows(p)'
    BY <1>0, <2>1 DEF TypeOK, PushKnows
  <2>4. GoodStep(p)
    BY <1>0, <2>1, <2>2, <2>3 DEF TypeOK, GoodStep, OthersSame, TailMoves, HasNew, nodeVars, localVars
  <2> QED BY <1>0, <2>4, GoodStepKeeps
<1>2. CASE next[x] = after[p]
  <2>1. /\ pc[p] = "link" /\ pc' = [pc EXCEPT ![p] = "swing"]
        /\ next' = [next EXCEPT ![x] = <<n, after[p][2] + 1>>] /\ line' = Append(line, n)
        /\ UNCHANGED <<head, tail, value, live, twice, gone, pushed, answer>>
        /\ UNCHANGED <<old_head, old_tail, after, new_node, res>>
    BY <1>2 DEF PushLink, Goto, localVars
  <2>2. /\ end \in Nat \ {0} /\ line[end] = x /\ tail[1] = x /\ after[p][1] = NULL /\ ~gone /\ x \in Nodes
    BY <1>2, <2>1, LinkAtEnd
  <2>3. HasNew(p) /\ ~HasNew(p)' /\ pc'[p] = "swing"
    BY <1>0, <2>1 DEF TypeOK, HasNew
  <2>4. /\ n \in live /\ n \in Nodes /\ ~InLine(n) /\ next[n] = Null /\ value[n] \in 1..MaxPushes
        /\ \A t \in Threads : old_head[t][1] # n /\ old_tail[t][1] # n
    BY <1>0, <2>3 DEF QueueShape, OwnerInv, TypeOK, Loaded
  <2>5. /\ line' \in Seq(Nodes) /\ Len(line') = end + 1 /\ line'[end + 1] = n /\ line' # <<>>
        /\ \A i \in 1..end : line'[i] = line[i]
    BY <1>0, <2>1, <2>4, AppendAt DEF TypeOK
  <2>6. <<n, after[p][2] + 1>> \in Pointers /\ <<n, after[p][2] + 1>>[1] = n
    <3>1. after[p][2] \in Nat
      BY <1>0, LocalTypes, PointerType
    <3> QED BY <2>4, <3>1, PointerType
  <2>7. /\ \A m \in Nodes : m # x => next'[m] = next[m]
        /\ next'[x][1] = n
    BY <1>0, <2>1, <2>2, <2>6 DEF TypeOK
  <2>8. TypeOK'
    BY <1>0, <2>1, <2>5, <2>6 DEF TypeOK
  <2>9. \A m : InLine(m)' <=> InLine(m) \/ m = n
    <3>1. \A m : InLine(m)' => InLine(m) \/ m = n
      BY <2>2, <2>5 DEF InLine
    <3>2. \A m : InLine(m) => InLine(m)'
      BY <2>2, <2>5 DEF InLine
    <3>3. \A m : m = n => InLine(m)'
      BY <2>2, <2>5 DEF InLine
    <3> QED BY <3>1, <3>2, <3>3
  <2>10. x # n /\ InLine(x) /\ end \in 1..end
    BY <2>2, <2>4 DEF InLine
  <2>11. LineInv'
    <3>1. ASSUME NEW i \in 1..end + 1, NEW j \in 1..end + 1, line'[i] = line'[j]
          PROVE  i = j
      <4>1. \A k \in 1..end : line[k] # n
        BY <2>4 DEF InLine
      <4>2. CASE i \in 1..end /\ j \in 1..end
        BY <2>5, <3>1, <4>2 DEF QueueShape, LineInv
      <4>3. CASE i = end + 1 \/ j = end + 1
        BY <2>2, <2>5, <3>1, <4>1, <4>3
      <4> QED BY <2>2, <4>2, <4>3
    <3>2. ASSUME NEW i \in 1..end + 1
          PROVE  next'[line'[i]][1] = IF i = end + 1 THEN NULL ELSE line'[i + 1]
      <4>1. CASE i = end + 1
        BY <2>4, <2>5, <2>7, <2>10, <4>1, PointerType
      <4>2. CASE i = end
        BY <2>2, <2>5, <2>7, <2>10, <4>2
      <4>3. CASE i \in 1..end /\ i # end
        <5>1. i + 1 \in 1..end /\ i # end + 1
          BY <2>2, <4>3
        <5>2. next[line[i]][1] = line[i + 1]
          BY <4>3 DEF QueueShape, LineInv
        <5>3. line[i] # x /\ line[i] \in Nodes
          BY <1>0, <2>2, <2>10, <4>3, LocalTypes DEF QueueShape, LineInv
        <5> QED BY <2>5, <2>7, <4>3, <5>1, <5>2, <5>3
      <4> QED BY <2>2, <4>1, <4>2, <4>3
    <3>3. head'[1] = line'[1]
      <4>1. 1 \in 1..end /\ head[1] = line[1]
        BY <2>2, NotEmpty
      <4> QED BY <2>1, <2>5, <4>1
    <3>4. \E i \in 1..Len(line') : i + 1 >= Len(line') /\ line'[i] = tail'[1]
      <4>1. end \in 1..Len(line') /\ end + 1 >= Len(line') /\ line'[end] = tail'[1]
        BY <2>1, <2>2, <2>5, <2>10
      <4> QED BY <4>1
    <3> QED BY <2>1, <2>2, <2>5, <3>1, <3>2, <3>3, <3>4 DEF LineInv
  <2>12. OwnerInv'
    <3>1. \A q \in Producers : q # p => (HasNew(q)' <=> HasNew(q))
      BY <1>0, <2>1 DEF TypeOK, HasNew
    <3>2. \A c \in Consumers : HasOld(c)' <=> HasOld(c)
      BY <1>0, <2>1 DEF TypeOK, HasOld
    <3>3. \A t \in Threads : \A m : Loaded(t, m)' <=> Loaded(t, m)
      BY <2>1 DEF Loaded
    <3>4. ASSUME NEW q \in Producers, HasNew(q)'
          PROVE  /\ new_node'[q] \in live' /\ ~InLine(new_node[q])'
                 /\ next'[new_node'[q]] = Null /\ value'[new_node'[q]] \in 1..MaxPushes
                 /\ \A r \in Producers : HasNew(r)' /\ new_node'[r] = new_node'[q] => r = q
                 /\ \A t \in Threads : ~Loaded(t, new_node[q])'
      <4>1. q # p /\ HasNew(q)
        BY <2>3, <3>1, <3>4
      <4>2. /\ new_node[q] # n /\ new_node[q] \in live /\ new_node[q] \in Nodes /\ ~InLine(new_node[q])
            /\ new_node[q] # x
        BY <1>0, <2>3, <2>10, <4>1 DEF QueueShape, OwnerInv, TypeOK
      <4>3. \A r \in Producers : HasNew(r)' => HasNew(r)
        BY <2>3, <3>1
      <4> QED BY <2>1, <2>7, <2>9, <3>3, <4>1, <4>2, <4>3 DEF QueueShape, OwnerInv, Loaded
    <3>5. \A c \in Consumers : HasOld(c)' =>
            /\ old_head'[c][1] \in live' /\ ~InLine(old_head[c][1])'
            /\ \A d \in Consumers : HasOld(d)' /\ old_head'[d][1] = old_head'[c][1] => d = c
      BY <2>1, <2>4, <2>9, <3>2 DEF QueueShape, OwnerInv
    <3>6. ASSUME NEW i \in 1..Len(line')
          PROVE  line'[i] \in live' /\ (i > 1 => value'[line'[i]] \in 1..MaxPushes)
      <4>1. CASE i = end + 1
        BY <2>1, <2>4, <2>5, <4>1
      <4>2. CASE i \in 1..end
        BY <2>1, <2>5, <4>2 DEF QueueShape, OwnerInv
      <4> QED BY <2>2, <2>5, <4>1, <4>2
    <3>7. ASSUME NEW m \in live'
          PROVE  \/ InLine(m)'
                 \/ \E q \in Producers : HasNew(q)' /\ new_node'[q] = m
                 \/ \E c \in Consumers : HasOld(c)' /\ old_head'[c][1] = m
      BY <2>1, <2>9, <3>1, <3>2 DEF QueueShape, OwnerInv
    <3> QED BY <3>4, <3>5, <3>6, <3>7 DEF OwnerInv
  <2>13. LoadedInv'
    <3>1. ASSUME NEW t \in Threads, NEW m \in Nodes, Loaded(t, m)'
          PROVE  InLine(m)' \/ next'[m][1] # NULL
      BY <2>1, <2>7, <2>9, <2>10, <3>1 DEF QueueShape, LoadedInv, Loaded
    <3>2. \A t \in Threads : InLine(old_head[t][1])' => old_head'[t] = head'
      BY <2>1, <2>4, <2>9 DEF QueueShape, LoadedInv
    <3>3. ASSUME NEW t \in Threads, NEW i \in 1..Len(line'), NEW j \in 1..Len(line'),
                 line'[i] = old_tail'[t][1], line'[j] = tail'[1]
          PROVE  i <= j
      <4>1. i # end + 1 /\ j # end + 1
        BY <2>1, <2>2, <2>4, <2>5, <2>10, <3>3
      <4>2. i \in 1..end /\ j \in 1..end
        BY <2>2, <2>5, <4>1
      <4> QED BY <2>1, <2>5, <3>3, <4>2 DEF QueueShape, LoadedInv
    <3>4. \A t \in Threads : pc'[t] = "idle" => pc[t] = "idle"
      BY <1>0, <2>1 DEF TypeOK
    <3> QED BY <2>1, <3>1, <3>2, <3>3, <3>4 DEF QueueShape, LoadedInv
  <2>14. ASSUME NEW q \in Producers PROVE PushKnows(q)'
    <3>1. CASE q = p
      BY <2>1, <2>2, <2>3, <2>4, <2>7, <3>1, PointerType DEF PushKnows
    <3>2. CASE q # p
      <4>1. pc'[q] = pc[q]
        BY <1>0, <2>1, <3>2 DEF TypeOK
      <4>2. old_tail[q][1] # NULL => old_tail[q][1] \in Nodes
        BY <1>0, LocalTypes
      <4>3. CASE old_tail[q][1] = x
        BY <1>2, <2>1, <2>2, <4>1, <4>3 DEF QueueShape, PushKnows
      <4>4. CASE old_tail[q][1] # x
        BY <2>1, <2>7, <4>1, <4>2, <4>4 DEF QueueShape, PushKnows
      <4> QED BY <4>3, <4>4
    <3> QED BY <3>1, <3>2
  <2>15. ASSUME NEW c \in Consumers PROVE PopKnows(c)'
    <3>1. pc'[c] = pc[c] /\ c \in Threads
      BY <1>0, <2>1 DEF TypeOK
    <3>2. old_head[c][1] # NULL => old_head[c][1] \in Nodes
      BY <1>0, <3>1, LocalTypes
    <3>3. pc[c] \in {"check", "help", "value", "cas"} =>
            after'[c][1] = NULL \/ after'[c] = next'[old_head'[c][1]]
      <4>1. CASE old_head[c][1] = x
        BY <1>2, <2>1, <2>2, <3>1, <4>1 DEF QueueShape, PopKnows
      <4>2. CASE old_head[c][1] # x
        BY <2>1, <2>7, <3>1, <3>2, <4>2 DEF QueueShape, PopKnows
      <4> QED BY <4>1, <4>2
    <3> QED BY <2>1, <3>1, <3>3 DEF QueueShape, PopKnows, Behind
  <2>16. DeletedOnce'
    BY <2>1, <2>8, <2>11, <2>12, AllDeleted DEF QueueShape, DeletedOnce
  <2> QED BY <2>8, <2>11, <2>12, <2>13, <2>14, <2>15, <2>16 DEF QueueShape
<1> QED BY <1>1, <1>2

\* The compare-exchange of head succeeds only with the link of the first node:
\* head has not been that pointer twice.
LEMMA HeadMovesOn ==
    ASSUME ClassicSetting, QueueShape, NEW c \in Consumers, pc[c] = "cas", head = old_head[c]
    PROVE  /\ ~gone /\ 2 \in 1..Len(line) /\ line[2] \in Nodes /\ after[c][1] = line[2]
           /\ line[1] \in Nodes /\ head[1] = line[1] /\ tail[1] # line[1]
           /\ res[c] = value[line[2]]
<1>0. TypeOK /\ PopKnows(c) /\ c \in Threads
  BY ThreadKinds DEF QueueShape
<1>1. ~gone
  BY <1>0 DEF QueueShape, LineInv
<1>2. 1 \in 1..Len(line) /\ head[1] = line[1] /\ line[1] \in Nodes
  BY <1>0, <1>1, NotEmpty, LocalTypes
<1>3. after[c][1] # NULL /\ after[c] = next[line[1]] /\ res[c] = value[after[c][1]] /\ tail[1] # line[1]
  BY <1>0, <1>2 DEF PopKnows
<1>4. 2 \in 1..Len(line) /\ line[2] \in Nodes /\ after[c][1] = line[2]
  BY <1>1, <1>3, FirstLink
<1> QED BY <1>1, <1>2, <1>3, <1>4

\* TryPop moves head: it has a node to delete, and the next one is the dummy node.
LEMMA PopCasKeeps ==
    ASSUME ClassicSetting, QueueShape, NEW c \in Consumers, PopCas(c), head = old_head[c]
    PROVE  QueueShape'
<1> USE ThreadKinds
<1>0. TypeOK /\ PopKnows(c) /\ c \in Threads
  BY DEF QueueShape
<1> DEFINE x == line[1]
           y == line[2]
           n == Len(line)
<1>1. /\ pc[c] = "cas" /\ pc' = [pc EXCEPT ![c] = "delete"]
      /\ head' = <<after[c][1], head[2] + 1>> /\ line' = Tail(line)
      /\ answer' = [answer EXCEPT ![c] = res[c]]
      /\ UNCHANGED <<tail, next, value, live, twice, gone, pushed>>
      /\ UNCHANGED <<old_head, old_tail, after, new_node, res>>
  BY DEF PopCas, Goto, localVars
<1>2. /\ ~gone /\ 2 \in 1..n /\ y \in Nodes /\ after[c][1] = y
      /\ x \in Nodes /\ head[1] = x /\ tail[1] # x
  BY <1>1, HeadMovesOn
<1>3. line # <<>> /\ line \in Seq(Nodes) /\ n \in Nat
  BY <1>0, <1>2, NotEmpty, LocalTypes DEF TypeOK
<1>4. /\ line' \in Seq(Nodes) /\ n \in Nat \ {0} /\ Len(line') = n - 1 /\ 1 \in 1..n
      /\ \A i \in 1..n - 1 : line'[i] = line[i + 1]
  BY <1>1, <1>3, TailAt
<1>5. n >= 2 /\ n - 1 \in Nat \ {0} /\ 1 \in 1..n - 1 /\ line'[1] = y
  <2>1. n >= 2
    BY <1>2
  <2>0. \A k \in Nat : k >= 2 => k - 1 \in Nat \ {0} /\ 1 \in 1..k - 1
    OBVIOUS
  <2>2. n - 1 \in Nat \ {0} /\ 1 \in 1..n - 1
    BY <1>3, <2>0, <2>1
  <2>3. line'[1] = line[1 + 1]
    BY <1>4, <2>2
  <2> QED BY <2>1, <2>2, <2>3
<1>6. line' # <<>>
  BY <1>4, <1>5, EmptySeq
<1>7. head' = <<y, head[2] + 1>> /\ head'[1] = y /\ head' \in Pointers
  BY <1>0, <1>1, <1>2, PointerType DEF TypeOK
<1>8. TypeOK'
  BY <1>0, <1>1, <1>4, <1>7 DEF TypeOK
<1>9. \A i, j \in 1..n : line[i] = line[j] => i = j
  BY DEF QueueShape, LineInv
<1>10. \A i \in 1..n - 1 : i + 1 \in 1..n /\ i \in 1..n /\ i + 1 # 1
  BY <1>4
<1>11. \A m : InLine(m)' <=> InLine(m) /\ m # x
  <2>1. ASSUME NEW m, InLine(m)' PROVE InLine(m) /\ m # x
    <3>1. PICK i \in 1..n - 1 : line[i + 1] = m
      BY <1>4, <2>1 DEF InLine
    <3>2. m # x
      BY <1>4, <1>9, <1>10, <3>1
    <3> QED BY <1>10, <3>1, <3>2 DEF InLine
  <2>2. ASSUME NEW m, InLine(m), m # x PROVE InLine(m)'
    <3>1. PICK i \in 1..n : line[i] = m
      BY <2>2 DEF InLine
    <3>2. i - 1 \in 1..n - 1 /\ (i - 1) + 1 = i
      BY <1>4, <2>2, <3>1
    <3>3. line'[i - 1] = m
      BY <1>4, <3>1, <3>2
    <3> QED BY <1>4, <3>2, <3>3 DEF InLine
  <2> QED BY <2>1, <2>2
<1>12. LineInv'
  <2>1. ASSUME NEW i \in 1..n - 1, NEW j \in 1..n - 1, line'[i] = line'[j]
        PROVE  i = j
    <3>1. i + 1 = j + 1
      BY <1>4, <1>9, <1>10, <2>1
    <3> QED BY <3>1, <1>4
  <2>2. ASSUME NEW i \in 1..n - 1
        PROVE  next'[line'[i]][1] = IF i = n - 1 THEN NULL ELSE line'[i + 1]
    <3>1. next[line[i + 1]][1] = IF i + 1 = n THEN NULL ELSE line[(i + 1) + 1]
      BY <1>10 DEF QueueShape, LineInv
    <3>2. CASE i = n - 1
      BY <1>1, <1>4, <3>1, <3>2
    <3>3. CASE i # n - 1
      <4>1. i + 1 \in 1..n - 1 /\ i + 1 # n
        BY <1>4, <3>3
      <4>2. line'[i + 1] = line[(i + 1) + 1]
        BY <1>4, <4>1
      <4> QED BY <1>1, <1>4, <3>1, <3>3, <4>1, <4>2
    <3> QED BY <3>2, <3>3
  <2>3. \E i \in 1..n - 1 : i + 1 >= n - 1 /\ line'[i] = tail'[1]
    <3>1. PICK k \in 1..n : k + 1 >= n /\ line[k] = tail[1]
      BY <1>2 DEF QueueShape, LineInv
    <3>2. k - 1 \in 1..n - 1 /\ (k - 1) + 1 = k /\ (k - 1) + 1 >= n - 1
      BY <1>2, <1>4, <3>1
    <3>3. line'[k - 1] = tail'[1]
      BY <1>1, <1>4, <3>1, <3>2
    <3> QED BY <3>2, <3>3
  <2>4. gone' = FALSE
    BY <1>0, <1>1, <1>2 DEF TypeOK
  <2> QED BY <1>4, <1>5, <1>6, <1>7, <2>1, <2>2, <2>3, <2>4 DEF LineInv
<1>13. \A q \in Producers : (HasNew(q)' <=> HasNew(q)) /\ q \in Threads
  BY <1>0, <1>1 DEF TypeOK, HasNew
<1>14. HasOld(c)' /\ ~HasOld(c) /\ old_head'[c] = old_head[c] /\ old_head[c][1] = x
  BY <1>0, <1>1, <1>2 DEF TypeOK, HasOld
<1>15. \A d \in Consumers : d # c => (HasOld(d)' <=> HasOld(d))
  BY <1>0, <1>1 DEF TypeOK, HasOld
<1>16. InLine(x) /\ x \in live
  BY <1>4 DEF QueueShape, OwnerInv, InLine
<1>17. OwnerInv'
  <2>1. \A t \in Threads : \A m : Loaded(t, m)' <=> Loaded(t, m)
    BY <1>1 DEF Loaded
  <2>2. ASSUME NEW q \in Producers, HasNew(q)'
        PROVE  /\ new_node'[q] \in live' /\ ~InLine(new_node[q])'
               /\ next'[new_node'[q]] = Null /\ value'[new_node'[q]] \in 1..MaxPushes
               /\ \A r \in Producers : HasNew(r)' /\ new_node'[r] = new_node'[q] => r = q
               /\ \A t \in Threads : ~Loaded(t, new_node[q])'
    BY <1>1, <1>11, <1>13, <2>1, <2>2 DEF QueueShape, OwnerInv, Loaded
  <2>3. ASSUME NEW d \in Consumers, HasOld(d)'
        PROVE  old_head'[d][1] \in live' /\ ~InLine(old_head[d][1])'
    BY <1>1, <1>11, <1>14, <1>15, <1>16, <2>3 DEF QueueShape, OwnerInv
  <2>4. ASSUME NEW d \in Consumers, NEW e \in Consumers,
               HasOld(d)', HasOld(e)', old_head'[e][1] = old_head'[d][1]
        PROVE  e = d
    BY <1>1, <1>14, <1>15, <1>16, <2>4 DEF QueueShape, OwnerInv
  <2>5. ASSUME NEW i \in 1..Len(line')
        PROVE  line'[i] \in live' /\ (i > 1 => value'[line'[i]] \in 1..MaxPushes)
    <3>1. i \in 1..n - 1 /\ i + 1 \in 1..n /\ i + 1 > 1 /\ line'[i] = line[i + 1]
      BY <1>4, <1>10
    <3> QED BY <1>1, <3>1 DEF QueueShape, OwnerInv
  <2>6. ASSUME NEW m \in live'
        PROVE  \/ InLine(m)'
               \/ \E q \in Producers : HasNew(q)' /\ new_node'[q] = m
               \/ \E d \in Consumers : HasOld(d)' /\ old_head'[d][1] = m
    <3>1. CASE m = x
      BY <1>14, <3>1
    <3>2. CASE m # x
      BY <1>1, <1>11, <1>13, <1>14, <1>15, <3>2 DEF QueueShape, OwnerInv
    <3> QED BY <3>1, <3>2
  <2> QED BY <2>2, <2>3, <2>4, <2>5, <2>6 DEF OwnerInv
<1>18. next[x][1] = y /\ y # x
  <2>1. next[line[1]][1] = line[2]
    BY <1>2, <1>5, FirstLink
  <2>2. 1 # 2
    OBVIOUS
  <2> QED BY <1>2, <1>4, <1>9, <2>1, <2>2
<1>19. LoadedInv'
  <2>1. ASSUME NEW t \in Threads, NEW m \in Nodes, Loaded(t, m)'
        PROVE  InLine(m)' \/ next'[m][1] # NULL
    BY <1>1, <1>2, <1>11, <1>18, <2>1, PointerType DEF QueueShape, LoadedInv, Loaded
  <2>2. ASSUME NEW t \in Threads, InLine(old_head[t][1])'
        PROVE  old_head'[t] = head'
    BY <1>1, <1>2, <1>11, <2>2 DEF QueueShape, LoadedInv
  <2>3. ASSUME NEW t \in Threads, NEW i \in 1..Len(line'), NEW j \in 1..Len(line'),
               line'[i] = old_tail'[t][1], line'[j] = tail'[1]
        PROVE  i <= j
    <3>1. i + 1 \in 1..n /\ j + 1 \in 1..n /\ line[i + 1] = old_tail[t][1] /\ line[j + 1] = tail[1]
      BY <1>1, <1>4, <1>10, <2>3
    <3>2. i + 1 <= j + 1
      BY <3>1 DEF QueueShape, LoadedInv
    <3> QED BY <1>4, <3>2
  <2>4. \A t \in Threads : pc'[t] = "idle" => pc[t] = "idle"
    BY <1>0, <1>1 DEF TypeOK
  <2> QED BY <1>1, <2>1, <2>2, <2>3, <2>4 DEF QueueShape, LoadedInv
<1>20. ASSUME NEW q \in Producers PROVE PushKnows(q)'
  <2>1. pc'[q] = pc[q]
    BY <1>0, <1>1 DEF TypeOK
  <2> QED BY <1>1, <2>1 DEF QueueShape, PushKnows
<1>21. ASSUME NEW d \in Consumers PROVE PopKnows(d)'
  <2>1. CASE d = c
    BY <1>0, <1>1, <1>2, <2>1, PointerType DEF TypeOK, PopKnows
  <2>2. CASE d # c
    <3>1. pc'[d] = pc[d] /\ d \in Threads /\ answer'[d] = answer[d]
      BY <1>0, <1>1, <2>2 DEF TypeOK
    <3>2. head' # old_head[d]
      <4> SUFFICES ASSUME head' = old_head[d] PROVE FALSE
        OBVIOUS
      <4>1. InLine(y)
        BY <1>2 DEF InLine
      <4>2. old_head[d] = head
        BY <1>7, <3>1, <4>1 DEF QueueShape, LoadedInv
      <4> QED BY <1>2, <1>7, <1>18, <4>2
    <3> QED BY <1>1, <3>1, <3>2 DEF QueueShape, PopKnows, Behind
  <2> QED BY <2>1, <2>2
<1>22. DeletedOnce'
  BY <1>1, <1>8, <1>12, <1>17, AllDeleted DEF QueueShape, DeletedOnce
<1> QED BY <1>8, <1>12, <1>17, <1>19, <1>20, <1>21, <1>22 DEF QueueShape

\* TryPop deletes the node that it has unlinked.
LEMMA PopDeleteKeeps ==
    ASSUME ClassicSetting, QueueShape, NEW c \in Consumers, PopDelete(c)
    PROVE  QueueShape'
<1> USE ThreadKinds
<1>0. TypeOK /\ PopKnows(c) /\ c \in Threads
  BY DEF QueueShape
<1> DEFINE x == old_head[c][1]
<1>1. /\ pc[c] = "delete" /\ pc' = [pc EXCEPT ![c] = "idle"]
      /\ live' = live \ {x} /\ twice' = twice \union ({x} \ live)
      /\ res' = [res EXCEPT ![c] = None]
      /\ old_head' = [old_head EXCEPT ![c] = Null] /\ old_tail' = [old_tail EXCEPT ![c] = Null]
      /\ after' = [after EXCEPT ![c] = Null]
      /\ UNCHANGED <<head, tail, next, value, new_node, pushed, gone, line, answer>>
  BY DEF PopDelete, Goto, Delete, Forget
<1>2. HasOld(c) /\ ~HasOld(c)' /\ ~gone
  BY <1>0, <1>1 DEF TypeOK, HasOld, QueueShape, LineInv
<1>3. x \in live /\ ~InLine(x)
  BY <1>2 DEF QueueShape, OwnerInv
<1>4. TypeOK'
  BY <1>0, <1>1, <1>3, PointerType DEF TypeOK
<1>5. \A m : InLine(m)' <=> InLine(m)
  BY <1>1 DEF InLine
<1>6. \A t \in Threads : t # c =>
        pc'[t] = pc[t] /\ old_head'[t] = old_head[t] /\ old_tail'[t] = old_tail[t] /\ after'[t] = after[t]
  BY <1>0, <1>1 DEF TypeOK
<1>7. pc'[c] = "idle" /\ old_head'[c] = Null /\ old_tail'[c] = Null
  BY <1>0, <1>1 DEF TypeOK
<1>8. \A t \in Threads, m \in Nodes : Loaded(t, m)' => Loaded(t, m)
  BY <1>6, <1>7, PointerType DEF Loaded
<1>9. LineInv'
  BY <1>1, <1>2 DEF QueueShape, LineInv
<1>10. OwnerInv'
  <2>1. \A q \in Producers : (HasNew(q)' <=> HasNew(q)) /\ new_node'[q] = new_node[q]
    BY <1>0, <1>1 DEF TypeOK, HasNew
  <2>2. \A d \in Consumers : d # c => (HasOld(d)' <=> HasOld(d)) /\ old_head'[d] = old_head[d]
    BY <1>6 DEF HasOld
  <2>3. ASSUME NEW q \in Producers, HasNew(q)'
        PROVE  /\ new_node'[q] \in live' /\ ~InLine(new_node[q])'
               /\ next'[new_node'[q]] = Null /\ value'[new_node'[q]] \in 1..MaxPushes
               /\ \A r \in Producers : HasNew(r)' /\ new_node'[r] = new_node'[q] => r = q
               /\ \A t \in Threads : ~Loaded(t, new_node[q])'
    <3>1. HasNew(q) /\ new_node[q] \in live /\ new_node[q] \in Nodes /\ ~Loaded(c, new_node[q])
      BY <1>0, <2>1, <2>3 DEF QueueShape, OwnerInv, TypeOK
    <3>2. new_node[q] # x
      BY <3>1 DEF Loaded
    <3>3. \A t \in Threads : ~Loaded(t, new_node[q])'
      <4>1. \A t \in Threads : ~Loaded(t, new_node[q])
        BY <3>1 DEF QueueShape, OwnerInv
      <4> QED BY <1>8, <2>1, <3>1, <4>1 DEF Loaded
    <3> QED BY <1>1, <1>5, <2>1, <3>1, <3>2, <3>3 DEF QueueShape, OwnerInv
  <2>4. ASSUME NEW d \in Consumers, HasOld(d)'
        PROVE  /\ old_head'[d][1] \in live' /\ ~InLine(old_head[d][1])'
               /\ \A e \in Consumers : HasOld(e)' /\ old_head'[e][1] = old_head'[d][1] => e = d
    <3>1. d # c /\ HasOld(d) /\ old_head[d][1] # x
      BY <1>2, <2>2, <2>4 DEF QueueShape, OwnerInv
    <3> QED BY <1>1, <1>2, <1>5, <2>2, <3>1 DEF QueueShape, OwnerInv
  <2>5. \A i \in 1..Len(line') : line'[i] \in live' /\ (i > 1 => value'[line'[i]] \in 1..MaxPushes)
    BY <1>1, <1>3 DEF QueueShape, OwnerInv, InLine
  <2>6. ASSUME NEW m \in live'
        PROVE  \/ InLine(m)'
               \/ \E q \in Producers : HasNew(q)' /\ new_node'[q] = m
               \/ \E d \in Consumers : HasOld(d)' /\ old_head'[d][1] = m
    BY <1>1, <1>5, <2>1, <2>2 DEF QueueShape, OwnerInv
  <2> QED BY <2>3, <2>4, <2>5, <2>6 DEF OwnerInv
<1>11. LoadedInv'
  <2>1. ASSUME NEW t \in Threads, NEW m \in Nodes, Loaded(t, m)'
        PROVE  InLine(m)' \/ next'[m][1] # NULL
    BY <1>1, <1>5, <1>8, <2>1 DEF QueueShape, LoadedInv
  <2>2. ~InLine(NULL) /\ \A i \in 1..Len(line) : line[i] # NULL
    BY <1>0, LocalTypes, PointerType
  <2>3. ASSUME NEW t \in Threads, InLine(old_head[t][1])'
        PROVE  old_head'[t] = head'
    BY <1>1, <1>5, <1>6, <1>7, <2>2, <2>3, PointerType DEF QueueShape, LoadedInv
  <2>4. ASSUME NEW t \in Threads, NEW i \in 1..Len(line'), NEW j \in 1..Len(line'),
               line'[i] = old_tail'[t][1], line'[j] = tail'[1]
        PROVE  i <= j
    <3>1. CASE t = c
      BY <1>1, <1>7, <2>2, <2>4, <3>1, PointerType
    <3>2. CASE t # c
      BY <1>1, <1>6, <2>4, <3>2 DEF QueueShape, LoadedInv
    <3> QED BY <3>1, <3>2
  <2>5. \A t \in Threads : pc'[t] = "idle" => old_head'[t] = Null /\ old_tail'[t] = Null
    BY <1>6, <1>7 DEF QueueShape, LoadedInv
  <2> QED BY <2>1, <2>3, <2>4, <2>5 DEF LoadedInv
<1>12. ASSUME NEW q \in Producers PROVE PushKnows(q)'
  <2>1. q # c /\ q \in Threads /\ new_node'[q] = new_node[q]
    BY <1>1
  <2> QED BY <1>1, <1>6, <2>1 DEF QueueShape, PushKnows
<1>13. ASSUME NEW d \in Consumers PROVE PopKnows(d)'
  <2>1. CASE d = c
    BY <1>7, <2>1 DEF PopKnows
  <2>2. CASE d # c
    <3>1. d \in Threads /\ res'[d] = res[d] /\ answer'[d] = answer[d]
      BY <1>0, <1>1, <2>2 DEF TypeOK
    <3> QED BY <1>1, <1>6, <2>2, <3>1 DEF QueueShape, PopKnows, Behind
  <2> QED BY <2>1, <2>2
<1>14. DeletedOnce'
  <2>1. twice' = {}
    BY <1>1, <1>3 DEF QueueShape, DeletedOnce
  <2> QED BY <1>4, <1>9, <1>10, <2>1, AllDeleted
<1> QED BY <1>4, <1>9, <1>10, <1>11, <1>12, <1>13, <1>14 DEF QueueShape

\* The destructor deletes the first node.
LEMMA DestroyKeeps ==
    ASSUME ClassicSetting, QueueShape, Destroy
    PROVE  QueueShape'
<1> USE ThreadKinds
<1> DEFINE x == head[1]
           n == Len(line)
<1>0. TypeOK
  BY DEF QueueShape
<1>1. /\ \A t \in Threads : pc[t] = "idle"
      /\ x # NULL /\ head' = next[x] /\ gone' = TRUE /\ line' = Tail(line)
      /\ live' = live \ {x} /\ twice' = twice \union ({x} \ live)
      /\ UNCHANGED <<tail, next, value, pc, pushed, answer>>
      /\ UNCHANGED <<old_head, old_tail, after, new_node, res>>
  BY DEF Destroy, Delete, localVars
<1>2. line # <<>> /\ x = line[1] /\ line \in Seq(Nodes)
  BY <1>0, <1>1 DEF QueueShape, LineInv, TypeOK
<1>3. /\ line' \in Seq(Nodes) /\ n \in Nat \ {0} /\ Len(line') = n - 1 /\ 1 \in 1..n
      /\ \A i \in 1..n - 1 : line'[i] = line[i + 1]
      /\ x \in Nodes
  BY <1>1, <1>2, TailAt
<1>4. TypeOK'
  BY <1>0, <1>1, <1>3 DEF TypeOK
<1>5. x \in live
  BY <1>2, <1>3 DEF QueueShape, OwnerInv
<1>6. \A i, j \in 1..n : line[i] = line[j] => i = j
  BY DEF QueueShape, LineInv
<1>7. \A i \in 1..n - 1 : i + 1 \in 1..n /\ i \in 1..n /\ i + 1 # 1
  BY <1>3
<1>8. LineInv'
  <2>1. ASSUME NEW i \in 1..n - 1, NEW j \in 1..n - 1, line'[i] = line'[j]
        PROVE  i = j
    <3>1. i + 1 = j + 1
      BY <1>3, <1>6, <1>7, <2>1
    <3> QED BY <3>1, <1>3
  <2>2. ASSUME NEW i \in 1..n - 1
        PROVE  next'[line'[i]][1] = IF i = n - 1 THEN NULL ELSE line'[i + 1]
    <3>1. next[line[i + 1]][1] = IF i + 1 = n THEN NULL ELSE line[(i + 1) + 1]
      BY <1>7 DEF QueueShape, LineInv
    <3>2. CASE i = n - 1
      BY <1>1, <1>3, <3>1, <3>2
    <3>3. CASE i # n - 1
      <4>1. i + 1 \in 1..n - 1 /\ i + 1 # n
        BY <1>3, <3>3
      <4>2. line'[i + 1] = line[(i + 1) + 1]
        BY <1>3, <4>1
      <4> QED BY <1>1, <1>3, <3>1, <3>3, <4>1, <4>2
    <3> QED BY <3>2, <3>3
  <2>3. head'[1] = IF line' = <<>> THEN NULL ELSE line'[1]
    <3>1. next[line[1]][1] = IF 1 = n THEN NULL ELSE line[1 + 1]
      BY <1>3 DEF QueueShape, LineInv
    <3>2. CASE n = 1
      <4>1. line' = <<>>
        BY <1>3, <3>2, EmptySeq
      <4> QED BY <1>1, <1>2, <3>1, <3>2, <4>1
    <3>3. CASE n # 1
      <4>1. 1 \in 1..n - 1 /\ n - 1 # 0
        BY <1>3, <3>3
      <4>2. line' # <<>>
        BY <1>3, <4>1, EmptySeq
      <4>3. line'[1] = line[1 + 1]
        BY <1>3, <4>1
      <4> QED BY <1>1, <1>2, <3>1, <3>3, <4>2, <4>3
    <3> QED BY <3>2, <3>3
  <2> QED BY <1>1, <1>3, <2>1, <2>2, <2>3 DEF LineInv
<1>9. \A p \in Producers : ~HasNew(p) /\ ~HasNew(p)'
  BY <1>1 DEF HasNew
<1>10. \A c \in Consumers : ~HasOld(c) /\ ~HasOld(c)'
  BY <1>1 DEF HasOld
<1>11. OwnerInv'
  <2>1. ASSUME NEW i \in 1..Len(line')
        PROVE  line'[i] \in live' /\ (i > 1 => value'[line'[i]] \in 1..MaxPushes)
    <3>1. i + 1 \in 1..n /\ i + 1 > 1 /\ line'[i] = line[i + 1] /\ line[i + 1] # x
      BY <1>2, <1>3, <1>6, <1>7
    <3> QED BY <1>1, <3>1 DEF QueueShape, OwnerInv
  <2>2. ASSUME NEW m \in live' PROVE InLine(m)'
    <3>1. InLine(m) /\ m # x
      BY <1>1, <1>9, <1>10 DEF QueueShape, OwnerInv
    <3>2. PICK i \in 1..n : line[i] = m
      BY <3>1 DEF InLine
    <3>3. i - 1 \in 1..n - 1 /\ (i - 1) + 1 = i
      BY <1>2, <1>3, <3>1, <3>2
    <3>4. line'[i - 1] = m
      BY <1>3, <3>2, <3>3
    <3> QED BY <1>3, <3>3, <3>4 DEF InLine
  <2> QED BY <1>9, <1>10, <2>1, <2>2 DEF OwnerInv
<1>12. LoadedInv'
  <2>1. \A t \in Threads : old_head'[t] = Null /\ old_tail'[t] = Null
    BY <1>1 DEF QueueShape, LoadedInv
  <2>2. ~InLine(NULL)' /\ \A i \in 1..Len(line') : line'[i] # NULL
    <3>1. \A i \in 1..Len(line') : line'[i] \in Nodes
      BY <1>3, ElementOfSeq
    <3> QED BY <3>1, PointerType DEF InLine
  <2>3. \A t \in Threads, m \in Nodes : ~Loaded(t, m)'
    BY <2>1, PointerType DEF Loaded
  <2>4. \A t \in Threads : ~InLine(old_head[t][1])'
    BY <2>1, <2>2, PointerType DEF InLine
  <2>5. \A t \in Threads : \A i \in 1..Len(line') : line'[i] # old_tail'[t][1]
    BY <2>1, <2>2, PointerType
  <2> QED BY <2>1, <2>3, <2>4, <2>5 DEF LoadedInv
<1>13. ASSUME NEW q \in Producers PROVE PushKnows(q)'
  BY <1>1 DEF PushKnows
<1>14. ASSUME NEW d \in Consumers PROVE PopKnows(d)'
  BY <1>1 DEF PopKnows
<1>15. DeletedOnce'
  <2>1. twice' = {}
    BY <1>1, <1>5 DEF QueueShape, DeletedOnce
  <2> QED BY <1>4, <1>8, <1>11, <2>1, AllDeleted
<1> QED BY <1>4, <1>8, <1>11, <1>12, <1>13, <1>14, <1>15 DEF QueueShape

\* The constructor makes a queue with a dummy node.
LEMMA InitShape ==
    ASSUME ClassicSetting, Init
    PROVE  QueueShape
<1> USE ThreadKinds
<1>1. PICK dummy \in Nodes : /\ head = <<dummy, 0>> /\ tail = <<dummy, 0>>
                             /\ live = {dummy} /\ line = <<dummy>>
  BY DEF Init
<1>2. line \in Seq(Nodes) /\ Len(line) = 1 /\ line[1] = dummy /\ line # <<>>
  BY <1>1
<1>3. head \in Pointers /\ head[1] = dummy /\ tail[1] = dummy /\ dummy # NULL
  BY <1>1, PointerType
<1>4. \A t \in Threads : pc[t] = "idle" /\ old_head[t] = Null /\ old_tail[t] = Null
  BY DEF Init
<1>5. \A n \in Nodes : next[n] = Null
  BY DEF Init
<1>6. TypeOK
  <2>1. tail \in Nodes \X Nat /\ live \subseteq Nodes
    BY <1>1
  <2>2. pushed \in 0..MaxPushes /\ gone \in BOOLEAN /\ twice \subseteq Nodes
    <3>1. pushed = 0 /\ gone = FALSE /\ twice = {}
      BY DEF Init
    <3>2. 0 \in 0..MaxPushes
      BY DEF ClassicSetting
    <3> QED BY <3>1, <3>2
  <2>3. /\ next \in [Nodes -> Pointers] /\ old_head \in [Threads -> Pointers]
        /\ old_tail \in [Threads -> Pointers] /\ after \in [Threads -> Pointers]
    BY PointerType DEF Init
  <2>4. /\ value \in [Nodes -> 1..MaxPushes \union {None}]
        /\ new_node \in [Producers -> Nodes \union {NULL}]
        /\ res \in [Consumers -> 1..MaxPushes \union {None}]
        /\ answer \in [Consumers -> 1..MaxPushes \union {None}]
        /\ pc \in [Threads -> {"idle"}]
    BY DEF Init
  <2> QED BY <1>2, <1>3, <1>4, <2>1, <2>2, <2>3, <2>4 DEF TypeOK
<1>7. \A i \in 1..Len(line) : i = 1
  BY <1>2
<1>8. 1 \in 1..Len(line)
  BY <1>2
<1>9. LineInv
  <2>1. \A i \in 1..Len(line) : next[line[i]][1] = NULL /\ i = Len(line)
    BY <1>2, <1>5, <1>7, PointerType
  <2>2. 1 + 1 >= Len(line)
    BY <1>2
  <2>3. ~gone
    BY DEF Init
  <2> QED BY <1>2, <1>3, <1>7, <1>8, <2>1, <2>2, <2>3 DEF LineInv
<1>10. OwnerInv
  <2>1. InLine(dummy)
    BY <1>2, <1>8 DEF InLine
  <2>2. \A i \in 1..Len(line) : line[i] \in live /\ ~(i > 1)
    BY <1>1, <1>2, <1>7
  <2> QED BY <1>1, <1>4, <2>1, <2>2 DEF OwnerInv, HasNew, HasOld
<1>11. DeletedOnce
  BY <1>3 DEF Init, DeletedOnce
<1>12. LoadedInv
  <2>1. ~InLine(NULL) /\ \A i \in 1..Len(line) : line[i] # NULL
    BY <1>6, LocalTypes, PointerType
  <2> QED BY <1>4, <2>1, PointerType DEF LoadedInv, Loaded
<1>13. \A p \in Producers : PushKnows(p)
  BY <1>4 DEF PushKnows
<1>14. \A c \in Consumers : PopKnows(c)
  BY <1>4 DEF PopKnows
<1> QED BY <1>6, <1>9, <1>10, <1>11, <1>12, <1>13, <1>14 DEF QueueShape

\* No step breaks the invariant.
LEMMA StepKeeps ==
    ASSUME ClassicSetting, QueueShape, [Next]_vars, [FreshOnly]_vars
    PROVE  QueueShape'
<1>1. CASE UNCHANGED vars
  BY <1>1 DEF vars, nodeVars, localVars, QueueShape, TypeOK, LineInv, OwnerInv, DeletedOnce, LoadedInv,
              PushKnows, PopKnows, InLine, HasNew, HasOld, Loaded, Behind
<1>2. CASE \E p \in Producers : PushStep(p)
  <2>1. PICK p \in Producers : PushStep(p)
    BY <1>2
  <2>2. CASE FreshOnly
    BY <2>1, <2>2, PushNewKeeps, PushReads, PushLinkKeeps, PushMovesTail DEF PushStep
  <2> QED BY <1>1, <2>2
<1>3. CASE \E c \in Consumers : PopStep(c)
  <2>1. PICK c \in Consumers : PopStep(c)
    BY <1>3
  <2> QED BY <2>1, PopReads, PopDecides, PopMovesTail, PopCasKeeps, PopDeleteKeeps DEF PopStep
<1>4. CASE Destroy
  BY <1>4, DestroyKeeps
<1> QED BY <1>1, <1>2, <1>3, <1>4 DEF Next, Terminated

\* With an allocator that hands out no node to which a thread refers, the queue
\* keeps the shape that the comment of the class promises, deletes every node
\* once, and no compare-exchange of Push and TryPop succeeds with a stale pointer,
\* for any number of threads and nodes.
THEOREM QueueShapeInvariance ==
    ASSUME ClassicSetting
    PROVE  Spec /\ [][FreshOnly]_vars => []QueueShape
<1>1. Init => QueueShape
  BY InitShape
<1>2. QueueShape /\ [Next]_vars /\ [FreshOnly]_vars => QueueShape'
  BY StepKeeps
<1> QED BY <1>1, <1>2, PTL DEF Spec

\* With such an allocator the counters do avoid the ABA problem in Push: its
\* compare-exchange on `next' succeeds only at the end of the list.
THEOREM LinksAtEndInvariance ==
    ASSUME ClassicSetting
    PROVE  Spec /\ [][FreshOnly]_vars => []LinksAtEnd
<1>1. QueueShape => LinksAtEnd
  <2> SUFFICES ASSUME QueueShape, NEW p \in Producers, pc[p] = "link", next[old_tail[p][1]] = after[p]
               PROVE  line # <<>> /\ line[Len(line)] = old_tail[p][1]
    BY DEF LinksAtEnd
  <2>1. line[Len(line)] = old_tail[p][1] /\ ~gone
    BY LinkAtEnd
  <2> QED BY <2>1, NotEmpty
<1> QED BY <1>1, QueueShapeInvariance, PTL

\* The elements of the queue, as the refinement sees them.
Items == IF gone THEN <<>> ELSE [i \in 1..Len(line) - 1 |-> value[line[i + 1]]]

\* The values behind the first node of a list.
LEMMA ValuesSeq ==
    ASSUME NEW l \in Seq(Nodes), l # <<>>, NEW v,
           \A i \in 1..Len(l) : i > 1 => v[l[i]] \in 1..MaxPushes,
           NEW s, s = [i \in 1..Len(l) - 1 |-> v[l[i + 1]]]
    PROVE  /\ s \in Seq(1..MaxPushes) /\ Len(s) = Len(l) - 1
           /\ Len(l) \in Nat \ {0}
           /\ \A i \in 1..Len(l) - 1 : s[i] = v[l[i + 1]]
<1> DEFINE n == Len(l)
<1>1. n \in Nat \ {0} /\ n - 1 \in Nat
  BY EmptySeq
<1>2. \A i \in 1..n - 1 : i + 1 \in 1..n /\ i + 1 > 1
  BY <1>1
<1>3. s \in [1..n - 1 -> 1..MaxPushes]
  BY <1>2
<1>4. s \in Seq(1..MaxPushes)
  BY <1>1, <1>3, SeqDef
<1>5. Len(s) = n - 1
  BY <1>1, <1>3, <1>4, LenProperties
<1> QED BY <1>1, <1>4, <1>5

\* Items is a sequence with one element for each node behind the dummy node.
LEMMA ItemsSeq ==
    ASSUME ClassicSetting, QueueShape, ~gone
    PROVE  /\ Items \in Seq(1..MaxPushes) /\ Len(Items) = Len(line) - 1
           /\ Len(line) \in Nat \ {0}
           /\ \A i \in 1..Len(line) - 1 : Items[i] = value[line[i + 1]]
<1>1. line \in Seq(Nodes) /\ line # <<>>
  BY NotEmpty DEF QueueShape, TypeOK
<1>2. \A i \in 1..Len(line) : i > 1 => value[line[i]] \in 1..MaxPushes
  BY DEF QueueShape, OwnerInv
<1>3. Items = [i \in 1..Len(line) - 1 |-> value[line[i + 1]]]
  BY DEF Items
<1> QED BY <1>1, <1>2, <1>3, ValuesSeq

\* Linking a node enqueues its value.
LEMMA LinkEnqueues ==
    ASSUME ClassicSetting, QueueShape, QueueShape', NEW p \in Producers, PushLink(p), next[old_tail[p][1]] = after[p]
    PROVE  Fifo!Next
<1> DEFINE n == Len(line)
           v == value[new_node[p]]
<1>0. TypeOK /\ p \in Threads
  BY ThreadKinds DEF QueueShape
<1>1. /\ pc[p] = "link" /\ line' = Append(line, new_node[p])
      /\ UNCHANGED <<value, gone, answer>>
  BY DEF PushLink, Goto
<1>2. ~gone /\ ~gone'
  BY <1>1, LinkAtEnd
<1>3. new_node[p] \in live /\ v \in 1..MaxPushes /\ new_node[p] \in Nodes
  BY <1>0, <1>1 DEF QueueShape, OwnerInv, HasNew, TypeOK
<1>4. /\ line' \in Seq(Nodes) /\ n \in Nat /\ Len(line') = n + 1
      /\ \A i \in 1..n : line'[i] = line[i]
      /\ line'[n + 1] = new_node[p]
  BY <1>0, <1>1, <1>3, AppendAt DEF TypeOK
<1>5. /\ Items \in Seq(1..MaxPushes) /\ Len(Items) = n - 1 /\ n \in Nat \ {0}
      /\ \A i \in 1..n - 1 : Items[i] = value[line[i + 1]]
  BY <1>2, ItemsSeq
<1>6. /\ Items' \in Seq(1..MaxPushes) /\ Len(Items') = (n + 1) - 1
      /\ \A i \in 1..(n + 1) - 1 : Items'[i] = value'[line'[i + 1]]
  <2>1. line' \in Seq(Nodes) /\ line' # <<>>
    BY <1>1, <1>4, <1>3, AppendAt, <1>0 DEF TypeOK
  <2>2. \A i \in 1..Len(line') : i > 1 => value'[line'[i]] \in 1..MaxPushes
    BY DEF QueueShape, OwnerInv
  <2>3. Items' = [i \in 1..Len(line') - 1 |-> value'[line'[i + 1]]]
    BY <1>2 DEF Items
  <2>4. /\ Items' \in Seq(1..MaxPushes) /\ Len(Items') = Len(line') - 1
        /\ \A i \in 1..Len(line') - 1 : Items'[i] = value'[line'[i + 1]]
    BY <2>1, <2>2, <2>3, ValuesSeq
  <2> QED BY <1>4, <2>4
<1>7. /\ Append(Items, v) \in Seq(1..MaxPushes) /\ Len(Append(Items, v)) = (n - 1) + 1
      /\ \A i \in 1..n - 1 : Append(Items, v)[i] = Items[i]
      /\ Append(Items, v)[(n - 1) + 1] = v
  BY <1>3, <1>5, AppendAt
<1>8. Items' = Append(Items, v)
  <2>1. ASSUME NEW i \in 1..n PROVE Items'[i] = Append(Items, v)[i]
    <3>1. Items'[i] = value[line'[i + 1]]
      BY <1>1, <1>5, <1>6
    <3>2. CASE i = n
      BY <1>4, <1>5, <1>7, <3>1, <3>2
    <3>3. CASE i # n
      <4>1. i \in 1..n - 1 /\ i + 1 \in 1..n
        BY <1>5, <3>3
      <4> QED BY <1>4, <1>5, <1>7, <3>1, <4>1
    <3> QED BY <3>2, <3>3
  <2>2. Len(Items') = n /\ Len(Append(Items, v)) = n
    BY <1>5, <1>6, <1>7
  <2> QED BY <1>6, <1>7, <2>1, <2>2, SeqEqual
<1>9. PICK w \in 1..MaxPushes : w = v
  BY <1>3
<1>10. Fifo!Enqueue(w)
  BY <1>1, <1>2, <1>8, <1>9 DEF Fifo!Enqueue, Items
<1> QED BY <1>10 DEF Fifo!Next

\* Moving head dequeues the value of the new dummy node.
LEMMA CasDequeues ==
    ASSUME ClassicSetting, QueueShape, QueueShape', NEW c \in Consumers, PopCas(c), head = old_head[c]
    PROVE  Fifo!Next
<1> DEFINE n == Len(line)
<1>0. TypeOK /\ c \in Threads
  BY ThreadKinds DEF QueueShape
<1>1. /\ pc[c] = "cas" /\ line' = Tail(line) /\ answer' = [answer EXCEPT ![c] = res[c]]
      /\ UNCHANGED <<value, gone>>
  BY DEF PopCas, Goto
<1>2. ~gone /\ ~gone' /\ 2 \in 1..n /\ res[c] = value[line[2]]
  BY <1>1, HeadMovesOn
<1>3. line # <<>> /\ line \in Seq(Nodes)
  BY <1>0, <1>2, NotEmpty DEF TypeOK
<1>4. /\ n \in Nat \ {0} /\ Len(line') = n - 1
      /\ \A i \in 1..n - 1 : line'[i] = line[i + 1]
  BY <1>1, <1>3, TailAt
<1>5. /\ Items \in Seq(1..MaxPushes) /\ Len(Items) = n - 1
      /\ \A i \in 1..n - 1 : Items[i] = value[line[i + 1]]
  BY <1>2, ItemsSeq
<1>6. n >= 2 /\ 1 \in 1..n - 1
  <2>1. n >= 2
    BY <1>2
  <2> QED BY <1>4, <2>1
<1>7. /\ Items' \in Seq(1..MaxPushes) /\ Len(Items') = (n - 1) - 1
      /\ \A i \in 1..(n - 1) - 1 : Items'[i] = value'[line'[i + 1]]
  <2>1. line' \in Seq(Nodes) /\ line' # <<>>
    BY <1>4, <1>6, EmptySeq DEF QueueShape, TypeOK
  <2>2. \A i \in 1..Len(line') : i > 1 => value'[line'[i]] \in 1..MaxPushes
    BY DEF QueueShape, OwnerInv
  <2>3. Items' = [i \in 1..Len(line') - 1 |-> value'[line'[i + 1]]]
    BY <1>2 DEF Items
  <2>4. /\ Items' \in Seq(1..MaxPushes) /\ Len(Items') = Len(line') - 1
        /\ \A i \in 1..Len(line') - 1 : Items'[i] = value'[line'[i + 1]]
    BY <2>1, <2>2, <2>3, ValuesSeq
  <2> QED BY <1>4, <2>4
<1>8. Items # <<>>
  <2>1. Len(Items) # 0
    BY <1>4, <1>5, <1>6
  <2> QED BY <2>1, EmptySeq
<1>9. /\ Tail(Items) \in Seq(1..MaxPushes) /\ Len(Tail(Items)) = (n - 1) - 1
      /\ \A i \in 1..(n - 1) - 1 : Tail(Items)[i] = Items[i + 1]
  BY <1>5, <1>8, TailAt
<1>10. Items' = Tail(Items)
  <2>1. ASSUME NEW i \in 1..(n - 1) - 1 PROVE Items'[i] = Tail(Items)[i]
    <3>1. i + 1 \in 1..n - 1
      BY <1>4
    <3>2. Items'[i] = value[line'[i + 1]]
      BY <1>1, <1>7
    <3> QED BY <1>4, <1>5, <1>9, <3>1, <3>2
  <2> QED BY <1>7, <1>9, <2>1, SeqEqual
<1>11. Head(Items) = res[c]
  <2>1. Items[1] = value[line[1 + 1]]
    BY <1>5, <1>6
  <2>2. 1 + 1 = 2
    OBVIOUS
  <2> QED BY <1>2, <1>5, <1>8, <2>1, <2>2
<1>12. Fifo!Dequeue(c)
  BY <1>1, <1>2, <1>8, <1>10, <1>11 DEF Fifo!Dequeue, Items
<1> QED BY <1>12 DEF Fifo!Next

\* A TryPop that reads a null link behind head sees an empty queue.
LEMMA LoadSeesEmpty ==
    ASSUME ClassicSetting, QueueShape, NEW c \in Consumers, PopLoadNext(c)
    PROVE  [Fifo!Next]_(Fifo!vars)
<1> DEFINE link == next[old_head[c][1]]
<1>0. TypeOK /\ c \in Threads /\ PopKnows(c)
  BY ThreadKinds DEF QueueShape
<1>1. /\ pc[c] = "load_next" /\ UNCHANGED <<line, value, gone>>
      /\ answer' = IF link[1] = NULL /\ head = old_head[c] THEN [answer EXCEPT ![c] = None] ELSE answer
  BY DEF PopLoadNext, Goto, nodeVars
<1>2. Items' = Items
  BY <1>1 DEF Items
<1>3. CASE link[1] = NULL /\ head = old_head[c]
  <2>1. ~gone
    BY <1>0, <1>1 DEF QueueShape, LineInv
  <2>2. head[1] = line[1]
    BY <2>1, NotEmpty
  <2>3. Len(line) = 1
    BY <1>3, <2>1, <2>2, FirstLink, PointerType
  <2>4. Items \in Seq(1..MaxPushes) /\ Len(Items) = 0
    BY <2>1, <2>3, ItemsSeq
  <2>5. Items = <<>>
    BY <2>4, EmptySeq
  <2>6. Fifo!DequeueEmpty(c)
    BY <1>1, <1>2, <1>3, <2>1, <2>5 DEF Fifo!DequeueEmpty, Items
  <2> QED BY <2>6 DEF Fifo!Next
<1>4. CASE ~(link[1] = NULL /\ head = old_head[c])
  BY <1>1, <1>2, <1>4 DEF Fifo!vars, Items
<1> QED BY <1>3, <1>4

\* The other steps of Push and TryPop do not change the elements, nor the answers.
LEMMA OtherStepsStutter ==
    ASSUME ClassicSetting, QueueShape,
           \/ \E p \in Producers :
                \/ PushNew(p) \/ PushLoadTail(p) \/ PushLoadNext(p) \/ PushCheck(p)
                \/ (PushLink(p) /\ next[old_tail[p][1]] # after[p]) \/ PushHelp(p) \/ PushSwing(p)
           \/ \E c \in Consumers :
                \/ PopLoadHead(c) \/ PopLoadTail(c) \/ PopEmpty(c) \/ PopCheck(c) \/ PopHelp(c)
                \/ PopValue(c) \/ (PopCas(c) /\ head # old_head[c]) \/ PopDelete(c)
    PROVE  UNCHANGED Fifo!vars
<1>0. TypeOK
  BY DEF QueueShape
<1>1. ASSUME NEW p \in Producers, PushNew(p)
      PROVE  UNCHANGED Fifo!vars
  <2>1. PICK n \in Nodes \ live : Construct(p, n)
    BY <1>1 DEF PushNew
  <2>2. /\ ~gone /\ value' = [value EXCEPT ![n] = pushed + 1]
        /\ UNCHANGED <<gone, line, answer>>
    BY <2>1 DEF Construct
  <2>3. \A i \in 1..Len(line) : value'[line[i]] = value[line[i]]
    BY <1>0, <2>1, <2>2, LocalTypes DEF QueueShape, OwnerInv, TypeOK
  <2>4. Len(line) \in Nat
    BY <1>0, LocalTypes
  <2>5. \A i \in 1..Len(line) - 1 : value'[line[i + 1]] = value[line[i + 1]]
    BY <2>3, <2>4
  <2> QED BY <2>2, <2>5 DEF Fifo!vars
<1>2. ASSUME NEW c \in Consumers, PopEmpty(c)
      PROVE  UNCHANGED Fifo!vars
  <2>1. /\ pc[c] = "check" /\ head = old_head[c] /\ after[c][1] = NULL
        /\ answer' = [answer EXCEPT ![c] = None] /\ UNCHANGED <<line, value, gone>>
    BY <1>2 DEF PopEmpty, Goto, nodeVars
  <2>2. answer[c] = None
    BY <2>1 DEF QueueShape, PopKnows
  <2>3. answer' = answer
    BY <1>0, <2>1, <2>2 DEF TypeOK
  <2> QED BY <2>1, <2>3 DEF Fifo!vars
<1>3. CASE UNCHANGED <<line, value, gone, answer>>
  BY <1>3 DEF Fifo!vars
<1> QED BY <1>1, <1>2, <1>3 DEF PushLoadTail, PushLoadNext, PushCheck, PushLink, PushHelp, PushSwing,
                PopLoadHead, PopLoadTail, PopCheck, PopHelp, PopValue, PopCas, PopDelete, nodeVars

\* With such an allocator Push and TryPop are linearizable, whatever the threads
\* do and however late each of them is with its compare-exchange.
THEOREM FifoRefinement ==
    ASSUME ClassicSetting
    PROVE  Spec /\ [][FreshOnly]_vars => ImplementsFifoQueue
<1>1. Init => Fifo!Init
  <2> SUFFICES ASSUME Init PROVE Fifo!Init
    OBVIOUS
  <2>1. ~gone /\ Len(line) = 1
    BY DEF Init
  <2>2. Items \in Seq(1..MaxPushes) /\ Len(Items) = 0
    BY <2>1, InitShape, ItemsSeq
  <2>3. Items = <<>>
    BY <2>2, EmptySeq
  <2> QED BY <2>1, <2>3 DEF Init, Fifo!Init, Items
<1>2. QueueShape /\ [Next]_vars /\ [FreshOnly]_vars => [Fifo!Next]_(Fifo!vars)
  <2> SUFFICES ASSUME QueueShape, [Next]_vars, [FreshOnly]_vars PROVE [Fifo!Next]_(Fifo!vars)
    OBVIOUS
  <2>0. QueueShape'
    BY StepKeeps
  <2>1. CASE UNCHANGED vars
    BY <2>1 DEF vars, nodeVars, Fifo!vars
  <2>2. ASSUME NEW p \in Producers, PushStep(p)
        PROVE  [Fifo!Next]_(Fifo!vars)
    BY <2>0, <2>2, LinkEnqueues, OtherStepsStutter DEF PushStep
  <2>3. ASSUME NEW c \in Consumers, PopStep(c)
        PROVE  [Fifo!Next]_(Fifo!vars)
    BY <2>0, <2>3, CasDequeues, LoadSeesEmpty, OtherStepsStutter DEF PopStep
  <2>4. CASE Destroy
    <3>1. gone' = TRUE /\ answer' = answer
      BY <2>4 DEF Destroy
    <3>2. CASE gone
      BY <3>1, <3>2 DEF Fifo!vars
    <3>3. CASE ~gone
      BY <3>1, <3>3 DEF Fifo!Next, Fifo!Destroy
    <3> QED BY <3>2, <3>3
  <2> QED BY <2>1, <2>2, <2>3, <2>4 DEF Next, Terminated
<1> QED BY <1>1, <1>2, QueueShapeInvariance, PTL DEF Spec, ImplementsFifoQueue, Fifo!Spec
=============================================================================
