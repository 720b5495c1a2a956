-------------------------- MODULE PktHandoffProofs --------------------------
(***************************************************************************)
(* Theorems about PktHandoff, for a queue of any length: the list and its  *)
(* critical sections implement a bounded first-in first-out channel.       *)
(***************************************************************************)
EXTENDS PktHandoff, SequenceTheorems, FiniteSetTheorems, WellFoundedInduction, TLAPS

-----------------------------------------------------------------------------
(* The list that the queue is.                                              *)

\* The list is exactly the allocated cells, as many as size says, and ends
\* at the tail.
QueueIs(q) ==
    /\ q \in Seq(Cells)
    /\ IsChain(q, head, next)
    /\ \A i, j \in 1 .. Len(q) : q[i] = q[j] => i = j
    /\ live = {q[i] : i \in 1 .. Len(q)}
    /\ Len(q) = size
    /\ q # << >> => tail = q[Len(q)]

\* What each thread knows while it is between two critical sections.
ThreadsKnow ==
    /\ prodPc = "insert" => size < PKT_QUEUE_MAX
    /\ prodPc \in {"check", "insert"} => msg \in Msgs
    /\ consPc = "remove" => size > 0

IInv == TypeOK /\ (\E q \in Seq(Cells) : QueueIs(q)) /\ ThreadsKnow

-----------------------------------------------------------------------------
\* Two lists with the same beginning and the same links are one.
LEMMA ChainUnique ==
    ASSUME NEW h, NEW nx, NULL \notin Cells,
           NEW p \in Seq(Cells), NEW q \in Seq(Cells),
           IsChain(p, h, nx), IsChain(q, h, nx)
    PROVE  p = q
<1>1. /\ Len(p) \in Nat /\ Len(q) \in Nat
      /\ \A i \in 1 .. Len(p) : p[i] \in Cells /\ p[i] # NULL
      /\ \A i \in 1 .. Len(q) : q[i] \in Cells /\ q[i] # NULL
      /\ p # << >> <=> Len(p) # 0
      /\ q # << >> <=> Len(q) # 0
  BY LenProperties, ElementOfSeq, EmptySeq
<1>2. /\ h = IF p = << >> THEN NULL ELSE p[1]
      /\ h = IF q = << >> THEN NULL ELSE q[1]
      /\ \A i \in 1 .. Len(p) : nx[p[i]] = IF i = Len(p) THEN NULL ELSE p[i + 1]
      /\ \A i \in 1 .. Len(q) : nx[q[i]] = IF i = Len(q) THEN NULL ELSE q[i + 1]
  BY DEF IsChain
<1> DEFINE Differ == {i \in Nat : i \in 1 .. Len(p) /\ i \in 1 .. Len(q) /\ p[i] # q[i]}
<1>3. Differ = {}
  <2>1. SUFFICES ASSUME Differ # {} PROVE FALSE
    OBVIOUS
  <2>2. PICK m \in Differ : \A y \in Differ : ~ (<<y, m>> \in OpToRel(<, Nat))
    BY <2>1, NatLessThanWellFounded, WFMin
  <2>3. \A y \in Differ : ~ (y < m)
    BY <2>2 DEF OpToRel
  <2>4. m \in Nat /\ m \in 1 .. Len(p) /\ m \in 1 .. Len(q) /\ p[m] # q[m]
    BY <2>2
  <2>5. CASE m = 1
    BY <1>1, <1>2, <2>4, <2>5
  <2>6. CASE m # 1
    <3>1. m - 1 \in Nat /\ m - 1 \in 1 .. Len(p) /\ m - 1 \in 1 .. Len(q) /\ m - 1 < m
      BY <1>1, <2>4, <2>6
    <3>2. p[m - 1] = q[m - 1]
      BY <2>3, <3>1
    <3>3. nx[p[m - 1]] = p[m] /\ nx[q[m - 1]] = q[m]
      BY <1>1, <1>2, <2>4, <3>1
    <3> QED
      BY <2>4, <3>2, <3>3
  <2> QED
    BY <2>5, <2>6
<1>4. \A i \in 1 .. Len(p) : i \in 1 .. Len(q) => p[i] = q[i]
  BY <1>1, <1>3
<1> HIDE DEF Differ
<1>5. ~ (Len(p) < Len(q))
  <2>1. SUFFICES ASSUME Len(p) < Len(q) PROVE FALSE
    OBVIOUS
  <2>2. CASE Len(p) = 0
    BY <1>1, <1>2, <2>1, <2>2
  <2>3. CASE Len(p) # 0
    <3>1. Len(p) \in 1 .. Len(p) /\ Len(p) \in 1 .. Len(q) /\ Len(p) + 1 \in 1 .. Len(q)
          /\ Len(p) # Len(q)
      BY <1>1, <2>1, <2>3
    <3>2. p[Len(p)] = q[Len(p)]
      BY <1>4, <3>1
    <3>3. nx[p[Len(p)]] = NULL /\ nx[q[Len(p)]] = q[Len(p) + 1]
      BY <1>2, <3>1
    <3> QED
      BY <1>1, <3>1, <3>2, <3>3
  <2> QED
    BY <2>2, <2>3
<1>6. ~ (Len(q) < Len(p))
  <2>1. SUFFICES ASSUME Len(q) < Len(p) PROVE FALSE
    OBVIOUS
  <2>2. CASE Len(q) = 0
    BY <1>1, <1>2, <2>1, <2>2
  <2>3. CASE Len(q) # 0
    <3>1. Len(q) \in 1 .. Len(q) /\ Len(q) \in 1 .. Len(p) /\ Len(q) + 1 \in 1 .. Len(p)
          /\ Len(p) # Len(q)
      BY <1>1, <2>1, <2>3
    <3>2. p[Len(q)] = q[Len(q)]
      BY <1>4, <3>1
    <3>3. nx[q[Len(q)]] = NULL /\ nx[p[Len(q)]] = p[Len(q) + 1]
      BY <1>2, <3>1
    <3> QED
      BY <1>1, <3>1, <3>2, <3>3
  <2> QED
    BY <2>2, <2>3
<1>7. Len(p) = Len(q)
  BY <1>1, <1>5, <1>6
<1>8. \A i \in 1 .. Len(p) : p[i] = q[i]
  BY <1>4, <1>7
<1> QED
  BY <1>7, <1>8, SeqEqual

\* ListFrom finds the list there is.
LEMMA ListFound ==
    ASSUME HandoffAssumption, NEW h, NEW nx, NEW q \in Seq(Cells), IsChain(q, h, nx),
           Len(q) <= PKT_QUEUE_MAX
    PROVE  ListFrom(h, nx) = q
<1> DEFINE lists == UNION {[1 .. n -> Cells] : n \in 0 .. Cardinality(Cells)}
           chains == {s \in lists : IsChain(s, h, nx)}
<1>1. NULL \notin Cells /\ Len(q) \in 0 .. Cardinality(Cells) /\ Len(q) \in Nat
  BY FS_CardinalityType, LenProperties DEF HandoffAssumption
<1>2. q \in [1 .. Len(q) -> Cells]
  BY LenProperties
<1>3. q \in lists
  BY <1>1, <1>2
<1>4. \A s \in lists : s \in Seq(Cells)
  <2> TAKE s \in lists
  <2>1. PICK n \in 0 .. Cardinality(Cells) : s \in [1 .. n -> Cells]
    OBVIOUS
  <2>2. n \in Nat
    BY FS_CardinalityType, <2>1 DEF HandoffAssumption
  <2> QED
    BY <2>1, <2>2, SeqDef
<1>5. q \in chains
  BY <1>1, <1>3
<1>6. \A s \in chains : s = q
  BY <1>1, <1>4, ChainUnique
<1>7. h = NULL => q = << >>
  BY <1>1, LenProperties, ElementOfSeq, EmptySeq DEF IsChain
<1>8. ListFrom(h, nx) = IF h = NULL \/ chains = {} THEN << >> ELSE CHOOSE s \in chains : TRUE
  BY DEF ListFrom
<1> QED
  BY <1>5, <1>6, <1>7, <1>8

-----------------------------------------------------------------------------
(* What the two ends of the queue do to it.                                 *)

\* An inserted cell becomes the last one of the list.
LEMMA InsertExtends ==
    ASSUME HandoffAssumption, IInv, Insert, NEW q \in Seq(Cells), QueueIs(q)
    PROVE  \E c \in Cells : /\ Append(q, c) \in Seq(Cells) /\ QueueIs(Append(q, c))'
                            /\ pkt'[c] = msg /\ \A i \in 1 .. Len(q) : pkt'[q[i]] = pkt[q[i]]
<1>1. PICK c \in Cells \ live :
          /\ live' = live \cup {c}
          /\ pkt' = [pkt EXCEPT ![c] = msg]
          /\ head' = IF head = NULL THEN c ELSE head
          /\ next' = IF head = NULL THEN [next EXCEPT ![c] = NULL]
                                    ELSE [next EXCEPT ![c] = NULL, ![tail] = c]
          /\ tail' = c
  BY DEF Insert
<1>2. size' = size + 1
  BY DEF Insert
<1> DEFINE n == Len(q)
           r == Append(q, c)
<1>3. /\ n \in Nat /\ n = size
      /\ \A i \in 1 .. n : q[i] \in Cells /\ q[i] \in live /\ q[i] # c
      /\ \A i, j \in 1 .. n : q[i] = q[j] => i = j
      /\ live = {q[i] : i \in 1 .. n}
      /\ n # 0 => tail = q[n]
      /\ head = IF n = 0 THEN NULL ELSE q[1]
      /\ \A i \in 1 .. n : next[q[i]] = IF i = n THEN NULL ELSE q[i + 1]
      /\ NULL \notin Cells
      /\ pkt \in [Cells -> Msgs \cup {NoMsg}] /\ next \in [Cells -> Cells \cup {NULL}]
  <2>1. /\ n \in Nat /\ (q # << >> <=> n # 0) /\ \A i \in 1 .. n : q[i] \in Cells
    BY LenProperties, ElementOfSeq, EmptySeq
  <2>2. \A i \in 1 .. n : q[i] \in live
    BY DEF QueueIs
  <2>3. /\ n = size
        /\ \A i, j \in 1 .. n : q[i] = q[j] => i = j
        /\ live = {q[i] : i \in 1 .. n}
        /\ n # 0 => tail = q[n]
        /\ head = IF n = 0 THEN NULL ELSE q[1]
        /\ \A i \in 1 .. n : next[q[i]] = IF i = n THEN NULL ELSE q[i + 1]
    BY <2>1 DEF QueueIs, IsChain
  <2>4. \A i \in 1 .. n : q[i] # c
    BY <1>1, <2>2
  <2>5. /\ NULL \notin Cells
        /\ pkt \in [Cells -> Msgs \cup {NoMsg}] /\ next \in [Cells -> Cells \cup {NULL}]
    BY DEF IInv, TypeOK, HandoffAssumption
  <2> QED
    BY <2>1, <2>2, <2>3, <2>4, <2>5
<1>4. /\ r \in Seq(Cells) /\ Len(r) = n + 1
      /\ \A i \in 1 .. n : r[i] = q[i]
      /\ r[n + 1] = c
      /\ r # << >>
  <2>1. /\ r \in Seq(Cells) /\ Len(r) = n + 1
        /\ \A i \in 1 .. n : r[i] = q[i]
        /\ r[n + 1] = c
    BY <1>3
  <2>2. r # << >>
    <3> HIDE DEF r
    <3>1. r # << >> <=> Len(r) # 0
      BY <2>1, EmptySeq
    <3> QED
      BY <1>3, <2>1, <3>1
  <2> QED
    BY <2>1, <2>2
<1> HIDE DEF r
<1>5. head' = r[1]
  BY <1>1, <1>3, <1>4
<1>6. ASSUME NEW i \in 1 .. n + 1
      PROVE  next'[r[i]] = IF i = n + 1 THEN NULL ELSE r[i + 1]
  <2>1. CASE i = n + 1
    <3>1. n # 0 => tail # c
      BY <1>3
    <3> QED
      BY <1>1, <1>3, <1>4, <2>1, <3>1
  <2>2. CASE i # n + 1
    <3>1. i \in 1 .. n /\ n # 0 /\ r[i] = q[i] /\ head # NULL
      BY <1>3, <1>4, <2>2
    <3>2. next'[q[i]] = IF q[i] = tail THEN c ELSE next[q[i]]
      BY <1>1, <1>3, <3>1
    <3>3. q[i] = tail <=> i = n
      BY <1>3, <3>1
    <3>4. i # n => i + 1 \in 1 .. n
      BY <1>3, <3>1
    <3> QED
      BY <1>3, <1>4, <2>2, <3>1, <3>2, <3>3, <3>4
  <2> QED
    BY <2>1, <2>2
<1>7. IsChain(r, head', next')
  BY <1>4, <1>5, <1>6 DEF IsChain
<1>8. \A i, j \in 1 .. n + 1 : r[i] = r[j] => i = j
  <2> TAKE i, j \in 1 .. n + 1
  <2>1. i = n + 1 \/ i \in 1 .. n
    BY <1>3
  <2>2. j = n + 1 \/ j \in 1 .. n
    BY <1>3
  <2> QED
    BY <1>3, <1>4, <2>1, <2>2
<1>9. live' = {r[i] : i \in 1 .. n + 1}
  <2>1. \A x : x \in live' <=> x = c \/ \E i \in 1 .. n : x = q[i]
    BY <1>1, <1>3
  <2>2. \A i : i \in 1 .. n + 1 <=> i = n + 1 \/ i \in 1 .. n
    BY <1>3
  <2> QED
    BY <1>4, <2>1, <2>2
<1>10. QueueIs(r)'
  BY <1>1, <1>2, <1>3, <1>4, <1>7, <1>8, <1>9 DEF QueueIs
<1>11. pkt'[c] = msg /\ \A i \in 1 .. n : pkt'[q[i]] = pkt[q[i]]
  BY <1>1, <1>3
<1> QED
  BY <1>1, <1>4, <1>10, <1>11 DEF r

\* The removed cell was the first one of the list.
LEMMA RemoveShortens ==
    ASSUME HandoffAssumption, IInv, Remove, NEW q \in Seq(Cells), QueueIs(q)
    PROVE  /\ q # << >> /\ Tail(q) \in Seq(Cells) /\ QueueIs(Tail(q))'
           /\ got' = pkt[q[1]] /\ \A i \in 2 .. Len(q) : pkt'[q[i]] = pkt[q[i]]
<1> DEFINE n == Len(q)
           r == Tail(q)
<1>1. /\ n \in Nat /\ n = size /\ n > 0 /\ q # << >>
      /\ \A i \in 1 .. n : q[i] \in Cells /\ q[i] \in live
      /\ \A i, j \in 1 .. n : q[i] = q[j] => i = j
      /\ live = {q[i] : i \in 1 .. n}
      /\ tail = q[n]
      /\ head = q[1]
      /\ \A i \in 1 .. n : next[q[i]] = IF i = n THEN NULL ELSE q[i + 1]
      /\ pkt \in [Cells -> Msgs \cup {NoMsg}] /\ next \in [Cells -> Cells \cup {NULL}]
  <2>1. /\ n \in Nat /\ (q # << >> <=> n # 0) /\ \A i \in 1 .. n : q[i] \in Cells
    BY LenProperties, ElementOfSeq, EmptySeq
  <2>2. \A i \in 1 .. n : q[i] \in live
    BY DEF QueueIs
  <2>3. n > 0 /\ n = size
    BY DEF QueueIs, IInv, ThreadsKnow, Remove
  <2>4. /\ \A i, j \in 1 .. n : q[i] = q[j] => i = j
        /\ live = {q[i] : i \in 1 .. n}
        /\ n # 0 => tail = q[n]
        /\ n # 0 => head = q[1]
        /\ \A i \in 1 .. n : next[q[i]] = IF i = n THEN NULL ELSE q[i + 1]
    BY <2>1 DEF QueueIs, IsChain
  <2>5. /\ pkt \in [Cells -> Msgs \cup {NoMsg}] /\ next \in [Cells -> Cells \cup {NULL}]
    BY DEF IInv, TypeOK
  <2> QED
    BY <2>1, <2>2, <2>3, <2>4, <2>5
<1>2. /\ got' = pkt[head]
      /\ live' = live \ {head}
      /\ head' = next[head]
      /\ pkt' = [pkt EXCEPT ![head] = NoMsg] /\ next' = [next EXCEPT ![head] = NULL]
      /\ size' = size - 1
      /\ tail' = tail
  BY DEF Remove
<1>3. /\ r \in Seq(Cells) /\ Len(r) = n - 1
      /\ \A i \in 1 .. n - 1 : r[i] = q[i + 1]
      /\ r = << >> <=> n = 1
  <2>1. r \in Seq(Cells) /\ Len(r) = n - 1 /\ \A i \in 1 .. Len(r) : r[i] = q[i + 1]
    BY <1>1, HeadTailProperties
  <2>2. r # << >> <=> Len(r) # 0
    BY <2>1, EmptySeq
  <2> HIDE DEF r
  <2> QED
    BY <1>1, <2>1, <2>2
<1> HIDE DEF r
<1>4. head' = IF r = << >> THEN NULL ELSE r[1]
  BY <1>1, <1>2, <1>3
<1>5. ASSUME NEW i \in 1 .. n - 1
      PROVE  next'[r[i]] = IF i = n - 1 THEN NULL ELSE r[i + 1]
  <2>1. i + 1 \in 1 .. n /\ i + 1 # 1 /\ 1 \in 1 .. n /\ r[i] = q[i + 1]
    BY <1>1, <1>3
  <2>2. next'[q[i + 1]] = next[q[i + 1]]
    BY <1>1, <1>2, <2>1
  <2>3. next[q[i + 1]] = IF i + 1 = n THEN NULL ELSE q[i + 2]
    BY <1>1, <2>1
  <2>4. i # n - 1 => i + 1 \in 1 .. n - 1
    BY <1>1
  <2> QED
    BY <1>1, <1>3, <2>1, <2>2, <2>3, <2>4
<1>6. IsChain(r, head', next')
  BY <1>3, <1>4, <1>5 DEF IsChain
<1>7. \A i, j \in 1 .. n - 1 : r[i] = r[j] => i = j
  <2> TAKE i, j \in 1 .. n - 1
  <2>1. i + 1 \in 1 .. n /\ j + 1 \in 1 .. n
    BY <1>1
  <2> QED
    BY <1>1, <1>3, <2>1
<1>8. live' = {r[i] : i \in 1 .. n - 1}
  <2>1. \A x : x \in live' <=> \E i \in 1 .. n : i # 1 /\ x = q[i]
    BY <1>1, <1>2
  <2>2. \A i \in 1 .. n : i # 1 => i - 1 \in 1 .. n - 1 /\ r[i - 1] = q[i]
    BY <1>1, <1>3
  <2>3. \A i \in 1 .. n - 1 : i + 1 \in 1 .. n /\ i + 1 # 1 /\ r[i] = q[i + 1]
    BY <1>1, <1>3
  <2>4. \A x : x \in live' <=> \E i \in 1 .. n - 1 : x = r[i]
    BY <2>1, <2>2, <2>3
  <2> QED
    BY <2>4
<1>9. r # << >> => tail' = r[Len(r)]
  BY <1>1, <1>2, <1>3
<1>10. QueueIs(r)'
  BY <1>1, <1>2, <1>3, <1>6, <1>7, <1>8, <1>9 DEF QueueIs
<1>11. \A i \in 2 .. n : pkt'[q[i]] = pkt[q[i]]
  <2> TAKE i \in 2 .. n
  <2>1. i \in 1 .. n /\ 1 \in 1 .. n /\ i # 1
    BY <1>1
  <2> QED
    BY <1>1, <1>2, <2>1
<1> QED
  BY <1>1, <1>2, <1>3, <1>10, <1>11 DEF r

-----------------------------------------------------------------------------
(* The inductive invariant and the theorems.                                *)

LEMMA InitInv == HandoffAssumption /\ Init => IInv
<1> SUFFICES ASSUME HandoffAssumption, Init PROVE IInv
  OBVIOUS
<1>1. TypeOK
  <2>1. size \in 0 .. PKT_QUEUE_MAX
    BY DEF Init, HandoffAssumption
  <2>2. /\ pkt \in [Cells -> Msgs \cup {NoMsg}] /\ next \in [Cells -> Cells \cup {NULL}]
    BY DEF Init
  <2> QED
    BY <2>1, <2>2 DEF Init, TypeOK
<1>2. << >> \in Seq(Cells) /\ Len(<< >>) = 0
  BY EmptySeq
<1>3. QueueIs(<< >>)
  BY <1>2 DEF Init, QueueIs, IsChain
<1>4. ThreadsKnow
  BY DEF Init, ThreadsKnow
<1> QED
  BY <1>1, <1>2, <1>3, <1>4 DEF IInv

\* Steps that leave the queue alone.
LEMMA OthersKeepQueue ==
    ASSUME IInv, NEW q \in Seq(Cells), QueueIs(q), UNCHANGED queueVars
    PROVE  QueueIs(q)'
BY DEF QueueIs, queueVars

LEMMA NextInv ==
    ASSUME HandoffAssumption, IInv, [Next]_vars
    PROVE  IInv'
<1>1. PICK q \in Seq(Cells) : QueueIs(q)
  BY DEF IInv
<1>2. size \in 0 .. PKT_QUEUE_MAX /\ PKT_QUEUE_MAX \in Nat
  BY DEF IInv, TypeOK, HandoffAssumption
<1>3. CASE Insert
  <2>1. PICK c \in Cells : Append(q, c) \in Seq(Cells) /\ QueueIs(Append(q, c))'
    BY <1>1, <1>3, InsertExtends
  <2>2. ThreadsKnow'
    BY <1>2, <1>3 DEF Insert, IInv, TypeOK, ThreadsKnow, consVars
  <2>3. PICK k \in Cells \ live :
          /\ live' = live \cup {k} /\ pkt' = [pkt EXCEPT ![k] = msg] /\ tail' = k
          /\ head' = IF head = NULL THEN k ELSE head
          /\ next' = IF head = NULL THEN [next EXCEPT ![k] = NULL]
                                    ELSE [next EXCEPT ![k] = NULL, ![tail] = k]
    BY <1>3 DEF Insert
  <2>4. TypeOK
    BY DEF IInv
  <2>5. /\ pkt' \in [Cells -> Msgs \cup {NoMsg}] /\ next' \in [Cells -> Cells \cup {NULL}]
    BY <2>3, <2>4 DEF TypeOK
  <2>6. size' \in 0 .. PKT_QUEUE_MAX
    BY <1>2, <1>3 DEF Insert, IInv, ThreadsKnow
  <2>7. TypeOK'
    BY <1>3, <2>3, <2>4, <2>5, <2>6 DEF Insert, TypeOK, consVars
  <2> QED
    BY <2>1, <2>2, <2>7 DEF IInv
<1>4. CASE Remove
  <2>1. Tail(q) \in Seq(Cells) /\ QueueIs(Tail(q))'
    BY <1>1, <1>4, RemoveShortens
  <2>2. ThreadsKnow'
    BY <1>2, <1>4 DEF Remove, IInv, TypeOK, ThreadsKnow, prodVars
  <2>3. head \in Cells
    BY <1>1, <1>4, LenProperties, ElementOfSeq, EmptySeq
    DEF Remove, IInv, TypeOK, ThreadsKnow, QueueIs, IsChain
  <2>4. TypeOK'
    BY <1>2, <1>4, <2>3 DEF Remove, IInv, TypeOK, ThreadsKnow, prodVars
  <2> QED
    BY <2>1, <2>2, <2>4 DEF IInv
<1>5. CASE UNCHANGED queueVars /\ ~ Insert /\ ~ Remove
  <2>1. QueueIs(q)'
    BY <1>1, <1>5, OthersKeepQueue
  <2>2. TypeOK'
    BY <1>2, <1>5 DEF Next, Producer, Consumer, Produce, CheckFull, Notify, Rearm, Wake,
      CheckEmpty, Use, IInv, TypeOK, vars, queueVars, prodVars, consVars
  <2>3. ThreadsKnow'
    BY <1>2, <1>5 DEF Next, Producer, Consumer, Produce, CheckFull, Notify, Rearm, Wake,
      CheckEmpty, Use, IInv, TypeOK, ThreadsKnow, vars, queueVars, prodVars, consVars
  <2> QED
    BY <2>1, <2>2, <2>3 DEF IInv
<1> QED
  BY <1>3, <1>4, <1>5 DEF Next, Producer, Consumer, Produce, CheckFull, Notify, Rearm, Wake,
    CheckEmpty, Use, vars, queueVars

\* The list is never torn: its cells are the allocated ones, size counts
\* them, a non-empty list ends at the tail, and the consumer finds the head
\* it has looked for.
THEOREM PointersStaySound == Spec => []PointersSound
<1>1. IInv => PointersSound
  <2> SUFFICES ASSUME IInv PROVE PointersSound
    OBVIOUS
  <2> USE HandoffAssumption
  <2>1. PICK q \in Seq(Cells) : QueueIs(q)
    BY DEF IInv
  <2>2. QueuedCells = q
    BY <2>1, ListFound DEF IInv, TypeOK, QueueIs, QueuedCells
  <2>3. Len(q) \in Nat /\ DOMAIN q = 1 .. Len(q) /\ (q # << >> <=> Len(q) # 0)
    BY LenProperties, EmptySeq
  <2>4. Range(q) = live
    BY <2>1, <2>3 DEF QueueIs, Range
  <2>5. Cardinality(live) = size
    <3>1. q \in Bijection(1 .. Len(q), live)
      BY <2>1, <2>3, LenProperties DEF QueueIs, Bijection, Injection, IsInjective, Surjection
    <3>2. ExistsBijection(1 .. Len(q), live)
      BY <3>1 DEF ExistsBijection
    <3>3. IsFiniteSet(1 .. Len(q)) /\ Cardinality(1 .. Len(q)) = Len(q)
      BY <2>3, FS_Interval
    <3> QED
      BY <2>1, <3>2, <3>3, FS_Bijection DEF QueueIs
  <2>6. head # NULL => q[size] = tail
    BY <2>1, <2>3 DEF QueueIs, IsChain
  <2>7. consPc = "remove" => head # NULL
    BY <2>1, <2>3, ElementOfSeq DEF QueueIs, IsChain, IInv, ThreadsKnow, HandoffAssumption
  <2> QED
    BY <2>1, <2>2, <2>4, <2>5, <2>6, <2>7 DEF PointersSound, QueueIs
<1>2. Init => IInv
  BY HandoffAssumption, InitInv
<1>3. IInv /\ [Next]_vars => IInv'
  BY HandoffAssumption, NextInv
<1> QED
  BY <1>1, <1>2, <1>3, PTL DEF Spec

\* What the channel holds is what the cells of the list hold.
LEMMA ContentsAre ==
    ASSUME HandoffAssumption, TypeOK, NEW q \in Seq(Cells), QueueIs(q)
    PROVE  Contents = [i \in 1 .. Len(q) |-> pkt[q[i]]]
<1>1. QueuedCells = q
  BY ListFound DEF QueueIs, QueuedCells, TypeOK
<1> QED
  BY <1>1 DEF Contents

LEMMA ContentsAreNext ==
    ASSUME HandoffAssumption, TypeOK', NEW q \in Seq(Cells), QueueIs(q)'
    PROVE  Contents' = [i \in 1 .. Len(q) |-> pkt'[q[i]]]
<1>1. QueuedCells' = q
  BY ListFound DEF QueueIs, QueuedCells, TypeOK
<1> QED
  BY <1>1 DEF Contents

\* Every step is a step of a bounded first-in first-out channel, or none.
LEMMA StepRefines ==
    ASSUME HandoffAssumption, IInv, IInv', [Next]_vars
    PROVE  [Fifo!Next]_(Fifo!vars)
<1>1. PICK q \in Seq(Cells) : QueueIs(q)
  BY DEF IInv
<1>2. /\ Len(q) \in Nat /\ \A i \in 1 .. Len(q) : q[i] \in Cells
      /\ Contents = [i \in 1 .. Len(q) |-> pkt[q[i]]]
      /\ Len(q) = size
      /\ pkt \in [Cells -> Msgs \cup {NoMsg}] /\ pkt' \in [Cells -> Msgs \cup {NoMsg}]
  BY <1>1, ContentsAre, LenProperties, ElementOfSeq DEF IInv, TypeOK, QueueIs
<1>3. Contents \in Seq(Msgs \cup {NoMsg}) /\ Len(Contents) = Len(q)
  BY <1>2
<1>4. CASE Insert
  <2>1. PICK c \in Cells :
            /\ Append(q, c) \in Seq(Cells) /\ QueueIs(Append(q, c))'
            /\ pkt'[c] = msg /\ \A i \in 1 .. Len(q) : pkt'[q[i]] = pkt[q[i]]
    BY <1>1, <1>4, InsertExtends
  <2>2. Contents' = [i \in 1 .. Len(Append(q, c)) |-> pkt'[Append(q, c)[i]]]
    BY <2>1, ContentsAreNext DEF IInv
  <2>3. Contents' = Append(Contents, msg)
    BY <1>2, <1>3, <2>1, <2>2
  <2>4. msg \in Msgs /\ Len(Contents) < PKT_QUEUE_MAX /\ got' = got
    BY <1>2, <1>3, <1>4 DEF Insert, IInv, ThreadsKnow, consVars
  <2> QED
    BY <2>3, <2>4 DEF Fifo!Next, Fifo!Put
<1>5. CASE Remove
  <2>1. /\ q # << >> /\ Tail(q) \in Seq(Cells) /\ QueueIs(Tail(q))'
        /\ got' = pkt[q[1]] /\ \A i \in 2 .. Len(q) : pkt'[q[i]] = pkt[q[i]]
    BY <1>1, <1>5, RemoveShortens
  <2>2. Contents' = [i \in 1 .. Len(Tail(q)) |-> pkt'[Tail(q)[i]]]
    BY <2>1, ContentsAreNext DEF IInv
  <2>3. Contents' = Tail(Contents) /\ Contents # << >> /\ got' = Head(Contents)
    BY <1>2, <1>3, <2>1, <2>2
  <2> QED
    BY <2>3 DEF Fifo!Next, Fifo!Get
<1>6. CASE UNCHANGED <<queueVars, got>>
  BY <1>6 DEF Fifo!vars, Contents, QueuedCells, queueVars
<1> QED
  BY <1>4, <1>5, <1>6 DEF Next, Producer, Consumer, Produce, CheckFull, Notify, Rearm, Wake,
    CheckEmpty, Use, vars, queueVars, consVars

\* Queueing and taking, each in two critical sections, implement a channel
\* in which both are atomic.
THEOREM HandoffIsFifo == Spec => ImplementsFifo
<1>1. Init => Fifo!Init
  <2> SUFFICES ASSUME Init PROVE Fifo!Init
    OBVIOUS
  <2>1. IInv
    BY HandoffAssumption, InitInv
  <2>2. << >> \in Seq(Cells) /\ Len(<< >>) = 0
    BY EmptySeq
  <2>3. QueueIs(<< >>)
    BY <2>2 DEF Init, QueueIs, IsChain
  <2>4. Contents = << >>
    <3>1. Contents = [i \in 1 .. Len(<< >>) |-> pkt[<< >>[i]]]
      BY HandoffAssumption, ContentsAre, <2>1, <2>2, <2>3 DEF IInv
    <3>2. 1 .. Len(<< >>) = {}
      BY <2>2
    <3> QED
      BY <3>1, <3>2
  <2> QED
    BY <2>4 DEF Fifo!Init, Init
<1>2. Init => IInv
  BY HandoffAssumption, InitInv
<1>3. IInv /\ [Next]_vars => IInv'
  BY HandoffAssumption, NextInv
<1>4. IInv /\ IInv' /\ [Next]_vars => [Fifo!Next]_(Fifo!vars)
  BY HandoffAssumption, StepRefines
<1> QED
  BY <1>1, <1>2, <1>3, <1>4, PTL DEF Spec, ImplementsFifo, Fifo!Spec
=============================================================================
