------------------------- MODULE ArrivalProofs -------------------------
(***************************************************************************)
(* What the order, the repetition and the grouping of what arrives cannot  *)
(* change.  For every bound and every set of ids: the two halves of the    *)
(* dedupe set agree, and a result is handled again only after the whole    *)
(* window has passed.  For every frame limit and every number of requests, *)
(* however their bytes are grouped: the i-th response answers the i-th     *)
(* request.                                                                *)
(***************************************************************************)
EXTENDS ResultDedup, RpcServer, Integers, FiniteSetTheorems, SequenceTheorems, TLAPS

(***************************************************************************)
(* Results                                                                 *)
(***************************************************************************)
\* The queue is the tail end of the history.
Window ==
  /\ Len(order) <= Len(log)
  /\ Len(order) < MAX_PROCESSED_RESULTS => Len(order) = Len(log)
  /\ \A k \in 1..Len(order) : order[k] = log[Len(log) - Len(order) + k]

\* The inductive invariant: the properties alone do not say which ids the queue
\* still holds, and that is what rules out a near repeat.
IInv == TypeOK /\ HalvesAgree /\ Window /\ RepeatsFarApart

\* A push keeps the queue a sequence of ids; past the bound it drops the oldest.
LEMMA PushShape ==
  ASSUME NEW q \in Seq(Ids), NEW id \in Ids, Len(q) <= MAX_PROCESSED_RESULTS
  PROVE  LET p == PushBounded(q, id)
             d == IF Len(q) >= MAX_PROCESSED_RESULTS THEN 1 ELSE 0
         IN /\ p \in Seq(Ids)
            /\ Len(p) = Len(q) + 1 - d
            /\ \A k \in 1..Len(p) :
                 p[k] = IF k + d = Len(q) + 1 THEN id ELSE q[k + d]
            /\ Append(q, id) # << >>
  BY DedupAssumption DEF PushBounded

LEMMA InitOK == Init => IInv
  BY DedupAssumption DEF Init, IInv, TypeOK, HalvesAgree, Window, RepeatsFarApart

\* Handling a result preserves the invariant.
LEMMA HandleOK ==
  ASSUME IInv, NEW id \in Ids, HandleResult(id)
  PROVE  IInv'
<1> USE DedupAssumption
<1> DEFINE d == IF Len(order) >= MAX_PROCESSED_RESULTS THEN 1 ELSE 0
<1>1. /\ order' \in Seq(Ids)
      /\ Len(order') = Len(order) + 1 - d
      /\ \A k \in 1..Len(order') :
            order'[k] = IF k + d = Len(order) + 1 THEN id ELSE order[k + d]
  BY PushShape DEF IInv, TypeOK, HalvesAgree, HandleResult
<1>2. /\ log' \in Seq(Ids)
      /\ Len(log') = Len(log) + 1
      /\ \A k \in 1..Len(log') : log'[k] = IF k = Len(log) + 1 THEN id ELSE log[k]
  BY DEF IInv, TypeOK, HandleResult
<1>3. /\ id \notin ids
      /\ ids' = IF d = 1 THEN (ids \cup {id}) \ {order[1]} ELSE ids \cup {id}
  <2>1. CASE Len(order) >= MAX_PROCESSED_RESULTS
    BY <2>1 DEF IInv, TypeOK, HandleResult, contains, InsertBounded
  <2>2. CASE ~(Len(order) >= MAX_PROCESSED_RESULTS)
    BY <2>2 DEF IInv, TypeOK, HandleResult, contains, InsertBounded
  <2> QED BY <2>1, <2>2
<1>d. d \in {0, 1} /\ (d = 1 <=> Len(order) >= MAX_PROCESSED_RESULTS)
  OBVIOUS
<1> HIDE DEF d
<1>4. TypeOK'
  <2>1. Len(order') <= MAX_PROCESSED_RESULTS
    BY <1>1, <1>d DEF IInv, TypeOK
  <2> QED BY <1>1, <1>2, <1>3, <2>1 DEF IInv, TypeOK
<1>5. Window'
  <2>1. Len(order) \in Nat /\ Len(log) \in Nat
    BY DEF IInv, TypeOK
  <2>2. /\ Len(order') <= Len(log')
        /\ Len(order') < MAX_PROCESSED_RESULTS => Len(order') = Len(log')
    BY <1>1, <1>2, <1>d, <2>1 DEF IInv, TypeOK, HalvesAgree, Window
  <2>3. ASSUME NEW k \in 1..Len(order')
        PROVE  order'[k] = log'[Len(log') - Len(order') + k]
    <3>0. k \in Nat /\ k >= 1
      BY <1>1, <2>1
    <3>1. Len(log') - Len(order') + k = (Len(log) - Len(order)) + (k + d)
      BY <1>1, <1>2, <1>d, <2>1, <3>0
    <3>2. CASE k + d = Len(order) + 1
      BY <1>1, <1>2, <1>d, <2>1, <3>0, <3>1, <3>2
    <3>3. CASE k + d # Len(order) + 1
      <4>1. k + d \in 1..Len(order)
        BY <1>1, <1>d, <2>1, <3>0, <3>3
      <4>2. order[k + d] = log[Len(log) - Len(order) + (k + d)]
        BY <4>1 DEF IInv, Window
      <4>3. order'[k] = order[k + d]
        BY <1>1, <3>3
      <4>4. (Len(log) - Len(order)) + (k + d) \in 1..Len(log)
        BY <1>d, <2>1, <3>0, <4>1 DEF IInv, Window
      <4>5. log'[(Len(log) - Len(order)) + (k + d)] = log[(Len(log) - Len(order)) + (k + d)]
        BY <1>2, <2>1, <4>4
      <4> QED BY <3>1, <4>2, <4>3, <4>5
    <3> QED BY <3>2, <3>3
  <2> QED BY <2>2, <2>3 DEF Window
<1>6. HalvesAgree'
  <2>1. ids' = {order'[i] : i \in DOMAIN order'}
    <3>1. DOMAIN order' = 1..Len(order') /\ DOMAIN order = 1..Len(order)
      BY <1>1 DEF IInv, TypeOK
    <3>2. Len(order) \in Nat /\ ids = {order[i] : i \in 1..Len(order)}
      BY DEF IInv, TypeOK, HalvesAgree
    <3>3. CASE d = 0
      <4>1. \A i \in 1..Len(order) : order'[i] = order[i]
        BY <1>1, <1>d, <3>2, <3>3
      <4>2. order'[Len(order) + 1] = id
        BY <1>1, <1>d, <3>2, <3>3
      <4> QED BY <1>1, <1>3, <3>1, <3>2, <3>3, <4>1, <4>2
    <3>4. CASE d = 1
      <4>1. \A i \in 1..(Len(order) - 1) : order'[i] = order[i + 1]
        BY <1>1, <1>d, <3>2, <3>4
      <4>2. order'[Len(order)] = id /\ Len(order') = Len(order) /\ Len(order) >= 1
        BY <1>1, <1>d, <3>2, <3>4
      <4>3. ids \ {order[1]} = {order[i] : i \in 2..Len(order)}
        BY <3>1, <3>2, <4>2 DEF IInv, HalvesAgree
      <4>4. {order[i] : i \in 2..Len(order)} = {order'[i] : i \in 1..(Len(order) - 1)}
        <5>1. ASSUME NEW i \in 2..Len(order)
              PROVE  i - 1 \in 1..(Len(order) - 1) /\ order'[i - 1] = order[i]
          BY <3>2, <4>1
        <5>2. ASSUME NEW i \in 1..(Len(order) - 1)
              PROVE  i + 1 \in 2..Len(order) /\ order'[i] = order[i + 1]
          BY <3>2, <4>1
        <5> QED BY <5>1, <5>2
      <4>5. id # order[1]
        BY <1>3, <3>2, <4>2
      <4>6. ids' = {order'[i] : i \in 1..(Len(order) - 1)} \cup {id}
        BY <1>3, <3>4, <4>3, <4>4, <4>5
      <4> QED BY <3>1, <3>2, <4>2, <4>6
    <3> QED BY <1>d, <3>3, <3>4
  <2>2. ASSUME NEW i \in DOMAIN order', NEW j \in DOMAIN order', i # j
        PROVE  order'[i] # order'[j]
    <3>1. /\ i \in 1..Len(order') /\ j \in 1..Len(order') /\ Len(order) \in Nat
          /\ DOMAIN order = 1..Len(order)
      BY <1>1 DEF IInv, TypeOK
    <3>2. \A k \in 1..Len(order) : order[k] # id
      BY <1>3, <3>1 DEF IInv, HalvesAgree
    <3>3. ASSUME NEW k \in 1..Len(order'), k + d # Len(order) + 1
          PROVE  k + d \in 1..Len(order) /\ order'[k] = order[k + d]
      <4>1. k \in Nat /\ k >= 1 /\ k <= Len(order) + 1 - d
        BY <1>1, <1>d, <3>1
      <4>2. k + d \in 1..Len(order)
        BY <1>d, <3>1, <3>3, <4>1
      <4> QED BY <1>1, <3>3, <4>2
    <3>4. CASE i + d # Len(order) + 1 /\ j + d # Len(order) + 1
      <4>1. i + d # j + d
        BY <1>d, <2>2, <3>1
      <4> QED BY <3>1, <3>3, <3>4, <4>1 DEF IInv, HalvesAgree
    <3>5. CASE i + d = Len(order) + 1
      <4>1. j + d # Len(order) + 1
        BY <1>d, <2>2, <3>1, <3>5
      <4> QED BY <1>1, <3>1, <3>2, <3>3, <3>5, <4>1
    <3>6. CASE j + d = Len(order) + 1
      <4>1. i + d # Len(order) + 1
        BY <1>d, <2>2, <3>1, <3>6
      <4> QED BY <1>1, <3>1, <3>2, <3>3, <3>6, <4>1
    <3> QED BY <3>4, <3>5, <3>6
  <2> QED
    BY <1>1, <1>d, <2>1, <2>2 DEF IInv, TypeOK, HalvesAgree
<1>7. RepeatsFarApart'
  <2> SUFFICES ASSUME NEW i \in DOMAIN log', NEW j \in DOMAIN log',
                      i < j, log'[i] = log'[j]
               PROVE  j - i > MAX_PROCESSED_RESULTS
    BY DEF RepeatsFarApart
  <2>1. CASE j <= Len(log)
    BY <1>2, <2>1 DEF IInv, TypeOK, RepeatsFarApart
  <2>2. CASE j = Len(log) + 1
    <3>1. log[i] = id /\ i \in 1..Len(log)
      BY <1>2, <2>2 DEF IInv, TypeOK
    <3>2. i <= Len(log) - Len(order)
      <4> SUFFICES ASSUME i > Len(log) - Len(order) PROVE FALSE
        BY <3>1 DEF IInv, TypeOK
      <4> DEFINE k == i - (Len(log) - Len(order))
      <4>1. k \in 1..Len(order) /\ order[k] = id
        BY <3>1 DEF IInv, TypeOK, Window
      <4> QED BY <4>1, <1>3 DEF IInv, TypeOK, HalvesAgree
    <3> QED BY <2>2, <3>1, <3>2 DEF IInv, TypeOK, HalvesAgree, Window
  <2> QED BY <1>2, <2>1, <2>2 DEF IInv, TypeOK
<1> QED BY <1>4, <1>5, <1>6, <1>7 DEF IInv

\* Every step preserves the invariant.
LEMMA NextOK == IInv /\ [Next]_vars => IInv'
<1> SUFFICES ASSUME IInv, [Next]_vars PROVE IInv'
  OBVIOUS
<1>1. ASSUME NEW id \in Ids, HandleResult(id) PROVE IInv'
  BY <1>1, HandleOK
<1>2. CASE UNCHANGED vars
  BY <1>2 DEF vars, IInv, TypeOK, HalvesAgree, Window, RepeatsFarApart
<1>3. CASE Forget
  BY <1>3, DedupAssumption DEF Forget, IInv, TypeOK, HalvesAgree, Window, RepeatsFarApart
<1> QED
  BY <1>1, <1>2, <1>3 DEF Next

\* The look-up set and the eviction queue of ResultSet always hold the same ids,
\* for every bound.
THEOREM HalvesAgreeAlways == Spec => []HalvesAgree
<1>1. IInv => HalvesAgree
  BY DEF IInv
<1> QED
  BY InitOK, NextOK, <1>1, PTL DEF Spec

\* One engine process handles the same result twice only if at least
\* MAX_PROCESSED_RESULTS other results were handled in between.
THEOREM RepeatsFarApartAlways == Spec => []RepeatsFarApart
<1>1. IInv => RepeatsFarApart
  BY DEF IInv
<1> QED
  BY InitOK, NextOK, <1>1, PTL DEF Spec

(***************************************************************************)
(* The JSON-RPC server                                                     *)
(***************************************************************************)
RpcRequests == [kind : RpcKinds, size : 1..LongestFrame]
RpcCodes == {"INVALID_ARGUMENT", "UNAUTHENTICATED", "UNIMPLEMENTED", "ok", "started", "error",
             "DEADLINE_EXCEEDED", "RESOURCE_EXHAUSTED"}
Serving == link \in {"open", "broken"}
\* Requests whose frame the server has read to its end
HandledOf(as, c) == Len(as) + (IF c = "none" THEN 0 ELSE 1)
Handled == HandledOf(answers, current)

\* Where the requests end in the bytes still to be read; the one that is being read
\* began before them.
Layout(w, s, f, h, ends) ==
  /\ h \in 0..Len(w)
  /\ ends \in [h..Len(w) -> Int]
  /\ ends[h] = 0 - f
  /\ ends[Len(w)] = Len(s)
  /\ \A k \in (h + 1)..Len(w) : ends[k] = ends[k - 1] + w[k].size + 1
  /\ \A k \in (h + 1)..Len(w) : ends[k] \in 1..Len(s) /\ s[ends[k]] = w[k].kind
  /\ \A j, k \in h..Len(w) : j < k => ends[j] < ends[k]
  /\ \A p \in 1..Len(s) : s[p] = Byte \/ \E k \in (h + 1)..Len(w) : p = ends[k]

RpcTypes ==
  /\ link \in {"none", "open", "broken", "closed"}
  /\ written \in Seq(RpcRequests) /\ stream \in Seq({Byte} \cup RpcKinds)
  /\ frame \in Nat /\ current \in {"none"} \cup RpcKinds
  /\ answers \in Seq(RpcCodes) /\ instances \in Nat
  /\ link = "none" => written = <<>> /\ stream = <<>> /\ answers = <<>> /\ frame = 0 /\ current = "none"
       /\ instances = 0

CurrentOK ==
  current # "none" =>
    Handled \in 1..Len(written) /\ written[Handled].kind = current /\ written[Handled].size <= MAX_RPC_FRAME_BYTES

RpcInv ==
  /\ RpcTypes
  /\ Serving => /\ \E ends : Layout(written, stream, frame, Handled, ends)
                /\ CurrentOK
                /\ instances <= Cardinality(ToldOrFailed)
  /\ AnswersAccount

LEMMA RpcAnswerFacts ==
  ASSUME NEW kind \in RpcKinds, NEW answer \in RpcAnswer(kind)
  PROVE  /\ answer \in RpcCodes
         /\ answer = "started" => kind = "start"
         /\ kind = "start" => answer \in MethodAnswers("start")
<1>1. answer \in {"INVALID_ARGUMENT", "UNAUTHENTICATED", "UNIMPLEMENTED", "ok", "started", "error",
                  "DEADLINE_EXCEEDED"}
  BY DEF RpcKinds, RpcAnswer, MethodAnswers
<1>2. answer = "started" => kind = "start"
  BY DEF RpcKinds, RpcAnswer, MethodAnswers
<1>3. answer \in RpcCodes
  BY <1>1 DEF RpcCodes
<1>4. kind = "start" => answer \in MethodAnswers("start")
  BY DEF RpcAnswer
<1> QED
  BY <1>2, <1>3, <1>4

(* What the layout of the stream tells the reader *)

\* Bytes without the end of a line belong to the next request, and shift the rest.
LEMMA PartOfFrame ==
  ASSUME NEW w \in Seq(RpcRequests), NEW s \in Seq({Byte} \cup RpcKinds), NEW f \in Nat, NEW h,
         NEW ends, Layout(w, s, f, h, ends), NEW n \in 1..Len(s),
         \A p \in 1..n : s[p] = Byte
  PROVE  /\ h + 1 \in 1..Len(w) /\ f + n <= w[h + 1].size
         /\ Layout(w, SubSeq(s, n + 1, Len(s)), f + n, h, [k \in h..Len(w) |-> ends[k] - n])
<1> DEFINE t == SubSeq(s, n + 1, Len(s))
           moved == [k \in h..Len(w) |-> ends[k] - n]
<1>1. Len(s) \in Nat /\ Len(w) \in Nat /\ h \in 0..Len(w) /\ n \in Nat \ {0}
  BY DEF Layout
<1>2. h # Len(w)
  BY <1>1 DEF Layout
<1>3. h + 1 \in 1..Len(w) /\ h + 1 \in (h + 1)..Len(w)
  BY <1>1, <1>2
<1>4. \A k \in (h + 1)..Len(w) : ends[k] \in (n + 1)..Len(s) /\ s[ends[k]] = w[k].kind /\ k \in DOMAIN w
  <2> SUFFICES ASSUME NEW k \in (h + 1)..Len(w)
               PROVE  ends[k] \in (n + 1)..Len(s) /\ s[ends[k]] = w[k].kind /\ k \in DOMAIN w
    OBVIOUS
  <2>1. ends[k] \in 1..Len(s) /\ s[ends[k]] = w[k].kind
    BY DEF Layout
  <2>2. w[k] \in RpcRequests /\ k \in DOMAIN w
    BY <1>1
  <2>3. w[k].kind # Byte
    BY <2>2 DEF RpcRequests, RpcKinds, Byte
  <2> QED
    BY <2>1, <2>2, <2>3, <1>1
<1>5. w[h + 1].size \in Nat /\ ends[h + 1] = w[h + 1].size + 1 - f
  <2>1. w[h + 1] \in RpcRequests
    BY <1>3
  <2>2. w[h + 1].size \in Nat
    BY <2>1, RpcAssumption DEF RpcRequests, LongestFrame
  <2>3. ends[h + 1] = ends[(h + 1) - 1] + w[h + 1].size + 1 /\ ends[h] = 0 - f
    BY <1>3 DEF Layout
  <2> QED
    BY <2>2, <2>3, <1>1
<1>6. f + n <= w[h + 1].size
  BY <1>3, <1>4, <1>5, <1>1
<1>7. Len(t) = Len(s) - n /\ \A p \in 1..Len(t) : t[p] = s[p + n]
  BY <1>1
<1>8. moved \in [h..Len(w) -> Int] /\ \A k \in h..Len(w) : ends[k] \in Int /\ moved[k] = ends[k] - n
  BY <1>1 DEF Layout
<1> HIDE DEF moved, t
<1>9. Layout(w, t, f + n, h, moved)
  <2>1. moved \in [h..Len(w) -> Int] /\ moved[h] = 0 - (f + n) /\ moved[Len(w)] = Len(t)
    BY <1>1, <1>7, <1>8 DEF Layout
  <2>2. \A k \in (h + 1)..Len(w) : moved[k] = moved[k - 1] + w[k].size + 1
    <3> SUFFICES ASSUME NEW k \in (h + 1)..Len(w) PROVE moved[k] = moved[k - 1] + w[k].size + 1
      OBVIOUS
    <3>1. k \in h..Len(w) /\ k - 1 \in h..Len(w) /\ w[k] \in RpcRequests
      BY <1>1
    <3>2. w[k].size \in Nat
      BY <3>1, RpcAssumption DEF RpcRequests, LongestFrame
    <3>3. ends[k] = ends[k - 1] + w[k].size + 1
      BY DEF Layout
    <3>4. moved[k] = ends[k] - n /\ moved[k - 1] = ends[k - 1] - n /\ ends[k - 1] \in Int
      BY <3>1, <1>8
    <3> QED
      BY <3>2, <3>3, <3>4, <1>1
  <2>3. \A k \in (h + 1)..Len(w) : moved[k] \in 1..Len(t) /\ t[moved[k]] = w[k].kind
    <3> SUFFICES ASSUME NEW k \in (h + 1)..Len(w) PROVE moved[k] \in 1..Len(t) /\ t[moved[k]] = w[k].kind
      OBVIOUS
    <3>1. moved[k] = ends[k] - n /\ ends[k] \in (n + 1)..Len(s) /\ s[ends[k]] = w[k].kind
      BY <1>4, <1>8, <1>1
    <3>2. moved[k] \in 1..Len(t) /\ moved[k] + n = ends[k]
      BY SMTT(30), <3>1, <1>7, <1>1
    <3> QED
      BY <3>1, <3>2, <1>7
  <2>4. \A j, k \in h..Len(w) : j < k => moved[j] < moved[k]
    <3> SUFFICES ASSUME NEW j \in h..Len(w), NEW k \in h..Len(w), j < k PROVE moved[j] < moved[k]
      OBVIOUS
    <3>1. ends[j] < ends[k]
      BY DEF Layout
    <3>2. ends[j] \in Int /\ ends[k] \in Int /\ moved[j] = ends[j] - n /\ moved[k] = ends[k] - n
      BY <1>8
    <3> QED
      BY <1>1, <3>1, <3>2
  <2>5. \A p \in 1..Len(t) : t[p] = Byte \/ \E k \in (h + 1)..Len(w) : p = moved[k]
    <3> SUFFICES ASSUME NEW p \in 1..Len(t), t[p] # Byte PROVE \E k \in (h + 1)..Len(w) : p = moved[k]
      OBVIOUS
    <3>1. p + n \in 1..Len(s) /\ s[p + n] # Byte
      BY <1>7, <1>1
    <3>2. PICK k \in (h + 1)..Len(w) : p + n = ends[k]
      BY <3>1 DEF Layout
    <3>3. k \in h..Len(w)
      BY <1>1
    <3>4. moved[k] = ends[k] - n
      BY <1>8, <3>3
    <3>5. p \in Int /\ n \in Int
      BY <1>1
    <3>6. p = moved[k]
      BY <3>2, <3>4, <3>5
    <3> QED
      BY <3>6
  <2> QED
    BY <2>1, <2>2, <2>3, <2>4, <2>5, <1>1 DEF Layout
<1> QED
  BY <1>3, <1>6, <1>9 DEF moved, t

\* The first end of a line among n bytes
FirstAt(s, n, pos) == pos \in 1..n /\ s[pos] # Byte /\ \A k \in 1..n : s[k] # Byte => pos <= k

\* Among bytes in which a line ends, one end comes first.
LEMMA FirstEnd ==
  ASSUME NEW w \in Seq(RpcRequests), NEW s \in Seq({Byte} \cup RpcKinds), NEW f \in Nat, NEW h,
         NEW ends, Layout(w, s, f, h, ends), NEW n \in 1..Len(s), NEW x \in 1..n, s[x] # Byte
  PROVE  \E k : FirstAt(s, n, k)
<1>1. Len(s) \in Nat /\ Len(w) \in Nat /\ h \in 0..Len(w) /\ n \in Nat
  BY DEF Layout
<1>2. ASSUME NEW j \in 1..n, s[j] # Byte
      PROVE  h + 1 \in (h + 1)..Len(w) /\ ends[h + 1] <= j
  <2>1. j \in 1..Len(s)
    BY <1>1
  <2>2. PICK k \in (h + 1)..Len(w) : j = ends[k]
    BY <1>2, <2>1 DEF Layout
  <2>3. h + 1 \in h..Len(w) /\ k \in h..Len(w)
    BY <1>1
  <2>4. h + 1 < k => ends[h + 1] < ends[k]
    BY <2>3 DEF Layout
  <2> QED
    <3>1. k = h + 1 \/ h + 1 < k
      BY <1>1
    <3>2. ends[h + 1] \in Int /\ ends[k] \in Int
      BY <2>3 DEF Layout
    <3> QED
      BY <1>1, <2>2, <2>4, <3>1, <3>2
<1>3. h + 1 \in (h + 1)..Len(w) /\ ends[h + 1] <= x
  BY <1>2
<1>4. ends[h + 1] \in 1..Len(s) /\ s[ends[h + 1]] = w[h + 1].kind
  BY <1>3 DEF Layout
<1>5. w[h + 1].kind # Byte
  <2>1. w[h + 1] \in RpcRequests
    BY <1>1, <1>3
  <2> QED
    BY <2>1 DEF RpcRequests, RpcKinds, Byte
<1>6. ends[h + 1] \in 1..n
  BY <1>1, <1>3, <1>4
<1> QED
  BY <1>2, <1>4, <1>5, <1>6 DEF FirstAt

\* The bytes to pos are the rest of a request.
FrameRead(w, s, f, h, pos) ==
  /\ h + 1 \in 1..Len(w) /\ f + (pos - 1) = w[h + 1].size /\ s[pos] = w[h + 1].kind
  /\ \E ends : Layout(w, SubSeq(s, pos + 1, Len(s)), 0, h + 1, ends)

\* The first end of a line among the bytes read ends the next request.
LEMMA EndOfFrame ==
  ASSUME NEW w \in Seq(RpcRequests), NEW s \in Seq({Byte} \cup RpcKinds), NEW f \in Nat, NEW h,
         NEW ends, Layout(w, s, f, h, ends), NEW n \in 1..Len(s), NEW pos,
         FirstAt(s, n, pos)
  PROVE  FrameRead(w, s, f, h, pos)
<1> DEFINE t == SubSeq(s, pos + 1, Len(s))
           moved == [k \in (h + 1)..Len(w) |-> ends[k] - pos]
<1>1. /\ Len(s) \in Nat /\ Len(w) \in Nat /\ h \in 0..Len(w) /\ n \in Nat /\ pos \in Nat \ {0}
      /\ pos \in 1..Len(s) /\ pos \in 1..n /\ s[pos] # Byte
      /\ \A k \in 1..n : s[k] # Byte => pos <= k
  BY DEF Layout, FirstAt
<1>2. PICK e \in (h + 1)..Len(w) : pos = ends[e]
  BY <1>1 DEF Layout
<1>3. h + 1 \in 1..Len(w) /\ h + 1 \in (h + 1)..Len(w)
  BY <1>1
<1>4. \A k \in (h + 1)..Len(w) : ends[k] \in 1..Len(s) /\ s[ends[k]] = w[k].kind /\ w[k].kind # Byte
                                 /\ k \in DOMAIN w
  <2> SUFFICES ASSUME NEW k \in (h + 1)..Len(w)
               PROVE  ends[k] \in 1..Len(s) /\ s[ends[k]] = w[k].kind /\ w[k].kind # Byte /\ k \in DOMAIN w
    OBVIOUS
  <2>1. ends[k] \in 1..Len(s) /\ s[ends[k]] = w[k].kind
    BY DEF Layout
  <2>2. w[k] \in RpcRequests /\ k \in DOMAIN w
    BY <1>1
  <2>3. w[k].kind # Byte
    BY <2>2 DEF RpcRequests, RpcKinds, Byte
  <2> QED
    BY <2>1, <2>2, <2>3
<1>5. pos = ends[h + 1]
  <2>1. e # h + 1 => ends[h + 1] < ends[e]
    BY <1>1, <1>3 DEF Layout
  <2>2. ends[h + 1] \in 1..Len(s) /\ s[ends[h + 1]] # Byte
    BY <1>3, <1>4
  <2>3. ends[h + 1] <= pos => ends[h + 1] \in 1..n
    BY <2>2, <1>1
  <2> QED
    BY <2>1, <2>2, <2>3, <1>1, <1>2
<1>6. f + (pos - 1) = w[h + 1].size
  <2>1. w[h + 1] \in RpcRequests
    BY <1>3
  <2>2. w[h + 1].size \in Nat
    BY <2>1, RpcAssumption DEF RpcRequests, LongestFrame
  <2>3. ends[h + 1] = ends[(h + 1) - 1] + w[h + 1].size + 1 /\ ends[h] = 0 - f
    BY <1>3 DEF Layout
  <2>4. pos = (0 - f) + w[h + 1].size + 1
    BY <2>3, <1>1, <1>5
  <2> QED
    BY <2>2, <2>4
<1>7. Len(t) = Len(s) - pos /\ \A p \in 1..Len(t) : t[p] = s[p + pos]
  BY <1>1
<1>8. /\ moved \in [(h + 1)..Len(w) -> Int]
      /\ \A k \in (h + 1)..Len(w) : ends[k] \in Int /\ moved[k] = ends[k] - pos
  <2>1. \A k \in (h + 1)..Len(w) : ends[k] \in Int
    BY <1>1, <1>4
  <2> QED
    BY <2>1, <1>1
<1> HIDE DEF moved, t
<1>9. Layout(w, t, 0, h + 1, moved)
  <2>1. moved \in [(h + 1)..Len(w) -> Int] /\ moved[h + 1] = 0 - 0 /\ moved[Len(w)] = Len(t)
    <3>1. moved[h + 1] = ends[h + 1] - pos /\ moved[Len(w)] = ends[Len(w)] - pos /\ ends[Len(w)] = Len(s)
      <4>1. Len(w) \in (h + 1)..Len(w) /\ ends[Len(w)] = Len(s)
        BY <1>1, <1>3 DEF Layout
      <4> QED
        BY <4>1, <1>3, <1>8
    <3> QED
      BY <3>1, <1>1, <1>5, <1>7, <1>8
  <2>2. \A k \in ((h + 1) + 1)..Len(w) : moved[k] = moved[k - 1] + w[k].size + 1
    <3> SUFFICES ASSUME NEW k \in ((h + 1) + 1)..Len(w) PROVE moved[k] = moved[k - 1] + w[k].size + 1
      OBVIOUS
    <3>1. k \in (h + 1)..Len(w) /\ k - 1 \in (h + 1)..Len(w) /\ w[k] \in RpcRequests
      BY <1>1
    <3>2. w[k].size \in Nat
      BY <3>1, RpcAssumption DEF RpcRequests, LongestFrame
    <3>3. ends[k] = ends[k - 1] + w[k].size + 1
      BY <3>1 DEF Layout
    <3>4. moved[k] = ends[k] - pos /\ moved[k - 1] = ends[k - 1] - pos /\ ends[k - 1] \in Int
      BY <3>1, <1>8
    <3> QED
      BY SMTT(30), <3>2, <3>3, <3>4, <1>1
  <2>3. \A k \in ((h + 1) + 1)..Len(w) : moved[k] \in 1..Len(t) /\ t[moved[k]] = w[k].kind
    <3> SUFFICES ASSUME NEW k \in ((h + 1) + 1)..Len(w)
                 PROVE  moved[k] \in 1..Len(t) /\ t[moved[k]] = w[k].kind
      OBVIOUS
    <3>1. k \in (h + 1)..Len(w) /\ moved[k] = ends[k] - pos /\ ends[k] \in 1..Len(s) /\ s[ends[k]] = w[k].kind
      BY <1>4, <1>8, <1>1
    <3>2. ends[h + 1] < ends[k]
      BY <3>1, <1>1 DEF Layout
    <3>3. moved[k] \in 1..Len(t) /\ moved[k] + pos = ends[k]
      <4>1. ends[k] \in Int /\ pos < ends[k] /\ ends[k] <= Len(s)
        BY <3>1, <3>2, <1>1, <1>5
      <4>2. Len(t) = Len(s) - pos /\ pos \in Nat \ {0} /\ Len(s) \in Nat /\ moved[k] = ends[k] - pos
        BY <1>1, <1>7, <3>1
      <4> QED
        BY SMTT(30), <4>1, <4>2
    <3> QED
      BY <3>1, <3>3, <1>7
  <2>4. \A j, k \in (h + 1)..Len(w) : j < k => moved[j] < moved[k]
    <3> SUFFICES ASSUME NEW j \in (h + 1)..Len(w), NEW k \in (h + 1)..Len(w), j < k
                 PROVE  moved[j] < moved[k]
      OBVIOUS
    <3>1. j \in h..Len(w) /\ k \in h..Len(w)
      BY <1>1
    <3>2. ends[j] < ends[k]
      BY <3>1 DEF Layout
    <3>3. ends[j] \in Int /\ ends[k] \in Int /\ moved[j] = ends[j] - pos /\ moved[k] = ends[k] - pos
      BY <1>8
    <3> QED
      BY <1>1, <3>2, <3>3
  <2>5. \A p \in 1..Len(t) : t[p] = Byte \/ \E k \in ((h + 1) + 1)..Len(w) : p = moved[k]
    <3> SUFFICES ASSUME NEW p \in 1..Len(t), t[p] # Byte PROVE \E k \in ((h + 1) + 1)..Len(w) : p = moved[k]
      OBVIOUS
    <3>1. p + pos \in 1..Len(s) /\ s[p + pos] # Byte
      BY <1>7, <1>1
    <3>2. PICK k \in (h + 1)..Len(w) : p + pos = ends[k]
      BY <3>1 DEF Layout
    <3>3. k # h + 1
      BY <3>2, <1>5, <1>1
    <3> QED
      BY <3>2, <3>3, <1>8, <1>1
  <2> QED
    BY <2>1, <2>2, <2>3, <2>4, <2>5, <1>1, <1>3 DEF Layout
<1> QED
  BY <1>3, <1>4, <1>5, <1>6, <1>9 DEF t, FrameRead

\* A request that is written comes after all others.
LEMMA OneMoreLine ==
  ASSUME NEW w \in Seq(RpcRequests), NEW s \in Seq({Byte} \cup RpcKinds), NEW f \in Nat, NEW h,
         NEW ends, Layout(w, s, f, h, ends), NEW asked \in RpcRequests
  PROVE  Layout(Append(w, asked), s \o LineOf(asked), f, h,
                [k \in h..(Len(w) + 1) |-> IF k <= Len(w) THEN ends[k] ELSE Len(s) + asked.size + 1])
<1> DEFINE v == Append(w, asked)
           line == LineOf(asked)
           t == s \o line
           more == [k \in h..(Len(w) + 1) |-> IF k <= Len(w) THEN ends[k] ELSE Len(s) + asked.size + 1]
<1>1. Len(s) \in Nat /\ Len(w) \in Nat /\ h \in 0..Len(w) /\ asked.size \in Nat \ {0} /\ asked.kind \in RpcKinds
  BY RpcAssumption DEF Layout, RpcRequests, LongestFrame
<1>2. /\ line \in Seq({Byte} \cup RpcKinds) /\ Len(line) = asked.size + 1
      /\ line[asked.size + 1] = asked.kind /\ \A p \in 1..asked.size : line[p] = Byte
  <2> DEFINE bytes == [k \in 1..asked.size |-> Byte]
  <2>1. bytes \in Seq({Byte} \cup RpcKinds) /\ Len(bytes) = asked.size
    BY <1>1
  <2>2. <<asked.kind>> \in Seq({Byte} \cup RpcKinds)
    BY <1>1
  <2>3. \A p \in 1..asked.size : bytes[p] = Byte
    OBVIOUS
  <2> HIDE DEF bytes
  <2>4. line = bytes \o <<asked.kind>>
    BY DEF LineOf, bytes
  <2> QED
    BY SMTT(30), <2>1, <2>2, <2>3, <2>4, <1>1
<1> HIDE DEF line
<1>3. /\ t \in Seq({Byte} \cup RpcKinds) /\ Len(t) = Len(s) + asked.size + 1
      /\ \A p \in 1..Len(s) : t[p] = s[p]
      /\ \A p \in 1..asked.size : t[Len(s) + p] = Byte
      /\ t[Len(s) + asked.size + 1] = asked.kind
  <2>1. t \in Seq({Byte} \cup RpcKinds) /\ Len(t) = Len(s) + Len(line)
        /\ \A p \in 1..(Len(s) + Len(line)) : t[p] = IF p <= Len(s) THEN s[p] ELSE line[p - Len(s)]
    BY SMTT(30), <1>2
  <2> HIDE DEF t
  <2>2. \A p \in 1..(asked.size + 1) : t[Len(s) + p] = line[p]
    <3> SUFFICES ASSUME NEW p \in 1..(asked.size + 1) PROVE t[Len(s) + p] = line[p]
      OBVIOUS
    <3>1. Len(s) + p \in 1..(Len(s) + Len(line)) /\ ~(Len(s) + p <= Len(s)) /\ (Len(s) + p) - Len(s) = p
      BY <1>1, <1>2
    <3> QED
      BY <3>1, <2>1
  <2>3. \A p \in 1..Len(s) : t[p] = s[p]
    <3> SUFFICES ASSUME NEW p \in 1..Len(s) PROVE t[p] = s[p]
      OBVIOUS
    <3>1. p \in 1..(Len(s) + Len(line)) /\ p <= Len(s)
      BY <1>1, <1>2
    <3> QED
      BY <3>1, <2>1
  <2>4. Len(s) + asked.size + 1 = Len(s) + (asked.size + 1) /\ asked.size + 1 \in 1..(asked.size + 1)
    BY SMTT(30), <1>1
  <2>5. Len(t) = Len(s) + asked.size + 1
    BY <2>1, <1>1, <1>2
  <2>6. \A p \in 1..asked.size : p \in 1..(asked.size + 1)
    BY <1>1
  <2>7. \A p \in 1..asked.size : t[Len(s) + p] = Byte
    BY <2>2, <2>6, <1>2
  <2>8. t[Len(s) + asked.size + 1] = asked.kind
    BY <2>2, <2>4, <1>2
  <2> QED
    BY <2>1, <2>3, <2>5, <2>7, <2>8
<1> HIDE DEF t
<1>4. /\ v \in Seq(RpcRequests) /\ Len(v) = Len(w) + 1
      /\ \A k \in 1..Len(w) : v[k] = w[k]
      /\ v[Len(w) + 1] = asked
  BY <1>1
<1> HIDE DEF v
<1>5. /\ \A k \in h..Len(w) : more[k] = ends[k] /\ ends[k] \in Int /\ ends[k] <= Len(s)
      /\ more[Len(w) + 1] = Len(s) + asked.size + 1
      /\ ends[Len(w)] = Len(s)
  <2>1. \A k \in h..Len(w) : ends[k] \in Int /\ ends[k] <= Len(s)
    BY <1>1 DEF Layout
  <2> QED
    BY <2>1, <1>1 DEF Layout
<1>6. more \in [h..Len(v) -> Int] /\ more[h] = 0 - f /\ more[Len(v)] = Len(t)
  BY <1>1, <1>3, <1>4, <1>5 DEF Layout
<1> HIDE DEF more
<1>7. \A k \in (h + 1)..Len(v) : more[k] = more[k - 1] + v[k].size + 1
  <2> SUFFICES ASSUME NEW k \in (h + 1)..Len(v) PROVE more[k] = more[k - 1] + v[k].size + 1
    OBVIOUS
  <2>1. CASE k = Len(w) + 1
    <3>1. k - 1 = Len(w) /\ Len(w) \in h..Len(w)
      BY <2>1, <1>1
    <3>2. more[k - 1] = Len(s) /\ more[k] = Len(s) + asked.size + 1 /\ v[k] = asked
      BY <2>1, <3>1, <1>4, <1>5
    <3> QED
      BY <3>2, <1>1
  <2>2. CASE k # Len(w) + 1
    <3>1. k \in (h + 1)..Len(w) /\ k \in 1..Len(w) /\ k - 1 \in h..Len(w) /\ k \in h..Len(w)
      BY <2>2, <1>1, <1>4
    <3>2. ends[k] = ends[k - 1] + w[k].size + 1
      BY <3>1 DEF Layout
    <3> QED
      BY <3>1, <3>2, <1>4, <1>5
  <2> QED
    BY <2>1, <2>2
<1>8. \A k \in (h + 1)..Len(v) : more[k] \in 1..Len(t) /\ t[more[k]] = v[k].kind
  <2> SUFFICES ASSUME NEW k \in (h + 1)..Len(v) PROVE more[k] \in 1..Len(t) /\ t[more[k]] = v[k].kind
    OBVIOUS
  <2>1. CASE k = Len(w) + 1
    BY <2>1, <1>1, <1>3, <1>4, <1>5
  <2>2. CASE k # Len(w) + 1
    <3>1. k \in (h + 1)..Len(w) /\ k \in 1..Len(w) /\ k \in h..Len(w)
      BY <2>2, <1>1, <1>4
    <3>2. ends[k] \in 1..Len(s) /\ s[ends[k]] = w[k].kind
      BY <3>1 DEF Layout
    <3>3. more[k] = ends[k] /\ v[k] = w[k] /\ t[ends[k]] = s[ends[k]]
      BY <3>1, <3>2, <1>3, <1>4, <1>5
    <3> QED
      BY SMTT(30), <3>2, <3>3, <1>1, <1>3
  <2> QED
    BY <2>1, <2>2
<1>9. \A j, k \in h..Len(v) : j < k => more[j] < more[k]
  <2> SUFFICES ASSUME NEW j \in h..Len(v), NEW k \in h..Len(v), j < k PROVE more[j] < more[k]
    OBVIOUS
  <2>1. j \in h..Len(w)
    BY <1>1, <1>4
  <2>2. CASE k = Len(w) + 1
    <3>1. more[j] \in Int /\ more[j] <= Len(s) /\ more[k] = Len(s) + asked.size + 1
      BY <2>1, <2>2, <1>5
    <3> QED
      BY <3>1, <1>1
  <2>3. CASE k # Len(w) + 1
    <3>1. k \in h..Len(w)
      BY <2>3, <1>1, <1>4
    <3>2. ends[j] < ends[k]
      BY <2>1, <3>1 DEF Layout
    <3> QED
      BY <2>1, <3>1, <3>2, <1>5
  <2> QED
    BY <2>2, <2>3
<1>10. \A p \in 1..Len(t) : t[p] = Byte \/ \E k \in (h + 1)..Len(v) : p = more[k]
  <2> SUFFICES ASSUME NEW p \in 1..Len(t), t[p] # Byte PROVE \E k \in (h + 1)..Len(v) : p = more[k]
    OBVIOUS
  <2>1. CASE p \in 1..Len(s)
    <3>1. s[p] # Byte
      BY <2>1, <1>3
    <3>2. PICK k \in (h + 1)..Len(w) : p = ends[k]
      BY <2>1, <3>1 DEF Layout
    <3>3. k \in (h + 1)..Len(v) /\ k \in h..Len(w)
      BY <1>1, <1>4
    <3> QED
      BY <3>2, <3>3, <1>5
  <2>2. CASE p \notin 1..Len(s)
    <3>1. p - Len(s) \in 1..(asked.size + 1) /\ p = Len(s) + (p - Len(s))
      BY SMTT(30), <2>2, <1>1, <1>3
    <3>2. p - Len(s) \notin 1..asked.size
      BY <3>1, <1>3
    <3>3. p = Len(s) + asked.size + 1
      BY SMTT(30), <3>1, <3>2, <1>1
    <3>4. Len(w) + 1 \in (h + 1)..Len(v)
      BY <1>1, <1>4
    <3> QED
      BY <3>3, <3>4, <1>5
  <2> QED
    BY <2>1, <2>2
<1>11. Layout(v, t, f, h, more)
  BY <1>1, <1>4, <1>6, <1>7, <1>8, <1>9, <1>10 DEF Layout
<1> QED
  BY <1>11 DEF v, t, more, line

(* The steps *)

LEMMA LenUp == ASSUME NEW S, NEW s \in Seq(S), NEW x \in S
  PROVE  /\ Append(s, x) \in Seq(S) /\ Len(Append(s, x)) = Len(s) + 1 /\ Append(s, x)[Len(s) + 1] = x
         /\ \A i \in 1..Len(s) : Append(s, x)[i] = s[i]
  OBVIOUS

LEMMA ToldFinite ==
  ASSUME RpcTypes
  PROVE  /\ IsFiniteSet(Told) /\ Cardinality(Told) \in Nat /\ Told \subseteq 1..Len(answers)
         /\ IsFiniteSet(Asked) /\ Cardinality(Asked) \in Nat /\ Len(answers) \in Nat /\ Len(written) \in Nat
         /\ IsFiniteSet(ToldOrFailed) /\ Cardinality(ToldOrFailed) \in Nat
         /\ ToldOrFailed \subseteq 1..Len(answers)
<1>1. DOMAIN answers = 1..Len(answers) /\ DOMAIN written = 1..Len(written) /\ Len(answers) \in Nat /\ Len(written) \in Nat
  BY DEF RpcTypes
<1>2. IsFiniteSet(1..Len(answers)) /\ IsFiniteSet(1..Len(written))
  BY <1>1, FS_Interval
<1>3. Told \subseteq 1..Len(answers) /\ Asked \subseteq 1..Len(written)
  BY <1>1 DEF Told, Asked
<1>4. ToldOrFailed \subseteq 1..Len(answers)
  BY <1>1 DEF ToldOrFailed
<1>5. IsFiniteSet(Told) /\ IsFiniteSet(Asked) /\ IsFiniteSet(ToldOrFailed)
  BY <1>2, <1>3, <1>4, FS_Subset
<1> QED
  BY <1>1, <1>3, <1>4, <1>5, FS_CardinalityType

\* Some places of a sequence
LEMMA Places ==
  ASSUME NEW n \in Nat, NEW T \in SUBSET (1..n)
  PROVE  IsFiniteSet(T) /\ Cardinality(T) \in Nat
<1>1. IsFiniteSet(1..n)
  BY FS_Interval
<1>2. IsFiniteSet(T)
  BY <1>1, FS_Subset
<1> QED
  BY <1>2, FS_CardinalityType

\* The starts that may have been made only grow in number.
LEMMA MayGrow ==
  ASSUME RpcTypes, RpcTypes', ToldOrFailed \subseteq ToldOrFailed'
  PROVE  /\ Cardinality(ToldOrFailed) <= Cardinality(ToldOrFailed')
         /\ Cardinality(ToldOrFailed) \in Nat /\ Cardinality(ToldOrFailed') \in Nat
<1>1. ToldOrFailed' \in SUBSET (1..Len(answers')) /\ Len(answers') \in Nat
  BY DEF ToldOrFailed, RpcTypes
<1>2. IsFiniteSet(ToldOrFailed') /\ Cardinality(ToldOrFailed') \in Nat
  BY <1>1, Places
<1> QED
  BY <1>2, FS_Subset, ToldFinite

\* An answer that is no start leaves the number of starts told as it is.
LEMMA NotAStart ==
  ASSUME RpcTypes, NEW a \in RpcCodes, a # "started", answers' = Append(answers, a)
  PROVE  Told' = Told
<1>1. /\ Len(answers') = Len(answers) + 1 /\ answers'[Len(answers) + 1] = a /\ Len(answers) \in Nat
      /\ \A i \in 1..Len(answers) : answers'[i] = answers[i]
      /\ DOMAIN answers = 1..Len(answers) /\ DOMAIN answers' = 1..(Len(answers) + 1)
  BY DEF RpcTypes
<1> QED
  BY <1>1 DEF Told

LEMMA AStart ==
  ASSUME RpcTypes, answers' = Append(answers, "started")
  PROVE  Told' = Told \cup {Len(answers) + 1} /\ Cardinality(Told') = Cardinality(Told) + 1
<1>1. /\ Len(answers') = Len(answers) + 1 /\ answers'[Len(answers) + 1] = "started" /\ Len(answers) \in Nat
      /\ \A i \in 1..Len(answers) : answers'[i] = answers[i]
      /\ DOMAIN answers = 1..Len(answers) /\ DOMAIN answers' = 1..(Len(answers) + 1)
  BY DEF RpcTypes
<1>2. Told' = Told \cup {Len(answers) + 1} /\ Len(answers) + 1 \notin Told
  BY <1>1 DEF Told
<1> QED
  BY <1>2, ToldFinite, FS_AddElement

\* While the connection is served, the answers told agree with the requests.
LEMMA RpcInvInit == RpcInit => RpcInv
<1> SUFFICES ASSUME RpcInit PROVE RpcInv
  OBVIOUS
<1>1. RpcTypes
  BY DEF RpcInit, RpcTypes
<1>2. /\ Told = {} /\ Cardinality(Told) = 0
      /\ ToldOrFailed = {} /\ Cardinality(ToldOrFailed) = 0
  BY FS_EmptySet DEF RpcInit, Told, ToldOrFailed
<1>3. AnswersInOrder
  BY DEF RpcInit, AnswersInOrder
<1>4. Cardinality(Asked) \in Nat
  BY <1>1, ToldFinite
<1> QED
  BY <1>1, <1>2, <1>3, <1>4 DEF RpcInit, RpcInv, Serving, AnswersAccount, StartsAccounted

LEMMA AcceptStep == ASSUME RpcInv, Accept PROVE RpcInv'
<1>1. /\ written = <<>> /\ stream = <<>> /\ answers = <<>> /\ frame = 0 /\ current = "none" /\ instances = 0
      /\ UNCHANGED <<written, stream, answers, frame, current, instances>> /\ link' = "open"
  BY DEF RpcInv, RpcTypes, Accept
<1>2. RpcTypes'
  BY <1>1 DEF RpcInv, RpcTypes
<1>3. /\ Told' = {} /\ Cardinality(Told') = 0 /\ Handled' = 0 /\ CurrentOK'
      /\ ToldOrFailed' = {} /\ Cardinality(ToldOrFailed') = 0
  BY <1>1, FS_EmptySet DEF Told, ToldOrFailed, Handled, HandledOf, CurrentOK
<1>4. Layout(written', stream', frame', 0, [k \in 0..0 |-> 0])
  BY <1>1 DEF Layout
<1>5. AnswersInOrder'
  BY <1>1 DEF AnswersInOrder
<1>6. Cardinality(Asked)' \in Nat
  BY <1>1, ToldFinite DEF RpcInv, Asked
<1> QED
  BY <1>1, <1>2, <1>3, <1>4, <1>5, <1>6 DEF RpcInv, AnswersAccount, StartsAccounted

LEMMA HangUpStep == ASSUME RpcInv, HangUp PROVE RpcInv'
<1>1. UNCHANGED <<written, stream, answers, frame, current, instances>> /\ link' = "broken" /\ link = "open"
  BY DEF HangUp
<1>2. /\ RpcTypes' /\ Told' = Told /\ Asked' = Asked /\ Handled' = Handled
      /\ ToldOrFailed' = ToldOrFailed
  BY <1>1 DEF RpcInv, RpcTypes, Told, Asked, ToldOrFailed, Handled, HandledOf
<1>3. AnswersInOrder' /\ StartsAccounted'
  BY <1>1, <1>2 DEF RpcInv, AnswersAccount, AnswersInOrder, LastWordOK, StartsAccounted
<1> QED
  BY <1>1, <1>2, <1>3 DEF RpcInv, AnswersAccount, CurrentOK, Serving

LEMMA RpcStutter == ASSUME RpcInv, UNCHANGED <<link, written, stream, frame, current, answers, instances>>
                    PROVE RpcInv'
<1>1. /\ RpcTypes' /\ Told' = Told /\ Asked' = Asked /\ Handled' = Handled
      /\ ToldOrFailed' = ToldOrFailed
  BY DEF RpcInv, RpcTypes, Told, Asked, ToldOrFailed, Handled, HandledOf
<1>2. AnswersInOrder' /\ StartsAccounted'
  BY <1>1 DEF RpcInv, AnswersAccount, AnswersInOrder, LastWordOK, StartsAccounted
<1> QED
  BY <1>1, <1>2 DEF RpcInv, AnswersAccount, CurrentOK, Serving

\* While the connection lasts, every answer is the one of a request.
LEMMA AnsweredSoFar ==
  ASSUME RpcInv, Serving, NEW i \in 1..Len(answers)
  PROVE  /\ i \in 1..Len(written) /\ written[i].size <= MAX_RPC_FRAME_BYTES
         /\ answers[i] \in RpcAnswer(written[i].kind)
<1>1. ~LastWordOK(i)
  BY DEF LastWordOK, Serving
<1>2. /\ i <= Len(written) /\ written[i].size <= MAX_RPC_FRAME_BYTES
      /\ answers[i] \in RpcAnswer(written[i].kind) /\ Len(answers) \in Nat /\ Len(written) \in Nat
  BY <1>1 DEF RpcInv, AnswersAccount, AnswersInOrder, RpcTypes
<1> QED
  BY <1>2

LEMMA WriteRequestStep ==
  ASSUME RpcInv, NEW kind \in RpcKinds, NEW size \in 1..LongestFrame, WriteRequest(kind, size)
  PROVE  RpcInv'
<1> DEFINE asked == [kind |-> kind, size |-> size]
<1>1. asked \in RpcRequests
  BY DEF RpcRequests
<1>2. /\ UNCHANGED <<link, frame, current, answers, instances>> /\ link = "open"
      /\ written' = Append(written, asked) /\ stream' = stream \o LineOf(asked)
  BY DEF WriteRequest
<1> HIDE DEF asked
<1>3. LineOf(asked) \in Seq({Byte} \cup RpcKinds)
  <2>1. asked.size \in Nat /\ asked.kind \in RpcKinds
    BY <1>1, RpcAssumption DEF RpcRequests, LongestFrame
  <2>2. [k \in 1..asked.size |-> Byte] \in Seq({Byte} \cup RpcKinds)
    BY <2>1
  <2> QED
    BY <2>1, <2>2 DEF LineOf
<1>4. RpcTypes'
  BY <1>1, <1>2, <1>3 DEF RpcInv, RpcTypes
<1>5. Serving /\ Serving' /\ Handled' = Handled /\ Told' = Told
  BY <1>2 DEF Serving, Handled, HandledOf, Told
<1>6. PICK ends : Layout(written, stream, frame, Handled, ends)
  BY <1>5 DEF RpcInv
<1>7. \E new : Layout(written', stream', frame', Handled', new)
  BY <1>1, <1>2, <1>5, <1>6, OneMoreLine DEF RpcInv, RpcTypes
<1>8. /\ Len(written) \in Nat /\ Len(written') = Len(written) + 1
      /\ \A i \in 1..Len(written) : written'[i] = written[i] /\ i \in 1..Len(written')
      /\ DOMAIN written = 1..Len(written) /\ DOMAIN written' = 1..(Len(written) + 1)
  BY <1>1, <1>2 DEF RpcInv, RpcTypes
<1>9. CurrentOK'
  BY <1>2, <1>5, <1>8 DEF RpcInv, CurrentOK
<1>10. AnswersInOrder'
  <2> SUFFICES ASSUME NEW i \in 1..Len(answers)
               PROVE /\ i <= Len(written') /\ written'[i].size <= MAX_RPC_FRAME_BYTES
                     /\ answers[i] \in RpcAnswer(written'[i].kind)
    BY <1>2 DEF AnswersInOrder, RpcAnswer
  <2> QED
    BY <1>5, <1>8, AnsweredSoFar
<1>11. Cardinality(Asked) <= Cardinality(Asked') /\ Cardinality(Asked) \in Nat /\ Cardinality(Asked') \in Nat
  <2>1. IsFiniteSet(Asked') /\ Cardinality(Asked') \in Nat
    <3>1. IsFiniteSet(1..(Len(written) + 1))
      BY <1>8, FS_Interval
    <3>2. Asked' \subseteq 1..(Len(written) + 1)
      BY <1>8 DEF Asked
    <3> QED
      BY <3>1, <3>2, FS_Subset, FS_CardinalityType
  <2>2. Asked \subseteq Asked'
    BY <1>8 DEF Asked
  <2> QED
    BY <2>1, <2>2, FS_Subset, ToldFinite DEF RpcInv
<1>12. /\ Cardinality(ToldOrFailed) <= Cardinality(ToldOrFailed')
       /\ Cardinality(ToldOrFailed) \in Nat /\ Cardinality(ToldOrFailed') \in Nat
  <2>1. ToldOrFailed \subseteq ToldOrFailed'
    BY <1>2, <1>8 DEF ToldOrFailed, Asked
  <2> QED
    BY <1>4, <2>1, MayGrow DEF RpcInv
<1>13. /\ instances' <= Cardinality(ToldOrFailed') /\ instances' \in Nat
       /\ instances' <= Cardinality(Asked') /\ Cardinality(Told') <= instances'
  <2>1. /\ instances \in Nat /\ instances' = instances /\ Cardinality(Told') = Cardinality(Told)
        /\ instances <= Cardinality(ToldOrFailed)
        /\ instances <= Cardinality(Asked) /\ Cardinality(Told) <= instances
    BY <1>2, <1>5 DEF RpcInv, RpcTypes, AnswersAccount, StartsAccounted
  <2> QED
    BY <1>11, <1>12, <2>1
<1>14. StartsAccounted'
  BY <1>12, <1>13 DEF StartsAccounted
<1> QED
  BY <1>2, <1>4, <1>5, <1>7, <1>9, <1>10, <1>13, <1>14 DEF RpcInv, AnswersAccount

\* The last word of the server
LastWord(answer) ==
  \/ answer = "DEADLINE_EXCEEDED" /\ Len(answers) = Len(written)
  \/ /\ answer = "RESOURCE_EXHAUSTED" /\ Len(answers) + 1 \in 1..Len(written)
     /\ written[Len(answers) + 1].size > MAX_RPC_FRAME_BYTES

LEMMA CloseStep ==
  ASSUME RpcInv, Serving, NEW answer, CloseWith(answer), LastWord(answer),
         UNCHANGED <<written, stream, frame, current, instances>>
  PROVE  RpcInv'
<1>1. answer \in RpcCodes /\ answer # "started" /\ link' = "closed"
  BY DEF LastWord, RpcCodes, CloseWith
<1>2. Told' = Told /\ Asked' = Asked
  <2>1. CASE link = "open"
    BY <2>1, <1>1, NotAStart DEF CloseWith, RpcInv, Asked
  <2>2. CASE link # "open"
    BY <2>2 DEF CloseWith, Told, Asked
  <2> QED
    BY <2>1, <2>2
<1>3. RpcTypes'
  <2>1. answers' \in Seq(RpcCodes)
    BY <1>1 DEF CloseWith, RpcInv, RpcTypes
  <2> QED
    BY <2>1, <1>1 DEF RpcInv, RpcTypes
<1>4. StartsAccounted'
  <2>1. ToldOrFailed \subseteq ToldOrFailed'
    <3>1. /\ DOMAIN answers \subseteq DOMAIN answers'
          /\ \A i \in DOMAIN answers : answers'[i] = answers[i]
      BY <1>1 DEF CloseWith, RpcInv, RpcTypes
    <3> QED
      BY <3>1, <1>2 DEF ToldOrFailed
  <2>2. /\ Cardinality(ToldOrFailed) <= Cardinality(ToldOrFailed')
        /\ Cardinality(ToldOrFailed) \in Nat /\ Cardinality(ToldOrFailed') \in Nat
    BY <1>3, <2>1, MayGrow DEF RpcInv
  <2>4. /\ instances' = instances /\ instances \in Nat
        /\ instances <= Cardinality(ToldOrFailed)
        /\ instances <= Cardinality(Asked) /\ Cardinality(Told) <= instances
    BY DEF RpcInv, RpcTypes, AnswersAccount, StartsAccounted
  <2>5. instances' <= Cardinality(ToldOrFailed') + 1
    BY <2>2, <2>4
  <2> QED
    BY <1>1, <1>2, <2>4, <2>5 DEF StartsAccounted
<1>5. AnswersInOrder'
  <2>1. CASE link = "open"
    <3>1. /\ answers' = Append(answers, answer) /\ Len(answers') = Len(answers) + 1 /\ Len(answers) \in Nat
          /\ answers'[Len(answers) + 1] = answer
          /\ \A i \in 1..Len(answers) : answers'[i] = answers[i]
      BY <2>1, <1>1 DEF CloseWith, RpcInv, RpcTypes
    <3> SUFFICES ASSUME NEW i \in 1..(Len(answers) + 1)
                 PROVE  \/ /\ i <= Len(written) /\ written[i].size <= MAX_RPC_FRAME_BYTES
                           /\ answers'[i] \in RpcAnswer(written[i].kind)
                        \/ LastWordOK(i)'
      BY <3>1 DEF AnswersInOrder, RpcAnswer
    <3>2. CASE i \in 1..Len(answers)
      BY <3>1, <3>2, AnsweredSoFar
    <3>3. CASE i \notin 1..Len(answers)
      <4>1. i = Len(answers) + 1 /\ Len(written) \in Nat
        BY <3>1, <3>3 DEF RpcInv, RpcTypes
      <4> QED
        BY <4>1, <3>1, <1>1 DEF LastWord, LastWordOK
    <3> QED
      BY <3>2, <3>3
  <2>2. CASE link # "open"
    <3>1. answers' = answers
      BY <2>2 DEF CloseWith
    <3> QED
      BY <3>1, AnsweredSoFar DEF AnswersInOrder, RpcInv, RpcTypes
  <2> QED
    BY <2>1, <2>2
<1> QED
  BY <1>1, <1>3, <1>4, <1>5 DEF RpcInv, AnswersAccount, Serving

LEMMA ReadFragmentStep ==
  ASSUME RpcInv, NEW n \in 1..Len(stream), ReadFragment(n) PROVE RpcInv'
<1> DEFINE available == SubSeq(stream, 1, n)
           ends == {k \in 1..n : available[k] # Byte}
           pos == IF ends = {} THEN n ELSE CHOOSE k \in ends : \A j \in ends : k <= j
           more == IF ends = {} THEN n ELSE pos - 1
<1>1. /\ Serving /\ current = "none" /\ Handled = Len(answers) /\ Len(stream) \in Nat /\ Len(answers) \in Nat
      /\ stream \in Seq({Byte} \cup RpcKinds) /\ written \in Seq(RpcRequests) /\ frame \in Nat
  BY DEF ReadFragment, ReadingFrame, Serving, Handled, HandledOf, RpcInv, RpcTypes
<1>2. PICK e : Layout(written, stream, frame, Len(answers), e)
  BY <1>1 DEF RpcInv
<1>3. \A k \in 1..n : available[k] = stream[k]
  BY <1>1
<1>4. ends = {k \in 1..n : stream[k] # Byte}
  BY <1>3
<1>5. CASE ends = {}
  <2>1. \A p \in 1..n : stream[p] = Byte
    BY <1>4, <1>5
  <2>2. /\ Len(answers) + 1 \in 1..Len(written) /\ frame + n <= written[Len(answers) + 1].size
        /\ \E new : Layout(written, SubSeq(stream, n + 1, Len(stream)), frame + n, Len(answers), new)
    BY <1>1, <1>2, <2>1, PartOfFrame
  <2>3. CASE ~FrameFits(frame, n, FALSE)
    <3>1. CloseWith("RESOURCE_EXHAUSTED") /\ UNCHANGED <<stream, frame, current, written, instances>>
      BY <1>5, <2>3 DEF ReadFragment, FrameFits
    <3>2. written[Len(answers) + 1] \in RpcRequests
      BY <1>1, <2>2
    <3>3. written[Len(answers) + 1].size \in Nat
      BY <3>2, RpcAssumption DEF RpcRequests, LongestFrame
    <3>4. LastWord("RESOURCE_EXHAUSTED")
      BY <2>2, <2>3, <3>3, <1>1, RpcAssumption DEF LastWord, FrameFits
    <3> QED
      BY <1>1, <3>1, <3>4, CloseStep
  <2>4. CASE FrameFits(frame, n, FALSE)
    <3>1. /\ stream' = SubSeq(stream, n + 1, Len(stream)) /\ frame' = frame + n /\ current' = "none"
          /\ UNCHANGED <<link, answers, written, instances>>
      BY <1>5, <2>4 DEF ReadFragment, FrameFits
    <3>2. Handled' = Len(answers) /\ Told' = Told /\ Asked' = Asked /\ Serving' /\ ToldOrFailed' = ToldOrFailed
      BY <3>1, <1>1 DEF Handled, HandledOf, Told, Asked, ToldOrFailed, Serving
    <3>3. \E new : Layout(written', stream', frame', Handled', new)
      BY <2>2, <3>1, <3>2
    <3>4. stream' \in Seq({Byte} \cup RpcKinds) /\ frame' \in Nat
      BY <3>1, <1>1
    <3>5. RpcTypes' /\ CurrentOK'
      BY <3>1, <3>4, <1>1 DEF RpcInv, RpcTypes, CurrentOK, Serving
    <3>6. AnswersAccount'
      BY <3>1, <3>2 DEF RpcInv, AnswersAccount, AnswersInOrder, LastWordOK, StartsAccounted
    <3> QED
      BY <3>1, <3>2, <3>3, <3>5, <3>6, <1>1 DEF RpcInv
  <2> QED
    BY <2>3, <2>4
<1>6. CASE ends # {}
  <2> DEFINE first == CHOOSE k \in ends : \A j \in ends : k <= j
  <2>1. \E k \in ends : \A j \in ends : k <= j
    <3>1. PICK x \in 1..n : stream[x] # Byte
      BY <1>4, <1>6
    <3>2. PICK k : FirstAt(stream, n, k)
      BY <1>1, <1>2, <3>1, FirstEnd
    <3> QED
      BY <3>2, <1>4 DEF FirstAt
  <2>2. first \in ends /\ \A j \in ends : first <= j
    BY <2>1
  <2> HIDE DEF first
  <2>3. FirstAt(stream, n, first) /\ first \in 1..n
    BY <1>4, <2>2 DEF FirstAt
  <2>4. /\ Len(answers) + 1 \in 1..Len(written) /\ frame + (first - 1) = written[Len(answers) + 1].size
        /\ stream[first] = written[Len(answers) + 1].kind
        /\ \E new : Layout(written, SubSeq(stream, first + 1, Len(stream)), 0, Len(answers) + 1, new)
    <3>1. FrameRead(written, stream, frame, Len(answers), first)
      BY <1>1, <1>2, <2>3, EndOfFrame
    <3> QED
      BY <3>1 DEF FrameRead
  <2>5. CASE ~FrameFits(frame, first - 1, TRUE)
    <3>1. CloseWith("RESOURCE_EXHAUSTED") /\ UNCHANGED <<stream, frame, current, written, instances>>
      BY <1>6, <2>5 DEF ReadFragment, FrameFits, first
    <3>2. written[Len(answers) + 1] \in RpcRequests
      BY <1>1, <2>4
    <3>3. written[Len(answers) + 1].size \in Nat
      BY <3>2, RpcAssumption DEF RpcRequests, LongestFrame
    <3>4. LastWord("RESOURCE_EXHAUSTED")
      BY <2>4, <2>5, <3>3, <1>1, RpcAssumption DEF LastWord, FrameFits
    <3> QED
      BY <1>1, <3>1, <3>4, CloseStep
  <2>6. CASE FrameFits(frame, first - 1, TRUE)
    <3>1. /\ stream' = SubSeq(stream, first + 1, Len(stream)) /\ frame' = 0 /\ current' = available[first]
          /\ UNCHANGED <<link, answers, written, instances>>
      BY <1>6, <2>6 DEF ReadFragment, FrameFits, first
    <3>2. current' = stream[first]
      BY <3>1, <1>3, <2>3
    <3>3. written[Len(answers) + 1] \in RpcRequests
      BY <1>1, <2>4
    <3>4. current' = written[Len(answers) + 1].kind /\ current' \in RpcKinds /\ current' # "none"
      BY <3>2, <3>3, <2>4 DEF RpcRequests, RpcKinds
    <3>5. /\ Handled' = Len(answers) + 1 /\ Told' = Told /\ Asked' = Asked /\ Serving'
          /\ ToldOrFailed' = ToldOrFailed
      BY <3>1, <3>4, <1>1 DEF Handled, HandledOf, Told, Asked, ToldOrFailed, Serving
    <3>6. \E new : Layout(written', stream', frame', Handled', new)
      BY <2>4, <3>1, <3>5
    <3>7. CurrentOK'
      BY <2>4, <2>6, <3>1, <3>4, <3>5 DEF CurrentOK, FrameFits
    <3>8. stream' \in Seq({Byte} \cup RpcKinds) /\ frame' \in Nat
      BY <3>1, <1>1, <2>3
    <3>9. RpcTypes'
      BY <3>1, <3>4, <3>8, <1>1 DEF RpcInv, RpcTypes, Serving
    <3>10. AnswersAccount'
      BY <3>1, <3>5 DEF RpcInv, AnswersAccount, AnswersInOrder, LastWordOK, StartsAccounted
    <3> QED
      BY <3>1, <3>5, <3>6, <3>7, <3>9, <3>10, <1>1 DEF RpcInv
  <2> QED
    BY <2>5, <2>6
<1> QED
  BY <1>5, <1>6

LEMMA ReadTimeoutStep == ASSUME RpcInv, ReadTimeout PROVE RpcInv'
<1>1. Serving /\ Handled = Len(answers) /\ stream = <<>> /\ Len(answers) \in Nat /\ Len(written) \in Nat /\ frame \in Nat
  BY DEF ReadTimeout, ReadingFrame, Serving, Handled, HandledOf, RpcInv, RpcTypes
<1>2. PICK e : Layout(written, stream, frame, Len(answers), e)
  BY <1>1 DEF RpcInv
<1>3. Len(answers) = Len(written)
  <2>1. Len(answers) # Len(written) => Len(written) \in (Len(answers) + 1)..Len(written)
    BY <1>1, <1>2 DEF Layout
  <2>2. \A k \in (Len(answers) + 1)..Len(written) : e[k] \in 1..0
    BY <1>1, <1>2 DEF Layout
  <2> QED
    BY <2>1, <2>2
<1> QED
  BY <1>1, <1>3, CloseStep DEF ReadTimeout, LastWord

LEMMA ReadEofStep == ASSUME RpcInv, ReadEof PROVE RpcInv'
<1>1. UNCHANGED <<written, stream, answers, frame, current, instances>> /\ link' = "closed" /\ link = "broken"
  BY DEF ReadEof
<1>2. RpcTypes' /\ Told' = Told /\ Asked' = Asked /\ ToldOrFailed' = ToldOrFailed
  BY <1>1 DEF RpcInv, RpcTypes, Told, Asked, ToldOrFailed
<1>3. AnswersInOrder'
  BY <1>1, AnsweredSoFar DEF RpcInv, RpcTypes, AnswersInOrder, Serving
<1>4. StartsAccounted'
  BY <1>1, <1>2, ToldFinite DEF RpcInv, RpcTypes, AnswersAccount, StartsAccounted, Serving
<1> QED
  BY <1>1, <1>2, <1>3, <1>4 DEF RpcInv, AnswersAccount, Serving

\* The starts that may have been made are among those asked for, before the last one.
LEMMA StartsAsked ==
  ASSUME RpcInv, Serving
  PROVE  /\ \A i \in ToldOrFailed : i \in Asked /\ i <= Len(answers)
         /\ instances <= Cardinality(ToldOrFailed) /\ instances \in Nat
         /\ Cardinality(Told) <= instances
  BY ToldFinite DEF RpcInv, RpcTypes, ToldOrFailed, AnswersAccount, StartsAccounted

LEMMA RespondStep == ASSUME RpcInv, NEW answer, Respond(answer) PROVE RpcInv'
<1> DEFINE h == Len(answers) + 1
<1>1. Serving /\ current # "none" /\ Handled = h /\ Len(answers) \in Nat /\ current \in RpcKinds
  BY DEF Respond, Serving, Handled, HandledOf, RpcInv, RpcTypes
<1>2. /\ h \in 1..Len(written) /\ written[h].kind = current /\ written[h].size <= MAX_RPC_FRAME_BYTES
      /\ (h \in Asked <=> current = "start")
  BY <1>1 DEF RpcInv, CurrentOK, Asked, RpcTypes
<1>3. /\ answer \in RpcAnswer(current) /\ answer \in RpcCodes /\ (answer = "started" => current = "start")
      /\ (current = "start" => answer \in MethodAnswers("start"))
  BY <1>1, RpcAnswerFacts DEF Respond
<1>4. /\ current' = "none" /\ UNCHANGED <<written, stream, frame>>
      /\ answers' = IF link = "open" THEN Append(answers, answer) ELSE answers
      /\ link' = IF link = "open" THEN "open" ELSE "closed"
  BY DEF Respond
<1>5. /\ Asked' = Asked /\ IsFiniteSet(Asked) /\ Cardinality(Asked) \in Nat
      /\ Cardinality(Told) \in Nat /\ IsFiniteSet(ToldOrFailed) /\ Cardinality(ToldOrFailed) \in Nat
      /\ instances \in Nat /\ instances <= Cardinality(ToldOrFailed)
      /\ Cardinality(Told) <= instances /\ h \notin ToldOrFailed
  BY <1>1, <1>4, ToldFinite, StartsAsked DEF RpcInv, Asked
<1>6. PICK stored \in {0, 1} : /\ instances' = instances + stored
                              /\ (answer = "started" => stored = 1)
                              /\ (stored = 1 => current = "start")
  BY <1>3 DEF Respond, StoredFor
<1>7. instances' \in Nat
  BY <1>5, <1>6
<1>8. current = "start" => /\ Cardinality(ToldOrFailed \cup {h}) = Cardinality(ToldOrFailed) + 1
                           /\ Cardinality(ToldOrFailed \cup {h}) <= Cardinality(Asked)
  <2> SUFFICES ASSUME current = "start"
               PROVE  /\ Cardinality(ToldOrFailed \cup {h}) = Cardinality(ToldOrFailed) + 1
                      /\ Cardinality(ToldOrFailed \cup {h}) <= Cardinality(Asked)
    OBVIOUS
  <2>1. ToldOrFailed \cup {h} \subseteq Asked
    BY <1>1, <1>2, StartsAsked
  <2> QED
    BY <2>1, <1>5, FS_AddElement, FS_Subset
<1>9. instances' <= Cardinality(Asked)
  <2>1. CASE stored = 0
    BY <2>1, <1>5, <1>6 DEF RpcInv, AnswersAccount, StartsAccounted
  <2>2. CASE stored = 1
    <3>1. instances' = instances + 1 /\ Cardinality(ToldOrFailed) + 1 <= Cardinality(Asked)
      BY <2>2, <1>6, <1>8
    <3> QED
      BY <3>1, <1>5
  <2> QED
    BY <2>1, <2>2
<1>10. CASE link = "open"
  <2>1. /\ answers' = Append(answers, answer) /\ link' = "open" /\ answers' \in Seq(RpcCodes)
        /\ Len(answers') = h /\ answers'[h] = answer
        /\ \A i \in 1..Len(answers) : answers'[i] = answers[i]
    BY <1>10, <1>3, <1>4 DEF RpcInv, RpcTypes
  <2>2. RpcTypes'
    BY <2>1, <1>4, <1>7 DEF RpcInv, RpcTypes
  <2>3. Handled' = Handled /\ CurrentOK' /\ Serving'
    BY <2>1, <1>1, <1>4 DEF Handled, HandledOf, CurrentOK, Serving
  <2>4. \E ends : Layout(written', stream', frame', Handled', ends)
    BY <2>3, <1>1, <1>4 DEF RpcInv
  <2>5. instances' <= Cardinality(ToldOrFailed') /\ Cardinality(ToldOrFailed') \in Nat
    <3>1. ToldOrFailed' = IF current = "start" THEN ToldOrFailed \cup {h} ELSE ToldOrFailed
      <4>1. /\ DOMAIN answers = 1..Len(answers) /\ DOMAIN answers' = 1..h
            /\ \A i \in 1..h : i \in 1..Len(answers) \/ i = h
        BY <2>1, <1>1, <2>2 DEF RpcInv, RpcTypes
      <4> QED
        BY <4>1, <2>1, <1>1, <1>2, <1>3, <1>5 DEF ToldOrFailed
    <3>2. CASE current = "start"
      BY <3>1, <3>2, <1>5, <1>6, <1>8
    <3>3. CASE current # "start"
      BY <3>1, <3>3, <1>5, <1>6
    <3> QED
      BY <3>2, <3>3
  <2>6. Cardinality(Told') <= instances'
    <3>1. CASE answer = "started"
      <4>1. Cardinality(Told') = Cardinality(Told) + 1
        BY <3>1, <2>1, AStart DEF RpcInv
      <4>2. instances' = instances + 1
        BY <3>1, <1>6
      <4> QED
        BY <4>1, <4>2, <1>5
    <3>2. CASE answer # "started"
      <4>1. Told' = Told
        BY <3>2, <2>1, <1>3, NotAStart DEF RpcInv
      <4> QED
        BY <4>1, <1>5, <1>6
    <3> QED
      BY <3>1, <3>2
  <2>7. AnswersInOrder'
    <3> SUFFICES ASSUME NEW i \in 1..h
                 PROVE  /\ i <= Len(written) /\ written[i].size <= MAX_RPC_FRAME_BYTES
                        /\ answers'[i] \in RpcAnswer(written[i].kind)
      BY <2>1, <1>4 DEF AnswersInOrder, RpcAnswer
    <3>1. CASE i \in 1..Len(answers)
      BY <3>1, <2>1, <1>1, AnsweredSoFar
    <3>2. CASE i \notin 1..Len(answers)
      <4>1. i = h
        BY <3>2, <1>1
      <4> QED
        BY <4>1, <2>1, <1>2, <1>3
    <3> QED
      BY <3>1, <3>2
  <2>8. StartsAccounted'
    BY <2>1, <2>5, <2>6, <1>5, <1>7, <1>9 DEF StartsAccounted
  <2> QED
    BY <2>2, <2>3, <2>4, <2>5, <2>7, <2>8 DEF RpcInv, AnswersAccount
<1>11. CASE link # "open"
  <2>1. answers' = answers /\ link' = "closed" /\ Told' = Told /\ ToldOrFailed' = ToldOrFailed
    BY <1>11, <1>4, <1>5 DEF Told, ToldOrFailed
  <2>2. RpcTypes'
    BY <2>1, <1>4, <1>7 DEF RpcInv, RpcTypes
  <2>3. AnswersInOrder'
    <3>1. \A i \in 1..Len(answers) :
            i <= Len(written) /\ written[i].size <= MAX_RPC_FRAME_BYTES /\ answers[i] \in RpcAnswer(written[i].kind)
      BY <1>1, AnsweredSoFar
    <3> QED
      BY <2>1, <1>4, <3>1 DEF AnswersInOrder, RpcAnswer
  <2>4. StartsAccounted'
    BY <2>1, <1>5, <1>6, <1>9 DEF StartsAccounted
  <2> QED
    BY <2>1, <2>2, <2>3, <2>4 DEF RpcInv, AnswersAccount, Serving
<1> QED
  BY <1>10, <1>11

LEMMA RpcInvStep == ASSUME RpcInv, [RpcNext]_rpcVars PROVE RpcInv'
<1>1. CASE StopRpc
  BY <1>1, RpcStutter DEF StopRpc
<1>2. CASE UNCHANGED rpcVars
  BY <1>2, RpcStutter DEF rpcVars
<1> QED
  BY <1>1, <1>2, AcceptStep, HangUpStep, WriteRequestStep, ReadFragmentStep, ReadTimeoutStep, ReadEofStep,
     RespondStep DEF RpcNext

\* The i-th response on a connection answers the i-th request, however the bytes
\* were grouped, and behind every instance stored is an answer that tells of the
\* start or is an error's, but for the last one.
THEOREM AnswersAccountAlways == RpcSpec => []AnswersAccount
<1>1. RpcInv => AnswersAccount
  BY DEF RpcInv
<1> QED
  BY <1>1, RpcInvInit, RpcInvStep, PTL DEF RpcSpec
==================================================================================
