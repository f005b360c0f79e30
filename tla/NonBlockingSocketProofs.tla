---------------------- MODULE NonBlockingSocketProofs -----------------------
(***************************************************************************)
(* The stations of a request and of a reply, for any number of items, any  *)
(* room in the kernel's buffers, any size of the receive buffer and any    *)
(* number of sessions.                                                     *)
(*                                                                         *)
(* RequestsConserved and RepliesConserved compare what was cut back into   *)
(* items with what was put in, so they are proved from what the stream     *)
(* holds: whole framed items, of which the reader has already taken a      *)
(* beginning (truncated_item in the server, msg_saved in the simulator).   *)
(* Wherever a receive cuts, what it took and what it leaves are again such *)
(* a beginning and such a rest (RequestsHeld, RepliesHeld).  The rest of   *)
(* the invariant says which states of client, connection and server go     *)
(* together.                                                               *)
(*                                                                         *)
(* WholeSends is a hypothesis, since send_to_remote loses text without it: *)
(* the run of EntireMessageSent shows how.                                 *)
(*                                                                         *)
(* The lemmas come first: folds over sequences, Joined, FramedAll, how     *)
(* Scan works through joined texts, and what the server answers.           *)
(***************************************************************************)
EXTENDS NonBlockingSocket, SequenceTheorems, WellFoundedInduction, TLAPS

-----------------------------------------------------------------------------
(* Least elements: induction over data without an operator parameter.      *)

LEMMA LeastOfSet ==
  ASSUME NEW X \in SUBSET Nat, X # {}
  PROVE  \E x \in X : \A y \in X : x <= y
<1>1. PICK x \in X : \A y \in X : <<y, x>> \notin OpToRel(<, Nat)
  BY NatLessThanWellFounded, WFMin
<1>2. \A y \in X : ~(y < x)
  BY <1>1 DEF OpToRel
<1> QED  BY <1>2

LEMMA MaxOfInterval ==
  ASSUME NEW n \in Nat \ {0}
  PROVE  Max(1..n) = n
<1>1. \E x \in 1..n : \A y \in 1..n : x >= y
  <2>1. n \in 1..n
    OBVIOUS
  <2> QED  BY <2>1
<1>2. Max(1..n) \in 1..n /\ \A y \in 1..n : Max(1..n) >= y
  BY <1>1 DEF Max
<1> QED  BY <1>2

LEMMA MaxWith ==
  ASSUME NEW n \in Nat, NEW s \in SUBSET (1..n + 1), n + 1 \in s
  PROVE  Max(s) = n + 1
<1>1. \A y \in s : n + 1 >= y
  OBVIOUS
<1>2. Max(s) \in s /\ \A y \in s : Max(s) >= y
  BY <1>1 DEF Max
<1>3. Max(s) \in 1..n + 1 /\ Max(s) >= n + 1
  BY <1>2
<1> QED  BY <1>3

-----------------------------------------------------------------------------
(* Folds over a sequence.                                                  *)

\* The two folds of Wire: "join" is Joined, the other one Scan.
Base(fold) == IF fold = "join" THEN <<>> ELSE Nothing
Put(fold, x, y) == IF fold = "join" THEN x \o y ELSE Cut(x, y)
Folded(fold, s) == IF fold = "join" THEN Joined(s) ELSE Scan(s)

\* One unfolding of a fold over the positions s.
FoldStep(fold, texts, g, s) ==
  IF s = {} THEN Base(fold) ELSE Put(fold, g[s \ {Max(s)}], texts[Max(s)])

FoldOver(fold, texts, g, n) == g = [s \in SUBSET (1..n) |-> FoldStep(fold, texts, g, s)]

\* A fold over n texts gives one over n + 1.
LEMMA FoldGrows ==
  ASSUME NEW fold, NEW texts, NEW k \in Nat, NEW g, FoldOver(fold, texts, g, k)
  PROVE  \E h : FoldOver(fold, texts, h, k + 1)
<1>1. \A s \in SUBSET (1..k) : g[s] = FoldStep(fold, texts, g, s)
  BY DEF FoldOver
<1> DEFINE h == [s \in SUBSET (1..k + 1) |->
                   IF k + 1 \in s THEN Put(fold, g[s \ {k + 1}], texts[k + 1]) ELSE g[s]]
<1>2. ASSUME NEW s \in SUBSET (1..k + 1)
      PROVE  h[s] = FoldStep(fold, texts, h, s)
  <2>1. CASE k + 1 \in s
    <3>1. Max(s) = k + 1
      BY <2>1, MaxWith
    <3>2. s \ {k + 1} \in SUBSET (1..k + 1) /\ k + 1 \notin s \ {k + 1}
      OBVIOUS
    <3>3. h[s \ {k + 1}] = g[s \ {k + 1}]
      BY <3>2
    <3>4. h[s] = Put(fold, g[s \ {k + 1}], texts[k + 1])
      BY <2>1
    <3> HIDE DEF h
    <3> QED  BY <2>1, <3>1, <3>3, <3>4 DEF FoldStep
  <2>2. CASE k + 1 \notin s
    <3>1. s \in SUBSET (1..k)
      BY <2>2
    <3>2. h[s] = g[s]
      BY <2>2
    <3>3. CASE s = {}
      BY <1>1, <3>1, <3>2, <3>3 DEF FoldStep
    <3>4. CASE s # {}
      <4>1. s \ {Max(s)} \in SUBSET (1..k + 1) /\ k + 1 \notin s \ {Max(s)}
        BY <2>2
      <4>2. h[s \ {Max(s)}] = g[s \ {Max(s)}]
        BY <4>1
      <4> HIDE DEF h
      <4> QED  BY <1>1, <3>1, <3>2, <3>4, <4>2 DEF FoldStep
    <3> QED  BY <3>3, <3>4
  <2> QED  BY <2>1, <2>2
<1>3. h = [s \in SUBSET (1..k + 1) |-> h[s]]
  OBVIOUS
<1> HIDE DEF h
<1>4. h = [s \in SUBSET (1..k + 1) |-> FoldStep(fold, texts, h, s)]
  BY <1>2, <1>3
<1> QED  BY <1>4 DEF FoldOver

LEMMA FoldExists ==
  ASSUME NEW fold, NEW texts, NEW n \in Nat
  PROVE  \E g : FoldOver(fold, texts, g, n)
<1> DEFINE X == {k \in 0..n : ~\E g : FoldOver(fold, texts, g, k)}
<1>1. \E g : FoldOver(fold, texts, g, 0)
  <2> DEFINE g == [s \in SUBSET (1..0) |-> Base(fold)]
  <2>1. \A s \in SUBSET (1..0) : s = {}
    OBVIOUS
  <2>2. FoldOver(fold, texts, g, 0)
    BY <2>1 DEF FoldOver, FoldStep
  <2> QED  BY <2>2
<1>2. ASSUME X # {} PROVE FALSE
  <2>1. X \in SUBSET Nat
    OBVIOUS
  <2>2. PICK k \in X : \A j \in X : k <= j
    BY <1>2, <2>1, LeastOfSet
  <2>3. k \in 0..n /\ k # 0
    BY <1>1
  <2>4. k - 1 \in 0..n /\ k - 1 \in Nat /\ k = (k - 1) + 1 /\ ~(k <= k - 1)
    BY <2>3
  <2>5. k - 1 \notin X
    BY <2>2, <2>4
  <2>6. PICK g : FoldOver(fold, texts, g, k - 1)
    BY <2>4, <2>5
  <2>7. \E h : FoldOver(fold, texts, h, (k - 1) + 1)
    BY <2>4, <2>6, FoldGrows
  <2> QED  BY <2>4, <2>7
<1> QED  BY <1>2

\* The partial results of a fold, one after another.
Steps(fold, texts, n, it) ==
  it[0] = Base(fold) /\ \A k \in 1..n : it[k] = Put(fold, it[k - 1], texts[k])

LEMMA FoldSteps ==
  ASSUME NEW fold, NEW texts, NEW n \in Nat, DOMAIN texts = 1..n
  PROVE  \E it : Steps(fold, texts, n, it) /\ it[n] = Folded(fold, texts)
<1> DEFINE f == CHOOSE g : g = [s \in SUBSET (1..n) |-> FoldStep(fold, texts, g, s)]
           it == [k \in 0..n |-> f[1..k]]
<1>1. f = [s \in SUBSET (1..n) |-> FoldStep(fold, texts, f, s)]
  BY FoldExists DEF FoldOver
<1>2. Folded(fold, texts) = f[1..n]
  <2>1. CASE fold = "join"
    <3>1. f = CHOOSE g : g = [s \in SUBSET (1..n) |->
                IF s = {} THEN <<>> ELSE g[s \ {Max(s)}] \o texts[Max(s)]]
      BY <2>1 DEF FoldStep, Base, Put
    <3> HIDE DEF f
    <3> QED  BY <2>1, <3>1 DEF Folded, Joined, FoldLeft, MapThenFoldSet
  <2>2. CASE fold # "join"
    <3>1. f = CHOOSE g : g = [s \in SUBSET (1..n) |->
                IF s = {} THEN Nothing ELSE Cut(g[s \ {Max(s)}], texts[Max(s)])]
      BY <2>2 DEF FoldStep, Base, Put
    <3> HIDE DEF f
    <3> QED  BY <2>2, <3>1 DEF Folded, Scan, FoldLeft, MapThenFoldSet
  <2> QED  BY <2>1, <2>2
<1> HIDE DEF f
<1>3. \A s \in SUBSET (1..n) : f[s] = FoldStep(fold, texts, f, s)
  BY <1>1
<1>4. it[0] = Base(fold)
  <2>1. 1..0 = {} /\ 0 \in 0..n
    OBVIOUS
  <2>2. f[{}] = Base(fold)
    BY <1>3 DEF FoldStep
  <2> QED  BY <2>1, <2>2
<1>5. ASSUME NEW k \in 1..n
      PROVE  it[k] = Put(fold, it[k - 1], texts[k])
  <2>1. 1..k \in SUBSET (1..n) /\ 1..k # {} /\ k \in Nat \ {0} /\ k \in 0..n
    OBVIOUS
  <2>2. Max(1..k) = k
    BY <2>1, MaxOfInterval
  <2>3. (1..k) \ {k} = 1..(k - 1) /\ k - 1 \in 0..n
    OBVIOUS
  <2>4. f[1..k] = Put(fold, f[1..(k - 1)], texts[k])
    BY <1>3, <2>1, <2>2, <2>3 DEF FoldStep
  <2> QED  BY <2>1, <2>3, <2>4
<1>6. it[n] = Folded(fold, texts)
  <2>1. n \in 0..n
    OBVIOUS
  <2> QED  BY <1>2, <2>1
<1> HIDE DEF it
<1> QED  BY <1>4, <1>5, <1>6 DEF Steps

\* Two folds of the same texts, step by step, agree.
LEMMA StepsAgree ==
  ASSUME NEW fold, NEW texts, NEW n \in Nat, NEW f, NEW g,
         Steps(fold, texts, n, f), Steps(fold, texts, n, g)
  PROVE  f[n] = g[n]
<1>0. f[0] = g[0]
  BY DEF Steps
<1> DEFINE X == {k \in 0..n : f[k] # g[k]}
<1>1. ASSUME X # {} PROVE FALSE
  <2>1. X \in SUBSET Nat
    OBVIOUS
  <2>2. PICK k \in X : \A j \in X : k <= j
    BY <1>1, <2>1, LeastOfSet
  <2>3. k \in 1..n
    BY <1>0
  <2>4. k - 1 \in 0..n /\ ~(k <= k - 1)
    BY <2>3
  <2>5. k - 1 \notin X
    BY <2>2, <2>4
  <2>6. f[k - 1] = g[k - 1]
    BY <2>4, <2>5
  <2> QED  BY <2>3, <2>6 DEF Steps
<1>2. n \in 0..n
  OBVIOUS
<1> QED  BY <1>1, <1>2

\* What either fold does with one text more.
LEMMA FoldOneMore ==
  ASSUME NEW fold, NEW T, NEW texts \in Seq(T), NEW t \in T
  PROVE  Folded(fold, Append(texts, t)) = Put(fold, Folded(fold, texts), t)
<1> DEFINE n == Len(texts)
           all == Append(texts, t)
<1>1. /\ n \in Nat /\ DOMAIN texts = 1..n /\ DOMAIN all = 1..n + 1
      /\ n + 1 \in Nat /\ all[n + 1] = t /\ \A k \in 1..n : all[k] = texts[k]
  OBVIOUS
<1> HIDE DEF n, all
<1>2. PICK f : Steps(fold, texts, n, f) /\ f[n] = Folded(fold, texts)
  BY <1>1, FoldSteps
<1>3. PICK g : Steps(fold, all, n + 1, g) /\ g[n + 1] = Folded(fold, all)
  BY <1>1, FoldSteps
<1>4. Steps(fold, texts, n, g)
  <2>1. \A k \in 1..n : k \in 1..n + 1
    BY <1>1
  <2> QED  BY <1>1, <1>3, <2>1 DEF Steps
<1>5. f[n] = g[n]
  BY <1>1, <1>2, <1>4, StepsAgree
<1>6. n + 1 \in 1..n + 1 /\ (n + 1) - 1 = n
  BY <1>1
<1>7. g[n + 1] = Put(fold, g[n], t)
  BY <1>1, <1>3, <1>6 DEF Steps
<1> QED  BY <1>2, <1>3, <1>5, <1>7 DEF all

LEMMA FoldOfNothing ==
  ASSUME NEW fold PROVE Folded(fold, <<>>) = Base(fold)
<1>1. DOMAIN <<>> = 1..0 /\ 0 \in Nat
  OBVIOUS
<1>2. PICK it : Steps(fold, <<>>, 0, it) /\ it[0] = Folded(fold, <<>>)
  BY <1>1, FoldSteps
<1> QED  BY <1>2 DEF Steps

LEMMA JoinedEmpty == Joined(<<>>) = <<>>
<1>1. Folded("join", <<>>) = Base("join")
  BY FoldOfNothing
<1> QED  BY <1>1 DEF Folded, Base

LEMMA JoinedAppend ==
  ASSUME NEW T, NEW texts \in Seq(Seq(T)), NEW t \in Seq(T)
  PROVE  Joined(Append(texts, t)) = Joined(texts) \o t
<1>1. Folded("join", Append(texts, t)) = Put("join", Folded("join", texts), t)
  BY FoldOneMore
<1> QED  BY <1>1 DEF Folded, Put

LEMMA ScanEmpty == Scan(<<>>) = Nothing
<1>1. Folded("scan", <<>>) = Base("scan")
  BY FoldOfNothing
<1> QED  BY <1>1 DEF Folded, Base

LEMMA ScanAppend ==
  ASSUME NEW T, NEW s \in Seq(T), NEW t \in T
  PROVE  Scan(Append(s, t)) = Cut(Scan(s), t)
<1>1. Folded("scan", Append(s, t)) = Put("scan", Folded("scan", s), t)
  BY FoldOneMore
<1> QED  BY <1>1 DEF Folded, Put

-----------------------------------------------------------------------------
(* Sequences.                                                              *)

\* Induction over a sequence, one element at its end at a time.
LEMMA SeqInduction ==
  ASSUME NEW T, NEW X \in SUBSET Seq(T), <<>> \in X,
         \A s \in X, t \in T : Append(s, t) \in X
  PROVE  X = Seq(T)
<1> DEFINE N == {Len(s) : s \in Seq(T) \ X}
<1>1. ASSUME Seq(T) \ X # {} PROVE FALSE
  <2>1. N \in SUBSET Nat /\ N # {}
    <3>1. \A s \in Seq(T) : Len(s) \in Nat
      BY LenProperties
    <3> QED  BY <1>1, <3>1
  <2>2. PICK n \in N : \A m \in N : n <= m
    BY <2>1, LeastOfSet
  <2>3. PICK s \in Seq(T) \ X : n = Len(s)
    OBVIOUS
  <2>4. PICK r \in Seq(T), t \in T : s = Append(r, t)
    BY <2>3, SequenceEmptyOrAppend
  <2>5. Len(r) \in Nat /\ n = Len(r) + 1
    BY <2>3, <2>4, AppendProperties, LenProperties
  <2>6. Len(r) \notin N
    <3>1. ~(n <= Len(r))
      BY <2>5
    <3> HIDE DEF N
    <3> QED  BY <2>2, <3>1
  <2>7. r \in X
    BY <2>6
  <2> QED  BY <2>3, <2>4, <2>7
<1> QED  BY <1>1

LEMMA FunctionIsSeq ==
  ASSUME NEW T, NEW n \in Nat, NEW f \in [1..n -> T]
  PROVE  f \in Seq(T) /\ Len(f) = n
<1>1. f \in Seq(T)
  BY SeqDef
<1>2. DOMAIN f = 1..n /\ Len(f) \in Nat /\ DOMAIN f = 1..Len(f)
  BY <1>1, LenProperties
<1> QED  BY <1>1, <1>2

LEMMA Assoc ==
  ASSUME NEW T, NEW a \in Seq(T), NEW b \in Seq(T), NEW c \in Seq(T)
  PROVE  /\ (a \o b) \o c = a \o (b \o c)
         /\ a \o b \in Seq(T) /\ b \o c \in Seq(T) /\ a \o b \o c \in Seq(T)
  BY ConcatAssociative, ConcatProperties

LEMMA ConcatAppend ==
  ASSUME NEW T, NEW a \in Seq(T), NEW b \in Seq(T), NEW x \in T
  PROVE  a \o Append(b, x) = Append(a \o b, x)
<1>1. <<x>> \in Seq(T) /\ a \o b \in Seq(T)
  BY ConcatProperties
<1>2. Append(b, x) = b \o <<x>> /\ Append(a \o b, x) = (a \o b) \o <<x>>
  BY <1>1, AppendIsConcat
<1>3. (a \o b) \o <<x>> = a \o (b \o <<x>>)
  BY <1>1, ConcatAssociative
<1> QED  BY <1>2, <1>3

LEMMA OneBetween ==
  ASSUME NEW T, NEW a \in Seq(T), NEW x \in T, NEW b \in Seq(T)
  PROVE  a \o (<<x>> \o b) = Append(a, x) \o b /\ <<x>> \o b \in Seq(T)
<1>1. <<x>> \in Seq(T)
  OBVIOUS
<1>2. Append(a, x) = a \o <<x>>
  BY AppendIsConcat
<1> QED  BY <1>1, <1>2, ConcatAssociative, ConcatProperties

LEMMA ConcatAt ==
  ASSUME NEW T, NEW a \in Seq(T), NEW b \in Seq(T), NEW n, Len(b) = n
  PROVE  /\ Len(a \o b) = Len(a) + n
         /\ \A i \in 1..Len(a) + n : (a \o b)[i] = IF i <= Len(a) THEN a[i] ELSE b[i - Len(a)]
  BY ConcatProperties

LEMMA CancelLeft ==
  ASSUME NEW T, NEW a \in Seq(T), NEW b \in Seq(T), NEW c \in Seq(T), a \o b = a \o c
  PROVE  b = c
  BY ConcatSimplifications

LEMMA CancelRight ==
  ASSUME NEW T, NEW a \in Seq(T), NEW b \in Seq(T), NEW c \in Seq(T), a \o c = b \o c
  PROVE  a = b
  BY ConcatSimplifications

\* A sequence is its first n elements and what From leaves of it.
LEMMA CutAt ==
  ASSUME NEW T, NEW s \in Seq(T), NEW n \in 0..Len(s)
  PROVE  /\ SubSeq(s, 1, n) \in Seq(T) /\ Len(SubSeq(s, 1, n)) = n
         /\ From(s, n) \in Seq(T) /\ Len(From(s, n)) = Len(s) - n
         /\ s = SubSeq(s, 1, n) \o From(s, n)
<1>1. Len(s) \in Nat
  BY LenProperties
<1>2. \A i \in 1..Len(s) : s[i] \in T
  BY ElementOfSeq
<1>3. SubSeq(s, 1, n) \in Seq(T) /\ Len(SubSeq(s, 1, n)) = n
  <2>1. \A i \in 1..n : s[i] \in T
    BY <1>1, <1>2
  <2> QED  BY <1>1, <2>1, SubSeqProperties
<1>4. SubSeq(s, n + 1, Len(s)) \in Seq(T) /\ Len(SubSeq(s, n + 1, Len(s))) = Len(s) - n
  <2>1. \A i \in n + 1..Len(s) : s[i] \in T
    BY <1>1, <1>2
  <2>2. n + 1 \in Int /\ Len(s) \in Int
    BY <1>1
  <2> HIDE <1>2
  <2>3. /\ SubSeq(s, n + 1, Len(s)) \in Seq(T)
        /\ Len(SubSeq(s, n + 1, Len(s))) = IF n + 1 <= Len(s) THEN Len(s) - (n + 1) + 1 ELSE 0
    BY <2>1, <2>2, SubSeqProperties
  <2>4. CASE n = Len(s)
    BY <1>1, <2>3, <2>4
  <2>5. CASE n # Len(s)
    <3>1. n + 1 <= Len(s)
      BY <1>1, <2>5
    <3>2. Len(s) - (n + 1) + 1 = Len(s) - n
      BY <2>2
    <3> QED  BY <2>3, <3>1, <3>2
  <2> QED  BY <2>4, <2>5
<1>5. SubSeq(s, 1, n) \o SubSeq(s, n + 1, Len(s)) = SubSeq(s, 1, Len(s))
  <2>1. /\ 1 \in 1..Len(s) + 1 /\ n \in (1 - 1)..Len(s)
        /\ Len(s) \in n..Len(s)
    BY <1>1
  <2> QED  BY <2>1, ConcatAdjacentSubSeq
<1>6. SubSeq(s, 1, Len(s)) = s
  BY SubSeqFull
<1> QED  BY <1>3, <1>4, <1>5, <1>6 DEF From

LEMMA JoinedType ==
  ASSUME NEW T, NEW texts \in Seq(Seq(T))
  PROVE  Joined(texts) \in Seq(T)
<1> DEFINE X == {b \in Seq(Seq(T)) : Joined(b) \in Seq(T)}
<1>1. <<>> \in X
  BY JoinedEmpty, EmptySeq
<1>2. ASSUME NEW b \in X, NEW t \in Seq(T) PROVE Append(b, t) \in X
  <2>1. Append(b, t) \in Seq(Seq(T))
    BY AppendProperties
  <2>2. Joined(Append(b, t)) = Joined(b) \o t
    BY JoinedAppend
  <2> QED  BY <2>1, <2>2, ConcatProperties
<1>3. X \in SUBSET Seq(Seq(T))
  OBVIOUS
<1> HIDE DEF X
<1>4. X = Seq(Seq(T))
  BY <1>1, <1>2, <1>3, SeqInduction
<1> QED  BY <1>4 DEF X

-----------------------------------------------------------------------------
(* Items, frames and replies.                                              *)

\* Text a frame can hold: no delimiter in it.
Clean == {x \in Text : \A i \in DOMAIN x : x[i] # Delim}

\* The three operators that put together what an element gives.
Each(kind, x) ==
  CASE kind = "framed"  -> Framed(x)
    [] kind = "replies" -> RepliesTo(x)
    [] OTHER            -> Split(x)

Mapped(kind, w) == [i \in DOMAIN w |-> Each(kind, w[i])]

LEMMA MappedAppend ==
  ASSUME NEW kind, NEW S, NEW T, \A y \in S : Each(kind, y) \in Seq(T),
         NEW w \in Seq(S), NEW x \in S
  PROVE  /\ Mapped(kind, w) \in Seq(Seq(T))
         /\ Mapped(kind, Append(w, x)) = Append(Mapped(kind, w), Each(kind, x))
<1>1. Len(w) \in Nat /\ DOMAIN w = 1..Len(w) /\ \A i \in 1..Len(w) : w[i] \in S
  BY LenProperties, ElementOfSeq
<1>2. Mapped(kind, w) \in [1..Len(w) -> Seq(T)]
  BY <1>1 DEF Mapped
<1>3. Mapped(kind, w) \in Seq(Seq(T))
  BY <1>1, <1>2, FunctionIsSeq
<1> DEFINE m == Mapped(kind, w)
           all == Append(w, x)
<1>4. Len(m) = Len(w)
  BY <1>1, <1>2
<1>5. /\ all \in Seq(S) /\ Len(all) = Len(w) + 1
      /\ \A i \in 1..Len(w) : all[i] = w[i]
      /\ all[Len(w) + 1] = x
  BY AppendProperties
<1>6. DOMAIN all = 1..Len(w) + 1 /\ \A i \in 1..Len(w) + 1 : all[i] \in S
  BY <1>5, LenProperties, ElementOfSeq
<1> HIDE DEF all
<1>7. Mapped(kind, all) \in [1..Len(w) + 1 -> Seq(T)]
  BY <1>6 DEF Mapped
<1>8. Mapped(kind, all) \in Seq(Seq(T)) /\ Len(Mapped(kind, all)) = Len(w) + 1
  <2>1. Len(w) + 1 \in Nat
    BY <1>1
  <2> QED  BY <1>7, <2>1, FunctionIsSeq
<1>9. /\ Append(m, Each(kind, x)) \in Seq(Seq(T))
      /\ Len(Append(m, Each(kind, x))) = Len(w) + 1
      /\ \A i \in 1..Len(w) : Append(m, Each(kind, x))[i] = m[i]
      /\ Append(m, Each(kind, x))[Len(w) + 1] = Each(kind, x)
  BY <1>3, <1>4, AppendProperties
<1>10. ASSUME NEW i \in 1..Len(w) + 1
       PROVE  Mapped(kind, all)[i] = Append(m, Each(kind, x))[i]
  <2>1. Mapped(kind, all)[i] = Each(kind, all[i])
    BY <1>6 DEF Mapped
  <2>2. CASE i = Len(w) + 1
    BY <1>5, <1>9, <2>1, <2>2
  <2>3. CASE i # Len(w) + 1
    <3>1. i \in 1..Len(w)
      BY <1>1, <2>3
    <3>2. m[i] = Each(kind, w[i])
      BY <1>1, <3>1 DEF Mapped
    <3> QED  BY <1>5, <1>9, <2>1, <3>1, <3>2
  <2> QED  BY <2>2, <2>3
<1>11. Mapped(kind, all) = Append(m, Each(kind, x))
  BY <1>8, <1>9, <1>10, SeqEqual
<1> QED  BY <1>3, <1>11 DEF all

LEMMA MappedEmpty ==
  ASSUME NEW kind PROVE Mapped(kind, <<>>) = <<>>
  BY DEF Mapped

\* What the elements give, put end to end, grows with the elements.
LEMMA GivenConcat ==
  ASSUME NEW kind, NEW S, NEW T, \A y \in S : Each(kind, y) \in Seq(T),
         NEW a \in Seq(S), NEW w \in Seq(S)
  PROVE  /\ Joined(Mapped(kind, w)) \in Seq(T)
         /\ Joined(Mapped(kind, a \o w)) = Joined(Mapped(kind, a)) \o Joined(Mapped(kind, w))
<1> DEFINE G(v) == Joined(Mapped(kind, v))
           X == {b \in Seq(S) : G(b) \in Seq(T) /\ G(a \o b) = G(a) \o G(b)}
<1>0. G(<<>>) = <<>>
  BY MappedEmpty, JoinedEmpty
<1>1. ASSUME NEW v \in Seq(S), NEW x \in S
      PROVE  G(v) \in Seq(T) /\ G(Append(v, x)) = G(v) \o Each(kind, x)
  <2>1. /\ Mapped(kind, v) \in Seq(Seq(T))
        /\ Mapped(kind, Append(v, x)) = Append(Mapped(kind, v), Each(kind, x))
    BY MappedAppend
  <2> QED  BY <2>1, JoinedType, JoinedAppend
<1>2. G(a) \in Seq(T)
  <2>1. CASE a = <<>>
    BY <1>0, <2>1, EmptySeq
  <2>2. CASE a # <<>>
    <3>1. PICK v \in Seq(S), x \in S : a = Append(v, x)
      BY <2>2, SequenceEmptyOrAppend
    <3> QED  BY <1>1
  <2> QED  BY <2>1, <2>2
<1>3. <<>> \in X
  <2>1. a \o <<>> = a /\ G(a) \o <<>> = G(a) /\ <<>> \in Seq(S) /\ <<>> \in Seq(T)
    BY <1>2, ConcatEmptySeq, EmptySeq
  <2> HIDE DEF G
  <2> QED  BY <1>0, <2>1
<1>4. ASSUME NEW b \in X, NEW x \in S PROVE Append(b, x) \in X
  <2>0. a \in Seq(S) /\ b \in Seq(S) /\ x \in S
    OBVIOUS
  <2>1. Append(b, x) \in Seq(S)
    BY AppendProperties
  <2>2. a \o b \in Seq(S)
    BY ConcatProperties
  <2>3. a \o Append(b, x) = Append(a \o b, x)
    BY ONLY <2>0, ConcatAppend, SMTT(30)
  <2>4. G(Append(a \o b, x)) = G(a \o b) \o Each(kind, x)
    BY <1>1, <2>2
  <2>5. G(Append(b, x)) = G(b) \o Each(kind, x)
    BY <1>1
  <2> HIDE DEF G
  <2>6. G(b) \in Seq(T) /\ G(a \o b) = G(a) \o G(b)
    OBVIOUS
  <2>7. (G(a) \o G(b)) \o Each(kind, x) = G(a) \o (G(b) \o Each(kind, x))
    <3>1. G(a) \in Seq(T) /\ G(b) \in Seq(T) /\ Each(kind, x) \in Seq(T)
      BY <1>2, <2>6
    <3> QED  BY ONLY <3>1, ConcatAssociative, SMTT(30)
  <2>8. G(b) \o Each(kind, x) \in Seq(T)
    BY <2>6, ConcatProperties
  <2> QED  BY <2>1, <2>3, <2>4, <2>5, <2>6, <2>7, <2>8
<1>5. X \in SUBSET Seq(S)
  OBVIOUS
<1> HIDE DEF X
<1>6. X = Seq(S)
  BY <1>3, <1>4, <1>5, SeqInduction
<1> QED  BY <1>6 DEF X

LEMMA TokensAre == Delim \in Token /\ Text = Seq(Token)
  BY DEF Delim, Token, Text

LEMMA FramedAllConcat ==
  ASSUME NEW a \in Seq(Text), NEW w \in Seq(Text)
  PROVE  /\ FramedAll(w) \in Text
         /\ FramedAll(a \o w) = FramedAll(a) \o FramedAll(w)
<1>1. \A y \in Text : Each("framed", y) \in Seq(Token)
  BY TokensAre, AppendProperties DEF Each, Framed
<1>2. \A v : FramedAll(v) = Joined(Mapped("framed", v))
  BY DEF FramedAll, Mapped, Each
<1> QED  BY <1>1, <1>2, TokensAre, GivenConcat

LEMMA FramedAllFew ==
  /\ FramedAll(<<>>) = <<>>
  /\ \A x \in Text : FramedAll(<<x>>) = Framed(x) /\ Framed(x) = x \o <<Delim>>
<1>1. FramedAll(<<>>) = <<>>
  <2>1. FramedAll(<<>>) = Joined(Mapped("framed", <<>>))
    BY DEF FramedAll, Mapped, Each
  <2> QED  BY <2>1, MappedEmpty, JoinedEmpty
<1>2. ASSUME NEW x \in Text
      PROVE  FramedAll(<<x>>) = Framed(x) /\ Framed(x) = x \o <<Delim>>
  <2>1. Framed(x) = x \o <<Delim>> /\ Framed(x) \in Seq(Token)
    BY TokensAre, AppendIsConcat, AppendProperties DEF Framed
  <2>2. [i \in DOMAIN <<x>> |-> Framed(<<x>>[i])] = <<Framed(x)>>
    OBVIOUS
  <2>3. <<Framed(x)>> = Append(<<>>, Framed(x)) /\ <<>> \in Seq(Seq(Token))
    OBVIOUS
  <2>4. Joined(<<Framed(x)>>) = <<>> \o Framed(x)
    BY <2>1, <2>3, JoinedAppend, JoinedEmpty
  <2>5. <<>> \o Framed(x) = Framed(x)
    BY <2>1, ConcatEmptySeq
  <2> QED  BY <2>1, <2>2, <2>4, <2>5 DEF FramedAll
<1> QED  BY <1>1, <1>2

\* A text, a delimiter and the rest.
FrameThen(s, y, r) == s = y \o (<<Delim>> \o r)

LEMMA FrameAt ==
  ASSUME NEW y \in Text, NEW r \in Text, NEW s, FrameThen(s, y, r)
  PROVE  /\ s \in Text /\ Len(s) = Len(y) + 1 + Len(r)
         /\ \A i \in 1..Len(y) : s[i] = y[i]
         /\ s[Len(y) + 1] = Delim
<1> DEFINE d == <<Delim>>
           e == d \o r
<1>1. d \in Seq(Token) /\ Len(d) = 1 /\ d[1] = Delim
  BY TokensAre
<1>2. Len(r) \in Nat /\ Len(y) \in Nat /\ y \in Seq(Token) /\ r \in Seq(Token)
  BY LenProperties DEF Text
<1>3. s = y \o e
  BY DEF FrameThen
<1> HIDE DEF d
<1>4. /\ e \in Seq(Token) /\ Len(e) = Len(d) + Len(r)
      /\ \A i \in 1..Len(d) + Len(r) : e[i] = IF i <= Len(d) THEN d[i] ELSE r[i - Len(d)]
  BY <1>1, <1>2, ConcatProperties
<1>5. e[1] = Delim
  BY <1>1, <1>2, <1>4
<1> HIDE DEF e
<1>6. /\ y \o e \in Seq(Token) /\ Len(y \o e) = Len(y) + Len(e)
      /\ \A i \in 1..Len(y) + Len(e) : (y \o e)[i] = IF i <= Len(y) THEN y[i] ELSE e[i - Len(y)]
  <2>1. e \in Seq(Token) /\ y \in Seq(Token)
    BY <1>2, <1>4
  <2> QED  BY ONLY <2>1, ConcatProperties
<1>7. Len(e) = 1 + Len(r)
  BY <1>1, <1>4
<1>8. ASSUME NEW i \in 1..Len(y) PROVE s[i] = y[i]
  BY <1>2, <1>3, <1>6, <1>7
<1>9. s[Len(y) + 1] = Delim
  <2>1. Len(y) + 1 \in 1..Len(y) + Len(e) /\ ~(Len(y) + 1 <= Len(y)) /\ (Len(y) + 1) - Len(y) = 1
    BY <1>2, <1>7
  <2> QED  BY <1>3, <1>5, <1>6, <2>1
<1>10. s \in Text /\ Len(s) = Len(y) + 1 + Len(r)
  BY <1>2, <1>3, <1>6, <1>7 DEF Text
<1> QED  BY <1>8, <1>9, <1>10

\* The first delimiter ends the first frame.
LEMMA FirstFrame ==
  ASSUME NEW y \in Clean, NEW h \in Clean, NEW r \in Text, NEW q \in Text, NEW s,
         FrameThen(s, y, r), FrameThen(s, h, q)
  PROVE  y = h /\ r = q
<1>1. /\ y \in Text /\ h \in Text
      /\ Len(y) \in Nat /\ Len(h) \in Nat /\ Len(r) \in Nat /\ Len(q) \in Nat
  BY LenProperties DEF Text, Clean
<1>2. (\A i \in 1..Len(y) : y[i] # Delim) /\ (\A i \in 1..Len(h) : h[i] # Delim)
  BY LenProperties DEF Clean, Text
<1>3. (\A i \in 1..Len(y) : s[i] = y[i]) /\ s[Len(y) + 1] = Delim
  BY <1>1, FrameAt
<1>4. (\A i \in 1..Len(h) : s[i] = h[i]) /\ s[Len(h) + 1] = Delim
  BY <1>1, FrameAt
<1>5. Len(y) + 1 \notin 1..Len(h) /\ Len(h) + 1 \notin 1..Len(y)
  BY <1>2, <1>3, <1>4
<1>6. Len(y) = Len(h)
  BY <1>1, <1>5
<1>7. y = h
  <2>1. \A i \in 1..Len(y) : y[i] = h[i]
    BY <1>3, <1>4, <1>6
  <2> QED  BY <1>1, <1>6, <2>1, SeqEqual DEF Text
<1>8. <<Delim>> \in Text /\ <<Delim>> \o r \in Text /\ <<Delim>> \o q \in Text
  BY TokensAre, ConcatProperties DEF Text
<1>9. <<Delim>> \o r = <<Delim>> \o q
  <2> DEFINE d == <<Delim>>
             u == d \o r
             v == d \o q
  <2>1. y \o u = y \o v /\ u \in Text /\ v \in Text
    BY <1>7, <1>8 DEF FrameThen
  <2> HIDE DEF u, v
  <2>2. u = v
    BY <1>1, <2>1, CancelLeft DEF Text
  <2> QED  BY <2>2 DEF u, v
<1>10. r = q
  BY <1>8, <1>9, CancelLeft DEF Text
<1> QED  BY <1>7, <1>10

-----------------------------------------------------------------------------
(* Cutting a text into items.                                              *)

LEMMA CleanIsText == Clean \in SUBSET Text
  BY DEF Clean

LEMMA CleanEmpty == <<>> \in Clean
  BY DEF Clean, Text

LEMMA CleanAppend ==
  ASSUME NEW y \in Clean, NEW t \in Token, t # Delim
  PROVE  Append(y, t) \in Clean
<1>1. y \in Seq(Token) /\ \A i \in 1..Len(y) : y[i] # Delim
  BY LenProperties DEF Clean, Text
<1>2. /\ Append(y, t) \in Seq(Token) /\ Len(Append(y, t)) = Len(y) + 1
      /\ \A i \in 1..Len(y) : Append(y, t)[i] = y[i]
      /\ Append(y, t)[Len(y) + 1] = t
  BY <1>1, AppendProperties
<1>3. DOMAIN Append(y, t) = 1..Len(y) + 1 /\ Len(y) \in Nat
  BY <1>1, <1>2, LenProperties
<1>4. \A i \in 1..Len(y) + 1 : i \in 1..Len(y) \/ i = Len(y) + 1
  BY <1>3
<1>5. \A i \in DOMAIN Append(y, t) : Append(y, t)[i] # Delim
  BY <1>1, <1>2, <1>3, <1>4
<1> QED  BY <1>2, <1>5 DEF Clean, Text

\* What Split and Truncated make of one token more.
LEMMA CutEmpty == Split(<<>>) = <<>> /\ Truncated(<<>>) = <<>>
  BY ScanEmpty DEF Split, Truncated, Nothing

LEMMA ScanType ==
  ASSUME NEW s \in Text
  PROVE  Scan(s) \in [items : Seq(Clean), begun : Clean]
<1> DEFINE X == {x \in Text : Scan(x) \in [items : Seq(Clean), begun : Clean]}
<1>1. <<>> \in X
  <2>1. Nothing \in [items : Seq(Clean), begun : Clean]
    BY CleanEmpty DEF Nothing
  <2> QED  BY <2>1, ScanEmpty DEF Text
<1>2. ASSUME NEW x \in X, NEW t \in Token PROVE Append(x, t) \in X
  <2>1. Scan(Append(x, t)) = Cut(Scan(x), t)
    BY ScanAppend DEF Text
  <2>2. Append(x, t) \in Text
    BY AppendProperties DEF Text
  <2> DEFINE f == Scan(x)
  <2>3. f \in [items : Seq(Clean), begun : Clean]
    OBVIOUS
  <2> HIDE DEF f
  <2>4. Cut(f, t) \in [items : Seq(Clean), begun : Clean]
    <3>1. CASE t = Delim
      <4>1. Append(f.items, f.begun) \in Seq(Clean)
        BY <2>3, AppendProperties
      <4> QED  BY <3>1, <4>1, CleanEmpty DEF Cut
    <3>2. CASE t # Delim
      <4>1. Append(f.begun, t) \in Clean
        BY <2>3, <3>2, CleanAppend
      <4>2. Cut(f, t) = [f EXCEPT !.begun = Append(f.begun, t)]
        BY <3>2 DEF Cut
      <4> QED  BY <2>3, <4>1, <4>2
    <3> QED  BY <3>1, <3>2
  <2> QED  BY <2>1, <2>2, <2>4 DEF f
<1>3. X \in SUBSET Seq(Token)
  BY DEF Text
<1> HIDE DEF X
<1>4. X = Seq(Token)
  BY <1>1, <1>2, <1>3, SeqInduction
<1>5. s \in X
  BY <1>4 DEF Text
<1> QED  BY <1>5 DEF X

LEMMA CutType ==
  ASSUME NEW s \in Text
  PROVE  Split(s) \in Seq(Clean) /\ Truncated(s) \in Clean
  BY ScanType DEF Split, Truncated

LEMMA CutAppend ==
  ASSUME NEW s \in Text, NEW t \in Token
  PROVE  /\ t = Delim => /\ Split(Append(s, t)) = Append(Split(s), Truncated(s))
                         /\ Truncated(Append(s, t)) = <<>>
         /\ t # Delim => /\ Split(Append(s, t)) = Split(s)
                         /\ Truncated(Append(s, t)) = Append(Truncated(s), t)
<1>1. Scan(Append(s, t)) = Cut(Scan(s), t)
  BY ScanAppend DEF Text
<1>2. CASE t = Delim
  BY <1>1, <1>2 DEF Split, Truncated, Cut
<1>3. CASE t # Delim
  <2>1. Scan(s) \in [items : Seq(Clean), begun : Clean]
    BY ScanType
  <2> QED  BY <1>1, <1>3, <2>1 DEF Split, Truncated, Cut
<1> QED  BY <1>2, <1>3

LEMMA FramesSplit ==
  ASSUME NEW w \in Seq(Clean), w # <<>>
  PROVE  /\ Head(w) \in Clean /\ Tail(w) \in Seq(Clean)
         /\ w = <<Head(w)>> \o Tail(w)
         /\ FramedAll(Tail(w)) \in Text
         /\ FrameThen(FramedAll(w), Head(w), FramedAll(Tail(w)))
<1> DEFINE h == Head(w)
           q == Tail(w)
<1>1. h \in Clean /\ q \in Seq(Clean) /\ w = <<h>> \o q
  BY HeadTailProperties
<1> HIDE DEF h, q
<1>2. h \in Text /\ <<h>> \in Seq(Text) /\ q \in Seq(Text)
  BY <1>1, CleanIsText, SeqMonotonic
<1>3. FramedAll(<<h>> \o q) = FramedAll(<<h>>) \o FramedAll(q) /\ FramedAll(q) \in Text
  BY <1>2, FramedAllConcat
<1>4. FramedAll(<<h>>) = h \o <<Delim>>
  BY <1>2, FramedAllFew
<1>5. <<Delim>> \in Seq(Token)
  BY TokensAre
<1>6. (h \o <<Delim>>) \o FramedAll(q) = h \o (<<Delim>> \o FramedAll(q))
  BY <1>2, <1>3, <1>5, Assoc DEF Text
<1>7. FrameThen(FramedAll(w), h, FramedAll(q))
  BY <1>1, <1>3, <1>4, <1>6 DEF FrameThen
<1> QED  BY <1>1, <1>3, <1>7 DEF h, q

\* The beginning m of some frames, cut into items: the items are the first
\* ones framed, and what is left over begins the others.
Begins(m, r, w) == m \o r = FramedAll(w)

LEMMA Cutting ==
  ASSUME NEW m \in Text, NEW r \in Text, NEW w \in Seq(Clean), Begins(m, r, w)
  PROVE  \E v \in Seq(Clean) : w = Split(m) \o v /\ Begins(Truncated(m), r, v)
<1> DEFINE Cuts(x) == \A y \in Text, u \in Seq(Clean) :
             Begins(x, y, u) =>
               \E v \in Seq(Clean) : u = Split(x) \o v /\ Begins(Truncated(x), y, v)
           X == {x \in Text : Cuts(x)}
<1>1. Cuts(<<>>)
  <2>1. ASSUME NEW y \in Text, NEW u \in Seq(Clean), Begins(<<>>, y, u)
        PROVE  u = Split(<<>>) \o u /\ Begins(Truncated(<<>>), y, u)
    BY <2>1, CutEmpty, ConcatEmptySeq
  <2> QED  BY <2>1
<1>2. ASSUME NEW x \in Text, Cuts(x), NEW t \in Token PROVE Cuts(Append(x, t))
  <2>1. SUFFICES ASSUME NEW y \in Text, NEW u \in Seq(Clean), Begins(Append(x, t), y, u)
                 PROVE  \E v \in Seq(Clean) : /\ u = Split(Append(x, t)) \o v
                                              /\ Begins(Truncated(Append(x, t)), y, v)
    OBVIOUS
  <2>2. x \o (<<t>> \o y) = Append(x, t) \o y /\ <<t>> \o y \in Text
    BY OneBetween DEF Text
  <2>3. Begins(x, <<t>> \o y, u)
    BY <2>1, <2>2 DEF Begins
  <2>4. PICK v \in Seq(Clean) : u = Split(x) \o v /\ Begins(Truncated(x), <<t>> \o y, v)
    BY <1>2, <2>2, <2>3
  <2> HIDE DEF Cuts
  <2>5. Split(x) \in Seq(Clean) /\ Truncated(x) \in Clean /\ Truncated(x) \in Seq(Token)
    BY CutType, CleanIsText DEF Text
  <2>6. CASE t # Delim
    <3>1. Split(Append(x, t)) = Split(x) /\ Truncated(Append(x, t)) = Append(Truncated(x), t)
      BY <2>6, CutAppend
    <3>2. Truncated(x) \o (<<t>> \o y) = Append(Truncated(x), t) \o y
      <4> DEFINE a == Truncated(x)
      <4>1. a \in Seq(Token) /\ y \in Seq(Token)
        BY <2>5 DEF Text
      <4> HIDE DEF a
      <4>2. a \o (<<t>> \o y) = Append(a, t) \o y
        BY ONLY <4>1, t \in Token, OneBetween
      <4> QED  BY <4>2 DEF a
    <3>3. Begins(Truncated(Append(x, t)), y, v)
      BY <2>4, <3>1, <3>2 DEF Begins
    <3> QED  BY <2>4, <3>1, <3>3
  <2>7. CASE t = Delim
    <3>1. Split(Append(x, t)) = Append(Split(x), Truncated(x)) /\ Truncated(Append(x, t)) = <<>>
      BY <2>7, CutAppend
    <3>2. FrameThen(FramedAll(v), Truncated(x), y)
      BY <2>4, <2>7 DEF Begins, FrameThen
    <3>3. v # <<>>
      <4>1. FramedAll(v) \in Text /\ Len(FramedAll(v)) = Len(Truncated(x)) + 1 + Len(y)
        BY <2>5, <3>2, CleanIsText, FrameAt
      <4>2. Len(Truncated(x)) \in Nat /\ Len(y) \in Nat
        BY <2>5, LenProperties DEF Text
      <4>3. Len(FramedAll(v)) # 0
        BY <4>1, <4>2
      <4> QED  BY <4>3, FramedAllFew
    <3>4. /\ Head(v) \in Clean /\ Tail(v) \in Seq(Clean) /\ v = <<Head(v)>> \o Tail(v)
          /\ FramedAll(Tail(v)) \in Text
          /\ FrameThen(FramedAll(v), Head(v), FramedAll(Tail(v)))
      BY <3>3, FramesSplit
    <3>5. Truncated(x) = Head(v) /\ y = FramedAll(Tail(v))
      BY <2>5, <3>2, <3>4, FirstFrame
    <3>6. Begins(<<>>, y, Tail(v))
      BY <3>5, ConcatEmptySeq DEF Begins, Text
    <3> DEFINE h == Truncated(x)
               q == Tail(v)
    <3>7. v = <<h>> \o q /\ h \in Clean /\ q \in Seq(Clean)
      BY <2>5, <3>4, <3>5
    <3> HIDE DEF h, q
    <3>8. Split(x) \o (<<h>> \o q) = Append(Split(x), h) \o q
      <4> DEFINE a == Split(x)
      <4>1. a \in Seq(Clean)
        BY <2>5
      <4> HIDE DEF a
      <4>2. a \o (<<h>> \o q) = Append(a, h) \o q
        BY ONLY <3>7, <4>1, OneBetween
      <4> QED  BY <4>2 DEF a
    <3>9. u = Split(Append(x, t)) \o q
      BY <2>4, <3>1, <3>7, <3>8 DEF h
    <3>10. Begins(Truncated(Append(x, t)), y, q)
      BY <3>1, <3>6 DEF q
    <3> QED  BY <3>7, <3>9, <3>10
  <2> QED  BY <2>6, <2>7
<1> HIDE DEF Cuts
<1>3. <<>> \in X
  BY <1>1 DEF Text
<1>4. \A x \in X, t \in Token : Append(x, t) \in X
  BY <1>2, AppendProperties DEF Text
<1>5. X \in SUBSET Seq(Token)
  BY DEF Text
<1> HIDE DEF X
<1>6. X = Seq(Token)
  BY <1>3, <1>4, <1>5, SeqInduction
<1>7. Cuts(m)
  BY <1>6 DEF Text, X
<1> QED  BY <1>7 DEF Cuts

-----------------------------------------------------------------------------
(* What a testbench asks and what the server answers.                      *)

Commanded == {Command(c, v) : c \in {"div", "nop"}, v \in Nat}
Requests == Commanded \cup {EndTest}

Divisors == {DivReply(v, d) : v \in Nat, d \in Nat}
Answers == Divisors \cup {EndTest}

\* Only the last item ends the test.
EndsLast(w) == \A i \in DOMAIN w : w[i] = EndTest => i = Len(w)

LEMMA TwoTokens ==
  ASSUME NEW a \in Token, NEW b \in Token
  PROVE  /\ <<a, b>> \in Text /\ Len(<<a, b>>) = 2
         /\ (a # Delim /\ b # Delim) => <<a, b>> \in Clean
<1>1. <<a, b>> \in Seq(Token) /\ Len(<<a, b>>) = 2 /\ DOMAIN <<a, b>> = {1, 2}
  OBVIOUS
<1>2. <<a, b>>[1] = a /\ <<a, b>>[2] = b
  OBVIOUS
<1> QED  BY <1>1, <1>2 DEF Text, Clean

LEMMA EndTestIs ==
  /\ EndTest \in Clean /\ Len(EndTest) = 2
  /\ ~IsMalformed(EndTest) /\ ~IsDiv(EndTest) /\ HasEndTest(EndTest)
<1>1. <<"end_", 0>> \in Token /\ <<"test", 0>> \in Token
  BY DEF Token
<1>2. <<"end_", 0>> # Delim /\ <<"test", 0>> # Delim
  BY DEF Delim
<1>3. EndTest \in Clean /\ Len(EndTest) = 2 /\ EndTest \in Text
  BY <1>1, <1>2, TwoTokens DEF EndTest
<1>4. DOMAIN EndTest = 1..2 /\ EndTest[1][1] = "end_" /\ EndTest[2][1] = "test"
  BY DEF EndTest
<1>5. ColonPositions(EndTest) = {}
  BY <1>4 DEF ColonPositions
<1>6. ~IsMalformed(EndTest) /\ ~IsDiv(EndTest)
  BY <1>5 DEF IsMalformed, IsDiv
<1>7. HasEndTest(EndTest)
  <2>1. SubSeq(EndTest, 1, Len(EndTest)) = EndTest
    BY <1>3, SubSeqFull DEF Text
  <2>2. 1 \in 1..(Len(EndTest) - 1)
    BY <1>3
  <2>3. SubSeq(EndTest, 1, 1 + 1) = EndTest
    BY <1>3, <2>1
  <2> QED  BY <2>2, <2>3 DEF HasEndTest
<1> QED  BY <1>3, <1>6, <1>7

LEMMA CommandIs ==
  ASSUME NEW c \in {"div", "nop"}, NEW v \in Nat
  PROVE  LET x == Command(c, v)
         IN  /\ x \in Clean /\ Len(x) = 2 /\ x # EndTest
             /\ ~IsMalformed(x) /\ ~HasEndTest(x) /\ Last(x)[2] = v
<1> DEFINE x == Command(c, v)
<1>1. <<c, 0>> \in Token /\ <<":", v>> \in Token
  BY DEF Token
<1>2. <<c, 0>> # Delim /\ <<":", v>> # Delim
  BY DEF Delim
<1>3. x \in Clean /\ Len(x) = 2 /\ x \in Text
  BY <1>1, <1>2, TwoTokens DEF Command
<1>4. DOMAIN x = 1..2 /\ x[1][1] = c /\ x[2][1] = ":" /\ x[2][2] = v
  BY DEF Command
<1>5. x # EndTest
  <2>1. EndTest[1][1] = "end_"
    BY DEF EndTest
  <2> QED  BY <1>4, <2>1
<1> HIDE DEF x
<1>6. ColonPositions(x) = {2}
  <2>1. \A i \in 1..2 : i = 1 \/ i = 2
    OBVIOUS
  <2> QED  BY <1>4, <2>1 DEF ColonPositions
<1>7. Min({2}) = 2
  BY DEF Min
<1>8. ~IsMalformed(x)
  BY <1>3, <1>6, <1>7 DEF IsMalformed
<1>9. ~HasEndTest(x)
  <2>1. SubSeq(x, 1, Len(x)) = x
    BY <1>3, SubSeqFull DEF Text
  <2>2. \A i \in 1..(Len(x) - 1) : i = 1
    BY <1>3
  <2>3. SubSeq(x, 1, 1 + 1) = x
    BY <1>3, <2>1
  <2> QED  BY <1>5, <2>2, <2>3 DEF HasEndTest
<1>10. Last(x)[2] = v
  BY <1>3, <1>4 DEF Last
<1> QED  BY <1>3, <1>5, <1>8, <1>9, <1>10 DEF x

LEMMA RequestsClean == Requests \in SUBSET Clean
<1>1. Commanded \in SUBSET Clean
  BY CommandIs DEF Commanded
<1> QED  BY <1>1, EndTestIs DEF Requests

LEMMA AnswersClean == Answers \in SUBSET Clean /\ EndTest \notin Divisors
<1>1. ASSUME NEW v \in Nat, NEW d \in Nat
      PROVE  DivReply(v, d) \in Clean /\ DivReply(v, d) # EndTest
  <2>1. <<"[d_", v>> \in Token /\ <<")]", d>> \in Token
    BY DEF Token
  <2>2. <<"[d_", v>> # Delim /\ <<")]", d>> # Delim
    BY DEF Delim
  <2>3. DivReply(v, d)[1][1] = "[d_" /\ EndTest[1][1] = "end_"
    BY DEF DivReply, EndTest
  <2> QED  BY <2>1, <2>2, <2>3, TwoTokens DEF DivReply
<1>2. Divisors \in SUBSET Clean /\ EndTest \notin Divisors
  BY <1>1 DEF Divisors
<1> QED  BY <1>2, EndTestIs DEF Answers

LEMMA DivRepliesType ==
  ASSUME NEW v \in Nat
  PROVE  DivReplies(v) \in Seq(Divisors)
<1> DEFINE n == v \div 2
           f == [i \in 1..n |-> IF v % i = 0 THEN <<DivReply(v, i)>> ELSE <<>>]
<1>1. n \in Nat
  OBVIOUS
<1>2. ASSUME NEW i \in 1..n PROVE f[i] \in Seq(Divisors)
  <2>1. DivReply(v, i) \in Divisors
    BY <1>1 DEF Divisors
  <2>2. <<DivReply(v, i)>> \in Seq(Divisors) /\ <<>> \in Seq(Divisors)
    BY <2>1
  <2> QED  BY <2>2
<1>3. f = [i \in 1..n |-> f[i]]
  OBVIOUS
<1>4. Joined(f) = Joined([i \in 1..(v \div 2) |->
                            IF v % i = 0 THEN <<DivReply(v, i)>> ELSE <<>>])
  OBVIOUS
<1>5. <<DivReply(v, v)>> \in Seq(Divisors)
  <2>1. DivReply(v, v) \in Divisors
    BY DEF Divisors
  <2> QED  BY <2>1
<1> HIDE DEF n, f
<1>6. f \in [1..n -> Seq(Divisors)]
  BY <1>2, <1>3
<1>7. Joined(f) \in Seq(Divisors)
  BY <1>1, <1>6, FunctionIsSeq, JoinedType
<1> QED  BY <1>4, <1>5, <1>7, ConcatProperties DEF DivReplies

LEMMA RepliesToType ==
  /\ \A x \in Commanded : RepliesTo(x) \in Seq(Divisors)
  /\ RepliesTo(EndTest) = <<EndTest>>
<1>1. ASSUME NEW c \in {"div", "nop"}, NEW v \in Nat
      PROVE  RepliesTo(Command(c, v)) \in Seq(Divisors)
  <2> DEFINE x == Command(c, v)
             r == IF IsDiv(x) THEN DivReplies(v) ELSE <<>>
  <2>1. ~IsMalformed(x) /\ ~HasEndTest(x) /\ Last(x)[2] = v
    BY CommandIs
  <2>2. r \in Seq(Divisors)
    BY DivRepliesType, EmptySeq
  <2>3. RepliesTo(x) = r \o <<>>
    BY <2>1 DEF RepliesTo
  <2> HIDE DEF r, x
  <2>4. RepliesTo(x) \in Seq(Divisors)
    BY <2>2, <2>3, ConcatEmptySeq
  <2> QED  BY <2>4 DEF x
<1>2. RepliesTo(EndTest) = <<>> \o <<EndTest>>
  BY EndTestIs DEF RepliesTo
<1>3. <<>> \o <<EndTest>> = <<EndTest>>
  OBVIOUS
<1>4. \A x \in Commanded : RepliesTo(x) \in Seq(Divisors)
  <2>1. ASSUME NEW x \in Commanded PROVE RepliesTo(x) \in Seq(Divisors)
    <3>1. PICK c \in {"div", "nop"}, v \in Nat : x = Command(c, v)
      BY DEF Commanded
    <3> QED  BY <1>1, <3>1
  <2> QED  BY <2>1
<1> QED  BY <1>2, <1>3, <1>4

LEMMA RepliesConcat ==
  ASSUME NEW a \in Seq(Requests), NEW w \in Seq(Requests)
  PROVE  Replies(w) \in Seq(Answers) /\ Replies(a \o w) = Replies(a) \o Replies(w)
<1>1. \A y \in Requests : Each("replies", y) \in Seq(Answers)
  <2>1. \A y \in Commanded : RepliesTo(y) \in Seq(Answers)
    BY RepliesToType, SeqMonotonic DEF Answers
  <2>2. RepliesTo(EndTest) \in Seq(Answers)
    <3>1. EndTest \in Answers
      BY DEF Answers
    <3>2. <<EndTest>> \in Seq(Answers)
      BY <3>1
    <3> QED  BY <3>2, RepliesToType
  <2> QED  BY <2>1, <2>2 DEF Each, Requests
<1>2. \A v : Replies(v) = Joined(Mapped("replies", v))
  BY DEF Replies, Mapped, Each
<1> QED  BY <1>1, <1>2, GivenConcat

LEMMA RepliesCommanded ==
  ASSUME NEW w \in Seq(Commanded)
  PROVE  Replies(w) \in Seq(Divisors)
<1>1. \A y \in Commanded : Each("replies", y) \in Seq(Divisors)
  BY RepliesToType DEF Each
<1>2. Replies(w) = Joined(Mapped("replies", w))
  BY DEF Replies, Mapped, Each
<1>3. /\ Joined(Mapped("replies", w)) \in Seq(Divisors)
      /\ Joined(Mapped("replies", w \o w))
           = Joined(Mapped("replies", w)) \o Joined(Mapped("replies", w))
  BY <1>1, GivenConcat
<1> QED  BY <1>2, <1>3

LEMMA RepliesFew == Replies(<<>>) = <<>> /\ Replies(<<EndTest>>) = <<EndTest>>
<1>1. Replies(<<>>) = <<>>
  <2>1. Replies(<<>>) = Joined(Mapped("replies", <<>>))
    BY DEF Replies, Mapped, Each
  <2> QED  BY <2>1, MappedEmpty, JoinedEmpty
<1>2. Replies(<<EndTest>>) = <<EndTest>>
  <2> DEFINE r == RepliesTo(EndTest)
  <2>1. [i \in DOMAIN <<EndTest>> |-> RepliesTo(<<EndTest>>[i])] = <<r>>
    OBVIOUS
  <2>2. r = <<EndTest>> /\ r \in Seq(Answers)
    <3>1. EndTest \in Answers
      BY DEF Answers
    <3>2. <<EndTest>> \in Seq(Answers)
      BY <3>1
    <3> QED  BY <3>2, RepliesToType
  <2>3. Replies(<<EndTest>>) = Joined(<<r>>)
    BY <2>1 DEF Replies
  <2> HIDE DEF r
  <2>4. <<r>> = Append(<<>>, r) /\ <<>> \in Seq(Seq(Answers))
    OBVIOUS
  <2>5. Joined(<<r>>) = <<>> \o r
    BY <2>2, <2>4, JoinedAppend, JoinedEmpty
  <2> QED  BY <2>2, <2>3, <2>5, ConcatEmptySeq
<1> QED  BY <1>1, <1>2

LEMMA ConcatParts ==
  ASSUME NEW S, NEW T, NEW a \in Seq(T), NEW b \in Seq(T), a \o b \in Seq(S)
  PROVE  a \in Seq(S) /\ b \in Seq(S)
<1> DEFINE c == a \o b
<1>1. /\ Len(a) \in Nat /\ Len(b) \in Nat /\ Len(c) = Len(a) + Len(b)
      /\ \A i \in 1..Len(a) + Len(b) : c[i] = IF i <= Len(a) THEN a[i] ELSE b[i - Len(a)]
  BY ConcatProperties, LenProperties
<1> HIDE DEF c
<1>2. \A i \in 1..Len(a) + Len(b) : c[i] \in S
  BY <1>1, ElementOfSeq DEF c
<1>3. ASSUME NEW i \in 1..Len(a) PROVE a[i] \in S
  BY <1>1, <1>2
<1>4. ASSUME NEW i \in 1..Len(b) PROVE b[i] \in S
  <2>1. i + Len(a) \in 1..Len(a) + Len(b) /\ ~(i + Len(a) <= Len(a)) /\ (i + Len(a)) - Len(a) = i
    BY <1>1
  <2> QED  BY <1>1, <1>2, <2>1
<1>5. a \in [1..Len(a) -> S]
  <2>1. a = [i \in 1..Len(a) |-> a[i]]
    BY LenProperties
  <2> QED  BY <1>3, <2>1
<1>6. b \in [1..Len(b) -> S]
  <2>1. b = [i \in 1..Len(b) |-> b[i]]
    BY LenProperties
  <2> QED  BY <1>4, <2>1
<1>7. a \in Seq(S)
  BY <1>1, <1>5, FunctionIsSeq
<1>8. b \in Seq(S)
  BY <1>1, <1>6, FunctionIsSeq
<1> QED  BY <1>7, <1>8

\* The parts of items of which only the last one ends the test.
LEMMA EndsLastParts ==
  ASSUME NEW T, NEW a \in Seq(T), NEW b \in Seq(T), EndsLast(a \o b)
  PROVE  /\ EndsLast(a) /\ EndsLast(b)
         /\ (a # <<>> /\ a[Len(a)] = EndTest) => b = <<>>
<1> DEFINE c == a \o b
<1>1. /\ Len(a) \in Nat /\ Len(b) \in Nat /\ Len(c) = Len(a) + Len(b)
      /\ \A i \in 1..Len(a) + Len(b) : c[i] = IF i <= Len(a) THEN a[i] ELSE b[i - Len(a)]
  BY ConcatProperties, LenProperties
<1>2. DOMAIN a = 1..Len(a) /\ DOMAIN b = 1..Len(b)
  BY LenProperties
<1>3. DOMAIN c = 1..Len(a) + Len(b)
  BY <1>1, ConcatProperties, LenProperties
<1> HIDE DEF c
<1>4. \A i \in 1..Len(a) + Len(b) : c[i] = EndTest => i = Len(a) + Len(b)
  BY <1>1, <1>3 DEF EndsLast, c
<1>5. EndsLast(a)
  <2>1. ASSUME NEW i \in 1..Len(a), a[i] = EndTest PROVE i = Len(a)
    BY <1>1, <1>4, <2>1
  <2> QED  BY <1>2, <2>1 DEF EndsLast
<1>6. EndsLast(b)
  <2>1. ASSUME NEW i \in 1..Len(b), b[i] = EndTest PROVE i = Len(b)
    <3>1. i + Len(a) \in 1..Len(a) + Len(b) /\ ~(i + Len(a) <= Len(a)) /\ (i + Len(a)) - Len(a) = i
      BY <1>1
    <3> QED  BY <1>1, <1>4, <2>1, <3>1
  <2> QED  BY <1>2, <2>1 DEF EndsLast
<1>7. ASSUME a # <<>>, a[Len(a)] = EndTest PROVE b = <<>>
  <2>1. Len(a) \in 1..Len(a)
    BY <1>7, EmptySeq
  <2>2. Len(a) = Len(a) + Len(b)
    BY <1>1, <1>4, <1>7, <2>1
  <2>3. Len(b) = 0
    BY <1>1, <2>2
  <2> QED  BY <2>3, EmptySeq
<1> QED  BY <1>5, <1>6, <1>7

\* The server works on all the items of a testbench.
LEMMA WorkedOnAll ==
  ASSUME NEW w \in Seq(Requests), EndsLast(w)
  PROVE  WorkedOn(w) = w /\ (w # <<>> => ~IsMalformed(Last(w)))
<1> DEFINE stops == {i \in DOMAIN w : Stops(w[i])}
<1>1. Len(w) \in Nat /\ DOMAIN w = 1..Len(w) /\ \A i \in 1..Len(w) : w[i] \in Requests
  BY LenProperties, ElementOfSeq
<1>2. \A x \in Requests : ~IsMalformed(x) /\ (x = EndTest \/ ~Stops(x))
  <2>1. ASSUME NEW x \in Commanded PROVE ~IsMalformed(x) /\ ~Stops(x)
    <3>1. PICK c \in {"div", "nop"}, v \in Nat : x = Command(c, v)
      BY DEF Commanded
    <3> QED  BY <3>1, CommandIs DEF Stops
  <2> QED  BY <2>1, EndTestIs DEF Requests
<1>3. \A i \in stops : i = Len(w)
  BY <1>1, <1>2 DEF EndsLast
<1>4. WorkedOn(w) = w
  <2>1. CASE stops = {}
    <3>1. ~\E i \in DOMAIN w : Stops(w[i])
      BY <2>1
    <3> QED  BY <3>1 DEF WorkedOn
  <2>2. CASE stops # {}
    <3>1. stops = {Len(w)}
      BY <1>3, <2>2
    <3>2. Min(stops) = Len(w)
      BY <1>1, <3>1 DEF Min
    <3>3. \E i \in DOMAIN w : Stops(w[i])
      BY <2>2
    <3>4. SubSeq(w, 1, Len(w)) = w
      BY SubSeqFull
    <3> QED  BY <3>2, <3>3, <3>4 DEF WorkedOn
  <2> QED  BY <2>1, <2>2
<1>5. ASSUME w # <<>> PROVE ~IsMalformed(Last(w))
  <2>1. Len(w) \in 1..Len(w)
    BY <1>1, <1>5, EmptySeq
  <2> QED  BY <1>1, <1>2, <2>1 DEF Last
<1> QED  BY <1>4, <1>5

\* The items in messages that have come whole.
Unframed(msgs) == Joined([i \in DOMAIN msgs |-> Split(msgs[i])])

LEMMA UnframedAppend ==
  ASSUME NEW q \in Seq(Text), NEW m \in Text
  PROVE  /\ Unframed(q) \in Seq(Clean) /\ Split(m) \in Seq(Clean)
         /\ Unframed(Append(q, m)) = Unframed(q) \o Split(m)
<1>1. \A y \in Text : Each("split", y) \in Seq(Clean)
  BY CutType DEF Each
<1>2. \A v : Unframed(v) = Joined(Mapped("split", v))
  BY DEF Unframed, Mapped, Each
<1>3. /\ Mapped("split", q) \in Seq(Seq(Clean))
      /\ Mapped("split", Append(q, m)) = Append(Mapped("split", q), Each("split", m))
  BY <1>1, MappedAppend
<1>4. Each("split", m) = Split(m) /\ Split(m) \in Seq(Clean)
  BY <1>1 DEF Each
<1> QED  BY <1>2, <1>3, <1>4, JoinedAppend, JoinedType

LEMMA UnframedEmpty == Unframed(<<>>) = <<>>
<1>1. Unframed(<<>>) = Joined(Mapped("split", <<>>))
  BY DEF Unframed, Mapped, Each
<1> QED  BY <1>1, MappedEmpty, JoinedEmpty

\* No frame is empty.
LEMMA FramesEmpty ==
  ASSUME NEW w \in Seq(Clean), FramedAll(w) \in Clean
  PROVE  w = <<>>
<1>1. SUFFICES ASSUME w # <<>> PROVE FALSE
  OBVIOUS
<1>2. /\ Head(w) \in Clean /\ FramedAll(Tail(w)) \in Text
      /\ FrameThen(FramedAll(w), Head(w), FramedAll(Tail(w)))
  BY <1>1, FramesSplit
<1> DEFINE s == FramedAll(w)
           h == Head(w)
           r == FramedAll(Tail(w))
<1>3. h \in Text /\ r \in Text /\ FrameThen(s, h, r) /\ s \in Clean
  BY <1>2, CleanIsText
<1> HIDE DEF s, h, r
<1>4. s \in Text /\ Len(s) = Len(h) + 1 + Len(r) /\ s[Len(h) + 1] = Delim
  BY <1>3, FrameAt
<1>5. Len(h) \in Nat /\ Len(r) \in Nat
  BY <1>3, LenProperties DEF Text
<1>6. Len(h) + 1 \in 1..Len(s) /\ DOMAIN s = 1..Len(s)
  BY <1>4, <1>5, LenProperties DEF Text
<1> QED  BY <1>3, <1>4, <1>6 DEF Clean

-----------------------------------------------------------------------------
(* The types.                                                              *)

LEMMA DivisorsAreText == Divisors \in SUBSET Text /\ Answers \in SUBSET Text
  BY AnswersClean, CleanIsText DEF Answers

LEMMA RepliesType ==
  ASSUME NEW w \in Seq(Text)
  PROVE  Replies(w) \in Seq(Text) /\ FramedAll(Replies(w)) \in Text
<1>1. ASSUME NEW y \in Text PROVE RepliesTo(y) \in Seq(Text)
  <2> DEFINE r == IF IsDiv(y) THEN DivReplies(Last(y)[2]) ELSE <<>>
             e == IF HasEndTest(y) THEN <<EndTest>> ELSE <<>>
  <2>1. r \in Seq(Text)
    <3>1. CASE IsDiv(y)
      <4>1. Len(y) \in DOMAIN y
        BY <3>1 DEF IsDiv, ColonPositions
      <4>2. Last(y) \in Token
        BY <4>1, LenProperties, ElementOfSeq DEF Last, Text
      <4>3. Last(y)[2] \in Nat
        BY <4>2 DEF Token
      <4>4. DivReplies(Last(y)[2]) \in Seq(Divisors)
        BY <4>3, DivRepliesType
      <4> QED  BY <3>1, <4>4, DivisorsAreText, SeqMonotonic
    <3>2. CASE ~IsDiv(y)
      BY <3>2, EmptySeq
    <3> QED  BY <3>1, <3>2
  <2>2. e \in Seq(Text)
    <3>1. EndTest \in Text
      BY EndTestIs, CleanIsText
    <3>2. <<EndTest>> \in Seq(Text) /\ <<>> \in Seq(Text)
      BY <3>1
    <3> QED  BY <3>2
  <2>3. IsMalformed(y) => RepliesTo(y) = <<>>
    BY DEF RepliesTo
  <2>4. ~IsMalformed(y) => RepliesTo(y) = r \o e
    BY DEF RepliesTo
  <2> HIDE DEF r, e
  <2>5. r \o e \in Seq(Text) /\ <<>> \in Seq(Text)
    BY <2>1, <2>2, ConcatProperties, EmptySeq
  <2> QED  BY <2>3, <2>4, <2>5
<1>2. \A y \in Text : Each("replies", y) \in Seq(Text)
  BY <1>1 DEF Each
<1>3. Replies(w) = Joined(Mapped("replies", w))
  BY DEF Replies, Mapped, Each
<1>4. /\ Joined(Mapped("replies", w)) \in Seq(Text)
      /\ Joined(Mapped("replies", w \o w))
           = Joined(Mapped("replies", w)) \o Joined(Mapped("replies", w))
  BY <1>2, GivenConcat
<1>5. Replies(w) \in Seq(Text)
  BY <1>3, <1>4
<1> DEFINE r == Replies(w)
<1>6. r \in Seq(Text)
  BY <1>5
<1> HIDE DEF r
<1>7. FramedAll(r) \in Text
  BY <1>6, FramedAllConcat
<1> QED  BY <1>5, <1>7 DEF r

LEMMA WorkedOnType ==
  ASSUME NEW w \in Seq(Text)
  PROVE  WorkedOn(w) \in Seq(Text)
<1> DEFINE stops == {i \in DOMAIN w : Stops(w[i])}
<1>1. DOMAIN w = 1..Len(w) /\ Len(w) \in Nat
  BY LenProperties
<1>2. CASE ~\E i \in DOMAIN w : Stops(w[i])
  BY <1>2 DEF WorkedOn
<1>3. CASE \E i \in DOMAIN w : Stops(w[i])
  <2>1. stops \in SUBSET Nat /\ stops # {} /\ \A i \in stops : i \in 0..Len(w)
    BY <1>1, <1>3
  <2>2. WorkedOn(w) = SubSeq(w, 1, Min(stops))
    BY <1>3 DEF WorkedOn
  <2> HIDE DEF stops
  <2>3. \E x \in stops : \A y \in stops : x <= y
    BY <2>1, LeastOfSet
  <2>4. Min(stops) \in stops
    BY <2>3 DEF Min
  <2>5. Min(stops) \in 0..Len(w)
    BY <2>1, <2>4
  <2> QED  BY <2>2, <2>5, CutAt
<1> QED  BY <1>2, <1>3

LEMMA FromType ==
  ASSUME NEW T, NEW s \in Seq(T), NEW n \in Nat
  PROVE  From(s, n) \in Seq(T)
<1>1. Len(s) \in Nat
  BY LenProperties
<1>2. CASE n <= Len(s)
  <2>1. n \in 0..Len(s)
    BY <1>1, <1>2
  <2> QED  BY <2>1, CutAt
<1>3. CASE ~(n <= Len(s))
  <2>1. Len(s) < n + 1 /\ n + 1 \in Int /\ Len(s) \in Int
    BY <1>1, <1>3
  <2>2. SubSeq(s, n + 1, Len(s)) = <<>>
    BY <2>1, SubSeqEmpty
  <2> QED  BY <2>2, EmptySeq DEF From
<1> QED  BY <1>2, <1>3

\* The places of the threads, one by one.
LEMMA PlacesAre ==
  ASSUME NEW p
  PROVE  (\A t \in Threads : p[t] \in Places(t)) <=>
           /\ p["client"] \in {"configure", "forked"}
           /\ p["tb_send"] \in {"put", "done"}
           /\ p["tb_recv"] = "get"
           /\ p["send"] \in {"new", "start", "get", "loop"}
           /\ p["recv"] \in {"new", "start", "poll", "delay"}
           /\ p["drain"] \in {"new", "start", "wait", "woken"}
<1>1. /\ Places("client") = {"configure", "forked"} /\ Places("tb_send") = {"put", "done"}
      /\ Places("tb_recv") = {"get"} /\ Places("send") = {"new", "start", "get", "loop"}
      /\ Places("recv") = {"new", "start", "poll", "delay"}
      /\ Places("drain") = {"new", "start", "wait", "woken"}
  BY DEF Places
<1> QED  BY <1>1 DEF Threads

LEMMA FreshPlaces ==
  /\ DOMAIN Fresh.pc = Threads /\ \A t \in Threads : Fresh.pc[t] \in Places(t)
  /\ Fresh.pc["client"] = "configure" /\ Fresh.pc["tb_send"] = "put"
  /\ Fresh.pc["send"] = "new" /\ Fresh.pc["recv"] = "new" /\ Fresh.pc["drain"] = "new"
  /\ Fresh.cpu = "none" /\ Fresh.send_rsp = 0
<1> DEFINE p == [t \in Threads |->
                   CASE t = "client"  -> "configure"
                     [] t = "tb_send" -> "put"
                     [] t = "tb_recv" -> "get"
                     [] OTHER         -> "new"]
<1>1. Fresh.pc = p /\ Fresh.cpu = "none" /\ Fresh.send_rsp = 0
  BY DEF Fresh
<1>2. /\ DOMAIN p = Threads
      /\ p["client"] = "configure" /\ p["tb_send"] = "put" /\ p["tb_recv"] = "get"
      /\ p["send"] = "new" /\ p["recv"] = "new" /\ p["drain"] = "new"
  BY DEF Threads
<1> HIDE DEF p
<1> QED  BY <1>1, <1>2, PlacesAre

LEMMA LeastOf ==
  ASSUME NEW X \in SUBSET Nat, X # {}
  PROVE  Min(X) \in X
<1>1. \E x \in X : \A y \in X : x <= y
  BY LeastOfSet
<1> QED  BY <1>1 DEF Min

LEMMA MinOfTwo ==
  ASSUME NEW a \in Nat, NEW b \in Nat
  PROVE  Min({a, b}) \in Nat /\ Min({a, b}) <= a /\ Min({a, b}) <= b
         /\ (b <= a => Min({a, b}) = b) /\ (a <= b => Min({a, b}) = a)
<1>1. \E x \in {a, b} : \A y \in {a, b} : x <= y
  <2>1. CASE a <= b
    BY <2>1
  <2>2. CASE ~(a <= b)
    BY <2>2
  <2> QED  BY <2>1, <2>2
<1>2. Min({a, b}) \in {a, b} /\ \A y \in {a, b} : Min({a, b}) <= y
  BY <1>1 DEF Min
<1> QED  BY <1>2

\* How many items the testbench takes: up to the first "end_test".
LEMMA TakenIs ==
  ASSUME NEW T, NEW s \in Seq(T)
  PROVE  LET ends == {i \in DOMAIN s : s[i] = EndTest}
             n    == IF ends = {} THEN Len(s) ELSE Min(ends)
         IN  /\ n \in 0..Len(s)
             /\ ends # {} => n \in 1..Len(s) /\ s[n] = EndTest
<1> DEFINE ends == {i \in DOMAIN s : s[i] = EndTest}
<1>1. DOMAIN s = 1..Len(s) /\ Len(s) \in Nat
  BY LenProperties
<1>2. ends \in SUBSET Nat /\ (\A i \in ends : i \in 1..Len(s) /\ i \in 0..Len(s) /\ s[i] = EndTest)
  BY <1>1
<1>3. CASE ends = {}
  <2>1. Len(s) \in 0..Len(s)
    BY <1>1
  <2> QED  BY <1>3, <2>1
<1>4. CASE ends # {}
  <2> HIDE DEF ends
  <2>1. Min(ends) \in ends
    BY <1>2, <1>4, LeastOf
  <2>2. Min(ends) \in 1..Len(s) /\ Min(ends) \in 0..Len(s) /\ s[Min(ends)] = EndTest
    BY <1>2, <2>1
  <2> QED  BY <1>4, <2>2 DEF ends
<1> QED  BY <1>3, <1>4

\* What a send takes fits.
LEMMA AcceptedIs ==
  ASSUME NEW data \in Text, toServer \in Text, Len(toServer) <= ToServerRoom
  PROVE  /\ Accepted(data) \in 0..Len(data)
         /\ Len(toServer) + Accepted(data) <= ToServerRoom
         /\ (Len(data) <= ToServerRoom - Len(toServer)) => Accepted(data) = Len(data)
<1>1. Len(data) \in Nat /\ Len(toServer) \in Nat /\ ToServerRoom \in Nat
  BY TcpLinkAssumption, LenProperties DEF Text
<1> DEFINE a == Len(data)
           b == ToServerRoom - Len(toServer)
<1>2. a \in Nat /\ b \in Nat
  BY <1>1
<1>3. Accepted(data) = Min({a, b})
  BY DEF Accepted
<1>4. b + Len(toServer) = ToServerRoom
  BY <1>1
<1> HIDE DEF a, b
<1>5. /\ Min({a, b}) \in Nat /\ Min({a, b}) <= a /\ Min({a, b}) <= b
      /\ (a <= b => Min({a, b}) = a)
  BY <1>2, MinOfTwo
<1>6. Accepted(data) \in 0..a /\ Len(toServer) + Accepted(data) <= ToServerRoom
  BY <1>1, <1>2, <1>3, <1>4, <1>5
<1> QED  BY <1>3, <1>5, <1>6 DEF a, b

LEMMA ReceivedIs ==
  ASSUME NEW data \in Text, NEW n \in 1..Min({BufferSize, Len(data)})
  PROVE  n \in 0..Len(data) /\ n \in 1..Len(data)
<1>1. Len(data) \in Nat /\ BufferSize \in Nat
  BY TcpLinkAssumption, LenProperties DEF Text
<1> DEFINE a == Len(data)
           m == Min({BufferSize, a})
<1>2. m \in Nat /\ m <= a
  BY <1>1, MinOfTwo
<1> HIDE DEF m
<1>3. n \in 1..m
  BY DEF m
<1> QED  BY <1>1, <1>2, <1>3

PcOK(p) == DOMAIN p = Threads /\ \A t \in Threads : p[t] \in Places(t)

\* The places change one at a time.
LEMMA PlaceMoves ==
  ASSUME NEW p, PcOK(p), NEW t \in Threads, NEW v \in Places(t)
  PROVE  PcOK([p EXCEPT ![t] = v])
  BY DEF PcOK

\* The types that a step of the client may change.
LEMMA ClientTypes ==
  ASSUME TypeOK, ClientStep
  PROVE  TypeOK'
<1>0. /\ conn \in ConnStates /\ toServer \in Text /\ Len(toServer) <= ToServerRoom
      /\ toClient \in Text /\ Len(toClient) <= ToClientRoom
      /\ sim \in {"running", "finished", "killed"} /\ sessions \in 1..MaxSessions
      /\ cpu \in Threads \cup {"none"} /\ PcOK(pc)
      /\ send_item \in Text /\ msg_saved \in Text /\ send_rsp \in Nat
      /\ send_mbox \in Seq(Text) /\ recv_mbox \in Seq(Text) /\ msgs_q \in Seq(Text)
      /\ submitted \in Seq(Text) /\ received \in Seq(Text)
      /\ ServerTypeOK'
  BY DEF TypeOK, LinkTypeOK, ClientTypeOK, ServerTypeOK, PcOK, ClientStep, serverVars
<1>1. /\ "client" \in Threads /\ "send" \in Threads /\ "recv" \in Threads
      /\ "drain" \in Threads /\ "tb_send" \in Threads
      /\ "forked" \in Places("client") /\ "done" \in Places("tb_send")
      /\ {"start", "get"} \in SUBSET Places("send")
      /\ {"start", "poll", "delay"} \in SUBSET Places("recv")
      /\ {"start", "wait", "woken"} \in SUBSET Places("drain")
      /\ "loop" \in Places("send")
  BY DEF Threads, Places
<1>2. ASSUME UNCHANGED linkVars
      PROVE  LinkTypeOK'
  BY <1>0, <1>2 DEF LinkTypeOK, linkVars
<1>3. ASSUME ClientGone
      PROVE  LinkTypeOK'
  <2>1. CASE conn # "open"
    BY <1>2, <1>3, <2>1 DEF ClientGone
  <2>2. CASE conn = "open"
    <3>1. <<>> \in Text /\ Len(<<>>) = 0
      BY DEF Text
    <3>2. /\ toClient' = <<>>
          /\ conn' \in ConnStates
          /\ toServer' = toServer \/ toServer' = <<>>
      BY <1>3, <2>2 DEF ClientGone, ConnStates
    <3> QED  BY <1>0, <3>1, <3>2, TcpLinkAssumption DEF LinkTypeOK
  <2> QED  BY <2>1, <2>2
<1>4. CASE Configure
  <2>1. PcOK(pc')
    <3> DEFINE p1 == [pc EXCEPT !["client"] = "forked"]
               p2 == [p1 EXCEPT !["recv"] = "start"]
               p3 == [p2 EXCEPT !["send"] = "start"]
               p4 == [p3 EXCEPT !["drain"] = "start"]
    <3>1. pc' = p4
      BY <1>4 DEF Configure
    <3>2. PcOK(p1)
      BY <1>0, <1>1, PlaceMoves
    <3> HIDE DEF p1
    <3>3. PcOK(p2)
      BY <1>1, <3>2, PlaceMoves
    <3> HIDE DEF p2
    <3>4. PcOK(p3)
      BY <1>1, <3>3, PlaceMoves
    <3> HIDE DEF p3
    <3>5. PcOK(p4)
      BY <1>1, <3>4, PlaceMoves
    <3> QED  BY <3>1, <3>5
  <2>2. LinkTypeOK'
    BY <1>0, <1>4 DEF Configure, LinkTypeOK, ConnStates
  <2> QED  BY <1>0, <1>4, <2>1, <2>2 DEF Configure, TypeOK, ClientTypeOK, PcOK
<1>5. ASSUME NEW cmds \in Commands, TbSend(cmds) PROVE TypeOK'
  <2>1. submitted' \in Seq(Text) /\ send_mbox' \in Seq(Text)
    <3> DEFINE n == ItemCount
               c == [v \in 1..n |-> Command(cmds[v], v)]
    <3>1. n \in Nat
      BY ClientAssumption
    <3>2. ASSUME NEW v \in 1..n PROVE c[v] \in Text
      <4>1. cmds[v] \in {"div", "nop"} /\ v \in Nat
        BY DEF Commands
      <4> QED  BY <4>1, CommandIs, CleanIsText
    <3>3. c \in [1..n -> Text]
      <4>1. c = [v \in 1..n |-> c[v]]
        OBVIOUS
      <4> QED  BY <3>2, <4>1
    <3>4. submitted' = Append(c, EndTest) /\ send_mbox' = send_mbox \o submitted'
      BY <1>5 DEF TbSend
    <3> HIDE DEF c, n
    <3>5. c \in Seq(Text) /\ EndTest \in Text
      BY <3>1, <3>3, FunctionIsSeq, EndTestIs, CleanIsText
    <3>6. submitted' \in Seq(Text)
      BY <3>4, <3>5, AppendProperties
    <3> QED  BY <1>0, <3>4, <3>6, ConcatProperties
  <2>2. PcOK(pc')
    BY <1>0, <1>1, <1>5, PlaceMoves DEF TbSend
  <2> QED  BY <1>0, <1>2, <1>5, <2>1, <2>2 DEF TbSend, TypeOK, ClientTypeOK, PcOK
<1>6. CASE TbRecv
  <2> DEFINE ends == {i \in DOMAIN recv_mbox : recv_mbox[i] = EndTest}
             n == IF ends = {} THEN Len(recv_mbox) ELSE Min(ends)
  <2>1. /\ received' = received \o SubSeq(recv_mbox, 1, n)
        /\ recv_mbox' = From(recv_mbox, n)
        /\ \/ sim' = sim /\ UNCHANGED linkVars
           \/ sim' = "finished" /\ ClientGone
        /\ cpu' = "none"
        /\ UNCHANGED <<sessions, pc, send_mbox, send_item, send_rsp, msgs_q, msg_saved, submitted>>
    BY <1>6 DEF TbRecv
  <2>2. n \in 0..Len(recv_mbox)
    BY <1>0, TakenIs
  <2> HIDE DEF n
  <2>3. received' \in Seq(Text) /\ recv_mbox' \in Seq(Text)
    BY <1>0, <2>1, <2>2, CutAt, ConcatProperties
  <2>4. LinkTypeOK'
    BY <1>2, <1>3, <2>1
  <2> QED  BY <1>0, <2>1, <2>3, <2>4 DEF TypeOK, ClientTypeOK, PcOK
<1>7. CASE SendStart
  <2>1. PcOK(pc')
    BY <1>0, <1>1, <1>7, PlaceMoves DEF SendStart
  <2>2. cpu' \in Threads \cup {"none"}
    BY <1>1, <1>7 DEF SendStart
  <2> QED  BY <1>0, <1>2, <1>7, <2>1, <2>2 DEF SendStart, TypeOK, ClientTypeOK, PcOK
<1>8. CASE SendGet
  <2>1. PcOK(pc')
    BY <1>0, <1>1, <1>8, PlaceMoves DEF SendGet
  <2>2. send_item' \in Text /\ send_mbox' \in Seq(Text)
    <3>1. Head(send_mbox) \in Text /\ Tail(send_mbox) \in Seq(Text)
      BY <1>0, <1>8, HeadTailProperties DEF SendGet
    <3> QED  BY <1>8, <3>1, TokensAre, AppendProperties DEF SendGet, Framed
  <2> QED  BY <1>0, <1>1, <1>2, <1>8, <2>1, <2>2 DEF SendGet, TypeOK, ClientTypeOK, PcOK
<1>9. ASSUME NEW rsp \in Nat, SendResult(rsp)
      PROVE  send_rsp' \in Nat /\ send_item' \in Text /\ PcOK(pc') /\ cpu' \in Threads \cup {"none"}
  <2>1. send_item' \in Text
    BY <1>0, <1>9, FromType DEF SendResult, Text
  <2>2. PcOK(pc')
    BY <1>0, <1>1, <1>9, PlaceMoves DEF SendResult
  <2> QED  BY <1>0, <1>1, <1>9, <2>1, <2>2 DEF SendResult
<1>10. CASE SendData
  <2> DEFINE n == Accepted(send_item)
  <2>1. SendResult(n) /\ toServer' = toServer \o SubSeq(send_item, 1, n)
    BY <1>10 DEF SendData
  <2>2. n \in 0..Len(send_item) /\ Len(toServer) + n <= ToServerRoom
    BY <1>0, AcceptedIs
  <2> HIDE DEF n
  <2>3. toServer' \in Text /\ Len(toServer') <= ToServerRoom
    <3>1. SubSeq(send_item, 1, n) \in Text /\ Len(SubSeq(send_item, 1, n)) = n
      BY <1>0, <2>2, CutAt DEF Text
    <3>2. toServer' \in Text /\ Len(toServer') = Len(toServer) + n
      BY <1>0, <2>1, <3>1, ConcatProperties DEF Text
    <3> QED  BY <2>2, <3>2
  <2>4. n \in Nat
    BY <2>2
  <2>5. send_rsp' \in Nat /\ send_item' \in Text /\ PcOK(pc') /\ cpu' \in Threads \cup {"none"}
    BY <1>9, <2>1, <2>4
  <2> QED  BY <1>0, <1>10, <2>3, <2>5 DEF SendData, TypeOK, LinkTypeOK, ClientTypeOK, PcOK
<1>11. ASSUME NEW rsp \in {0, send_rsp}, SendWouldBlock(rsp) PROVE TypeOK'
  <2>1. rsp \in Nat /\ SendResult(rsp)
    BY <1>0, <1>11 DEF SendWouldBlock
  <2>2. send_rsp' \in Nat /\ send_item' \in Text /\ PcOK(pc') /\ cpu' \in Threads \cup {"none"}
    BY <1>9, <2>1
  <2> QED  BY <1>0, <1>2, <1>11, <2>2 DEF SendWouldBlock, TypeOK, ClientTypeOK, PcOK
<1>12. ASSUME NEW n \in 1..Min({BufferSize, Len(toClient)}), RecvData(n) PROVE TypeOK'
  <2>1. n \in 0..Len(toClient)
    BY <1>0, ReceivedIs
  <2> DEFINE msg == SubSeq(toClient, 1, n)
  <2>2. msg \in Text /\ From(toClient, n) \in Text /\ Len(From(toClient, n)) = Len(toClient) - n
    BY <1>0, <2>1, CutAt DEF Text
  <2> HIDE DEF msg
  <2>3. msg_saved \o msg \in Text
    BY <1>0, <2>2, ConcatProperties DEF Text
  <2>4. RecvCallback(msg) /\ toClient' = From(toClient, n)
    BY <1>12 DEF RecvData, msg
  <2>5. msgs_q' \in Seq(Text) /\ msg_saved' \in Text
    <3>1. \/ msgs_q' = Append(msgs_q, msg_saved \o msg) /\ msg_saved' = <<>>
          \/ msgs_q' = msgs_q /\ msg_saved' = msg_saved \o msg
      BY <2>4 DEF RecvCallback
    <3>2. Append(msgs_q, msg_saved \o msg) \in Seq(Text) /\ <<>> \in Text
      BY <1>0, <2>3, AppendProperties, CleanEmpty, CleanIsText
    <3> QED  BY <1>0, <2>3, <3>1, <3>2
  <2>6. PcOK(pc')
    <3> DEFINE p1 == [pc EXCEPT !["recv"] = "poll"]
               woken == IF p1["drain"] = "wait" THEN "woken" ELSE p1["drain"]
               p2 == [p1 EXCEPT !["drain"] = woken]
    <3>1. pc' = p1 \/ pc' = p2
      BY <2>4 DEF RecvCallback
    <3>2. PcOK(p1)
      BY <1>0, <1>1, PlaceMoves
    <3> HIDE DEF p1
    <3>3. woken \in Places("drain")
      BY <1>1, <3>2 DEF PcOK
    <3> HIDE DEF woken
    <3>4. PcOK(p2)
      BY <1>1, <3>2, <3>3, PlaceMoves
    <3> QED  BY <3>1, <3>2, <3>4
  <2>7. toClient' \in Text /\ Len(toClient') <= ToClientRoom
    <3>1. Len(toClient) \in Nat
      BY <1>0, LenProperties DEF Text
    <3> QED  BY <1>0, <2>1, <2>2, <2>4, <3>1, TcpLinkAssumption
  <2> QED  BY <1>0, <1>1, <1>12, <2>5, <2>6, <2>7 DEF RecvData, TypeOK, LinkTypeOK, ClientTypeOK, PcOK
<1>13. CASE RecvTimeout
  <2>1. PcOK(pc')
    BY <1>0, <1>1, <1>13, PlaceMoves DEF RecvTimeout
  <2> QED  BY <1>0, <1>2, <1>13, <2>1 DEF RecvTimeout, TypeOK, ClientTypeOK, PcOK
<1>14. CASE RecvEndOfFile
  <2>1. PcOK(pc')
    BY <1>0, <1>1, <1>14, PlaceMoves DEF RecvEndOfFile
  <2> QED  BY <1>0, <1>1, <1>2, <1>14, <2>1 DEF RecvEndOfFile, TypeOK, ClientTypeOK, PcOK
<1>15. CASE DrainStart
  <2>1. PcOK(pc')
    BY <1>0, <1>1, <1>15, PlaceMoves DEF DrainStart
  <2> QED  BY <1>0, <1>2, <1>15, <2>1 DEF DrainStart, TypeOK, ClientTypeOK, PcOK
<1>16. CASE Drain
  <2>1. PcOK(pc')
    BY <1>0, <1>1, <1>16, PlaceMoves DEF Drain
  <2>2. recv_mbox' \in Seq(Text) /\ msgs_q' \in Seq(Text)
    <3>1. recv_mbox' = recv_mbox \o Unframed(msgs_q) /\ msgs_q' = <<>>
      BY <1>16 DEF Drain, Unframed
    <3>2. Unframed(msgs_q) \in Seq(Clean)
      BY <1>0, UnframedAppend
    <3>3. Unframed(msgs_q) \in Seq(Text)
      BY <3>2, CleanIsText, SeqMonotonic
    <3> QED  BY <1>0, <3>1, <3>3, ConcatProperties, EmptySeq
  <2> QED  BY <1>0, <1>2, <1>16, <2>1, <2>2 DEF Drain, TypeOK, ClientTypeOK, PcOK
<1>17. CASE Killed
  <2>1. LinkTypeOK'
    BY <1>3, <1>17 DEF Killed
  <2> QED  BY <1>0, <1>17, <2>1 DEF Killed, TypeOK, ClientTypeOK, PcOK
<1>18. CASE Restart
  <2>1. PcOK(pc') /\ cpu' = "none" /\ send_rsp' = 0
    BY <1>18, FreshPlaces DEF Restart, PcOK
  <2>2. sessions' \in 1..MaxSessions
    BY <1>0, <1>18, ClientAssumption DEF Restart
  <2>3. <<>> \in Text /\ <<>> \in Seq(Text)
    BY DEF Text
  <2> QED  BY <1>0, <1>2, <1>18, <2>1, <2>2, <2>3 DEF Restart, TypeOK, ClientTypeOK, PcOK
<1> QED
  BY <1>4, <1>5, <1>6, <1>7, <1>8, <1>10, <1>11, <1>12, <1>13, <1>14, <1>15, <1>16,
     <1>17, <1>18 DEF ClientStep, ClientNext, TbStep, SendStep, RecvStep, DrainStep

\* What the server's send takes fits.
LEMMA SentIs ==
  ASSUME outbox \in Text, toClient \in Text, Len(toClient) <= ToClientRoom
  PROVE  LET n == Min({Len(outbox), ToClientRoom - Len(toClient)})
         IN  n \in 0..Len(outbox) /\ Len(toClient) + n <= ToClientRoom
<1>1. Len(outbox) \in Nat /\ Len(toClient) \in Nat /\ ToClientRoom \in Nat
  BY TcpLinkAssumption, LenProperties DEF Text
<1> DEFINE a == Len(outbox)
           b == ToClientRoom - Len(toClient)
<1>2. a \in Nat /\ b \in Nat /\ b + Len(toClient) = ToClientRoom
  BY <1>1
<1> HIDE DEF a, b
<1>3. Min({a, b}) \in Nat /\ Min({a, b}) <= a /\ Min({a, b}) <= b
  BY <1>2, MinOfTwo
<1>4. Min({a, b}) \in 0..a /\ Len(toClient) + Min({a, b}) <= ToClientRoom
  BY <1>1, <1>2, <1>3
<1> QED  BY <1>4 DEF a, b

LEMMA ServerTypes ==
  ASSUME TypeOK, ServerStep
  PROVE  TypeOK'
<1>0. /\ conn \in ConnStates /\ toServer \in Text /\ Len(toServer) <= ToServerRoom
      /\ toClient \in Text /\ Len(toClient) <= ToClientRoom
      /\ srv \in ServerStates /\ truncated_item \in Text /\ outbox \in Text
      /\ served \in Seq(Text) /\ <<>> \in Text /\ <<>> \in Seq(Text)
      /\ ClientTypeOK'
  BY CleanEmpty, CleanIsText DEF TypeOK, LinkTypeOK, ClientTypeOK, ServerTypeOK, ServerStep, clientVars
<1>1. /\ {"listening", "reset", "down"} \in SUBSET ConnStates
      /\ {"accept", "recv", "reply", "value_error", "dead"} \in SUBSET ServerStates
      /\ Len(<<>>) = 0 /\ 0 <= ToServerRoom /\ 0 <= ToClientRoom
  BY TcpLinkAssumption DEF ConnStates, ServerStates
<1>2. CASE ServerAccept
  BY <1>0, <1>1, <1>2 DEF ServerAccept, linkVars, TypeOK, LinkTypeOK, ServerTypeOK
<1>3. ASSUME NEW n \in 1..Min({BufferSize, Len(toServer)}), ServerReceive(n) PROVE TypeOK'
  <2>1. n \in 0..Len(toServer)
    BY <1>0, ReceivedIs
  <2>2. /\ SubSeq(toServer, 1, n) \in Text /\ From(toServer, n) \in Text
        /\ Len(From(toServer, n)) = Len(toServer) - n
    BY <1>0, <2>1, CutAt DEF Text
  <2> DEFINE msg == truncated_item \o SubSeq(toServer, 1, n)
             work == WorkedOn(Split(msg))
  <2>3. msg \in Text
    BY <1>0, <2>2, ConcatProperties DEF Text
  <2>4. /\ toServer' = From(toServer, n) /\ truncated_item' = Truncated(msg)
        /\ outbox' = FramedAll(Replies(work)) /\ served' = served \o work
        /\ srv' \in {"value_error", "reply", "recv"}
        /\ UNCHANGED <<conn, toClient>>
    BY <1>3 DEF ServerReceive
  <2> HIDE DEF msg
  <2>5. Split(msg) \in Seq(Text) /\ Truncated(msg) \in Text
    BY <2>3, CutType, CleanIsText, SeqMonotonic
  <2>6. work \in Seq(Text)
    BY <2>5, WorkedOnType
  <2> HIDE DEF work
  <2>7. outbox' \in Text /\ served' \in Seq(Text)
    BY <1>0, <2>4, <2>6, RepliesType, ConcatProperties
  <2>8. Len(toServer') <= ToServerRoom
    <3>1. Len(toServer) \in Nat
      BY <1>0, LenProperties DEF Text
    <3> QED  BY <1>0, <2>1, <2>2, <2>4, <3>1, TcpLinkAssumption
  <2> QED  BY <1>0, <1>1, <2>2, <2>4, <2>5, <2>7, <2>8 DEF TypeOK, LinkTypeOK, ServerTypeOK
<1>4. CASE ServerSend
  <2> DEFINE n == Min({Len(outbox), ToClientRoom - Len(toClient)})
  <2>1. /\ toClient' = toClient \o SubSeq(outbox, 1, n) /\ outbox' = From(outbox, n)
        /\ srv' \in {"recv", srv} /\ UNCHANGED <<truncated_item, served, conn, toServer>>
    BY <1>4 DEF ServerSend
  <2>2. n \in 0..Len(outbox) /\ Len(toClient) + n <= ToClientRoom
    BY <1>0, SentIs
  <2> HIDE DEF n
  <2>3. SubSeq(outbox, 1, n) \in Text /\ Len(SubSeq(outbox, 1, n)) = n /\ outbox' \in Text
    BY <1>0, <2>1, <2>2, CutAt DEF Text
  <2>4. toClient' \in Text /\ Len(toClient') = Len(toClient) + n
    BY <1>0, <2>1, <2>3, ConcatProperties DEF Text
  <2> QED  BY <1>0, <1>1, <2>1, <2>2, <2>3, <2>4 DEF TypeOK, LinkTypeOK, ServerTypeOK
<1>5. ASSUME NEW n \in 1..Len(outbox), ServerSendToClosed(n) PROVE TypeOK'
  <2>1. Len(outbox) \in Nat
    BY <1>0, LenProperties DEF Text
  <2>2. outbox' \in Text
    BY <1>0, <1>5, <2>1, FromType DEF ServerSendToClosed, Text
  <2> QED  BY <1>0, <1>1, <1>5, <2>2 DEF ServerSendToClosed, TypeOK, LinkTypeOK, ServerTypeOK
<1>6. CASE ServerClose
  BY <1>0, <1>1, <1>6 DEF ServerClose, TypeOK, LinkTypeOK, ServerTypeOK
<1>7. CASE ServerFails
  BY <1>0, <1>1, <1>7 DEF ServerFails, TypeOK, LinkTypeOK, ServerTypeOK
<1> QED  BY <1>2, <1>3, <1>4, <1>5, <1>6, <1>7 DEF ServerStep, ServerNext

LEMMA InitTypes == Init => TypeOK
<1> SUFFICES ASSUME Init PROVE TypeOK
  OBVIOUS
<1>1. <<>> \in Text /\ <<>> \in Seq(Text) /\ Len(<<>>) = 0
  BY CleanEmpty, CleanIsText
<1>2. LinkTypeOK
  BY <1>1, TcpLinkAssumption DEF Init, LinkInit, LinkTypeOK, ConnStates
<1>3. ClientTypeOK
  <2>1. 1 \in 1..MaxSessions
    BY ClientAssumption
  <2> QED  BY <1>1, <2>1, FreshPlaces DEF Init, ClientInit, ClientTypeOK
<1>4. ServerTypeOK
  BY <1>1 DEF Init, ServerInit, ServerTypeOK, ServerStates
<1> QED  BY <1>2, <1>3, <1>4 DEF TypeOK

LEMMA NextTypes == TypeOK /\ [Next]_vars => TypeOK'
<1> SUFFICES ASSUME TypeOK, [Next]_vars PROVE TypeOK'
  OBVIOUS
<1>1. CASE UNCHANGED vars
  BY <1>1 DEF vars, linkVars, clientVars, serverVars, TypeOK, LinkTypeOK, ClientTypeOK, ServerTypeOK
<1>2. CASE Next
  BY <1>1, <1>2, ClientTypes, ServerTypes DEF Next, Stay
<1> QED  BY <1>1, <1>2

\* Every variable keeps its type, whatever room poll asks for: text stays
\* text and the buffers of the connection never hold more than their room.
THEOREM TypeCorrect == Spec => []TypeOK
<1>1. Init => TypeOK
  BY InitTypes
<1>2. TypeOK /\ [Next]_vars => TypeOK'
  BY NextTypes
<1> QED  BY <1>1, <1>2, PTL DEF Spec

-----------------------------------------------------------------------------
(* The inductive invariant.                                                *)

\* poll reports POLLOUT only when a whole item fits.
WholeSends == PollOutMin >= 3

\* Which states of the two processes and of the connection go together.
Control ==
  /\ srv # "value_error"
  /\ srv = "dead" <=> conn = "down"
  /\ conn = "open" => sim = "running" /\ pc["client"] = "forked"
  /\ sim = "running" => conn = "open" \/ pc["client"] = "configure"
  /\ conn # "open" => toClient = <<>>
  /\ conn = "listening" => srv = "accept" /\ toServer = <<>> /\ truncated_item = <<>>
  /\ srv = "accept" => conn \in {"listening", "open", "closed"} /\ toClient = <<>>
  /\ srv \in {"accept", "recv"} => outbox = <<>>

\* A simulator that has not connected has sent and received nothing.
Unconnected ==
  sim = "running" /\ pc["client"] = "configure" =>
    /\ pc["send"] = "new" /\ pc["recv"] = "new" /\ pc["drain"] = "new"
    /\ submitted = send_mbox /\ send_item = <<>>
    /\ received = <<>> /\ recv_mbox = <<>> /\ msgs_q = <<>> /\ msg_saved = <<>>

\* What a testbench may submit.
Submittable ==
  {Append([v \in 1..ItemCount |-> Command(cmds[v], v)], EndTest) : cmds \in Commands}

Ends ==
  /\ submitted = <<>> \/ submitted \in Submittable
  /\ sim = "running" /\ pc["tb_send"] = "put" => submitted = <<>>
  /\ sim = "finished" => submitted # <<>> /\ received = Replies(submitted)

\* What the server has worked on for the present connection.
Doing == IF srv = "accept" THEN <<>> ELSE served

\* The item s that send_to_remote holds is all there or all gone.
Sending(s) ==
  \/ s = <<>> /\ send_item = <<>>
  \/ \E x \in Requests :
       s = <<x>> /\ send_item = Framed(x) /\ send_rsp = 0 /\ pc["send"] = "loop"

\* The items w are on their way, the first one begun in truncated_item.
Coming(w) ==
  EndsLast(w) /\ truncated_item \in Clean /\ truncated_item \o toServer = FramedAll(w)

Requested(w, s) ==
  conn = "open" => Sending(s) /\ submitted = ((Doing \o w) \o s) \o send_mbox

RequestsHeld ==
  conn \notin {"reset", "down"} =>
    \E w, s \in Seq(Requests) : Coming(w) /\ Requested(w, s)

\* The replies z are on their way, the first one begun in msg_saved.
Replying(z) ==
  /\ (msg_saved \o toClient) \o outbox = FramedAll(z)
  /\ Joined(msgs_q) = FramedAll(Unframed(msgs_q))
  /\ Replies(Doing) = ((received \o recv_mbox) \o Unframed(msgs_q)) \o z

RepliesHeld == conn = "open" => \E z \in Seq(Clean) : Replying(z)

IInv == TypeOK /\ Control /\ Unconnected /\ Ends /\ RequestsHeld /\ RepliesHeld

-----------------------------------------------------------------------------
LEMMA Regroup ==
  ASSUME NEW T, NEW a \in Seq(T), NEW b \in Seq(T), NEW c \in Seq(T), NEW d \in Seq(T)
  PROVE  /\ ((a \o b) \o c) \o d = (a \o (b \o c)) \o d
         /\ ((a \o b) \o c) \o d = (a \o b) \o (c \o d)
         /\ a \o b \in Seq(T) /\ b \o c \in Seq(T) /\ c \o d \in Seq(T)
         /\ (a \o b) \o c \in Seq(T) /\ ((a \o b) \o c) \o d \in Seq(T)
<1>1. (a \o b) \o c = a \o (b \o c) /\ a \o b \in Seq(T) /\ b \o c \in Seq(T)
  BY Assoc
<1> DEFINE e == a \o b
<1>2. e \in Seq(T) /\ c \in Seq(T) /\ d \in Seq(T)
  BY <1>1
<1> HIDE DEF e
<1>3. (e \o c) \o d = e \o (c \o d) /\ e \o c \in Seq(T) /\ c \o d \in Seq(T)
      /\ (e \o c) \o d \in Seq(T)
  BY ONLY <1>2, Assoc, SMTT(30)
<1> QED  BY <1>1, <1>3 DEF e

LEMMA RequestsText == Requests \in SUBSET Text /\ Seq(Requests) \in SUBSET Seq(Text)
<1>1. Requests \in SUBSET Text
  BY RequestsClean, CleanIsText
<1> QED  BY <1>1, SeqMonotonic

LEMMA CleanSeqText == Seq(Clean) \in SUBSET Seq(Text)
  BY CleanIsText, SeqMonotonic

\* What a testbench submits, and what it is answered, ends with "end_test".
LEMMA SubmittableIs ==
  ASSUME NEW q \in Submittable
  PROVE  /\ q \in Seq(Requests) /\ EndsLast(q) /\ q # <<>>
         /\ Replies(q) \in Seq(Answers) /\ EndsLast(Replies(q))
<1>1. PICK cmds \in Commands : q = Append([v \in 1..ItemCount |-> Command(cmds[v], v)], EndTest)
  BY DEF Submittable
<1> DEFINE n == ItemCount
           c == [v \in 1..n |-> Command(cmds[v], v)]
           r == Replies(c)
<1>2. n \in Nat
  BY ClientAssumption
<1>3. c \in [1..n -> Commanded]
  <2>1. ASSUME NEW v \in 1..n PROVE c[v] \in Commanded
    <3>1. cmds[v] \in {"div", "nop"} /\ v \in Nat
      BY <1>2 DEF Commands
    <3> QED  BY <3>1 DEF Commanded
  <2>2. c = [v \in 1..n |-> c[v]]
    OBVIOUS
  <2> QED  BY <2>1, <2>2
<1>4. q = Append(c, EndTest)
  BY <1>1
<1> HIDE DEF c, n
<1>5. c \in Seq(Commanded)
  BY <1>2, <1>3, FunctionIsSeq
<1>6. c \in Seq(Requests) /\ EndTest \in Requests
  <2>1. Commanded \in SUBSET Requests
    BY DEF Requests
  <2> QED  BY <1>5, <2>1, SeqMonotonic DEF Requests
<1>7. ASSUME NEW S, EndTest \notin S, NEW b \in Seq(S)
      PROVE  EndsLast(Append(b, EndTest)) /\ Append(b, EndTest) # <<>>
  <2> DEFINE e == Append(b, EndTest)
  <2>1. /\ e \in Seq(S \cup {EndTest}) /\ Len(e) = Len(b) + 1 /\ Len(b) \in Nat
        /\ \A i \in 1..Len(b) : e[i] = b[i]
    <3>1. b \in Seq(S \cup {EndTest})
      BY SeqMonotonic
    <3> QED  BY <3>1, AppendProperties, LenProperties
  <2>2. \A i \in 1..Len(b) : b[i] \in S
    BY ElementOfSeq
  <2> HIDE DEF e
  <2>3. DOMAIN e = 1..Len(b) + 1
    BY <2>1, LenProperties
  <2>4. ASSUME NEW i \in 1..Len(b) + 1, e[i] = EndTest PROVE i = Len(b) + 1
    <3>1. i \notin 1..Len(b)
      BY <1>7, <2>1, <2>2, <2>4
    <3> QED  BY <2>1, <3>1
  <2>5. EndsLast(e) /\ e # <<>>
    <3>1. EndsLast(e)
      BY <2>1, <2>3, <2>4 DEF EndsLast
    <3>2. Len(e) # 0
      BY <2>1
    <3> QED  BY <3>1, <3>2
  <2> QED  BY <2>5 DEF e
<1>8. EndTest \notin Commanded
  <2>1. \A x \in Commanded : x # EndTest
    BY CommandIs DEF Commanded
  <2> QED  BY <2>1
<1>9. q \in Seq(Requests) /\ EndsLast(q) /\ q # <<>>
  BY <1>4, <1>5, <1>6, <1>7, <1>8, AppendProperties
<1>10. r \in Seq(Divisors)
  BY <1>5, RepliesCommanded
<1>11. Replies(q) = Append(r, EndTest)
  <2>1. <<EndTest>> \in Seq(Requests) /\ q = c \o <<EndTest>>
    BY <1>4, <1>6, AppendIsConcat
  <2>2. Replies(q) = r \o Replies(<<EndTest>>)
    BY <1>6, <2>1, RepliesConcat
  <2> HIDE DEF r
  <2>3. r \in Seq(Answers) /\ EndTest \in Answers
    BY <1>10, SeqMonotonic DEF Answers
  <2> QED  BY <2>2, <2>3, RepliesFew, AppendIsConcat
<1> HIDE DEF r
<1>12. EndsLast(Append(r, EndTest))
  BY <1>7, <1>10, AnswersClean
<1>13. Replies(q) \in Seq(Answers)
  BY <1>9, RepliesConcat
<1> QED  BY <1>9, <1>11, <1>12, <1>13

LEMMA SubmittedIs ==
  ASSUME Ends
  PROVE  /\ submitted \in Seq(Requests) /\ EndsLast(submitted)
         /\ Replies(submitted) \in Seq(Answers) /\ EndsLast(Replies(submitted))
<1>1. CASE submitted = <<>>
  <2>1. submitted \in Seq(Requests) /\ EndsLast(submitted)
    BY <1>1 DEF EndsLast
  <2>2. Replies(submitted) = <<>>
    BY <1>1, RepliesFew
  <2>3. <<>> \in Seq(Answers) /\ EndsLast(<<>>)
    BY DEF EndsLast
  <2> QED  BY <2>1, <2>2, <2>3
<1>2. CASE submitted # <<>>
  BY <1>2, SubmittableIs DEF Ends
<1> QED  BY <1>1, <1>2

LEMMA InitIInv == Init => IInv
<1> SUFFICES ASSUME Init PROVE IInv
  OBVIOUS
<1>1. TypeOK
  BY InitTypes
<1>2. /\ conn = "listening" /\ toServer = <<>> /\ toClient = <<>>
      /\ sim = "running" /\ pc["client"] = "configure" /\ pc["tb_send"] = "put"
      /\ pc["send"] = "new" /\ pc["recv"] = "new" /\ pc["drain"] = "new"
      /\ send_mbox = <<>> /\ recv_mbox = <<>> /\ send_item = <<>>
      /\ msgs_q = <<>> /\ msg_saved = <<>> /\ submitted = <<>> /\ received = <<>>
      /\ srv = "accept" /\ truncated_item = <<>> /\ outbox = <<>>
  BY FreshPlaces DEF Init, LinkInit, ClientInit, ServerInit
<1>3. Control /\ Unconnected /\ Ends
  BY <1>2 DEF Control, Unconnected, Ends
<1>4. RequestsHeld
  <2>1. <<>> \in Seq(Requests) /\ EndsLast(<<>>) /\ <<>> \in Clean /\ <<>> \o <<>> = <<>>
    BY CleanEmpty DEF EndsLast
  <2>2. Coming(<<>>) /\ Requested(<<>>, <<>>)
    BY <1>2, <2>1, FramedAllFew DEF Coming, Requested
  <2> QED  BY <2>1, <2>2 DEF RequestsHeld
<1>5. RepliesHeld
  BY <1>2 DEF RepliesHeld
<1> QED  BY <1>1, <1>3, <1>4, <1>5 DEF IInv

-----------------------------------------------------------------------------
(* The requests.                                                           *)

LEMMA RequestTypes ==
  ASSUME TypeOK
  PROVE  /\ toServer \in Text /\ truncated_item \in Text /\ send_item \in Text
         /\ Doing \in Seq(Text) /\ served \in Seq(Text)
         /\ send_mbox \in Seq(Text) /\ submitted \in Seq(Text) /\ send_rsp \in Nat
  BY EmptySeq DEF TypeOK, LinkTypeOK, ClientTypeOK, ServerTypeOK, Doing

\* The parts of what was submitted.
LEMMA RequestParts ==
  ASSUME TypeOK, Ends, NEW w \in Seq(Requests), NEW s \in Seq(Requests),
         submitted = ((Doing \o w) \o s) \o send_mbox
  PROVE  /\ Doing \in Seq(Requests) /\ send_mbox \in Seq(Requests)
         /\ EndsLast(w \o s) /\ w \o s \in Seq(Requests)
         /\ submitted = Doing \o ((w \o s) \o send_mbox)
<1> DEFINE d == Doing
           q == send_mbox
<1>1. d \in Seq(Text) /\ q \in Seq(Text) /\ w \in Seq(Text) /\ s \in Seq(Text)
  BY RequestTypes, RequestsText
<1>2. submitted = ((d \o w) \o s) \o q
  OBVIOUS
<1> HIDE DEF d, q
<1>3. submitted \in Seq(Requests) /\ EndsLast(submitted)
  BY SubmittedIs
<1>4. w \o s \in Seq(Requests)
  BY ConcatProperties
<1> DEFINE e == w \o s
<1>5. e \in Seq(Text) /\ submitted = (d \o e) \o q
  BY ONLY <1>1, <1>2, Regroup, SMTT(30)
<1> HIDE DEF e
<1>6. submitted = d \o (e \o q) /\ e \o q \in Seq(Text) /\ d \o e \in Seq(Text)
  <2>1. (d \o e) \o q = d \o (e \o q) /\ e \o q \in Seq(Text) /\ d \o e \in Seq(Text)
    <3>1. d \in Seq(Text) /\ e \in Seq(Text) /\ q \in Seq(Text)
      BY <1>1, <1>5
    <3> QED  BY ONLY <3>1, Assoc, SMTT(30)
  <2> QED  BY <1>5, <2>1
<1>7. d \in Seq(Requests) /\ EndsLast(e \o q)
  <2> DEFINE f == e \o q
  <2>1. f \in Seq(Text) /\ submitted = d \o f
    BY <1>6
  <2> HIDE DEF f
  <2>2. d \in Seq(Requests) /\ EndsLast(f)
    BY <1>1, <1>3, <2>1, ConcatParts, EndsLastParts
  <2> QED  BY <2>2 DEF f
<1>8. q \in Seq(Requests)
  <2> DEFINE f == d \o e
  <2>1. f \in Seq(Text) /\ submitted = f \o q
    BY <1>5, <1>6
  <2> HIDE DEF f
  <2> QED  BY <1>1, <1>3, <2>1, ConcatParts
<1>9. EndsLast(e)
  BY <1>1, <1>5, <1>7, EndsLastParts
<1> QED  BY <1>4, <1>6, <1>7, <1>8, <1>9 DEF d, q, e

LEMMA RequestsSame ==
  ASSUME RequestsHeld, pc'["send"] = pc["send"],
         UNCHANGED <<conn, toServer, truncated_item, srv, served, submitted, send_mbox,
                     send_item, send_rsp>>
  PROVE  RequestsHeld'
  BY DEF RequestsHeld, Coming, Requested, Sending, Doing

\* A client that is gone leaves the items on their way.
LEMMA RequestsAlone ==
  ASSUME RequestsHeld, UNCHANGED <<truncated_item>>,
         \/ conn' \in {"reset", "down"}
         \/ conn' # "open" /\ conn \notin {"reset", "down"} /\ UNCHANGED toServer
  PROVE  RequestsHeld'
  BY DEF RequestsHeld, Coming, Requested

LEMMA RequestsGone ==
  ASSUME RequestsHeld, ClientGone, UNCHANGED <<truncated_item>>, conn = "open"
  PROVE  RequestsHeld'
  BY RequestsAlone DEF ClientGone

\* send_to_remote sends its item whole.
LEMMA RequestsSent ==
  ASSUME WholeSends, TypeOK, Ends, RequestsHeld, SendData, UNCHANGED serverVars
  PROVE  RequestsHeld'
<1>1. /\ conn = "open" /\ Writable /\ pc["send"] = "loop"
      /\ toServer' = toServer \o SubSeq(send_item, 1, Accepted(send_item))
      /\ SendResult(Accepted(send_item))
      /\ UNCHANGED <<conn, send_mbox, submitted>>
  BY DEF SendData
<1>2. PICK w, s \in Seq(Requests) : Coming(w) /\ Requested(w, s)
  BY <1>1 DEF RequestsHeld
<1>3. Sending(s) /\ submitted = ((Doing \o w) \o s) \o send_mbox
  BY <1>1, <1>2 DEF Requested
<1>4. /\ toServer \in Text /\ truncated_item \in Text /\ send_item \in Text
      /\ Len(toServer) <= ToServerRoom /\ Doing \in Seq(Text) /\ send_mbox \in Seq(Text)
  BY RequestTypes DEF TypeOK, LinkTypeOK
<1>5. w \in Seq(Text) /\ s \in Seq(Text)
  BY RequestsText
<1>6. Doing' = Doing /\ UNCHANGED truncated_item
  BY DEF serverVars, Doing
<1>7. CASE s = <<>> /\ send_item = <<>>
  <2>1. Accepted(send_item) = 0
    <3>1. Len(send_item) = 0
      BY <1>7
    <3> QED  BY <1>4, <3>1, AcceptedIs
  <2>2. SubSeq(send_item, 1, 0) = <<>>
    BY <1>4, SubSeqEmpty, <1>7
  <2>3. toServer' = toServer /\ send_item' = <<>>
    BY <1>1, <1>4, <1>7, <2>1, <2>2, ConcatEmptySeq DEF SendResult, Text
  <2>4. Coming(w)' /\ Requested(w, s)'
    BY <1>1, <1>2, <1>3, <1>6, <1>7, <2>3 DEF Coming, Requested, Sending
  <2> QED  BY <2>4 DEF RequestsHeld
<1>8. ASSUME NEW x \in Requests, s = <<x>>, send_item = Framed(x)
      PROVE  RequestsHeld'
  <2>0. x \in Text /\ <<x>> \in Seq(Text) /\ <<x>> \in Seq(Requests) /\ <<>> \in Seq(Requests)
    BY RequestsText
  <2>1. Len(send_item) = 3
    <3>1. Len(x) = 2
      BY CommandIs, EndTestIs DEF Requests, Commanded
    <3>2. x \in Seq(Token) /\ Delim \in Token
      BY <2>0, TokensAre
    <3>3. Len(Append(x, Delim)) = Len(x) + 1
      BY ONLY <3>2, AppendProperties
    <3> QED  BY <1>8, <3>1, <3>3 DEF Framed
  <2>2. Accepted(send_item) = 3
    <3>1. 3 <= ToServerRoom - Len(toServer)
      <4>1. Len(toServer) \in Nat
        BY <1>4, LenProperties DEF Text
      <4> QED  BY <1>1, <4>1, TcpLinkAssumption DEF Writable, WholeSends
    <3> QED  BY <1>4, <2>1, <3>1, AcceptedIs
  <2>3. SubSeq(send_item, 1, 3) = send_item
    BY <1>4, <2>1, SubSeqFull DEF Text
  <2>4. From(send_item, 3) = <<>>
    BY <1>4, <2>1, SubSeqEmpty DEF From, Text
  <2>5. toServer' = toServer \o Framed(x) /\ send_item' = <<>>
    <3>1. SendResult(3)
      BY <1>1, <2>2
    <3>2. send_item' = <<>>
      BY <2>4, <3>1 DEF SendResult
    <3> QED  BY <1>1, <1>8, <2>2, <2>3, <3>2
  <2>6. Coming(w \o <<x>>)'
    <3>1. EndsLast(w \o <<x>>)
      BY <1>3, <1>8, RequestParts
    <3>2. FramedAll(w \o <<x>>) = FramedAll(w) \o Framed(x)
      BY <1>5, <2>0, FramedAllConcat, FramedAllFew
    <3>3. (truncated_item \o toServer) \o Framed(x) = truncated_item \o (toServer \o Framed(x))
      <4>1. truncated_item \in Seq(Token) /\ toServer \in Seq(Token) /\ Framed(x) \in Seq(Token)
        BY <1>4, <1>8 DEF Text
      <4> QED  BY ONLY <4>1, Assoc, SMTT(30)
    <3> QED  BY <1>2, <1>6, <2>5, <3>1, <3>2, <3>3 DEF Coming
  <2>7. Requested(w \o <<x>>, <<>>)'
    <3>1. submitted = ((Doing \o (w \o <<x>>)) \o <<>>) \o send_mbox
      <4> DEFINE d == Doing
                 q == send_mbox
                 e == w \o <<x>>
      <4>1. d \in Seq(Text) /\ q \in Seq(Text) /\ submitted = ((d \o w) \o <<x>>) \o q
        BY <1>3, <1>4, <1>8
      <4> HIDE DEF d, q
      <4>2. submitted = (d \o e) \o q /\ e \in Seq(Text)
        <5>1. ((d \o w) \o <<x>>) \o q = (d \o (w \o <<x>>)) \o q /\ w \o <<x>> \in Seq(Text)
          <6> DEFINE one == <<x>>
          <6>1. d \in Seq(Text) /\ w \in Seq(Text) /\ one \in Seq(Text) /\ q \in Seq(Text)
            BY <1>5, <2>0, <4>1
          <6> HIDE DEF one
          <6>2. ((d \o w) \o one) \o q = (d \o (w \o one)) \o q /\ w \o one \in Seq(Text)
            <7>1. w \o one \in Seq(Text) /\ (d \o w) \o one = d \o (w \o one)
              BY ONLY <6>1, Assoc, SMTT(30)
            <7> QED  BY ONLY <7>1
          <6> QED  BY <6>2 DEF one
        <5> QED  BY <4>1, <5>1
      <4> HIDE DEF e
      <4>3. (d \o e) \o <<>> = d \o e
        BY <4>1, <4>2, ConcatProperties, ConcatEmptySeq
      <4> QED  BY <4>2, <4>3 DEF d, q, e
    <3> QED  BY <1>1, <1>6, <2>5, <3>1 DEF Requested, Sending
  <2>8. w \o <<x>> \in Seq(Requests)
    BY <2>0, ConcatProperties
  <2> QED  BY <2>0, <2>6, <2>7, <2>8 DEF RequestsHeld
<1> QED  BY <1>3, <1>7, <1>8 DEF Sending

\* The next item leaves the mailbox.
LEMMA RequestsTaken ==
  ASSUME TypeOK, Ends, RequestsHeld, SendGet, UNCHANGED serverVars
  PROVE  RequestsHeld'
<1>1. CASE conn # "open"
  BY <1>1 DEF SendGet, RequestsHeld, Coming, Requested, linkVars, serverVars
<1>2. CASE conn = "open"
  <2>1. /\ pc["send"] = "get" /\ send_mbox # <<>> /\ send_mbox' = Tail(send_mbox)
        /\ send_item' = Framed(Head(send_mbox)) /\ send_rsp' = 0
        /\ pc' = [pc EXCEPT !["send"] = "loop"]
        /\ UNCHANGED <<submitted, conn, toServer, truncated_item, srv, served>>
    BY DEF SendGet, linkVars, serverVars
  <2>2. PICK w, s \in Seq(Requests) : Coming(w) /\ Requested(w, s)
    BY <1>2 DEF RequestsHeld
  <2>3. s = <<>> /\ submitted = ((Doing \o w) \o <<>>) \o send_mbox
    BY <1>2, <2>1, <2>2 DEF Requested, Sending
  <2>4. send_mbox \in Seq(Requests) /\ Doing \in Seq(Requests)
    BY <2>3, RequestParts
  <2>5. PICK x \in Requests, q \in Seq(Requests) :
          send_mbox = <<x>> \o q /\ x = Head(send_mbox) /\ q = Tail(send_mbox)
    <3>1. /\ Head(send_mbox) \in Requests /\ Tail(send_mbox) \in Seq(Requests)
          /\ send_mbox = <<Head(send_mbox)>> \o Tail(send_mbox)
      BY <2>1, <2>4, HeadTailProperties
    <3> QED  BY <3>1
  <2>6. submitted = ((Doing \o w) \o <<x>>) \o q
    <3> DEFINE a == Doing \o w
    <3>1. a \in Seq(Requests) /\ <<x>> \in Seq(Requests) /\ submitted = (a \o <<>>) \o (<<x>> \o q)
      BY <2>3, <2>4, <2>5, ConcatProperties
    <3> HIDE DEF a
    <3>2. a \o <<>> = a
      BY <3>1, ConcatEmptySeq
    <3>3. (a \o <<x>>) \o q = a \o (<<x>> \o q)
      <4>1. a \in Seq(Requests) /\ <<x>> \in Seq(Requests) /\ q \in Seq(Requests)
        BY <3>1
      <4> QED  BY ONLY <4>1, Assoc, SMTT(30)
    <3> QED  BY <3>1, <3>2, <3>3 DEF a
  <2>7. pc'["send"] = "loop"
    BY <2>1 DEF TypeOK, ClientTypeOK, Threads
  <2>8. Requested(w, <<x>>)'
    <3>1. Doing' = Doing
      BY <2>1 DEF Doing
    <3>2. Sending(<<x>>)'
      BY <2>1, <2>5, <2>7 DEF Sending
    <3>3. submitted' = ((Doing' \o w) \o <<x>>) \o send_mbox'
      BY <2>1, <2>5, <2>6, <3>1
    <3> QED  BY <3>2, <3>3 DEF Requested
  <2>9. Coming(w)' /\ <<x>> \in Seq(Requests)
    BY <2>1, <2>2, <2>5 DEF Coming
  <2> QED  BY <2>8, <2>9 DEF RequestsHeld
<1> QED  BY <1>1, <1>2

\* A send that would block keeps the item as it is.
LEMMA RequestsKept ==
  ASSUME TypeOK, RequestsHeld, NEW rsp \in {0, send_rsp}, SendWouldBlock(rsp),
         UNCHANGED serverVars
  PROVE  RequestsHeld'
<1>1. /\ conn = "open" /\ pc["send"] = "loop" /\ SendResult(rsp)
      /\ UNCHANGED <<conn, toServer, send_mbox, submitted, truncated_item, srv, served>>
  BY DEF SendWouldBlock, linkVars, serverVars
<1>2. PICK w, s \in Seq(Requests) : Coming(w) /\ Requested(w, s)
  BY <1>1 DEF RequestsHeld
<1>3. Sending(s) /\ submitted = ((Doing \o w) \o s) \o send_mbox
  BY <1>1, <1>2 DEF Requested
<1>4. Sending(s)'
  <2>1. CASE s = <<>> /\ send_item = <<>>
    <3>1. rsp \in Nat
      BY RequestTypes
    <3>2. rsp > 0 => From(<<>>, rsp) = <<>>
      BY <3>1, SubSeqEmpty DEF From
    <3>3. send_item' = <<>>
      BY <1>1, <2>1, <3>2 DEF SendResult
    <3> QED  BY <2>1, <3>3 DEF Sending
  <2>2. ASSUME NEW x \in Requests, s = <<x>>, send_item = Framed(x), send_rsp = 0
        PROVE  Sending(s)'
    <3>1. rsp = 0
      BY <2>2
    <3>2. send_rsp' = 0 /\ send_item' = send_item
      BY <1>1, <3>1 DEF SendResult
    <3>3. Len(send_item) # 0
      <4>1. x \in Seq(Token) /\ Delim \in Token
        BY RequestsText, TokensAre
      <4>2. Len(Append(x, Delim)) = Len(x) + 1 /\ Len(x) \in Nat
        BY ONLY <4>1, AppendProperties, LenProperties
      <4> QED  BY <2>2, <4>2 DEF Framed
    <3>4. pc' = pc
      BY <1>1, <3>1, <3>2, <3>3 DEF SendResult
    <3> QED  BY <1>1, <2>2, <3>2, <3>4 DEF Sending
  <2> QED  BY <1>3, <2>1, <2>2 DEF Sending
<1>5. Doing' = Doing
  BY <1>1 DEF Doing
<1>6. Coming(w)' /\ Requested(w, s)'
  BY <1>1, <1>2, <1>3, <1>4, <1>5 DEF Coming, Requested
<1> QED  BY <1>6 DEF RequestsHeld

\* The testbench submits all its items at once.
LEMMA RequestsSubmitted ==
  ASSUME TypeOK, Ends, RequestsHeld, NEW cmds \in Commands, TbSend(cmds),
         UNCHANGED serverVars, TypeOK'
  PROVE  RequestsHeld'
<1>1. CASE conn # "open"
  BY <1>1 DEF TbSend, RequestsHeld, Coming, Requested, linkVars, serverVars
<1>2. CASE conn = "open"
  <2>1. /\ submitted = <<>> /\ send_mbox' = send_mbox \o submitted'
        /\ UNCHANGED <<conn, toServer, truncated_item, srv, served, send_item, send_rsp>>
        /\ pc' = [pc EXCEPT !["tb_send"] = "done"]
    BY DEF TbSend, Ends, Runs, linkVars, serverVars
  <2>2. PICK w, s \in Seq(Requests) : Coming(w) /\ Requested(w, s)
    BY <1>2 DEF RequestsHeld
  <2>3. Sending(s) /\ submitted = ((Doing \o w) \o s) \o send_mbox
    BY <1>2, <2>2 DEF Requested
  <2>4. pc'["send"] = pc["send"] /\ Doing' = Doing
    BY <2>1 DEF TypeOK, ClientTypeOK, Threads, Doing
  <2>5. submitted' = ((Doing \o w) \o s) \o send_mbox'
    <3> DEFINE a == (Doing \o w) \o s
               new == submitted'
    <3>1. a \in Seq(Text) /\ send_mbox \in Seq(Text) /\ submitted' \in Seq(Text)
      <4>1. Doing \in Seq(Text) /\ send_mbox \in Seq(Text) /\ w \in Seq(Text) /\ s \in Seq(Text)
        BY RequestTypes, RequestsText
      <4>2. submitted' \in Seq(Text)
        BY DEF TypeOK, ClientTypeOK
      <4> DEFINE d == Doing
      <4> HIDE DEF d
      <4>3. (d \o w) \o s \in Seq(Text)
        <5>1. d \in Seq(Text) /\ w \in Seq(Text) /\ s \in Seq(Text)
          BY <4>1 DEF d
        <5> QED  BY ONLY <5>1, Assoc, SMTT(30)
      <4> QED  BY <4>1, <4>2, <4>3 DEF d
    <3>2. a \o send_mbox = <<>>
      BY <2>1, <2>3
    <3> HIDE DEF a
    <3>3. (a \o send_mbox) \o new = a \o (send_mbox \o new)
      <4>1. a \in Seq(Text) /\ send_mbox \in Seq(Text) /\ new \in Seq(Text)
        BY <3>1
      <4> HIDE DEF new
      <4> QED  BY ONLY <4>1, Assoc, SMTT(30)
    <3>4. <<>> \o new = new
      BY <3>1, ConcatEmptySeq
    <3> QED  BY <2>1, <3>2, <3>3, <3>4 DEF a
  <2>6. Coming(w)'
    BY <2>1, <2>2 DEF Coming
  <2>7. Requested(w, s)'
    <3>1. Sending(s)'
      BY <2>1, <2>3, <2>4 DEF Sending
    <3> QED  BY <2>4, <2>5, <3>1 DEF Requested
  <2> QED  BY <2>6, <2>7 DEF RequestsHeld
<1> QED  BY <1>1, <1>2

\* A fresh connection carries nothing.
LEMMA RequestsBegin ==
  ASSUME TypeOK, Control, Unconnected, Configure, UNCHANGED serverVars
  PROVE  RequestsHeld'
<1>1. /\ srv = "accept" /\ toServer = <<>> /\ truncated_item = <<>>
      /\ submitted = send_mbox /\ send_item = <<>>
      /\ UNCHANGED <<submitted, send_mbox, send_item, toServer, truncated_item, srv>>
  BY DEF Configure, Control, Unconnected, Runs, serverVars
<1>2. send_mbox \in Seq(Text)
  BY RequestTypes
<1>3. Doing' = <<>> /\ <<>> \in Seq(Requests) /\ EndsLast(<<>>)
  BY <1>1 DEF Doing, EndsLast
<1>4. Coming(<<>>)'
  BY <1>1, <1>3, CleanEmpty, FramedAllFew DEF Coming
<1>5. ((<<>> \o <<>>) \o <<>>) \o send_mbox = send_mbox
  BY <1>2, ConcatEmptySeq
<1>6. Requested(<<>>, <<>>)'
  BY <1>1, <1>3, <1>5 DEF Requested, Sending
<1> QED  BY <1>3, <1>4, <1>6 DEF RequestsHeld

\* recv_callback moves the receiving threads only.
LEMMA CallbackPlaces ==
  ASSUME TypeOK, NEW msg, RecvCallback(msg)
  PROVE  \A t \in {"client", "tb_send", "send"} : pc'[t] = pc[t]
<1> DEFINE p1 == [pc EXCEPT !["recv"] = "poll"]
           p2 == [p1 EXCEPT !["drain"] = IF p1["drain"] = "wait" THEN "woken" ELSE p1["drain"]]
<1>1. DOMAIN pc = Threads
  BY DEF TypeOK, ClientTypeOK
<1>2. pc' = p1 \/ pc' = p2
  BY DEF RecvCallback
<1>3. DOMAIN p1 = Threads /\ \A t \in {"client", "tb_send", "send"} : p1[t] = pc[t]
  BY <1>1 DEF Threads
<1> HIDE DEF p1
<1>4. \A t \in {"client", "tb_send", "send"} : p2[t] = pc[t]
  BY <1>3
<1> QED  BY <1>2, <1>3, <1>4

LEMMA ClientRequests ==
  ASSUME WholeSends, IInv, ClientStep, TypeOK'
  PROVE  RequestsHeld'
<1>0. /\ TypeOK /\ Control /\ Unconnected /\ Ends /\ RequestsHeld
      /\ UNCHANGED serverVars /\ DOMAIN pc = Threads
      /\ \A t \in {"client", "tb_send", "recv", "drain"} : t # "send"
  BY DEF IInv, TypeOK, ClientTypeOK, ClientStep
<1>1. CASE Configure
  BY <1>0, <1>1, RequestsBegin
<1>2. ASSUME NEW cmds \in Commands, TbSend(cmds) PROVE RequestsHeld'
  BY <1>0, <1>2, RequestsSubmitted
<1>3. CASE TbRecv
  <2>1. \/ UNCHANGED linkVars
        \/ ClientGone
    BY <1>3 DEF TbRecv
  <2>2. conn = "open"
    BY <1>0, <1>3 DEF TbRecv, Runs, Control, Unconnected
  <2>3. CASE UNCHANGED linkVars
    BY <1>0, <1>3, <2>3, RequestsSame DEF TbRecv, linkVars, serverVars
  <2>4. CASE ClientGone
    BY <1>0, <2>2, <2>4, RequestsGone DEF serverVars
  <2> QED  BY <2>1, <2>3, <2>4
<1>4. CASE SendStart
  <2>1. /\ pc["send"] = "start" /\ pc' = [pc EXCEPT !["send"] = "get"]
        /\ UNCHANGED <<conn, toServer, truncated_item, srv, served, submitted, send_mbox, send_item>>
    BY <1>0, <1>4 DEF SendStart, MayStart, linkVars, serverVars
  <2>2. ASSUME NEW s, Sending(s) PROVE Sending(s)'
    BY <2>1, <2>2 DEF Sending
  <2>3. Doing' = Doing
    BY <2>1 DEF Doing
  <2>4. ASSUME NEW w, NEW s, Coming(w), Requested(w, s) PROVE Coming(w)' /\ Requested(w, s)'
    BY <2>1, <2>2, <2>3, <2>4 DEF Coming, Requested
  <2> QED  BY <1>0, <2>1, <2>4 DEF RequestsHeld
<1>5. CASE SendGet
  BY <1>0, <1>5, RequestsTaken
<1>6. CASE SendData
  BY <1>0, <1>6, RequestsSent
<1>7. ASSUME NEW rsp \in {0, send_rsp}, SendWouldBlock(rsp) PROVE RequestsHeld'
  BY <1>0, <1>7, RequestsKept
<1>8. ASSUME NEW n \in 1..Min({BufferSize, Len(toClient)}), RecvData(n) PROVE RequestsHeld'
  <2>1. pc'["send"] = pc["send"]
    <3>1. RecvCallback(SubSeq(toClient, 1, n))
      BY <1>8 DEF RecvData
    <3> QED  BY <1>0, <3>1, CallbackPlaces
  <2> QED  BY <1>0, <1>8, <2>1, RequestsSame DEF RecvData, serverVars
<1>9. CASE RecvTimeout
  BY <1>0, <1>9, RequestsSame DEF RecvTimeout, linkVars, serverVars
<1>10. CASE RecvEndOfFile
  BY <1>0, <1>10, RequestsSame DEF RecvEndOfFile, linkVars, serverVars
<1>11. CASE DrainStart
  BY <1>0, <1>11, RequestsSame DEF DrainStart, linkVars, serverVars
<1>12. CASE Drain
  BY <1>0, <1>12, RequestsSame DEF Drain, linkVars, serverVars
<1>13. CASE Killed
  <2>1. CASE conn = "open"
    BY <1>0, <1>13, <2>1, RequestsGone DEF Killed, serverVars
  <2>2. CASE conn # "open"
    BY <1>0, <1>13, <2>2, RequestsSame DEF Killed, ClientGone, linkVars, serverVars
  <2> QED  BY <2>1, <2>2
<1>14. CASE Restart
  <2>1. conn # "open" /\ UNCHANGED <<conn, toServer, truncated_item>>
    BY <1>0, <1>14 DEF Restart, Control, linkVars, serverVars
  <2> QED  BY <1>0, <2>1, RequestsAlone
<1> QED
  BY <1>1, <1>2, <1>3, <1>4, <1>5, <1>6, <1>7, <1>8, <1>9, <1>10, <1>11, <1>12, <1>13, <1>14
     DEF ClientStep, ClientNext, TbStep, SendStep, RecvStep, DrainStep

\* What the server makes of the bytes it receives: m is what was truncated
\* and what has come, r what has not.
LEMMA ReceivedParts ==
  ASSUME TypeOK, NEW w \in Seq(Requests), Coming(w),
         NEW n \in 1..Min({BufferSize, Len(toServer)}), ServerReceive(n)
  PROVE  \E m \in Text, v \in Seq(Requests) :
           /\ Split(m) \in Seq(Requests) /\ EndsLast(Split(m)) /\ EndsLast(v)
           /\ w = Split(m) \o v
           /\ truncated_item' = Truncated(m) /\ truncated_item' \in Clean
           /\ truncated_item' \o toServer' = FramedAll(v)
           /\ served' = served \o Split(m)
           /\ outbox' = FramedAll(Replies(Split(m)))
           /\ srv' = IF outbox' # <<>> THEN "reply" ELSE "recv"
<1> DEFINE c == SubSeq(toServer, 1, n)
           m == truncated_item \o c
           r == From(toServer, n)
<1>1. toServer \in Text /\ truncated_item \in Text
  BY RequestTypes
<1>2. c \in Text /\ r \in Text /\ toServer = c \o r
  <2>1. n \in 0..Len(toServer)
    BY <1>1, ReceivedIs
  <2> QED  BY <1>1, <2>1, CutAt DEF Text
<1>3. /\ toServer' = r /\ truncated_item' = Truncated(m)
      /\ outbox' = FramedAll(Replies(WorkedOn(Split(m))))
      /\ served' = served \o WorkedOn(Split(m))
      /\ srv' = CASE WorkedOn(Split(m)) # <<>> /\ IsMalformed(Last(WorkedOn(Split(m)))) -> "value_error"
                  [] outbox' # <<>> -> "reply"
                  [] OTHER -> "recv"
  BY DEF ServerReceive
<1> HIDE DEF c, r
<1>4. m \in Text /\ m \o r = truncated_item \o toServer
  <2>1. truncated_item \in Seq(Token) /\ c \in Seq(Token) /\ r \in Seq(Token)
    BY <1>1, <1>2 DEF Text
  <2>2. (truncated_item \o c) \o r = truncated_item \o (c \o r) /\ truncated_item \o c \in Seq(Token)
    BY ONLY <2>1, Assoc, SMTT(30)
  <2> QED  BY <1>2, <2>2 DEF Text
<1> HIDE DEF m
<1>5. Begins(m, r, w)
  BY <1>4 DEF Coming, Begins
<1>6. w \in Seq(Clean)
  BY RequestsClean, SeqMonotonic
<1>7. PICK v \in Seq(Clean) : w = Split(m) \o v /\ Begins(Truncated(m), r, v)
  BY <1>2, <1>4, <1>5, <1>6, Cutting
<1>8. Split(m) \in Seq(Clean) /\ Truncated(m) \in Clean
  BY <1>4, CutType
<1>9. Split(m) \in Seq(Requests) /\ v \in Seq(Requests) /\ EndsLast(Split(m)) /\ EndsLast(v)
  <2> DEFINE u == Split(m)
  <2>1. u \in Seq(Clean) /\ w = u \o v /\ EndsLast(w)
    BY <1>7, <1>8 DEF Coming
  <2> HIDE DEF u
  <2>2. u \in Seq(Requests) /\ v \in Seq(Requests) /\ EndsLast(u) /\ EndsLast(v)
    BY <2>1, ConcatParts, EndsLastParts
  <2> QED  BY <2>2 DEF u
<1>10. WorkedOn(Split(m)) = Split(m) /\ (Split(m) # <<>> => ~IsMalformed(Last(Split(m))))
  BY <1>9, WorkedOnAll
<1>11. srv' = IF outbox' # <<>> THEN "reply" ELSE "recv"
  BY <1>3, <1>10
<1> QED  BY <1>3, <1>4, <1>7, <1>8, <1>9, <1>10, <1>11 DEF Begins

LEMMA RequestsReceived ==
  ASSUME IInv, NEW n \in 1..Min({BufferSize, Len(toServer)}), ServerReceive(n),
         UNCHANGED clientVars
  PROVE  RequestsHeld'
<1>1. /\ srv = "recv" /\ conn \in {"open", "closed"} /\ UNCHANGED conn
      /\ UNCHANGED <<submitted, send_mbox, send_item, send_rsp, pc>>
      /\ TypeOK /\ RequestsHeld
  BY DEF ServerReceive, clientVars, IInv
<1>2. PICK w, s \in Seq(Requests) : Coming(w) /\ Requested(w, s)
  BY <1>1 DEF RequestsHeld
<1>3. PICK m \in Text, v \in Seq(Requests) :
           /\ Split(m) \in Seq(Requests) /\ EndsLast(v)
           /\ w = Split(m) \o v
           /\ truncated_item' \in Clean
           /\ truncated_item' \o toServer' = FramedAll(v)
           /\ served' = served \o Split(m)
           /\ srv' = IF outbox' # <<>> THEN "reply" ELSE "recv"
  BY <1>1, <1>2, ReceivedParts
<1>4. Doing = served /\ Doing' = served'
  BY <1>1, <1>3 DEF Doing
<1>5. Coming(v)'
  BY <1>3 DEF Coming
<1>6. ASSUME conn = "open"
      PROVE  Requested(v, s)'
  <2>1. Sending(s) /\ submitted = ((served \o w) \o s) \o send_mbox
    BY <1>2, <1>4, <1>6 DEF Requested
  <2>2. Sending(s)'
    BY <1>1, <2>1 DEF Sending
  <2>3. served \o w = (served \o Split(m)) \o v
    <3> DEFINE u == Split(m)
    <3>1. served \in Seq(Text) /\ u \in Seq(Text) /\ v \in Seq(Text)
      BY <1>1, <1>3, RequestTypes, RequestsText
    <3> HIDE DEF u
    <3>2. (served \o u) \o v = served \o (u \o v)
      BY ONLY <3>1, ConcatAssociative, SMTT(30)
    <3> QED  BY <1>3, <3>2 DEF u
  <2> QED  BY <1>1, <1>3, <1>4, <2>1, <2>2, <2>3 DEF Requested
<1>7. Requested(v, s)'
  BY <1>1, <1>6 DEF Requested
<1> QED  BY <1>3, <1>5, <1>7 DEF RequestsHeld

LEMMA ServerRequests ==
  ASSUME IInv, ServerStep
  PROVE  RequestsHeld'
<1>0. /\ TypeOK /\ Control /\ Ends /\ RequestsHeld /\ UNCHANGED clientVars
      /\ UNCHANGED <<submitted, send_mbox, send_item, send_rsp, pc>>
  BY DEF IInv, ServerStep, clientVars
<1>1. CASE ServerAccept
  <2>1. /\ srv = "accept" /\ srv' = "recv" /\ served' = <<>>
        /\ UNCHANGED <<truncated_item, conn, toServer>>
    BY <1>1 DEF ServerAccept, linkVars
  <2>2. Doing' = Doing
    BY <2>1 DEF Doing
  <2>3. \A s : Sending(s)' = Sending(s)
    BY <1>0 DEF Sending
  <2> QED  BY <1>0, <2>1, <2>2, <2>3 DEF RequestsHeld, Coming, Requested
<1>2. ASSUME NEW n \in 1..Min({BufferSize, Len(toServer)}), ServerReceive(n) PROVE RequestsHeld'
  BY <1>0, <1>2, RequestsReceived
<1>3. CASE ServerSend
  <2>1. srv # "accept" /\ srv' # "accept" /\ UNCHANGED <<truncated_item, served, conn, toServer>>
    BY <1>3 DEF ServerSend
  <2>2. Doing' = Doing
    BY <2>1 DEF Doing
  <2>3. \A s : Sending(s)' = Sending(s)
    BY <1>0 DEF Sending
  <2> QED  BY <1>0, <2>1, <2>2, <2>3 DEF RequestsHeld, Coming, Requested
<1>4. ASSUME NEW n \in 1..Len(outbox), ServerSendToClosed(n) PROVE RequestsHeld'
  BY <1>0, <1>4, RequestsAlone DEF ServerSendToClosed
<1>5. CASE ServerClose
  BY <1>0, <1>5, RequestsAlone DEF ServerClose
<1>6. CASE ServerFails
  BY <1>0, <1>6, RequestsAlone DEF ServerFails
<1> QED  BY <1>1, <1>2, <1>3, <1>4, <1>5, <1>6 DEF ServerStep, ServerNext

-----------------------------------------------------------------------------
(* The replies.                                                            *)

LEMMA ReplyTypes ==
  ASSUME TypeOK
  PROVE  /\ toClient \in Text /\ outbox \in Text /\ msg_saved \in Text
         /\ recv_mbox \in Seq(Text) /\ received \in Seq(Text) /\ msgs_q \in Seq(Text)
         /\ Unframed(msgs_q) \in Seq(Clean) /\ Unframed(msgs_q) \in Seq(Text)
<1>1. /\ toClient \in Text /\ outbox \in Text /\ msg_saved \in Text
      /\ recv_mbox \in Seq(Text) /\ received \in Seq(Text) /\ msgs_q \in Seq(Text)
  BY DEF TypeOK, LinkTypeOK, ClientTypeOK, ServerTypeOK
<1>2. Unframed(msgs_q) \in Seq(Clean)
  BY <1>1, UnframedAppend
<1> QED  BY <1>1, <1>2, CleanSeqText

LEMMA RepliesSame ==
  ASSUME RepliesHeld,
         \/ conn' # "open"
         \/ UNCHANGED <<conn, toClient, outbox, srv, served, msg_saved, msgs_q, recv_mbox,
                        received>>
  PROVE  RepliesHeld'
  BY DEF RepliesHeld, Replying, Doing

\* recv_callback: a message that ends with the delimiter holds whole frames.
LEMMA RepliesCalled ==
  ASSUME TypeOK, RepliesHeld, NEW n \in 1..Min({BufferSize, Len(toClient)}), RecvData(n),
         UNCHANGED serverVars
  PROVE  RepliesHeld'
<1> DEFINE c == SubSeq(toClient, 1, n)
           r == From(toClient, n)
<1>1. /\ conn = "open" /\ RecvCallback(c) /\ toClient' = r
      /\ UNCHANGED <<conn, outbox, srv, served, recv_mbox, received>>
  BY DEF RecvData, serverVars
<1>2. PICK z \in Seq(Clean) : Replying(z)
  BY <1>1 DEF RepliesHeld
<1>3. /\ toClient \in Text /\ outbox \in Text /\ msg_saved \in Text
      /\ recv_mbox \in Seq(Text) /\ received \in Seq(Text) /\ msgs_q \in Seq(Text)
      /\ Unframed(msgs_q) \in Seq(Clean) /\ Unframed(msgs_q) \in Seq(Text)
  BY ReplyTypes
<1>4. c \in Text /\ r \in Text /\ toClient = c \o r /\ Len(c) = n /\ n \in 1..Len(toClient)
  <2>1. n \in 0..Len(toClient) /\ n \in 1..Len(toClient)
    BY <1>3, ReceivedIs
  <2> QED  BY <1>3, <2>1, CutAt DEF Text
<1> HIDE DEF c, r
<1> DEFINE m == msg_saved \o c
           rest == r \o outbox
<1>5. m \in Text /\ rest \in Text /\ m \o rest = FramedAll(z) /\ (m \o r) \o outbox = FramedAll(z)
  <2> DEFINE a == msg_saved
             b == outbox
  <2>1. a \in Seq(Token) /\ c \in Seq(Token) /\ r \in Seq(Token) /\ b \in Seq(Token)
    BY <1>3, <1>4 DEF Text
  <2>2. (a \o (c \o r)) \o b = FramedAll(z)
    BY <1>2, <1>4 DEF Replying
  <2> HIDE DEF a, b
  <2>3. /\ ((a \o c) \o r) \o b = (a \o (c \o r)) \o b
        /\ ((a \o c) \o r) \o b = (a \o c) \o (r \o b)
        /\ a \o c \in Seq(Token) /\ r \o b \in Seq(Token)
    <3>1. (a \o c) \o r = a \o (c \o r)
      BY ONLY <2>1, ConcatAssociative, SMTT(30)
    <3>2. a \o c \in Seq(Token) /\ r \o b \in Seq(Token)
      BY ONLY <2>1, ConcatProperties
    <3> DEFINE e == a \o c
    <3>3. e \in Seq(Token)
      BY <3>2
    <3> HIDE DEF e
    <3>4. (e \o r) \o b = e \o (r \o b)
      BY ONLY <2>1, <3>3, ConcatAssociative, SMTT(30)
    <3> QED  BY <3>1, <3>2, <3>4 DEF e
  <2> QED  BY <2>2, <2>3 DEF a, b, Text
<1>6. Doing' = Doing
  BY <1>1 DEF Doing
<1>7. CASE Last(c) # Delim
  <2>1. msgs_q' = msgs_q /\ msg_saved' = m
    BY <1>1, <1>7 DEF RecvCallback
  <2> HIDE DEF m, rest
  <2>2. Replying(z)'
    BY <1>1, <1>2, <1>5, <1>6, <2>1 DEF Replying
  <2> QED  BY <2>2 DEF RepliesHeld
<1>8. CASE Last(c) = Delim
  <2>1. msgs_q' = Append(msgs_q, m) /\ msg_saved' = <<>>
    BY <1>1, <1>8 DEF RecvCallback
  <2>2. Truncated(m) = <<>>
    <3>1. c # <<>>
      BY <1>4
    <3>2. PICK b \in Seq(Token), t \in Token : c = Append(b, t)
      BY <1>4, <3>1, SequenceEmptyOrAppend DEF Text
    <3>3. t = Delim
      <4>1. Last(c) = t
        BY <3>2, AppendProperties DEF Last
      <4> QED  BY <1>8, <4>1
    <3>4. msg_saved \o Append(b, t) = Append(msg_saved \o b, t) /\ msg_saved \o b \in Text
      <4> DEFINE a == msg_saved
      <4>1. a \in Seq(Token)
        BY <1>3 DEF Text
      <4> HIDE DEF a
      <4>2. a \o Append(b, t) = Append(a \o b, t) /\ a \o b \in Seq(Token)
        BY ONLY <3>2, <4>1, ConcatAppend, ConcatProperties
      <4> QED  BY <4>2 DEF a, Text
    <3> QED  BY <3>2, <3>3, <3>4, CutAppend
  <2> HIDE DEF m, rest
  <2>3. Begins(m, rest, z)
    BY <1>5 DEF Begins
  <2>4. PICK v \in Seq(Clean) : z = Split(m) \o v /\ Begins(Truncated(m), rest, v)
    BY <1>5, <2>3, Cutting
  <2>5. rest = FramedAll(v)
    BY <1>5, <2>2, <2>4, ConcatEmptySeq DEF Begins, Text
  <2> DEFINE u == Split(m)
             q == Unframed(msgs_q)
  <2>6. u \in Seq(Clean) /\ u \in Seq(Text) /\ v \in Seq(Text) /\ q \in Seq(Text)
    BY <1>3, <1>5, CutType, CleanSeqText
  <2>7. Unframed(msgs_q') = q \o u
    BY <1>3, <1>5, <2>1, UnframedAppend
  <2> HIDE DEF u, q
  <2>8. m = FramedAll(u)
    <3>1. FramedAll(z) = FramedAll(u) \o FramedAll(v) /\ FramedAll(u) \in Text
      BY <2>4, <2>6, FramedAllConcat DEF u
    <3>2. m \o rest = FramedAll(u) \o rest
      BY <1>5, <2>5, <3>1
    <3> DEFINE f == FramedAll(u)
    <3> HIDE DEF f
    <3>3. f \in Seq(Token) /\ m \in Seq(Token) /\ rest \in Seq(Token) /\ m \o rest = f \o rest
      BY <1>5, <3>1, <3>2 DEF f, Text
    <3>4. m = f
      BY ONLY <3>3, CancelRight
    <3> QED  BY <3>4 DEF f
  <2>9. Joined(msgs_q') = FramedAll(Unframed(msgs_q'))
    <3>1. Joined(msgs_q') = Joined(msgs_q) \o m
      BY <1>3, <1>5, <2>1, JoinedAppend DEF Text
    <3>2. FramedAll(q \o u) = FramedAll(q) \o FramedAll(u)
      BY <2>6, FramedAllConcat
    <3> QED  BY <1>2, <2>7, <2>8, <3>1, <3>2 DEF Replying, q
  <2>10. (msg_saved' \o toClient') \o outbox' = FramedAll(v)
    <3>1. <<>> \o r = r
      BY <1>4, ConcatEmptySeq DEF Text
    <3> QED  BY <1>1, <2>1, <2>5, <3>1 DEF rest
  <2>11. Replies(Doing') = ((received' \o recv_mbox') \o Unframed(msgs_q')) \o v
    <3> DEFINE a == received \o recv_mbox
    <3>1. a \in Seq(Text)
      BY <1>3, ConcatProperties
    <3>2. Replies(Doing) = (a \o q) \o (u \o v)
      BY <1>2, <2>4 DEF Replying, u, q
    <3> HIDE DEF a
    <3>3. ((a \o q) \o u) \o v = (a \o (q \o u)) \o v /\ ((a \o q) \o u) \o v = (a \o q) \o (u \o v)
      <4>1. (a \o q) \o u = a \o (q \o u)
        BY ONLY <2>6, <3>1, ConcatAssociative, SMTT(30)
      <4> DEFINE e == a \o q
      <4>2. e \in Seq(Text)
        BY ONLY <2>6, <3>1, ConcatProperties
      <4> HIDE DEF e
      <4>3. (e \o u) \o v = e \o (u \o v)
        BY ONLY <2>6, <4>2, ConcatAssociative, SMTT(30)
      <4> QED  BY <4>1, <4>3 DEF e
    <3> QED  BY <1>1, <1>6, <2>7, <3>2, <3>3 DEF a
  <2>12. Replying(v)'
    BY <2>9, <2>10, <2>11 DEF Replying
  <2> QED  BY <2>12 DEF RepliesHeld
<1> QED  BY <1>7, <1>8

LEMMA RepliesBegin ==
  ASSUME Control, Unconnected, Configure, UNCHANGED serverVars
  PROVE  RepliesHeld'
<1>1. /\ srv' = "accept" /\ outbox' = <<>> /\ toClient' = <<>> /\ msg_saved' = <<>>
      /\ received' = <<>> /\ recv_mbox' = <<>> /\ msgs_q' = <<>>
  BY DEF Configure, Control, Unconnected, Runs, serverVars
<1>2. Doing' = <<>>
  BY <1>1 DEF Doing
<1>3. Replying(<<>>)'
  BY <1>1, <1>2, FramedAllFew, JoinedEmpty, UnframedEmpty, RepliesFew DEF Replying
<1>4. <<>> \in Seq(Clean)
  OBVIOUS
<1> QED  BY <1>3, <1>4 DEF RepliesHeld

\* recv_from_remote hands over what the messages hold.
LEMMA RepliesDrained ==
  ASSUME TypeOK, RepliesHeld, Drain, UNCHANGED serverVars
  PROVE  RepliesHeld'
<1>1. /\ recv_mbox' = recv_mbox \o Unframed(msgs_q) /\ msgs_q' = <<>>
      /\ UNCHANGED <<conn, toClient, outbox, srv, served, msg_saved, received>>
  BY DEF Drain, Unframed, linkVars, serverVars
<1>2. ASSUME NEW z \in Seq(Clean), Replying(z) PROVE Replying(z)'
  <2> DEFINE rc == received
             mb == recv_mbox
             q == Unframed(msgs_q)
  <2>1. rc \in Seq(Text) /\ mb \in Seq(Text) /\ q \in Seq(Text)
    BY ReplyTypes
  <2>2. Replies(Doing) = ((rc \o mb) \o q) \o z
    BY <1>2 DEF Replying
  <2> HIDE DEF rc, mb, q
  <2>3. (rc \o mb) \o q = rc \o (mb \o q)
    BY ONLY <2>1, ConcatAssociative, SMTT(30)
  <2> DEFINE e == rc \o (mb \o q)
  <2>4. e \in Seq(Text)
    <3>1. mb \o q \in Seq(Text)
      BY ONLY <2>1, ConcatProperties
    <3> QED  BY <2>1, <3>1, ConcatProperties
  <2>5. Replies(Doing) = e \o z
    BY <2>2, <2>3
  <2> HIDE DEF e
  <2>6. Replies(Doing) = (e \o <<>>) \o z
    BY <2>4, <2>5, ConcatEmptySeq
  <2>7. Doing' = Doing
    BY <1>1 DEF Doing
  <2>8. received' \o recv_mbox' = e
    BY <1>1 DEF e, rc, mb, q
  <2> QED
    BY <1>1, <1>2, <2>6, <2>7, <2>8, UnframedEmpty, JoinedEmpty, FramedAllFew DEF Replying
<1> QED  BY <1>1, <1>2 DEF RepliesHeld

\* How the testbench takes replies: those it has grow by those it takes.
LEMMA TakenParts ==
  ASSUME TypeOK, TbRecv
  PROVE  \E n \in 0..Len(recv_mbox) :
           /\ received' = received \o SubSeq(recv_mbox, 1, n)
           /\ recv_mbox' = From(recv_mbox, n)
           /\ received' \o recv_mbox' = received \o recv_mbox
           /\ \/ sim' = sim /\ UNCHANGED linkVars
              \/ /\ sim' = "finished" /\ ClientGone
                 /\ n # 0 /\ recv_mbox[n] = EndTest
                 /\ received' # <<>> /\ received'[Len(received')] = EndTest
<1> DEFINE ends == {i \in DOMAIN recv_mbox : recv_mbox[i] = EndTest}
           n == IF ends = {} THEN Len(recv_mbox) ELSE Min(ends)
<1>1. /\ received' = received \o SubSeq(recv_mbox, 1, n)
      /\ recv_mbox' = From(recv_mbox, n)
      /\ ends = {} => sim' = sim /\ UNCHANGED linkVars
      /\ ends # {} => sim' = "finished" /\ ClientGone
  BY DEF TbRecv
<1>2. received \in Seq(Text) /\ recv_mbox \in Seq(Text)
  BY ReplyTypes
<1>3. n \in 0..Len(recv_mbox) /\ (ends # {} => n \in 1..Len(recv_mbox) /\ recv_mbox[n] = EndTest)
  BY <1>2, TakenIs
<1> HIDE DEF n
<1> DEFINE a == SubSeq(recv_mbox, 1, n)
           b == From(recv_mbox, n)
<1>4. a \in Seq(Text) /\ Len(a) = n /\ b \in Seq(Text) /\ recv_mbox = a \o b
  BY <1>2, <1>3, CutAt
<1>5. (ends # {} => a[n] = EndTest)
  <2>1. ASSUME ends # {} PROVE a[n] = EndTest
    <3>1. 1 \in Int /\ n \in Int /\ n \in 1..n - 1 + 1
      BY <1>3, <2>1
    <3>2. \A i \in 1..n : recv_mbox[i] \in Text
      <4>1. \A i \in 1..n : i \in 1..Len(recv_mbox)
        BY <1>2, <1>3, LenProperties
      <4> QED  BY <1>2, <4>1, ElementOfSeq
    <3>3. n \in 1..n /\ a \in Seq(Text) /\ recv_mbox \in Seq(Text)
      BY <1>2, <1>3, <1>4, <2>1
    <3>4. (a \o b)[n] = a[n]
      <4>1. n \in 1..Len(a) + Len(b) /\ n <= Len(a)
        BY <1>3, <1>4, <2>1, LenProperties
      <4> HIDE DEF a, b
      <4> QED  BY <1>4, <4>1, ConcatProperties
    <3> QED  BY <1>3, <1>4, <2>1, <3>4
  <2> QED  BY <2>1
<1> HIDE DEF a, b
<1>6. received' \o recv_mbox' = received \o recv_mbox
  <2>1. (received \o a) \o b = received \o (a \o b)
    BY ONLY <1>2, <1>4, ConcatAssociative, SMTT(30)
  <2> QED  BY <1>1, <1>4, <2>1 DEF a, b
<1>7. ASSUME ends # {} PROVE received' # <<>> /\ received'[Len(received')] = EndTest
  <2> DEFINE d == received \o a
             k == Len(received)
  <2>1. /\ Len(d) = k + n /\ k \in Nat /\ n \in 1..n /\ n \in Nat
        /\ \A i \in 1..k + n : d[i] = IF i <= k THEN received[i] ELSE a[i - k]
    <3>1. n \in Nat /\ n \in 1..n /\ k \in Nat
      BY <1>2, <1>3, <1>7, LenProperties
    <3>2. /\ Len(d) = k + n
          /\ \A i \in 1..k + n : d[i] = IF i <= k THEN received[i] ELSE a[i - k]
      BY ONLY <1>2, <1>4, ConcatAt
    <3> QED  BY <3>1, <3>2
  <2> HIDE DEF d, k
  <2>2. k + n \in 1..k + n /\ ~(k + n <= k) /\ (k + n) - k = n
    BY <2>1
  <2>3. d[k + n] = EndTest
    BY <1>5, <1>7, <2>1, <2>2
  <2>4. Len(d) # 0
    BY <2>1
  <2>5. received' = d
    BY <1>1 DEF d, a
  <2> QED  BY <2>1, <2>3, <2>4, <2>5
<1>8. CASE ends = {}
  <2>1. sim' = sim /\ UNCHANGED linkVars
    BY <1>1, <1>8
  <2> QED  BY <1>1, <1>3, <1>6, <2>1
<1>9. CASE ends # {}
  <2>1. sim' = "finished" /\ ClientGone
    BY <1>1, <1>9
  <2>2. n # 0 /\ recv_mbox[n] = EndTest /\ n \in 0..Len(recv_mbox)
    BY <1>3, <1>9
  <2>3. received' # <<>> /\ received'[Len(received')] = EndTest
    BY <1>7, <1>9
  <2>4. received' = received \o SubSeq(recv_mbox, 1, n) /\ recv_mbox' = From(recv_mbox, n)
    BY <1>1
  <2> HIDE DEF ends
  <2> QED  BY <1>6, <2>1, <2>2, <2>3, <2>4
<1> QED  BY <1>8, <1>9

LEMMA RepliesTaken ==
  ASSUME TypeOK, RepliesHeld, TbRecv, UNCHANGED serverVars
  PROVE  RepliesHeld'
<1>1. /\ received' \o recv_mbox' = received \o recv_mbox
      /\ UNCHANGED linkVars \/ ClientGone
      /\ UNCHANGED <<msgs_q, msg_saved, outbox, srv, served>>
  BY TakenParts DEF TbRecv, serverVars
<1>2. CASE UNCHANGED linkVars
  BY <1>1, <1>2 DEF RepliesHeld, Replying, Doing, linkVars
<1>3. CASE ClientGone
  <2>1. CASE conn = "open"
    BY <1>3, <2>1, RepliesSame DEF ClientGone
  <2>2. CASE conn # "open"
    BY <1>3, <2>2, RepliesSame DEF ClientGone, linkVars
  <2> QED  BY <2>1, <2>2
<1> QED  BY <1>1, <1>2, <1>3

LEMMA ClientReplies ==
  ASSUME IInv, ClientStep
  PROVE  RepliesHeld'
<1>0. TypeOK /\ Control /\ Unconnected /\ RepliesHeld /\ UNCHANGED serverVars
  BY DEF IInv, ClientStep
<1>1. CASE Configure
  BY <1>0, <1>1, RepliesBegin
<1>2. ASSUME NEW cmds \in Commands, TbSend(cmds) PROVE RepliesHeld'
  BY <1>0, <1>2, RepliesSame DEF TbSend, linkVars, serverVars
<1>3. CASE TbRecv
  BY <1>0, <1>3, RepliesTaken
<1>4. CASE SendStart
  BY <1>0, <1>4, RepliesSame DEF SendStart, linkVars, serverVars
<1>5. CASE SendGet
  BY <1>0, <1>5, RepliesSame DEF SendGet, linkVars, serverVars
<1>6. CASE SendData
  BY <1>0, <1>6, RepliesSame DEF SendData, serverVars
<1>7. ASSUME NEW rsp \in {0, send_rsp}, SendWouldBlock(rsp) PROVE RepliesHeld'
  BY <1>0, <1>7, RepliesSame DEF SendWouldBlock, linkVars, serverVars
<1>8. ASSUME NEW n \in 1..Min({BufferSize, Len(toClient)}), RecvData(n) PROVE RepliesHeld'
  BY <1>0, <1>8, RepliesCalled
<1>9. CASE RecvTimeout
  BY <1>0, <1>9, RepliesSame DEF RecvTimeout, linkVars, serverVars
<1>10. CASE RecvEndOfFile
  BY <1>0, <1>10, RepliesSame DEF RecvEndOfFile, linkVars, serverVars
<1>11. CASE DrainStart
  BY <1>0, <1>11, RepliesSame DEF DrainStart, linkVars, serverVars
<1>12. CASE Drain
  BY <1>0, <1>12, RepliesDrained
<1>13. CASE Killed
  <2>1. CASE conn = "open"
    BY <1>0, <1>13, <2>1, RepliesSame DEF Killed, ClientGone
  <2>2. CASE conn # "open"
    BY <1>0, <1>13, <2>2, RepliesSame DEF Killed, ClientGone, linkVars
  <2> QED  BY <2>1, <2>2
<1>14. CASE Restart
  BY <1>0, <1>14, RepliesSame DEF Restart, Control, linkVars
<1> QED
  BY <1>1, <1>2, <1>3, <1>4, <1>5, <1>6, <1>7, <1>8, <1>9, <1>10, <1>11, <1>12, <1>13, <1>14
     DEF ClientStep, ClientNext, TbStep, SendStep, RecvStep, DrainStep

\* What the server answers goes behind what it has answered.
LEMMA RepliesMade ==
  ASSUME IInv, NEW n \in 1..Min({BufferSize, Len(toServer)}), ServerReceive(n),
         UNCHANGED clientVars
  PROVE  RepliesHeld'
<1>1. CASE conn # "open"
  BY <1>1, RepliesSame DEF ServerReceive, IInv
<1>2. CASE conn = "open"
  <2>1. /\ srv = "recv" /\ outbox = <<>> /\ UNCHANGED <<conn, toClient>>
        /\ UNCHANGED <<msg_saved, msgs_q, recv_mbox, received>>
        /\ TypeOK /\ Ends /\ RequestsHeld /\ RepliesHeld
    BY DEF ServerReceive, IInv, Control, clientVars
  <2>2. PICK w, s \in Seq(Requests) : Coming(w) /\ Requested(w, s)
    BY <1>2, <2>1 DEF RequestsHeld
  <2>3. PICK z \in Seq(Clean) : Replying(z)
    BY <1>2, <2>1 DEF RepliesHeld
  <2>4. PICK m \in Text :
           /\ Split(m) \in Seq(Requests)
           /\ served' = served \o Split(m)
           /\ outbox' = FramedAll(Replies(Split(m)))
           /\ srv' = IF outbox' # <<>> THEN "reply" ELSE "recv"
    BY <2>1, <2>2, ReceivedParts
  <2>5. Doing = served /\ Doing' = served'
    BY <2>1, <2>4 DEF Doing
  <2>6. served \in Seq(Requests)
    BY <1>2, <2>1, <2>2, <2>5, RequestParts DEF Requested
  <2> DEFINE u == Split(m)
             r == Replies(u)
             a == (received \o recv_mbox) \o Unframed(msgs_q)
  <2>7. u \in Seq(Requests) /\ served' = served \o u /\ outbox' = FramedAll(r)
    BY <2>4
  <2> HIDE DEF u
  <2>8. r \in Seq(Answers) /\ Replies(served') = Replies(served) \o r
    BY <2>6, <2>7, RepliesConcat
  <2>9. r \in Seq(Clean)
    BY <2>8, AnswersClean, SeqMonotonic
  <2>10. a \in Seq(Text) /\ r \in Seq(Text) /\ z \in Seq(Text)
    <3>1. received \in Seq(Text) /\ recv_mbox \in Seq(Text) /\ Unframed(msgs_q) \in Seq(Text)
      BY <2>1, ReplyTypes
    <3>2. received \o recv_mbox \in Seq(Text)
      BY <3>1, ConcatProperties
    <3> QED  BY <2>9, <3>1, <3>2, CleanSeqText, ConcatProperties
  <2>11. Replies(served) = a \o z
    BY <2>3, <2>5 DEF Replying
  <2> HIDE DEF r, a
  <2>12. z \o r \in Seq(Clean)
    BY <2>9, ConcatProperties
  <2>13. (a \o z) \o r = a \o (z \o r)
    BY ONLY <2>10, ConcatAssociative, SMTT(30)
  <2>14. (msg_saved \o toClient) \o outbox' = FramedAll(z \o r)
    <3>1. FramedAll(z \o r) = FramedAll(z) \o FramedAll(r)
      BY <2>10, FramedAllConcat
    <3>2. msg_saved \o toClient = FramedAll(z)
      <4>1. msg_saved \in Seq(Token) /\ toClient \in Seq(Token)
        BY <2>1, ReplyTypes DEF Text
      <4>2. msg_saved \o toClient \in Seq(Token)
        BY ONLY <4>1, ConcatProperties
      <4> DEFINE e == msg_saved \o toClient
      <4>3. e \in Seq(Token) /\ e \o <<>> = FramedAll(z)
        BY <2>1, <2>3, <4>2 DEF Replying
      <4> HIDE DEF e
      <4> QED  BY <4>3, ConcatEmptySeq DEF e
    <3> QED  BY <2>7, <3>1, <3>2
  <2>15. Replies(Doing') = a \o (z \o r)
    BY <2>5, <2>8, <2>11, <2>13
  <2>16. Replying(z \o r)'
    <3>1. r = r' /\ z \o r = (z \o r)'
      BY <2>4 DEF r, u
    <3> QED  BY <2>1, <2>3, <2>14, <2>15, <3>1 DEF Replying, a
  <2> QED  BY <2>12, <2>16 DEF RepliesHeld
<1> QED  BY <1>1, <1>2

LEMMA RepliesSent ==
  ASSUME TypeOK, RepliesHeld, ServerSend, UNCHANGED clientVars
  PROVE  RepliesHeld'
<1> DEFINE n == Min({Len(outbox), ToClientRoom - Len(toClient)})
           a == SubSeq(outbox, 1, n)
           b == From(outbox, n)
<1>1. /\ toClient' = toClient \o a /\ outbox' = b
      /\ srv # "accept" /\ srv' # "accept"
      /\ UNCHANGED <<served, conn, msg_saved, msgs_q, recv_mbox, received>>
  BY DEF ServerSend, clientVars
<1>2. n \in 0..Len(outbox)
  BY SentIs DEF TypeOK, LinkTypeOK, ServerTypeOK
<1>3. msg_saved \in Seq(Token) /\ toClient \in Seq(Token) /\ outbox \in Seq(Token)
  BY ReplyTypes DEF Text
<1> HIDE DEF n
<1>4. a \in Seq(Token) /\ b \in Seq(Token) /\ outbox = a \o b
  BY <1>2, <1>3, CutAt
<1> HIDE DEF a, b
<1>5. (msg_saved \o toClient') \o outbox' = (msg_saved \o toClient) \o outbox
  <2> DEFINE s == msg_saved
             c == toClient
  <2>1. s \in Seq(Token) /\ c \in Seq(Token)
    BY <1>3
  <2> HIDE DEF s, c
  <2>2. (s \o c) \o a = s \o (c \o a)
    BY ONLY <1>4, <2>1, ConcatAssociative, SMTT(30)
  <2> DEFINE e == s \o c
  <2>3. e \in Seq(Token)
    BY ONLY <2>1, ConcatProperties
  <2> HIDE DEF e
  <2>4. (e \o a) \o b = e \o (a \o b)
    BY ONLY <1>4, <2>3, ConcatAssociative, SMTT(30)
  <2> QED  BY <1>1, <1>4, <2>2, <2>4 DEF e, s, c
<1>6. Doing' = Doing
  BY <1>1 DEF Doing
<1>7. \A z : Replying(z) => Replying(z)'
  BY <1>1, <1>5, <1>6 DEF Replying
<1> QED  BY <1>1, <1>7 DEF RepliesHeld

LEMMA ServerReplies ==
  ASSUME IInv, ServerStep
  PROVE  RepliesHeld'
<1>0. /\ TypeOK /\ Control /\ RepliesHeld /\ UNCHANGED clientVars
      /\ UNCHANGED <<msg_saved, msgs_q, recv_mbox, received>>
  BY DEF IInv, ServerStep, clientVars
<1>1. CASE ServerAccept
  <2>1. Doing' = Doing /\ UNCHANGED <<conn, toClient, outbox>>
    BY <1>1 DEF ServerAccept, Doing, linkVars
  <2>2. \A z : Replying(z) => Replying(z)'
    BY <1>0, <2>1 DEF Replying
  <2> QED  BY <1>0, <2>1, <2>2 DEF RepliesHeld
<1>2. ASSUME NEW n \in 1..Min({BufferSize, Len(toServer)}), ServerReceive(n) PROVE RepliesHeld'
  BY <1>0, <1>2, RepliesMade
<1>3. CASE ServerSend
  BY <1>0, <1>3, RepliesSent
<1>4. ASSUME NEW n \in 1..Len(outbox), ServerSendToClosed(n) PROVE RepliesHeld'
  BY <1>0, <1>4, RepliesSame DEF ServerSendToClosed
<1>5. CASE ServerClose
  BY <1>0, <1>5, RepliesSame DEF ServerClose
<1>6. CASE ServerFails
  BY <1>0, <1>6, RepliesSame DEF ServerFails
<1> QED  BY <1>1, <1>2, <1>3, <1>4, <1>5, <1>6 DEF ServerStep, ServerNext

-----------------------------------------------------------------------------
(* What is due to the testbench.                                           *)

LEMMA DueParts ==
  ASSUME IInv, conn = "open"
  PROVE  \E rest \in Seq(Text) : Replies(submitted) = (received \o recv_mbox) \o rest
<1>0. TypeOK /\ Ends /\ RequestsHeld /\ RepliesHeld
  BY DEF IInv
<1>1. PICK w, s \in Seq(Requests) : Requested(w, s)
  BY <1>0 DEF RequestsHeld
<1>2. PICK z \in Seq(Clean) : Replying(z)
  BY <1>0 DEF RepliesHeld
<1> DEFINE d == Doing
           e == (w \o s) \o send_mbox
           a == received \o recv_mbox
           u == Unframed(msgs_q)
           r == Replies(e)
<1>3. d \in Seq(Requests) /\ e \in Seq(Requests) /\ submitted = d \o e
  <2>1. /\ Doing \in Seq(Requests) /\ send_mbox \in Seq(Requests) /\ w \o s \in Seq(Requests)
        /\ submitted = Doing \o ((w \o s) \o send_mbox)
    BY <1>0, <1>1, RequestParts DEF Requested
  <2> QED  BY <2>1, ConcatProperties
<1>4. a \in Seq(Text) /\ u \in Seq(Text)
  BY <1>0, ReplyTypes, ConcatProperties
<1>5. Replies(d) = (a \o u) \o z
  BY <1>2 DEF Replying
<1> HIDE DEF d, e, a, u
<1>6. Replies(submitted) = Replies(d) \o r /\ r \in Seq(Answers)
  BY <1>3, RepliesConcat
<1> HIDE DEF r
<1>7. r \in Seq(Text) /\ z \in Seq(Text)
  BY <1>6, DivisorsAreText, SeqMonotonic, CleanSeqText
<1>8. (a \o u) \o z = a \o (u \o z)
  BY ONLY <1>4, <1>7, ConcatAssociative, SMTT(30)
<1> DEFINE v == u \o z
<1>9. v \in Seq(Text)
  BY ONLY <1>4, <1>7, ConcatProperties
<1> HIDE DEF v
<1>10. (a \o v) \o r = a \o (v \o r) /\ v \o r \in Seq(Text)
  <2>1. (a \o v) \o r = a \o (v \o r)
    <3>1. a \in Seq(Text) /\ v \in Seq(Text) /\ r \in Seq(Text)
      BY <1>4, <1>7, <1>9
    <3> QED  BY ONLY <3>1, ConcatAssociative, SMTT(30)
  <2>2. v \o r \in Seq(Text)
    BY ONLY <1>7, <1>9, ConcatProperties
  <2> QED  BY <2>1, <2>2
<1> QED  BY <1>5, <1>6, <1>8, <1>10 DEF v, a

\* What the testbench takes is what was due next, and "end_test" was the last.
LEMMA TakenIsDue ==
  ASSUME IInv, TbRecv
  PROVE  /\ conn = "open" /\ submitted # <<>>
         /\ \E rest \in Seq(Text) : Replies(submitted) = received' \o rest
         /\ sim' # sim => sim' = "finished" /\ received' = Replies(submitted)
<1>0. TypeOK /\ Control /\ Unconnected /\ Ends
  BY DEF IInv
<1>1. conn = "open" /\ recv_mbox # <<>> /\ sim = "running"
  BY <1>0 DEF TbRecv, Runs, Control, Unconnected
<1>2. PICK rest \in Seq(Text) : Replies(submitted) = (received \o recv_mbox) \o rest
  BY <1>1, DueParts
<1>3. PICK n \in 0..Len(recv_mbox) :
           /\ received' = received \o SubSeq(recv_mbox, 1, n)
           /\ recv_mbox' = From(recv_mbox, n)
           /\ received' \o recv_mbox' = received \o recv_mbox
           /\ \/ sim' = sim
              \/ /\ sim' = "finished"
                 /\ received' # <<>> /\ received'[Len(received')] = EndTest
  BY <1>0, TakenParts
<1>4. received \in Seq(Text) /\ recv_mbox \in Seq(Text)
  BY <1>0, ReplyTypes
<1>5. received' \in Seq(Text) /\ recv_mbox' \in Seq(Text)
  <2>1. SubSeq(recv_mbox, 1, n) \in Seq(Text) /\ From(recv_mbox, n) \in Seq(Text)
    BY <1>4, CutAt
  <2> QED  BY <1>3, <1>4, <2>1, ConcatProperties
<1> DEFINE a == received'
           b == recv_mbox'
           more == b \o rest
<1>6. Replies(submitted) = a \o more /\ more \in Seq(Text) /\ a \in Seq(Text)
  <2>1. a \in Seq(Text) /\ b \in Seq(Text)
    BY <1>5
  <2>2. Replies(submitted) = (a \o b) \o rest
    BY <1>2, <1>3
  <2> HIDE DEF a, b
  <2>3. (a \o b) \o rest = a \o (b \o rest) /\ b \o rest \in Seq(Text)
    <3>1. rest \in Seq(Text)
      OBVIOUS
    <3> QED  BY ONLY <2>1, <3>1, Assoc, SMTT(30)
  <2> QED  BY <2>1, <2>2, <2>3
<1> HIDE DEF more
<1>7. submitted # <<>>
  <2>1. ASSUME submitted = <<>> PROVE FALSE
    <3>1. (received \o recv_mbox) \o rest = <<>>
      BY <1>2, <2>1, RepliesFew
    <3>2. received \o recv_mbox \in Seq(Text)
      BY <1>4, ConcatProperties
    <3>3. /\ Len(received \o recv_mbox) = Len(received) + Len(recv_mbox)
          /\ Len((received \o recv_mbox) \o rest) = Len(received \o recv_mbox) + Len(rest)
      BY <1>4, <3>2, ConcatProperties
    <3>4. Len(received) \in Nat /\ Len(recv_mbox) \in Nat /\ Len(rest) \in Nat
      BY <1>4, LenProperties
    <3>5. Len(recv_mbox) = 0
      BY <3>1, <3>3, <3>4
    <3> QED  BY <1>1, <1>4, <3>5, EmptySeq
  <2> QED  BY <2>1
<1>8. ASSUME sim' # sim PROVE sim' = "finished" /\ received' = Replies(submitted)
  <2>1. a # <<>> /\ a[Len(a)] = EndTest /\ sim' = "finished"
    BY <1>3, <1>8
  <2>2. EndsLast(a \o more)
    BY <1>0, <1>6, SubmittedIs
  <2> HIDE DEF a
  <2>3. more = <<>>
    BY <1>6, <2>1, <2>2, EndsLastParts
  <2>4. a \o <<>> = a
    BY <1>6, ConcatEmptySeq
  <2> QED  BY <1>6, <2>1, <2>3, <2>4 DEF a
<1> QED  BY <1>1, <1>6, <1>7, <1>8

-----------------------------------------------------------------------------
(* The states that go together.                                            *)

LEMMA ControlSame ==
  ASSUME Control, pc'["client"] = pc["client"],
         UNCHANGED <<conn, toServer, toClient, sim, srv, truncated_item, outbox>>
  PROVE  Control'
  BY DEF Control

LEMMA ControlGone ==
  ASSUME Control, sim = "running", sim' # "running", ClientGone, UNCHANGED serverVars
  PROVE  Control'
<1>1. CASE conn = "open"
  <2>1. CASE toClient = <<>>
    BY <1>1, <2>1 DEF Control, ClientGone, serverVars
  <2>2. CASE toClient # <<>>
    BY <1>1, <2>2 DEF Control, ClientGone, serverVars
  <2> QED  BY <2>1, <2>2
<1>2. CASE conn # "open"
  BY <1>2 DEF Control, ClientGone, linkVars, serverVars
<1> QED  BY <1>1, <1>2

\* A thread that has been forked runs in a simulator that has connected.
LEMMA ForkedRuns ==
  ASSUME Unconnected, pc["client"] = "configure", sim = "running"
  PROVE  /\ ~SendStart /\ ~SendGet /\ ~SendData /\ \A rsp : ~SendWouldBlock(rsp)
         /\ \A n : ~RecvData(n)
         /\ ~RecvTimeout /\ ~RecvEndOfFile /\ ~DrainStart /\ ~Drain /\ ~TbRecv
<1>1. pc["send"] = "new" /\ pc["recv"] = "new" /\ pc["drain"] = "new" /\ recv_mbox = <<>>
  BY DEF Unconnected
<1>2. ~MayStart("send") /\ ~MayStart("recv") /\ ~MayStart("drain")
  BY <1>1 DEF MayStart
<1>3. ~RecvPolls
  BY <1>1, <1>2 DEF RecvPolls
<1> QED
  BY <1>1, <1>2, <1>3 DEF SendStart, SendGet, SendData, SendWouldBlock, RecvData, RecvTimeout,
     RecvEndOfFile, DrainStart, Drain, TbRecv

\* What the forked threads and the testbench leave alone.
LEMMA ThreadsKeep ==
  ASSUME TypeOK,
         \/ SendStep \/ RecvStep \/ DrainStep
  PROVE  /\ UNCHANGED <<conn, sim, submitted, received>>
         /\ pc'["client"] = pc["client"] /\ pc'["tb_send"] = pc["tb_send"]
         /\ sim = "running"
<1>0. /\ DOMAIN pc = Threads
      /\ \A t \in {"send", "recv", "drain"} : \A v :
           /\ [pc EXCEPT ![t] = v]["client"] = pc["client"]
           /\ [pc EXCEPT ![t] = v]["tb_send"] = pc["tb_send"]
  BY DEF TypeOK, ClientTypeOK, Threads
<1>1. CASE SendStep
  <2>1. ASSUME NEW rsp, SendResult(rsp)
        PROVE  pc'["client"] = pc["client"] /\ pc'["tb_send"] = pc["tb_send"]
    BY <1>0, <2>1 DEF SendResult
  <2>2. CASE SendStart \/ SendGet
    BY <1>0, <2>2 DEF SendStart, SendGet, Runs, linkVars
  <2>3. CASE SendData
    BY <1>0, <2>1, <2>3 DEF SendData, Runs
  <2>4. ASSUME NEW rsp \in {0, send_rsp}, SendWouldBlock(rsp)
        PROVE  /\ UNCHANGED <<conn, sim, submitted, received>>
               /\ pc'["client"] = pc["client"] /\ pc'["tb_send"] = pc["tb_send"]
               /\ sim = "running"
    BY <2>1, <2>4 DEF SendWouldBlock, Runs, linkVars
  <2> QED  BY <1>1, <2>2, <2>3, <2>4 DEF SendStep
<1>2. CASE RecvStep
  <2>1. ASSUME NEW n, RecvData(n)
        PROVE  /\ UNCHANGED <<conn, sim, submitted, received>>
               /\ pc'["client"] = pc["client"] /\ pc'["tb_send"] = pc["tb_send"]
               /\ sim = "running"
    <3>1. RecvCallback(SubSeq(toClient, 1, n))
      BY <2>1 DEF RecvData
    <3>2. pc'["client"] = pc["client"] /\ pc'["tb_send"] = pc["tb_send"]
      BY <3>1, CallbackPlaces
    <3> QED  BY <2>1, <3>2 DEF RecvData, RecvPolls, Runs
  <2>2. CASE RecvTimeout \/ RecvEndOfFile
    BY <1>0, <2>2 DEF RecvTimeout, RecvEndOfFile, RecvPolls, Runs, linkVars
  <2> QED  BY <1>2, <2>1, <2>2 DEF RecvStep
<1>3. CASE DrainStep
  BY <1>0, <1>3 DEF DrainStep, DrainStart, Drain, Runs, linkVars
<1> QED  BY <1>1, <1>2, <1>3

LEMMA ClientControl ==
  ASSUME IInv, ClientStep
  PROVE  Control' /\ Unconnected' /\ Ends'
<1>0. /\ TypeOK /\ Control /\ Unconnected /\ Ends /\ UNCHANGED serverVars
      /\ UNCHANGED <<srv, truncated_item, outbox>> /\ DOMAIN pc = Threads
  BY DEF IInv, TypeOK, ClientTypeOK, ClientStep, serverVars
<1>1. CASE Configure
  <2>1. pc'["client"] = "forked" /\ pc'["tb_send"] = pc["tb_send"]
    BY <1>0, <1>1 DEF Configure, Threads
  <2>2. Control'
    BY <1>0, <1>1, <2>1 DEF Configure, Control, Runs
  <2>3. Unconnected'
    BY <2>1 DEF Unconnected
  <2>4. Ends'
    BY <1>0, <1>1, <2>1 DEF Configure, Ends, Submittable
  <2> QED  BY <2>2, <2>3, <2>4
<1>2. ASSUME NEW cmds \in Commands, TbSend(cmds) PROVE Control' /\ Unconnected' /\ Ends'
  <2>1. /\ submitted = <<>> /\ sim = "running"
        /\ submitted' = Append([v \in 1..ItemCount |-> Command(cmds[v], v)], EndTest)
        /\ send_mbox' = send_mbox \o submitted'
        /\ pc' = [pc EXCEPT !["tb_send"] = "done"]
        /\ UNCHANGED <<conn, toServer, toClient, sim, recv_mbox, send_item, msgs_q, msg_saved,
                       received>>
    BY <1>0, <1>2 DEF TbSend, Ends, Runs, linkVars
  <2>2. /\ pc'["client"] = pc["client"] /\ pc'["send"] = pc["send"] /\ pc'["recv"] = pc["recv"]
        /\ pc'["drain"] = pc["drain"] /\ pc'["tb_send"] = "done"
    BY <1>0, <2>1 DEF Threads
  <2>3. Control'
    BY <1>0, <2>1, <2>2, ControlSame
  <2>4. submitted' \in Submittable
    BY <2>1 DEF Submittable
  <2>5. Ends'
    BY <2>1, <2>2, <2>4 DEF Ends, Submittable
  <2>6. pc["client"] = "configure" => send_mbox' = submitted'
    <3>1. <<>> \o submitted' = submitted'
      <4>1. submitted' \in Seq(Requests)
        BY <2>4, SubmittableIs
      <4> QED  BY <4>1, ConcatEmptySeq
    <3> QED  BY <1>0, <2>1, <3>1 DEF Unconnected
  <2>7. Unconnected'
    BY <1>0, <2>1, <2>2, <2>6 DEF Unconnected
  <2> QED  BY <2>3, <2>5, <2>7
<1>3. CASE TbRecv
  <2>1. /\ conn = "open" /\ submitted # <<>> /\ sim = "running"
        /\ sim' # sim => sim' = "finished" /\ received' = Replies(submitted)
        /\ UNCHANGED <<pc, submitted>>
    BY <1>3, TakenIsDue DEF TbRecv, Runs
  <2>2. pc["client"] = "forked"
    BY <1>0, <2>1 DEF Control
  <2>3. Unconnected'
    BY <2>1, <2>2 DEF Unconnected
  <2>4. Ends'
    BY <1>0, <2>1 DEF Ends, Submittable
  <2>5. \/ sim' = sim /\ UNCHANGED linkVars
        \/ sim' = "finished" /\ ClientGone
    BY <1>3 DEF TbRecv
  <2>6. Control'
    BY <1>0, <2>1, <2>5, ControlSame, ControlGone DEF linkVars
  <2> QED  BY <2>3, <2>4, <2>6
<1>4. CASE SendStep \/ RecvStep \/ DrainStep
  <2>1. /\ UNCHANGED <<conn, sim, submitted, received>>
        /\ pc'["client"] = pc["client"] /\ pc'["tb_send"] = pc["tb_send"]
        /\ sim = "running"
    BY <1>0, <1>4, ThreadsKeep
  <2>2. pc["client"] # "configure"
    BY <1>0, <1>4, <2>1, ForkedRuns DEF SendStep, RecvStep, DrainStep
  <2>3. Unconnected'
    BY <2>1, <2>2 DEF Unconnected
  <2>4. Ends'
    BY <1>0, <2>1 DEF Ends, Submittable
  <2>5. conn = "open"
    BY <1>0, <2>1, <2>2 DEF Control
  <2>6. srv = "accept" => toClient' = <<>>
    <3>1. ASSUME srv = "accept", NEW n \in 1..Min({BufferSize, Len(toClient)}) PROVE FALSE
      <4>1. toClient = <<>> /\ toClient \in Text
        BY <1>0, <3>1, ReplyTypes DEF Control
      <4>2. n \in 1..Len(toClient)
        BY <4>1, ReceivedIs
      <4> QED  BY <4>1, <4>2
    <3>2. srv = "accept" => UNCHANGED toClient
      BY <1>4, <3>1 DEF SendStep, RecvStep, DrainStep, SendStart, SendGet, SendData,
         SendWouldBlock, RecvTimeout, RecvEndOfFile, DrainStart, Drain, linkVars
    <3> QED  BY <1>0, <3>2 DEF Control
  <2>7. Control'
    BY <1>0, <2>1, <2>5, <2>6 DEF Control
  <2> QED  BY <2>3, <2>4, <2>7
<1>5. CASE Killed
  <2>1. sim = "running" /\ sim' = "killed" /\ ClientGone /\ UNCHANGED <<pc, submitted, received>>
    BY <1>5 DEF Killed
  <2>2. Control'
    BY <1>0, <2>1, ControlGone
  <2>3. Unconnected' /\ Ends'
    BY <1>0, <2>1 DEF Unconnected, Ends, Submittable
  <2> QED  BY <2>2, <2>3
<1>6. CASE Restart
  <2>1. /\ sim # "running" /\ sim' = "running" /\ pc' = Fresh.pc
        /\ send_mbox' = <<>> /\ recv_mbox' = <<>> /\ send_item' = <<>>
        /\ msgs_q' = <<>> /\ msg_saved' = <<>>
        /\ submitted' = <<>> /\ received' = <<>>
        /\ UNCHANGED <<conn, toServer, toClient>>
    BY <1>6 DEF Restart, linkVars
  <2>2. Unconnected' /\ Ends'
    BY <2>1, FreshPlaces DEF Unconnected, Ends
  <2>3. Control'
    BY <1>0, <2>1, FreshPlaces DEF Control
  <2> QED  BY <2>2, <2>3
<1> QED  BY <1>1, <1>2, <1>3, <1>4, <1>5, <1>6 DEF ClientStep, ClientNext, TbStep

LEMMA ServerControl ==
  ASSUME IInv, ServerStep
  PROVE  Control' /\ Unconnected' /\ Ends'
<1>0. /\ TypeOK /\ Control /\ Unconnected /\ Ends /\ RequestsHeld
      /\ UNCHANGED <<sim, pc, send_mbox, recv_mbox, send_item, msgs_q, msg_saved, submitted,
                     received>>
  BY DEF IInv, ServerStep, clientVars
<1>1. Unconnected' /\ Ends'
  BY <1>0 DEF Unconnected, Ends, Submittable
<1>2. CASE ServerAccept
  BY <1>0, <1>1, <1>2 DEF ServerAccept, Control, linkVars
<1>3. ASSUME NEW n \in 1..Min({BufferSize, Len(toServer)}), ServerReceive(n) PROVE Control'
  <2>1. srv = "recv" /\ conn \in {"open", "closed"} /\ UNCHANGED <<conn, toClient>>
    BY <1>3 DEF ServerReceive
  <2>2. PICK w, s \in Seq(Requests) : Coming(w)
    BY <1>0, <2>1 DEF RequestsHeld
  <2>3. srv' = IF outbox' # <<>> THEN "reply" ELSE "recv"
    BY <1>0, <1>3, <2>2, ReceivedParts
  <2> QED  BY <1>0, <2>1, <2>3 DEF Control
<1>4. CASE ServerSend
  BY <1>0, <1>1, <1>4 DEF ServerSend, Control
<1>5. ASSUME NEW n \in 1..Len(outbox), ServerSendToClosed(n) PROVE Control'
  BY <1>0, <1>5 DEF ServerSendToClosed, Control
<1>6. CASE ServerClose
  <2>1. /\ srv = "recv" /\ conn = "closed" /\ toServer = <<>> /\ srv' = "accept"
        /\ conn' = "listening" /\ UNCHANGED <<truncated_item, outbox, toServer, toClient>>
    BY <1>6 DEF ServerClose
  <2>2. PICK w, s \in Seq(Requests) : Coming(w)
    BY <1>0, <2>1 DEF RequestsHeld
  <2>3. truncated_item = FramedAll(w) /\ truncated_item \in Clean
    <3>1. truncated_item \in Seq(Token) /\ truncated_item \o <<>> = FramedAll(w)
      BY <1>0, <2>1, <2>2, RequestTypes DEF Coming, Text
    <3> QED  BY <2>2, <3>1, ConcatEmptySeq DEF Coming
  <2>4. w \in Seq(Clean)
    BY RequestsClean, SeqMonotonic
  <2>5. w = <<>>
    BY <2>3, <2>4, FramesEmpty
  <2>6. truncated_item = <<>>
    BY <2>3, <2>5, FramedAllFew
  <2> QED  BY <1>0, <1>1, <2>1, <2>6 DEF Control
<1>7. CASE ServerFails
  BY <1>0, <1>1, <1>7 DEF ServerFails, Control
<1> QED  BY <1>1, <1>2, <1>3, <1>4, <1>5, <1>6, <1>7 DEF ServerStep, ServerNext

LEMMA NextIInv ==
  ASSUME WholeSends
  PROVE  IInv /\ [Next]_vars => IInv'
<1> SUFFICES ASSUME IInv, [Next]_vars PROVE IInv'
  OBVIOUS
<1>1. TypeOK'
  BY NextTypes DEF IInv
<1>2. CASE ClientStep
  BY <1>1, <1>2, ClientControl, ClientRequests, ClientReplies DEF IInv
<1>3. CASE ServerStep
  BY <1>1, <1>3, ServerControl, ServerRequests, ServerReplies DEF IInv
<1>4. CASE UNCHANGED vars
  <2>1. /\ UNCHANGED <<conn, toServer, toClient, sim, pc, send_mbox, recv_mbox, send_item, send_rsp,
                       msgs_q, msg_saved, submitted, received>>
        /\ UNCHANGED <<srv, truncated_item, outbox, served>>
    BY <1>4 DEF vars, linkVars, clientVars, serverVars
  <2>2. Control' /\ Unconnected' /\ Ends'
    BY <2>1 DEF IInv, Control, Unconnected, Ends, Submittable
  <2>3. RequestsHeld' /\ RepliesHeld'
    BY <2>1, RequestsSame, RepliesSame DEF IInv
  <2> QED  BY <1>1, <2>2, <2>3 DEF IInv
<1> QED  BY <1>2, <1>3, <1>4 DEF Next, Stay

LEMMA Invariance == ASSUME WholeSends PROVE Spec => []IInv
<1>1. Init => IInv
  BY InitIInv
<1>2. IInv /\ [Next]_vars => IInv'
  BY NextIInv
<1> QED  BY <1>1, <1>2, PTL DEF Spec

-----------------------------------------------------------------------------
(* The theorems.                                                           *)

LEMMA ConservedRequests == IInv => RequestsConserved
<1> SUFFICES ASSUME IInv, conn = "open", srv = "recv"
             PROVE  FramedAll(served) \o truncated_item \o toServer \o send_item
                      \o FramedAll(send_mbox) = FramedAll(submitted)
  BY DEF RequestsConserved
<1>0. TypeOK /\ Ends /\ RequestsHeld
  BY DEF IInv
<1>1. PICK w, s \in Seq(Requests) : Coming(w) /\ Requested(w, s)
  BY <1>0 DEF RequestsHeld
<1>2. /\ Sending(s) /\ submitted = ((served \o w) \o s) \o send_mbox
      /\ truncated_item \o toServer = FramedAll(w)
  BY <1>1 DEF Coming, Requested, Doing
<1>3. send_item = FramedAll(s)
  BY <1>2, RequestsText, FramedAllFew DEF Sending
<1> DEFINE d == served
           q == send_mbox
           t == truncated_item
           r == toServer
<1>4. /\ d \in Seq(Text) /\ q \in Seq(Text) /\ w \in Seq(Text) /\ s \in Seq(Text)
      /\ t \in Seq(Token) /\ r \in Seq(Token)
  BY <1>0, RequestTypes, RequestsText DEF Text
<1>5. t \o r = FramedAll(w) /\ submitted = ((d \o w) \o s) \o q
  BY <1>2
<1> HIDE DEF d, q, t, r
<1>6. FramedAll(submitted) = ((FramedAll(d) \o FramedAll(w)) \o FramedAll(s)) \o FramedAll(q)
  <2>1. d \o w \in Seq(Text) /\ FramedAll(d \o w) = FramedAll(d) \o FramedAll(w)
    BY <1>4, FramedAllConcat, ConcatProperties
  <2> DEFINE e == d \o w
  <2>2. e \in Seq(Text) /\ submitted = (e \o s) \o q
    BY <1>5, <2>1
  <2> HIDE DEF e
  <2>3. e \o s \in Seq(Text) /\ FramedAll(e \o s) = FramedAll(e) \o FramedAll(s)
    BY <1>4, <2>2, FramedAllConcat, ConcatProperties
  <2> DEFINE f == e \o s
  <2>4. f \in Seq(Text) /\ submitted = f \o q
    BY <2>2, <2>3
  <2> HIDE DEF f
  <2>5. FramedAll(submitted) = FramedAll(f) \o FramedAll(q)
    BY <1>4, <2>4, FramedAllConcat
  <2> QED  BY <2>1, <2>3, <2>5 DEF e, f
<1>7. (FramedAll(d) \o t) \o r = FramedAll(d) \o FramedAll(w)
  <2> DEFINE a == FramedAll(d)
  <2>1. a \in Seq(Token) /\ t \in Seq(Token) /\ r \in Seq(Token)
    BY <1>4, FramedAllConcat DEF Text
  <2> HIDE DEF a
  <2>2. (a \o t) \o r = a \o (t \o r)
    BY ONLY <2>1, ConcatAssociative, SMTT(30)
  <2> QED  BY <1>5, <2>2 DEF a
<1>8. (((FramedAll(d) \o t) \o r) \o send_item) \o FramedAll(q) = FramedAll(submitted)
  BY <1>3, <1>6, <1>7
<1> QED  BY <1>8 DEF d, q, t, r

\* When a whole item fits whatever poll reports as writable, the connector
\* loses, doubles and reorders nothing on its way to the server, for any number
\* of items, any room in the connection and any size of the receive buffers.
THEOREM RequestsArrive ==
  ASSUME WholeSends
  PROVE  Spec => []RequestsConserved
<1>1. Spec => []IInv
  BY Invariance
<1>2. IInv => RequestsConserved
  BY ConservedRequests
<1> QED  BY <1>1, <1>2, PTL

LEMMA ConservedReplies == IInv => RepliesConserved
<1> SUFFICES ASSUME IInv, conn = "open", srv \in {"recv", "reply"}
             PROVE  FramedAll(received) \o FramedAll(recv_mbox) \o Joined(msgs_q) \o msg_saved
                      \o toClient \o outbox = FramedAll(Replies(served))
  BY DEF RepliesConserved
<1>0. TypeOK /\ RepliesHeld
  BY DEF IInv
<1>1. PICK z \in Seq(Clean) : Replying(z)
  BY <1>0 DEF RepliesHeld
<1> DEFINE rc == received
           mb == recv_mbox
           u == Unframed(msgs_q)
           j == Joined(msgs_q)
           s == msg_saved
           c == toClient
           b == outbox
<1>2. /\ (s \o c) \o b = FramedAll(z) /\ j = FramedAll(u)
      /\ Replies(served) = ((rc \o mb) \o u) \o z
  BY <1>1 DEF Replying, Doing
<1>3. /\ rc \in Seq(Text) /\ mb \in Seq(Text) /\ u \in Seq(Text) /\ z \in Seq(Text)
      /\ s \in Seq(Token) /\ c \in Seq(Token) /\ b \in Seq(Token)
  BY <1>0, ReplyTypes, CleanSeqText DEF Text
<1> HIDE DEF rc, mb, u, j, s, c, b
<1> DEFINE a == (FramedAll(rc) \o FramedAll(mb)) \o j
<1>4. FramedAll(Replies(served)) = a \o FramedAll(z)
  <2>1. rc \o mb \in Seq(Text) /\ FramedAll(rc \o mb) = FramedAll(rc) \o FramedAll(mb)
    BY <1>3, FramedAllConcat, ConcatProperties
  <2> DEFINE e == rc \o mb
  <2>2. e \in Seq(Text) /\ Replies(served) = (e \o u) \o z
    BY <1>2, <2>1
  <2> HIDE DEF e
  <2>3. e \o u \in Seq(Text) /\ FramedAll(e \o u) = FramedAll(e) \o FramedAll(u)
    BY <1>3, <2>2, FramedAllConcat, ConcatProperties
  <2> DEFINE f == e \o u
  <2>4. f \in Seq(Text) /\ Replies(served) = f \o z
    BY <2>2, <2>3
  <2> HIDE DEF f
  <2>5. FramedAll(Replies(served)) = FramedAll(f) \o FramedAll(z)
    BY <1>3, <2>4, FramedAllConcat
  <2> QED  BY <1>2, <2>1, <2>3, <2>5 DEF e, f
<1>5. a \in Seq(Token)
  <2>1. FramedAll(rc) \in Text /\ FramedAll(mb) \in Text /\ j \in Text
    BY <1>2, <1>3, FramedAllConcat
  <2> DEFINE x == FramedAll(rc)
             y == FramedAll(mb)
  <2>2. x \in Seq(Token) /\ y \in Seq(Token) /\ j \in Seq(Token)
    BY <2>1 DEF Text
  <2> HIDE DEF x, y
  <2>3. (x \o y) \o j \in Seq(Token)
    BY ONLY <2>2, Assoc, SMTT(30)
  <2> QED  BY <2>3 DEF x, y
<1> HIDE DEF a
<1>6. ((a \o s) \o c) \o b = a \o FramedAll(z)
  <2>1. (a \o s) \o c = a \o (s \o c)
    <3>1. a \in Seq(Token) /\ s \in Seq(Token) /\ c \in Seq(Token)
      BY <1>3, <1>5
    <3> QED  BY ONLY <3>1, ConcatAssociative, SMTT(30)
  <2> DEFINE e == s \o c
  <2>2. a \in Seq(Token) /\ e \in Seq(Token) /\ b \in Seq(Token)
    BY <1>3, <1>5, ConcatProperties
  <2> HIDE DEF e
  <2>3. (a \o e) \o b = a \o (e \o b)
    BY ONLY <2>2, ConcatAssociative, SMTT(30)
  <2> QED  BY <1>2, <2>1, <2>3 DEF e
<1> QED  BY <1>4, <1>6 DEF a, rc, mb, u, j, s, c, b

\* Under the same condition nothing the server answered is lost, doubled or
\* reordered, wherever the receives of both sides cut the streams.
THEOREM RepliesArrive ==
  ASSUME WholeSends
  PROVE  Spec => []RepliesConserved
<1>1. Spec => []IInv
  BY Invariance
<1>2. IInv => RepliesConserved
  BY ConservedReplies
<1> QED  BY <1>1, <1>2, PTL

\* Every step of the two processes is one of the abstract service or leaves
\* what the testbench sees alone.
LEMMA StepIsServed ==
  ASSUME IInv, IInv', Next
  PROVE  Service!RRNext \/ UNCHANGED Service!rrVars
<1> DEFINE attended == sim # "killed" /\ srv # "dead"
<1>0. TypeOK /\ Control /\ Ends
  BY DEF IInv
<1>1. CASE ClientStep
  <2>0. UNCHANGED srv
    BY <1>1 DEF ClientStep, serverVars
  <2>1. CASE Configure
    BY <2>0, <2>1 DEF Configure, Service!rrVars
  <2>2. ASSUME NEW cmds \in Commands, TbSend(cmds) PROVE Service!Submit
    <3>1. submitted = <<>> /\ UNCHANGED <<received, sim>>
      BY <1>0, <2>2 DEF TbSend, Ends, Runs
    <3>2. submitted' = Append([v \in 1..ItemCount |-> Command(cmds[v], v)], EndTest)
      BY <2>2 DEF TbSend
    <3> QED  BY <2>0, <3>1, <3>2 DEF Service!Submit
  <2>3. CASE TbRecv
    <3>1. /\ submitted # <<>> /\ UNCHANGED submitted
          /\ \E rest \in Seq(Text) : Replies(submitted) = received' \o rest
          /\ sim = "running" /\ sim' \in {"running", "finished"}
      BY <2>3, TakenIsDue DEF TbRecv, Runs
    <3>2. PICK rest \in Seq(Text) : Replies(submitted) = received' \o rest
      BY <3>1
    <3>3. received \in Seq(Text) /\ received' \in Seq(Text)
      BY DEF IInv, TypeOK, ClientTypeOK
    <3> DEFINE k == Len(received')
               all == Replies(submitted)
    <3>4. k \in Len(received)..Len(all) /\ received' = SubSeq(all, 1, k)
      <4>1. Len(received') \in Nat /\ Len(rest) \in Nat /\ Len(received) \in Nat
            /\ Len(all) = Len(received') + Len(rest)
        BY <3>2, <3>3, ConcatProperties, LenProperties
      <4>2. Len(received) <= Len(received')
        <5>1. PICK n \in 0..Len(recv_mbox) : received' = received \o SubSeq(recv_mbox, 1, n)
          BY <1>0, <2>3, TakenParts
        <5>2. SubSeq(recv_mbox, 1, n) \in Seq(Text) /\ Len(SubSeq(recv_mbox, 1, n)) = n
          BY <1>0, ReplyTypes, CutAt
        <5>3. Len(received') = Len(received) + n
          BY <3>3, <5>1, <5>2, ConcatProperties
        <5> QED  BY <4>1, <5>3
      <4>3. received' = SubSeq(all, 1, k)
        <5> DEFINE a == received'
        <5>1. a \in Seq(Text) /\ all = a \o rest
          BY <3>2, <3>3
        <5> HIDE DEF a, all
        <5>2. SubSeq(a \o rest, 1, Len(a)) = SubSeq(a, 1, Len(a))
          <6>1. 1 \in 1..Len(a) + 1 /\ Len(a) \in 1 - 1..Len(a)
            BY <5>1, LenProperties
          <6> QED  BY <5>1, <6>1, SubSeqOfConcat1
        <5>3. SubSeq(a, 1, Len(a)) = a
          BY <5>1, SubSeqFull
        <5> QED  BY <5>1, <5>2, <5>3 DEF a
      <4> QED  BY <4>1, <4>2, <4>3
    <3>5. CASE k = Len(received)
      <4>1. received' = received
        <5>1. PICK n \in 0..Len(recv_mbox) : received' = received \o SubSeq(recv_mbox, 1, n)
          BY <1>0, <2>3, TakenParts
        <5>2. SubSeq(recv_mbox, 1, n) \in Seq(Text) /\ Len(SubSeq(recv_mbox, 1, n)) = n
          BY <1>0, ReplyTypes, CutAt
        <5>3. Len(received') = Len(received) + n
          BY <3>3, <5>1, <5>2, ConcatProperties
        <5>4. n = 0
          BY <3>3, <3>5, <5>3, LenProperties
        <5>5. SubSeq(recv_mbox, 1, n) = <<>>
          BY <5>2, <5>4
        <5> QED  BY <3>3, <5>1, <5>5, ConcatEmptySeq
      <4> QED  BY <2>0, <3>1, <4>1 DEF Service!rrVars
    <3>6. CASE k # Len(received)
      <4>1. k \in (Len(received) + 1)..Len(all)
        BY <3>3, <3>4, <3>6, LenProperties
      <4>2. UNCHANGED attended
        BY <2>0, <3>1
      <4>3. received' = SubSeq(Replies(submitted), 1, k)
        BY <3>4
      <4> HIDE DEF k
      <4>4. Service!Answer
        BY <3>1, <4>1, <4>2, <4>3 DEF Service!Answer
      <4> QED  BY <4>4 DEF Service!RRNext
    <3> QED  BY <3>5, <3>6
  <2>4. CASE SendStep \/ RecvStep \/ DrainStep
    BY <1>0, <2>0, <2>4, ThreadsKeep DEF Service!rrVars
  <2>5. CASE Killed
    <3>1. sim = "running" /\ sim' = "killed" /\ UNCHANGED <<submitted, received>>
      BY <2>5 DEF Killed
    <3>2. CASE srv = "dead"
      BY <2>0, <3>1, <3>2 DEF Service!rrVars
    <3>3. CASE srv # "dead"
      BY <2>0, <3>1, <3>3 DEF Service!Lost, Service!RRNext
    <3> QED  BY <3>2, <3>3
  <2>6. CASE Restart
    <3>1. sim # "running" /\ submitted' = <<>> /\ received' = <<>> /\ sim \in {"running", "finished", "killed"}
      BY <1>0, <2>6 DEF Restart, TypeOK, ClientTypeOK
    <3>2. attended' \in BOOLEAN
      OBVIOUS
    <3>3. ~attended \/ (submitted # <<>> /\ received = Replies(submitted))
      BY <1>0, <3>1 DEF Ends
    <3>4. Service!Again
      BY <3>1, <3>2, <3>3 DEF Service!Again
    <3> QED  BY <3>4 DEF Service!RRNext
  <2> QED
    BY <1>1, <2>1, <2>2, <2>3, <2>4, <2>5, <2>6 DEF ClientStep, ClientNext, TbStep, Service!RRNext
<1>2. CASE ServerStep
  <2>1. UNCHANGED <<submitted, received, sim>>
    BY <1>2 DEF ServerStep, clientVars
  <2>2. CASE ServerFails
    <3>1. srv # "dead" /\ srv' = "dead"
      BY <2>2 DEF ServerFails
    <3>2. CASE sim = "killed"
      BY <2>1, <3>1, <3>2 DEF Service!rrVars
    <3>3. CASE sim # "killed"
      BY <2>1, <3>1, <3>3 DEF Service!Lost, Service!RRNext
    <3> QED  BY <3>2, <3>3
  <2>3. CASE ~ServerFails
    <3>1. srv # "dead" /\ srv' # "dead"
      BY <1>0, <1>2, <2>3 DEF ServerStep, ServerNext, ServerAccept, ServerReceive, ServerSend,
         ServerSendToClosed, ServerClose
    <3> QED  BY <2>1, <3>1 DEF Service!rrVars
  <2> QED  BY <2>2, <2>3
<1>3. CASE Stay
  BY <1>3 DEF Stay, vars, linkVars, clientVars, serverVars, Service!rrVars
<1> QED  BY <1>1, <1>2, <1>3 DEF Next

\* Under the same condition the two processes implement the abstract request
\* and reply service, its liveness apart: what the testbench sees are answers to
\* what it submitted, in order, each once and whole, and a test that ends has
\* them all.
THEOREM ServiceImplemented ==
  ASSUME WholeSends
  PROVE  Spec => Service!RRInit /\ [][Service!RRNext]_(Service!rrVars)
<1>1. Spec => []IInv
  BY Invariance
<1>2. Init => Service!RRInit
  BY DEF Init, ClientInit, ServerInit, Service!RRInit
<1>3. IInv /\ IInv' /\ [Next]_vars => [Service!RRNext]_(Service!rrVars)
  <2>1. ASSUME UNCHANGED vars PROVE UNCHANGED Service!rrVars
    BY <2>1 DEF vars, linkVars, clientVars, serverVars, Service!rrVars
  <2> QED  BY <2>1, StepIsServed
<1> QED  BY <1>1, <1>2, <1>3, PTL DEF Spec
=============================================================================
