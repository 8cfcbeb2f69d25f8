------------------------ MODULE AllowlistTextProofs -------------------------
(***************************************************************************)
(* Proofs about AllowlistText: what was spliced into a description is what *)
(* is extracted from it, and the text around the block stays.              *)
(***************************************************************************)
EXTENDS AllowlistText, SequenceTheorems, WellFoundedInduction, TLAPS

(* A set of indices that is not empty has a last one.                      *)
LEMMA LastExists ==
  ASSUME NEW n \in Nat, NEW S \in SUBSET (1..n), S # {}
  PROVE  \E i \in S : \A j \in S : j <= i
<1> DEFINE T == {k \in Nat : k <= n /\ n - k \in S}
<1> DEFINE R == OpToRel(<, Nat)
<1>1. T \subseteq Nat /\ T # {}
  <2>1. PICK i \in S : TRUE
    OBVIOUS
  <2>2. i \in 1..n
    BY <2>1
  <2>3. n - i \in Nat /\ n - i <= n /\ n - (n - i) = i
    BY <2>2
  <2>4. n - i \in T
    BY <2>1, <2>3
  <2> QED
    BY <2>4
<1>2. PICK k \in T : \A y \in T : <<y, k>> \notin R
  <2> HIDE DEF T, R
  <2>1. IsWellFoundedOn(R, Nat)
    BY NatLessThanWellFounded DEF R
  <2> QED
    BY <1>1, <2>1, WFMin
<1>3. \A y \in T : ~(y < k)
  BY <1>1, <1>2 DEF OpToRel
<1>4. ASSUME NEW j \in S
      PROVE  j <= n - k
  <2>1. j \in 1..n /\ n - j \in T
    OBVIOUS
  <2> QED
    BY <1>3, <2>1
<1> QED
  BY <1>4

(* LastOf finds it (the loops of ExtractBlock and SpliceBlock).            *)
LEMMA LastOfIs ==
  ASSUME NEW n \in Nat, NEW S \in SUBSET (1..n)
  PROVE  /\ LastOf(S) \in 0..n
         /\ S # {} => LastOf(S) \in S /\ \A j \in S : j <= LastOf(S)
         /\ S = {} => LastOf(S) = 0
         /\ \A i \in S : (\A j \in S : j <= i) => LastOf(S) = i
<1>1. CASE S = {}
  BY <1>1 DEF LastOf
<1>2. CASE S # {}
  <2>1. LastOf(S) \in S /\ \A j \in S : j <= LastOf(S)
    BY <1>2, LastExists DEF LastOf
  <2>2. LastOf(S) \in 1..n
    BY <2>1
  <2>3. ASSUME NEW i \in S, \A j \in S : j <= i
        PROVE  LastOf(S) = i
    <3>1. i <= LastOf(S) /\ LastOf(S) <= i /\ i \in 1..n
      BY <2>1, <2>3
    <3> QED
      BY <2>2, <3>1
  <2> QED
    BY <1>2, <2>1, <2>2, <2>3
<1> QED
  BY <1>1, <1>2

-----------------------------------------------------------------------------
(* A text with a block. *)

\* No line is a marker.
Unmarked(lines) == \A i \in 1..Len(lines) : lines[i] # Begin /\ lines[i] # End

(* The markers and the blank line are lines, and three different ones.     *)
LEMMA Markers ==
  Begin \in Line /\ End \in Line /\ Blank \in Line /\ Begin # End /\ Begin # Blank /\ End # Blank
BY DEF Begin, End, Blank, Line

(* Two texts one after the other.                                          *)
LEMMA Joined ==
  ASSUME NEW s \in Seq(Line), NEW t \in Seq(Line)
  PROVE  /\ s \o t \in Seq(Line) /\ Len(s \o t) = Len(s) + Len(t)
         /\ \A i \in 1..Len(s) : (s \o t)[i] = s[i]
         /\ \A i \in 1..Len(t) : (s \o t)[Len(s) + i] = t[i]
<1>1. /\ s \o t \in Seq(Line) /\ Len(s \o t) = Len(s) + Len(t)
      /\ \A i \in 1..Len(s) + Len(t) : (s \o t)[i] = IF i <= Len(s) THEN s[i] ELSE t[i - Len(s)]
  BY ConcatProperties
<1>2. ASSUME NEW i \in 1..Len(t)
      PROVE  (s \o t)[Len(s) + i] = t[i]
  <2>1. Len(s) + i \in 1..Len(s) + Len(t) /\ ~(Len(s) + i <= Len(s)) /\ (Len(s) + i) - Len(s) = i
    OBVIOUS
  <2> QED
    BY <1>1, <2>1
<1>3. ASSUME NEW i \in 1..Len(s)
      PROVE  (s \o t)[i] = s[i]
  <2>1. i \in 1..Len(s) + Len(t) /\ i <= Len(s)
    OBVIOUS
  <2> QED
    BY <1>1, <2>1
<1> QED
  BY <1>1, <1>2, <1>3

(* Where the lines of the block are (buildBlock).                          *)
LEMMA BlockLayout ==
  ASSUME NEW inner \in Seq(Line), NEW block, block = buildBlock(inner)
  PROVE  /\ block \in Seq(Line) /\ Len(block) = Len(inner) + 2
         /\ block[1] = Begin /\ block[Len(inner) + 2] = End
         /\ \A i \in 1..Len(inner) : block[1 + i] = inner[i]
<1> DEFINE opened == <<Begin>> \o inner
<1>1. <<Begin>> \in Seq(Line) /\ Len(<<Begin>>) = 1 /\ <<Begin>>[1] = Begin
  BY Markers
<1>2. <<End>> \in Seq(Line) /\ Len(<<End>>) = 1 /\ <<End>>[1] = End
  BY Markers
<1>3. /\ opened \in Seq(Line) /\ Len(opened) = Len(inner) + 1
      /\ opened[1] = Begin /\ \A i \in 1..Len(inner) : opened[1 + i] = inner[i]
  BY <1>1, Joined
<1>4. block = opened \o <<End>>
  BY DEF buildBlock
<1> HIDE DEF opened
<1>5. /\ block \in Seq(Line) /\ Len(block) = Len(opened) + 1
      /\ \A i \in 1..Len(opened) : block[i] = opened[i]
      /\ block[Len(opened) + 1] = End
  BY <1>2, <1>3, <1>4, Joined
<1>6. ASSUME NEW i \in 1..Len(inner)
      PROVE  block[1 + i] = inner[i]
  <2>1. 1 + i \in 1..Len(opened)
    BY <1>3
  <2> QED
    BY <1>3, <1>5, <2>1
<1> QED
  BY <1>3, <1>5, <1>6

Around(P, inner, Q) == P \o buildBlock(inner) \o Q

(* Where the lines of notes, block and notes are.                          *)
LEMMA Layout ==
  ASSUME NEW P \in Seq(Line), NEW inner \in Seq(Line), NEW Q \in Seq(Line)
  PROVE  LET T == Around(P, inner, Q) IN
         /\ T \in Seq(Line) /\ Len(T) = Len(P) + Len(inner) + 2 + Len(Q)
         /\ \A i \in 1..Len(P) : T[i] = P[i]
         /\ T[Len(P) + 1] = Begin
         /\ \A i \in 1..Len(inner) : T[Len(P) + 1 + i] = inner[i]
         /\ T[Len(P) + Len(inner) + 2] = End
         /\ \A i \in 1..Len(Q) : T[Len(P) + Len(inner) + 2 + i] = Q[i]
<1> DEFINE T == Around(P, inner, Q)
<1>1. PICK block : block = buildBlock(inner)
  OBVIOUS
<1>2. /\ block \in Seq(Line) /\ Len(block) = Len(inner) + 2
      /\ block[1] = Begin /\ block[Len(inner) + 2] = End
      /\ \A i \in 1..Len(inner) : block[1 + i] = inner[i]
  BY <1>1, BlockLayout
<1>3. PICK start : start = P \o block
  OBVIOUS
<1>4. /\ start \in Seq(Line) /\ Len(start) = Len(P) + Len(block)
      /\ \A i \in 1..Len(P) : start[i] = P[i]
      /\ \A i \in 1..Len(block) : start[Len(P) + i] = block[i]
  BY <1>2, <1>3, Joined
<1>5. T = start \o Q
  BY <1>1, <1>3 DEF Around
<1> HIDE DEF T
<1>6. /\ T \in Seq(Line) /\ Len(T) = Len(start) + Len(Q)
      /\ \A i \in 1..Len(start) : T[i] = start[i]
      /\ \A i \in 1..Len(Q) : T[Len(start) + i] = Q[i]
  <2>1. /\ start \o Q \in Seq(Line) /\ Len(start \o Q) = Len(start) + Len(Q)
        /\ \A i \in 1..Len(start) : (start \o Q)[i] = start[i]
        /\ \A i \in 1..Len(Q) : (start \o Q)[Len(start) + i] = Q[i]
    BY <1>4, Joined
  <2> QED
    BY <1>5, <2>1
<1>7. Len(start) = Len(P) + Len(inner) + 2
  BY <1>2, <1>4
<1>8. ASSUME NEW i \in 1..Len(inner) + 2
      PROVE  T[Len(P) + i] = block[i]
  <2>1. i \in 1..Len(block) /\ Len(P) + i \in 1..Len(start)
    BY <1>2, <1>7
  <2> QED
    BY <1>4, <1>6, <2>1
<1>9. T[Len(P) + 1] = Begin /\ T[Len(P) + (Len(inner) + 2)] = End
  <2>1. 1 \in 1..Len(inner) + 2 /\ Len(inner) + 2 \in 1..Len(inner) + 2
    OBVIOUS
  <2> QED
    BY <1>2, <1>8, <2>1
<1>10. ASSUME NEW i \in 1..Len(inner)
       PROVE  T[Len(P) + 1 + i] = inner[i]
  <2>1. 1 + i \in 1..Len(inner) + 2 /\ Len(P) + (1 + i) = Len(P) + 1 + i
    OBVIOUS
  <2> QED
    BY <1>2, <1>8, <2>1
<1>11. ASSUME NEW i \in 1..Len(P)
       PROVE  T[i] = P[i]
  <2>1. i \in 1..Len(start)
    BY <1>7
  <2> QED
    BY <1>4, <1>6, <2>1
<1>12. Len(P) + (Len(inner) + 2) = Len(P) + Len(inner) + 2
  OBVIOUS
<1> QED
  BY <1>6, <1>7, <1>9, <1>10, <1>11, <1>12 DEF T

(* The block is found again, with what was put between the markers, and    *)
(* what is around it (ExtractBlock).                                       *)
LEMMA BlockFound ==
  ASSUME NEW P \in Seq(Line), NEW inner \in Seq(Line), NEW Q \in Seq(Line),
         Unmarked(inner), Unmarked(Q)
  PROVE  LET T == Around(P, inner, Q) IN
         T \in Seq(Line) /\ HasBlock(T) /\ ExtractBlock(T) = inner /\ Before(T) = P /\ After(T) = Q
<1> DEFINE T == Around(P, inner, Q)
<1>b. PICK b \in Nat : b = Len(P) + 1
  OBVIOUS
<1>e. PICK e \in Nat : e = Len(P) + Len(inner) + 2
  OBVIOUS
<1>1. /\ T \in Seq(Line) /\ Len(T) = e + Len(Q)
      /\ \A i \in 1..Len(P) : T[i] = P[i]
      /\ T[b] = Begin /\ T[e] = End
      /\ \A i \in 1..Len(inner) : T[b + i] = inner[i]
      /\ \A i \in 1..Len(Q) : T[e + i] = Q[i]
  <2>1. /\ T \in Seq(Line) /\ Len(T) = Len(P) + Len(inner) + 2 + Len(Q)
        /\ \A i \in 1..Len(P) : T[i] = P[i]
        /\ T[Len(P) + 1] = Begin
        /\ \A i \in 1..Len(inner) : T[Len(P) + 1 + i] = inner[i]
        /\ T[Len(P) + Len(inner) + 2] = End
        /\ \A i \in 1..Len(Q) : T[Len(P) + Len(inner) + 2 + i] = Q[i]
    BY Layout
  <2> QED
    BY <1>b, <1>e, <2>1, Zenon
<1> HIDE DEF T
<1>2. ASSUME NEW i \in 1..Len(T), i > b, i # e
      PROVE  T[i] # Begin /\ T[i] # End
  <2>1. CASE i < e
    <3>1. i - b \in 1..Len(inner) /\ b + (i - b) = i
      BY <1>b, <1>e, <1>2, <2>1
    <3> QED
      BY <1>1, <3>1 DEF Unmarked
  <2>2. CASE i > e
    <3>1. i - e \in 1..Len(Q) /\ e + (i - e) = i
      BY <1>1, <1>2, <2>2
    <3> QED
      BY <1>1, <3>1 DEF Unmarked
  <2> QED
    BY <1>2, <2>1, <2>2
<1>3. Len(T) \in Nat /\ b \in 1..Len(T) /\ e \in 1..Len(T) /\ b < e /\ DOMAIN T = 1..Len(T)
  BY <1>b, <1>e, <1>1
<1>4. BeginAt(T) = b
  <2> DEFINE S == {i \in DOMAIN T : T[i] = Begin}
  <2>1. S \in SUBSET (1..Len(T)) /\ b \in S
    BY <1>1, <1>3
  <2>2. \A j \in S : j <= b
    BY <1>1, <1>2, <1>3, Markers
  <2> HIDE DEF S
  <2>3. LastOf(S) = b
    BY <1>3, <2>1, <2>2, LastOfIs
  <2> QED
    BY <2>3 DEF BeginAt, S
<1>5. EndAt(T) = e
  <2> DEFINE S == {i \in DOMAIN T : T[i] = End}
  <2>1. S \in SUBSET (1..Len(T)) /\ e \in S
    BY <1>1, <1>3
  <2>2. \A j \in S : j <= e
    BY <1>1, <1>2, <1>3
  <2> HIDE DEF S
  <2>3. LastOf(S) = e
    BY <1>3, <2>1, <2>2, LastOfIs
  <2> QED
    BY <2>3 DEF EndAt, S
<1>6. HasBlock(T)
  BY <1>3, <1>4, <1>5 DEF HasBlock
<1>7. SubSeq(T, b + 1, e - 1) = inner
  <2> DEFINE U == SubSeq(T, b + 1, e - 1)
  <2>1. U \in Seq(Line) /\ Len(U) = Len(inner) /\ \A i \in 1..Len(inner) : U[i] = T[b + i]
    BY <1>b, <1>e, <1>1, <1>3, SubSeqProperties
  <2> HIDE DEF U
  <2>2. U = inner
    BY <1>1, <2>1, SeqEqual
  <2> QED
    BY <2>2 DEF U
<1>8. SubSeq(T, 1, b - 1) = P
  <2> DEFINE U == SubSeq(T, 1, b - 1)
  <2>1. U \in Seq(Line) /\ Len(U) = Len(P) /\ \A i \in 1..Len(P) : U[i] = T[i]
    BY <1>b, <1>e, <1>1, <1>3, SubSeqProperties
  <2> HIDE DEF U
  <2>2. U = P
    BY <1>1, <2>1, SeqEqual
  <2> QED
    BY <2>2 DEF U
<1>9. SubSeq(T, e + 1, Len(T)) = Q
  <2> DEFINE U == SubSeq(T, e + 1, Len(T))
  <2>1. U \in Seq(Line) /\ Len(U) = Len(Q) /\ \A i \in 1..Len(Q) : U[i] = T[e + i]
    BY <1>b, <1>e, <1>1, <1>3, SubSeqProperties
  <2> HIDE DEF U
  <2>2. U = Q
    BY <1>1, <2>1, SeqEqual
  <2> QED
    BY <2>2 DEF U
<1>10. ExtractBlock(T) = inner /\ Before(T) = P /\ After(T) = Q
  BY <1>4, <1>5, <1>6, <1>7, <1>8, <1>9 DEF ExtractBlock, Before, After
<1> QED
  BY <1>1, <1>6, <1>10 DEF T

-----------------------------------------------------------------------------
(* Trimming, and what is around the block. *)

Solids(text) == {i \in DOMAIN text : text[i] # Blank}

(* A trimmed text is a start of the text, and ends where it is not blank.  *)
LEMMA TrimmedIs ==
  ASSUME NEW text \in Seq(Line)
  PROVE  /\ LastOf(Solids(text)) \in 0..Len(text)
         /\ TrimRight(text) \in Seq(Line) /\ Len(TrimRight(text)) = LastOf(Solids(text))
         /\ \A i \in 1..Len(TrimRight(text)) : TrimRight(text)[i] = text[i]
         /\ Len(TrimRight(text)) > 0 => text[Len(TrimRight(text))] # Blank
<1>1. Len(text) \in Nat /\ Solids(text) \in SUBSET (1..Len(text))
  BY DEF Solids
<1>2. PICK k : k = LastOf(Solids(text))
  OBVIOUS
<1>3. k \in 0..Len(text) /\ (k > 0 => k \in Solids(text))
  BY <1>1, <1>2, LastOfIs
<1>4. TrimRight(text) = SubSeq(text, 1, k)
  BY <1>2 DEF TrimRight, Solids
<1>5. /\ SubSeq(text, 1, k) \in Seq(Line) /\ Len(SubSeq(text, 1, k)) = k
      /\ \A i \in 1..k : SubSeq(text, 1, k)[i] = text[i]
  BY <1>3, SubSeqProperties
<1>6. k > 0 => text[k] # Blank
  BY <1>3 DEF Solids
<1> QED
  BY <1>2, <1>3, <1>4, <1>5, <1>6

(* After the block there is no marker, and none in what is left of it.     *)
LEMMA AfterUnmarked ==
  ASSUME NEW text \in Seq(Line)
  PROVE  /\ Before(text) \in Seq(Line) /\ After(text) \in Seq(Line)
         /\ TrimRight(After(text)) \in Seq(Line) /\ Unmarked(TrimRight(After(text)))
<1> DEFINE Begins == {i \in DOMAIN text : text[i] = Begin}
<1> DEFINE Ends == {i \in DOMAIN text : text[i] = End}
<1>1. Len(text) \in Nat /\ Begins \in SUBSET (1..Len(text)) /\ Ends \in SUBSET (1..Len(text))
  OBVIOUS
<1> HIDE DEF Begins, Ends
<1>2. BeginAt(text) \in 0..Len(text) /\ \A j \in Begins : j <= BeginAt(text)
  BY <1>1, LastOfIs DEF BeginAt, Begins
<1>3. EndAt(text) \in 0..Len(text) /\ \A j \in Ends : j <= EndAt(text)
  BY <1>1, LastOfIs DEF EndAt, Ends
<1>4. Before(text) \in Seq(Line)
  BY <1>1, <1>2, SubSeqProperties DEF Before, HasBlock
<1>5. After(text) \in Seq(Line) /\ Unmarked(After(text))
  <2>1. CASE HasBlock(text)
    <3>1. PICK e \in 1..Len(text) : e = EndAt(text) /\ BeginAt(text) < e
      BY <1>2, <1>3, <2>1 DEF HasBlock
    <3>2. After(text) = SubSeq(text, e + 1, Len(text))
      BY <2>1, <3>1 DEF After
    <3>3. /\ SubSeq(text, e + 1, Len(text)) \in Seq(Line)
          /\ Len(SubSeq(text, e + 1, Len(text))) = Len(text) - e
          /\ \A i \in 1..Len(text) - e : SubSeq(text, e + 1, Len(text))[i] = text[e + i]
      BY <1>1, <3>1, SubSeqProperties
    <3>4. ASSUME NEW i \in 1..Len(text) - e
          PROVE  text[e + i] # Begin /\ text[e + i] # End
      <4>1. e + i \in 1..Len(text) /\ e + i > e /\ e + i > BeginAt(text)
        BY <1>2, <3>1
      <4> QED
        BY <1>2, <1>3, <3>1, <4>1 DEF Begins, Ends
    <3> QED
      BY <3>2, <3>3, <3>4 DEF Unmarked
  <2>2. CASE ~HasBlock(text)
    <3>1. After(text) = SubSeq(text, Len(text) + 1, Len(text))
      BY <2>2 DEF After
    <3>2. After(text) \in Seq(Line) /\ Len(After(text)) = 0
      BY <1>1, <3>1, SubSeqProperties
    <3> QED
      BY <3>2 DEF Unmarked
  <2> QED
    BY <2>1, <2>2
<1>6. TrimRight(After(text)) \in Seq(Line) /\ Unmarked(TrimRight(After(text)))
  <2>1. PICK rest \in Seq(Line) : rest = After(text)
    BY <1>5
  <2>2. /\ TrimRight(rest) \in Seq(Line) /\ Len(TrimRight(rest)) \in 0..Len(rest)
        /\ \A i \in 1..Len(TrimRight(rest)) : TrimRight(rest)[i] = rest[i]
    BY TrimmedIs
  <2> QED
    BY <1>5, <2>1, <2>2 DEF Unmarked
<1> QED
  BY <1>4, <1>5, <1>6

(* What a new text begins with is lines.                                   *)
LEMMA LeadIsText ==
  ASSUME NEW text \in Seq(Line)
  PROVE  Lead(text) \in Seq(Line)
<1>1. <<Blank>> \in Seq(Line) /\ <<>> \in Seq(Line)
  BY Markers
<1>2. Before(text) \in Seq(Line) /\ TrimRight(text) \in Seq(Line)
  BY AfterUnmarked, TrimmedIs
<1>3. TrimRight(text) \o <<Blank>> \in Seq(Line)
  BY <1>1, <1>2, Joined
<1> QED
  BY <1>1, <1>2, <1>3 DEF Lead

(* A trimmed text with its final line end is trimmed back to itself.       *)
LEMMA TrimmedAgain ==
  ASSUME NEW rest \in Seq(Line), NEW r, r = TrimRight(rest)
  PROVE  r \o <<Blank>> \in Seq(Line) /\ TrimRight(r \o <<Blank>>) = r
<1>1. r \in Seq(Line) /\ Len(r) \in Nat
  BY TrimmedIs
<1>2. Len(r) > 0 => r[Len(r)] # Blank
  <2>1. /\ \A i \in 1..Len(TrimRight(rest)) : TrimRight(rest)[i] = rest[i]
        /\ Len(TrimRight(rest)) > 0 => rest[Len(TrimRight(rest))] # Blank
    BY TrimmedIs
  <2> QED
    BY <1>1, <2>1
<1>3. PICK u : u = r \o <<Blank>>
  OBVIOUS
<1>4. /\ u \in Seq(Line) /\ Len(u) = Len(r) + 1
      /\ \A i \in 1..Len(r) : u[i] = r[i]
      /\ u[Len(r) + 1] = Blank
  <2>1. <<Blank>> \in Seq(Line) /\ Len(<<Blank>>) = 1 /\ <<Blank>>[1] = Blank
    BY Markers
  <2>2. /\ r \o <<Blank>> \in Seq(Line) /\ Len(r \o <<Blank>>) = Len(r) + 1
        /\ \A i \in 1..Len(r) : (r \o <<Blank>>)[i] = r[i]
        /\ (r \o <<Blank>>)[Len(r) + 1] = Blank
    BY <1>1, <2>1, Joined
  <2> QED
    BY <1>3, <2>2
<1>5. LastOf(Solids(u)) = Len(r)
  <2>1. DOMAIN u = 1..(Len(r) + 1) /\ Solids(u) \in SUBSET (1..(Len(r) + 1))
    BY <1>1, <1>4 DEF Solids
  <2>2. \A j \in Solids(u) : j <= Len(r)
    BY <1>1, <1>4, <2>1 DEF Solids
  <2>3. CASE Len(r) = 0
    <3>1. Solids(u) = {}
      BY <2>1, <2>2, <2>3
    <3> QED
      BY <2>3, <3>1 DEF LastOf
  <2>4. CASE Len(r) > 0
    <3>1. Len(r) \in Solids(u)
      BY <1>1, <1>2, <1>4, <2>1, <2>4 DEF Solids
    <3> QED
      BY <1>1, <2>1, <2>2, <3>1, LastOfIs
  <2> QED
    BY <1>1, <2>3, <2>4
<1>6. Len(TrimRight(u)) = Len(r) /\ TrimRight(u) \in Seq(Line) /\ \A i \in 1..Len(r) : TrimRight(u)[i] = r[i]
  BY <1>1, <1>4, <1>5, TrimmedIs
<1>7. TrimRight(u) = r
  BY <1>1, <1>6, SeqEqual
<1> QED
  BY <1>3, <1>4, <1>7

(* A spliced text is notes, block and notes.                               *)
LEMMA SplicedIs ==
  ASSUME NEW text \in Seq(Line), NEW inner \in Seq(Line)
  PROVE  LET Q == TrimRight(After(text)) \o <<Blank>> IN
         /\ Q \in Seq(Line) /\ Unmarked(Q)
         /\ SpliceBlock(text, inner) = Around(Lead(text), inner, Q)
<1>1. PICK r : r = TrimRight(After(text))
  OBVIOUS
<1>2. r \in Seq(Line) /\ Unmarked(r)
  BY <1>1, AfterUnmarked
<1>3. <<Blank>> \in Seq(Line) /\ Len(<<Blank>>) = 1 /\ <<Blank>>[1] = Blank
  BY Markers
<1>4. r \o <<Blank>> \in Seq(Line) /\ Unmarked(r \o <<Blank>>)
  <2>1. /\ r \o <<Blank>> \in Seq(Line) /\ Len(r \o <<Blank>>) = Len(r) + 1
        /\ \A i \in 1..Len(r) : (r \o <<Blank>>)[i] = r[i]
        /\ (r \o <<Blank>>)[Len(r) + 1] = Blank
    BY <1>2, <1>3, Joined
  <2> QED
    BY <1>2, <2>1, Markers DEF Unmarked
<1>5. PICK start : start = Lead(text) \o buildBlock(inner)
  OBVIOUS
<1>6. start \in Seq(Line)
  <2>1. PICK block \in Seq(Line) : block = buildBlock(inner)
    BY BlockLayout
  <2> QED
    BY <1>5, <2>1, LeadIsText, Joined
<1>7. (start \o r) \o <<Blank>> = start \o (r \o <<Blank>>)
  BY <1>2, <1>3, <1>6, ConcatAssociative
<1>8. SpliceBlock(text, inner) = (start \o r) \o <<Blank>>
  BY <1>1, <1>5 DEF SpliceBlock
<1>9. Around(Lead(text), inner, r \o <<Blank>>) = start \o (r \o <<Blank>>)
  BY <1>5 DEF Around
<1> QED
  BY <1>1, <1>4, <1>7, <1>8, <1>9

-----------------------------------------------------------------------------
(* The theorems. *)

(* What is spliced into a description is what is extracted from it,        *)
(* whatever notes, stray markers and other blocks it has, as long as no    *)
(* line of the list is a marker (SpliceBlock, ExtractBlock).               *)
THEOREM ExtractSpliced ==
  ASSUME NEW text \in Seq(Line), NEW inner \in Seq(Line), Unmarked(inner)
  PROVE  HasBlock(SpliceBlock(text, inner)) /\ ExtractBlock(SpliceBlock(text, inner)) = inner
<1>1. PICK Q \in Seq(Line) : Unmarked(Q) /\ SpliceBlock(text, inner) = Around(Lead(text), inner, Q)
  BY SplicedIs
<1> QED
  BY <1>1, LeadIsText, BlockFound

(* A splice leaves the text around the block as it was, but for blank      *)
(* lines at its end; a new block goes after all of it (SpliceBlock).       *)
THEOREM SpliceKeepsNotes ==
  ASSUME NEW text \in Seq(Line), NEW inner \in Seq(Line), Unmarked(inner)
  PROVE  /\ Before(SpliceBlock(text, inner)) = Lead(text)
         /\ After(SpliceBlock(text, inner)) = TrimRight(After(text)) \o <<Blank>>
<1>1. PICK Q \in Seq(Line) : /\ Q = TrimRight(After(text)) \o <<Blank>> /\ Unmarked(Q)
                             /\ SpliceBlock(text, inner) = Around(Lead(text), inner, Q)
  BY SplicedIs
<1>2. PICK P \in Seq(Line) : P = Lead(text)
  BY LeadIsText
<1>3. Before(Around(P, inner, Q)) = P /\ After(Around(P, inner, Q)) = Q
  BY <1>1, BlockFound
<1> QED
  BY <1>1, <1>2, <1>3

(* Saving again changes the block alone: blank lines do not pile up around *)
(* it and no second block appears (SpliceBlock).                           *)
THEOREM SpliceReplaces ==
  ASSUME NEW text \in Seq(Line), NEW old \in Seq(Line), NEW inner \in Seq(Line), Unmarked(old)
  PROVE  SpliceBlock(SpliceBlock(text, old), inner) = SpliceBlock(text, inner)
<1>1. PICK saved : saved = SpliceBlock(text, old)
  OBVIOUS
<1>2. HasBlock(saved)
  BY <1>1, ExtractSpliced
<1>3. Before(saved) = Lead(text) /\ After(saved) = TrimRight(After(text)) \o <<Blank>>
  BY <1>1, SpliceKeepsNotes
<1>4. Lead(saved) = Lead(text)
  BY <1>2, <1>3 DEF Lead
<1>5. TrimRight(After(saved)) = TrimRight(After(text))
  <2>1. PICK rest \in Seq(Line) : rest = After(text)
    BY AfterUnmarked
  <2>2. TrimRight(TrimRight(rest) \o <<Blank>>) = TrimRight(rest)
    BY TrimmedAgain
  <2> QED
    BY <1>3, <2>1, <2>2
<1> QED
  BY <1>1, <1>4, <1>5 DEF SpliceBlock

(* A merge lists what was looked up and changes no name's status: it never *)
(* enables a name and never drops one (MergeSuggestedLines).               *)
THEOREM MergeKeepsStatus ==
  ASSUME NEW lines \in SUBSET Line, NEW suggested \in SUBSET Names
  PROVE  LET merged == MergeSuggestedLines(lines, suggested) IN
         /\ ParseAllowed(merged) = ParseAllowed(lines)
         /\ ParseListed(merged) = ParseListed(lines) \cup suggested
<1> DEFINE merged == MergeSuggestedLines(lines, suggested)
<1> DEFINE new == [kind : {"blocked"}, name : suggested \ ParseListed(lines)]
<1>1. merged = (lines \ {Blank}) \cup new
  BY DEF MergeSuggestedLines
<1>2. \A l \in new : l.kind = "blocked" /\ l.name \in suggested
  OBVIOUS
<1>3. \A n \in suggested \ ParseListed(lines) : \E l \in new : l.kind = "blocked" /\ l.name = n
  <2> SUFFICES ASSUME NEW n \in suggested \ ParseListed(lines)
               PROVE  \E l \in new : l.kind = "blocked" /\ l.name = n
    OBVIOUS
  <2>1. [kind |-> "blocked", name |-> n] \in new
    OBVIOUS
  <2> QED
    BY <2>1
<1> HIDE DEF new, merged
<1>4. Blank.kind = "blank"
  BY DEF Blank
<1>5. ParseAllowed(merged) = ParseAllowed(lines)
  BY <1>1, <1>2, <1>4 DEF ParseAllowed, Says
<1>6. ParseListed(merged) = ParseListed(lines) \cup suggested
  BY <1>1, <1>2, <1>3, <1>4 DEF ParseListed, Says
<1> QED
  BY <1>5, <1>6 DEF merged
=============================================================================
