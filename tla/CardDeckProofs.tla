--------------------------- MODULE CardDeckProofs ---------------------------
(***************************************************************************)
(* Proofs about dealing, for boards of every size.                         *)
(***************************************************************************)
EXTENDS CardDeck, FiniteSetTheorems, TLAPS

(* Every board that SetDifficulty makes satisfies the assumption on the    *)
(* grid, so all that follows holds of the three games of the menu, and     *)
(* CreateCard finds a picture for each of their cards.                     *)
THEOREM EveryDifficultyIsDealt ==
  \A d \in 0..2 :
    LET board == SetDifficulty(d)
        pairs == (board.cardsPerRow * board.cardsPerColumn) \div 2
    IN  Dealable(board.cardsPerRow, board.cardsPerColumn) /\ 1..pairs \subseteq Pictures
<1> SUFFICES ASSUME NEW d \in 0..2
             PROVE  /\ Dealable(SetDifficulty(d).cardsPerRow, SetDifficulty(d).cardsPerColumn)
                    /\ 1..((SetDifficulty(d).cardsPerRow * SetDifficulty(d).cardsPerColumn) \div 2)
                         \subseteq Pictures
  OBVIOUS
<1>1. CASE d = 0
  <2>1. SetDifficulty(d).cardsPerRow = 3 /\ SetDifficulty(d).cardsPerColumn = 4
    BY <1>1 DEF SetDifficulty
  <2>2. QED
    BY <2>1 DEF Dealable, Pictures
<1>2. CASE d = 1
  <2>1. SetDifficulty(d).cardsPerRow = 4 /\ SetDifficulty(d).cardsPerColumn = 4
    BY <1>2 DEF SetDifficulty
  <2>2. QED
    BY <2>1 DEF Dealable, Pictures
<1>3. CASE d = 2
  <2>1. SetDifficulty(d).cardsPerRow = 4 /\ SetDifficulty(d).cardsPerColumn = 5
    BY <1>3 DEF SetDifficulty
  <2>2. QED
    BY <2>1 DEF Dealable, Pictures
<1>4. QED
  BY <1>1, <1>2, <1>3

(* The assumption on the grid gives at least two pairs.                    *)
LEMMA PairsFact ==
  /\ NumPairs \in Nat /\ NumPairs >= 2
  /\ LastIndex \in Nat /\ LastIndex = 2 * NumPairs - 1
<1> DEFINE area == cardsPerRow * cardsPerColumn
<1>1. area \in Nat /\ area >= 4
  BY GridAssumption DEF Dealable
<1> HIDE DEF area
<1>2. area \div 2 \in Nat /\ area \div 2 >= 2
  BY <1>1
<1>3. NumPairs = area \div 2
  BY DEF NumPairs, area
<1>4. QED
  BY <1>2, <1>3 DEF LastIndex

(* The draw stays below index, for every turn of the loop.                 *)
LEMMA DrawInRange ==
  ASSUME NEW i \in Cards, i > 0, NEW j \in Draw(i)
  PROVE  j \in Cards /\ j < i /\ (i >= 2 => j <= i - 2)
BY PairsFact DEF Draw, Arc4RandomUniform, Cards

(* The deck before the shuffle.                                            *)
LEMMA FilledDeck ==
  /\ FillCardSequence \in [Cards -> Numbers]
  /\ \A v \in Numbers : \A k \in Cards : FillCardSequence[k] = v <=> k \in {2*v - 2, 2*v - 1}
<1>1. \A k \in Cards : k \div 2 + 1 \in Numbers
  BY PairsFact DEF Cards, Numbers
<1>2. FillCardSequence \in [Cards -> Numbers]
  BY <1>1 DEF FillCardSequence
<1>3. ASSUME NEW v \in Numbers
      PROVE  \A k \in Cards : FillCardSequence[k] = v <=> k \in {2*v - 2, 2*v - 1}
  <2>1. v \in Nat /\ 1 <= v /\ v <= NumPairs
    BY PairsFact DEF Numbers
  <2>2. 2*v - 2 \in Cards /\ 2*v - 1 \in Cards
    BY <2>1, PairsFact DEF Cards
  <2>3. \A k \in Cards : FillCardSequence[k] = k \div 2 + 1
    BY DEF FillCardSequence
  <2>4. \A k \in Cards : k \div 2 + 1 = v <=> k = 2*v - 2 \/ k = 2*v - 1
    BY <2>1, PairsFact DEF Cards
  <2>5. QED
    BY <2>2, <2>3, <2>4
<1>4. QED
  BY <1>2, <1>3

(* Exchanging two cards keeps every number on two cards.                   *)
LEMMA SwapKeepsPairs ==
  ASSUME NEW s \in [Cards -> Numbers], Paired(s), NEW x \in Cards, NEW y \in Cards
  PROVE  Swap(s, x, y) \in [Cards -> Numbers] /\ Paired(Swap(s, x, y))
<1> DEFINE t == Swap(s, x, y)
           other(k) == IF k = x THEN y ELSE IF k = y THEN x ELSE k
<1>1. t \in [Cards -> Numbers]
  BY DEF Swap
<1>2. \A k \in Cards : t[k] = s[other(k)]
  BY DEF Swap
<1>3. \A k \in Cards : other(k) \in Cards /\ other(other(k)) = k
  OBVIOUS
<1> HIDE DEF other, t
<1>4. ASSUME NEW v \in Numbers
      PROVE  \E a, b \in Cards : a # b /\ \A k \in Cards : t[k] = v <=> k \in {a, b}
  <2>1. PICK a \in Cards, b \in Cards :
          a # b /\ \A k \in Cards : s[k] = v <=> k \in {a, b}
    BY DEF Paired
  <2>2. other(a) \in Cards /\ other(b) \in Cards /\ other(a) # other(b)
    BY <2>1, <1>3
  <2>3. \A k \in Cards : t[k] = v <=> other(k) = a \/ other(k) = b
    BY <2>1, <1>2, <1>3
  <2>4. \A k \in Cards : t[k] = v <=> k \in {other(a), other(b)}
    BY <2>1, <2>3, <1>3
  <2>5. QED
    BY <2>2, <2>4
<1>5. Paired(t)
  BY <1>4 DEF Paired
<1>6. QED
  BY <1>1, <1>5 DEF t
-----------------------------------------------------------------------------
DeckIInv == DeckTypeOK /\ PairedDeck

LEMMA DeckInitial == DeckInit => DeckIInv
<1> SUFFICES ASSUME DeckInit PROVE DeckIInv
  OBVIOUS
<1>1. DeckTypeOK
  BY FilledDeck, PairsFact DEF DeckInit, DeckTypeOK, Cards
<1>2. ASSUME NEW v \in Numbers
      PROVE  \E a, b \in Cards : a # b /\ \A k \in Cards : cardsSequence[k] = v <=> k \in {a, b}
  <2>1. 2*v - 2 \in Cards /\ 2*v - 1 \in Cards /\ 2*v - 2 # 2*v - 1
    BY PairsFact DEF Cards, Numbers
  <2>2. QED
    BY <2>1, FilledDeck DEF DeckInit
<1>3. QED
  BY <1>1, <1>2 DEF DeckIInv, PairedDeck, Paired

LEMMA ShuffleKeepsDeck == DeckIInv /\ ShuffleStep => DeckIInv'
<1> SUFFICES ASSUME DeckIInv, ShuffleStep PROVE DeckIInv'
  OBVIOUS
<1>1. PICK j \in Draw(index) : cardsSequence' = Swap(cardsSequence, index, j)
  BY DEF ShuffleStep
<1>2. index \in Cards /\ index > 0 /\ index' \in Cards
  BY PairsFact DEF DeckIInv, DeckTypeOK, ShuffleStep, Cards
<1>3. j \in Cards
  BY <1>2, DrawInRange
<1>4. cardsSequence' \in [Cards -> Numbers] /\ Paired(cardsSequence')
  BY <1>1, <1>2, <1>3, SwapKeepsPairs DEF DeckIInv, DeckTypeOK, PairedDeck
<1>5. QED
  BY <1>2, <1>4 DEF DeckIInv, DeckTypeOK, PairedDeck

LEMMA StutterKeepsDeck == DeckIInv /\ UNCHANGED deckVars => DeckIInv'
BY DEF DeckIInv, DeckTypeOK, PairedDeck, deckVars

LEMMA DeckInvariance == DeckSpec => []DeckIInv
<1>1. DeckIInv /\ [DeckNext]_deckVars => DeckIInv'
  BY ShuffleKeepsDeck, StutterKeepsDeck DEF DeckNext, DeckDone
<1>2. QED
  BY <1>1, DeckInitial, PTL DEF DeckSpec

(* ShuffleArray never reads or writes outside cardsSequence, and leaves    *)
(* only numbers of the deck in it.                                         *)
THEOREM DeckTypeCorrect == DeckSpec => []DeckTypeOK
<1>1. DeckIInv => DeckTypeOK
  BY DEF DeckIInv
<1>2. QED
  BY <1>1, DeckInvariance, PTL

(* FillCardSequence and ShuffleArray deal every number on exactly two      *)
(* cards, on boards of every size, whatever arc4random_uniform draws.      *)
THEOREM EveryDealIsPaired == DeckSpec => []PairedDeck
<1>1. DeckIInv => PairedDeck
  BY DEF DeckIInv
<1>2. QED
  BY <1>1, DeckInvariance, PTL

(* The bias of ShuffleArray holds on every board: the last card never      *)
(* carries the highest number.  The first turn puts a card below           *)
(* LastIndex - 1 there, and no later turn reaches that place again.        *)
THEOREM LastCardBias == DeckSpec => []LastCardNeverHighest
<1> DEFINE Inv ==
      /\ DeckTypeOK
      /\ index = LastIndex => cardsSequence = FillCardSequence
      /\ LastCardNeverHighest
<1>1. DeckInit => Inv
  BY DeckInitial, PairsFact DEF DeckInit, DeckIInv, LastCardNeverHighest
<1>2. Inv /\ [DeckNext]_deckVars => Inv'
  <2> SUFFICES ASSUME Inv, ShuffleStep PROVE Inv'
    BY DEF DeckNext, DeckDone, deckVars, DeckTypeOK, LastCardNeverHighest
  <2>1. PICK j \in Draw(index) : cardsSequence' = Swap(cardsSequence, index, j)
    BY DEF ShuffleStep
  <2>2. /\ index \in Cards /\ index \in Nat /\ index > 0 /\ index <= LastIndex
        /\ index' = index - 1 /\ LastIndex \in Cards /\ LastIndex >= 3
    BY PairsFact DEF DeckTypeOK, ShuffleStep, Cards
  <2>3. j \in Cards /\ j \in Nat /\ j < index /\ (index >= 2 => j <= index - 2)
    BY <2>2, DrawInRange DEF Cards
  <2>4. DeckTypeOK'
    BY <2>1, <2>2, <2>3, PairsFact DEF DeckTypeOK, Swap, Cards
  <2>5. CASE index = LastIndex
    <3>1. cardsSequence'[LastIndex] = FillCardSequence[j]
      BY <2>1, <2>2, <2>3, <2>5 DEF Swap, DeckTypeOK
    <3>2. FillCardSequence[j] = j \div 2 + 1
      BY <2>3 DEF FillCardSequence
    <3>3. j \div 2 + 1 < NumPairs
      BY <2>2, <2>3, <2>5, PairsFact
    <3>4. QED
      BY <2>2, <2>4, <3>1, <3>2, <3>3, PairsFact DEF LastCardNeverHighest
  <2>6. CASE index # LastIndex
    <3>1. cardsSequence'[LastIndex] = cardsSequence[LastIndex]
      BY <2>1, <2>2, <2>3, <2>6 DEF Swap, DeckTypeOK
    <3>2. QED
      BY <2>2, <2>4, <2>6, <3>1 DEF LastCardNeverHighest
  <2>7. QED
    BY <2>5, <2>6
<1>3. QED
  BY <1>1, <1>2, PTL DEF DeckSpec
-----------------------------------------------------------------------------
(* The index that CreateCardboard computes, q rows of d cards and r more,  *)
(* stays within the sequence ...                                           *)
LEMMA LaterRow ==
  ASSUME NEW d \in Nat, NEW q \in Nat, NEW n \in Nat, q < n
  PROVE  q * d \in Nat /\ n * d \in Nat /\ q * d + d <= n * d
<1>1. PICK e \in Nat : n = q + 1 + e
  <2>1. n - q - 1 \in Nat /\ n = q + 1 + (n - q - 1)
    OBVIOUS
  <2>2. QED
    BY <2>1
<1>2. q * d \in Nat /\ e * d \in Nat /\ n * d \in Nat
  OBVIOUS
<1>3. n * d = q * d + d + e * d
  BY <1>1
<1>4. QED
  BY <1>2, <1>3

(* ... names one card for each place of the grid ...                       *)
LEMMA PlacesDiffer ==
  ASSUME NEW d \in Nat, NEW q \in Nat, NEW n \in Nat, NEW r \in 0..(d - 1),
         NEW s \in 0..(d - 1), q * d + r = n * d + s
  PROVE  q = n /\ r = s
<1>1. ~ q < n
  BY LaterRow
<1>2. ~ n < q
  BY LaterRow
<1>3. q = n
  BY <1>1, <1>2
<1>4. q * d \in Nat
  OBVIOUS
<1>5. QED
  BY <1>3, <1>4

(* ... and leaves out no card.                                             *)
LEMMA PlaceExists ==
  ASSUME NEW d \in Nat, NEW n \in Nat, NEW k \in Nat, k < n * d
  PROVE  \E q \in 0..(n - 1), r \in 0..(d - 1) : q * d + r = k
<1>1. d > 0
  OBVIOUS
<1>2. k \div d \in Nat /\ k % d \in 0..(d - 1) /\ k = (k \div d) * d + (k % d)
  BY <1>1
<1>3. k \div d < n
  <2> DEFINE q == k \div d
  <2> HIDE DEF q
  <2>1. q \in Nat /\ q * d <= k
    BY <1>2 DEF q
  <2>2. SUFFICES ASSUME q >= n PROVE FALSE
    BY <2>1 DEF q
  <2>3. n * d <= q * d
    BY <2>1, <2>2, LaterRow
  <2>4. QED
    BY <2>1, <2>3
<1>4. k \div d \in 0..(n - 1)
  BY <1>2, <1>3
<1>5. WITNESS k \div d \in 0..(n - 1), k % d \in 0..(d - 1)
<1>6. QED
  BY <1>2

(* The grid and the cards correspond one to one.                           *)
LEMMA GridIsDeck ==
  /\ \A p \in Grid : p[1] * cardsPerColumn + p[2] \in Cards
  /\ \A k \in Cards : \E p \in Grid : p[1] * cardsPerColumn + p[2] = k
  /\ \A p, o \in Grid : p[1] * cardsPerColumn + p[2] = o[1] * cardsPerColumn + o[2]
                          => p = o
<1>0. cardsPerRow \in Nat /\ cardsPerColumn \in Nat
  BY GridAssumption DEF Dealable
<1>1. Cards = 0..(cardsPerRow * cardsPerColumn - 1)
  <2> DEFINE area == cardsPerRow * cardsPerColumn
  <2>1. area \in Nat /\ area % 2 = 0
    BY GridAssumption DEF Dealable
  <2>2. NumPairs = area \div 2
    BY DEF NumPairs
  <2> HIDE DEF area
  <2>3. 2 * NumPairs = area
    BY <2>1, <2>2
  <2>4. QED
    BY <2>3 DEF Cards, LastIndex, area
<1>2. \A p \in Grid : /\ p[1] \in 0..(cardsPerRow - 1)
                      /\ p[2] \in 0..(cardsPerColumn - 1) /\ p = <<p[1], p[2]>>
  BY DEF Grid
<1>3. ASSUME NEW p \in Grid PROVE p[1] * cardsPerColumn + p[2] \in Cards
  <2>1. /\ p[1] \in Nat /\ p[1] < cardsPerRow
        /\ p[2] \in 0..(cardsPerColumn - 1)
    BY <1>0, <1>2
  <2>2. /\ p[1] * cardsPerColumn \in Nat /\ cardsPerRow * cardsPerColumn \in Nat
        /\ p[1] * cardsPerColumn + cardsPerColumn <= cardsPerRow * cardsPerColumn
    BY <1>0, <2>1, LaterRow
  <2>3. QED
    BY <1>0, <1>1, <2>1, <2>2
<1>4. ASSUME NEW k \in Cards
      PROVE  \E p \in Grid : p[1] * cardsPerColumn + p[2] = k
  <2>1. k \in Nat /\ k < cardsPerRow * cardsPerColumn
    BY <1>0, <1>1
  <2>2. PICK q \in 0..(cardsPerRow - 1), r \in 0..(cardsPerColumn - 1) :
          q * cardsPerColumn + r = k
    BY <1>0, <2>1, PlaceExists
  <2>3. <<q, r>> \in Grid /\ <<q, r>>[1] = q /\ <<q, r>>[2] = r
    BY DEF Grid
  <2>4. QED
    BY <2>2, <2>3
<1>5. ASSUME NEW p \in Grid, NEW o \in Grid,
             p[1] * cardsPerColumn + p[2] = o[1] * cardsPerColumn + o[2]
      PROVE  p = o
  <2>1. /\ p[1] \in Nat /\ p[2] \in 0..(cardsPerColumn - 1)
        /\ o[1] \in Nat /\ o[2] \in 0..(cardsPerColumn - 1)
    BY <1>0, <1>2
  <2>2. \A q, n \in Nat, r, s \in 0..(cardsPerColumn - 1) :
          q * cardsPerColumn + r = n * cardsPerColumn + s => q = n /\ r = s
    BY <1>0, PlacesDiffer
  <2>3. p[1] = o[1] /\ p[2] = o[2]
    BY <1>5, <2>1, <2>2
  <2>4. QED
    BY <1>2, <2>3
<1>6. QED
  BY <1>3, <1>4, <1>5

(* The nested loops of CreateCardboard lay both cards of every number on   *)
(* the grid, on boards of every shape: the index they compute runs over    *)
(* the shuffled sequence once.                                             *)
THEOREM BoardShowsEveryPair == DeckSpec => []BoardHoldsPairs
<1>1. ASSUME PairedDeck PROVE BoardHoldsPairs
  <2> SUFFICES ASSUME NEW v \in Numbers
               PROVE  Cardinality({p \in Grid : CreateCardboard[p] = v}) = 2
    BY DEF BoardHoldsPairs
  <2>1. PICK a \in Cards, b \in Cards :
          a # b /\ \A k \in Cards : cardsSequence[k] = v <=> k \in {a, b}
    BY <1>1 DEF PairedDeck, Paired
  <2>2. PICK p \in Grid : p[1] * cardsPerColumn + p[2] = a
    BY GridIsDeck
  <2>3. PICK o \in Grid : o[1] * cardsPerColumn + o[2] = b
    BY GridIsDeck
  <2>4. p # o
    BY <2>1, <2>2, <2>3
  <2>5. \A i \in Grid : CreateCardboard[i] = v <=> i = p \/ i = o
    <3>1. SUFFICES ASSUME NEW i \in Grid
                   PROVE  CreateCardboard[i] = v <=> i = p \/ i = o
      OBVIOUS
    <3> DEFINE k == i[1] * cardsPerColumn + i[2]
    <3>2. CreateCardboard[i] = cardsSequence[k] /\ k \in Cards
      BY GridIsDeck DEF CreateCardboard
    <3>3. k = a <=> i = p
      BY <2>2, GridIsDeck
    <3>4. k = b <=> i = o
      BY <2>3, GridIsDeck
    <3> HIDE DEF k
    <3>5. QED
      BY <2>1, <3>2, <3>3, <3>4
  <2>6. {i \in Grid : CreateCardboard[i] = v} = {p} \cup {o}
    BY <2>5
  <2>7. Cardinality({p} \cup {o}) = 2
    <3>1. IsFiniteSet({p}) /\ Cardinality({p}) = 1 /\ o \notin {p}
      BY <2>4, FS_Singleton
    <3>2. QED
      BY <3>1, FS_AddElement
  <2>8. QED
    BY <2>6, <2>7
<1>2. PairedDeck => BoardHoldsPairs
  BY <1>1
<1>3. QED
  BY <1>2, EveryDealIsPaired, PTL
=============================================================================
