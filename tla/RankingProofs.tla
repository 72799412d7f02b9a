---------------------------- MODULE RankingProofs ---------------------------
(***************************************************************************)
(* Proofs about the ranking, for any set of scores and any number of       *)
(* games, with crashes at any moment.                                      *)
(*                                                                         *)
(* What the disk holds depends on what was on its way to it, and that on   *)
(* every state between two calls of set: the invariant orders the disk,    *)
(* the unsaved states and the keys in memory, and says how far UpdateRanking*)
(* has come with respect to the ranking it found.                          *)
(***************************************************************************)
EXTENDS Ranking, SequenceTheorems, FiniteSetTheorems, TLAPS

(* A ranking that can be shown or saved: in order, without negative scores.*)
Proper(r) == r \in RankTable /\ Sorted(r) /\ r[3] >= 0

Earned(r, scores) ==
  \A p \in Positions : r[p] = 0 \/ \E i \in DOMAIN scores : scores[i] = r[p]

(* Between two calls of set: the places below next have moved down, the    *)
(* others are as UpdateRanking found them, and the score fits at target.   *)
Shifting ==
  target # 0 =>
    /\ Proper(entry)
    /\ \A p \in Positions :
         defaults[p] = IF p > next THEN entry[p - 1] ELSE entry[p]
    /\ score \in Scores /\ entry[target] < score
    /\ target > 1 => score <= entry[target - 1]

(* The states of the keys, oldest first: disk, unsaved, defaults.          *)
Ordered ==
  /\ Below(disk, defaults)
  /\ \A i \in DOMAIN unsaved :
       /\ Proper(unsaved[i]) /\ Earned(unsaved[i], games)
       /\ Below(disk, unsaved[i]) /\ Below(unsaved[i], defaults)
  /\ \A i, j \in DOMAIN unsaved : i < j => Below(unsaved[i], unsaved[j])

RankingIInv ==
  /\ RankingTypeOK
  /\ Proper(defaults) /\ Earned(defaults, games)
  /\ Proper(disk) /\ Earned(disk, games)
  /\ Proper(labels) /\ Below(labels, defaults)
  /\ Shifting
  /\ Ordered

LEMMA EmptyIsProper ==
  /\ Proper(Empty)
  /\ \A r \in RankTable : Proper(r) => Below(Empty, r)
BY DEF Proper, Empty, RankTable, Sorted, Positions, Below

LEMMA BelowTransitive ==
  ASSUME NEW q \in RankTable, NEW r \in RankTable, NEW s \in RankTable,
         Below(q, r), Below(r, s)
  PROVE  Below(q, s)
BY DEF Below, RankTable, Positions

LEMMA BelowReflexive == \A r \in RankTable : Below(r, r)
BY DEF Below, RankTable, Positions

LEMMA RankingInitial == RankingInit => RankingIInv
<1> SUFFICES ASSUME RankingInit PROVE RankingIInv
  OBVIOUS
<1>1. Empty \in RankTable
  BY EmptyIsProper DEF Proper
<1>2. RankingTypeOK
  BY <1>1 DEF RankingInit, RankingTypeOK
<1>3. Earned(Empty, games)
  BY DEF Earned, Empty
<1>4. Below(Empty, Empty)
  BY <1>1, BelowReflexive
<1>5. Shifting /\ Ordered
  BY <1>4 DEF RankingInit, Shifting, Ordered
<1>6. QED
  BY <1>2, <1>3, <1>4, <1>5, EmptyIsProper DEF RankingInit, RankingIInv

(* What the branch chosen by UpdateRanking knows of the score.             *)
LEMMA TargetFits ==
  ASSUME NEW s \in Int, Proper(defaults)
  PROVE  /\ Target(s) \in 0..3
         /\ Target(s) = 0 => s <= defaults[3]
         /\ Target(s) # 0 => defaults[Target(s)] < s
         /\ Target(s) > 1 => s <= defaults[Target(s) - 1]
BY DEF Target, Beats, Proper, RankTable, Positions, Sorted

(* More games are never fewer: what was earned stays earned.               *)
LEMMA EarnedGrows ==
  ASSUME NEW r, NEW g \in Seq(Int), NEW s \in Int, Earned(r, g)
  PROVE  Earned(r, Append(g, s))
<1>1. \A i \in DOMAIN g : i \in DOMAIN Append(g, s) /\ Append(g, s)[i] = g[i]
  BY AppendProperties
<1>2. QED
  BY <1>1 DEF Earned
-----------------------------------------------------------------------------
(* One call of set keeps the keys in order and lets each of them only grow.*)
LEMMA WrittenIsBetter ==
  ASSUME RankingIInv, target # 0
  PROVE  /\ next \in Positions /\ target \in 1..next
         /\ Proper(Written) /\ Below(defaults, Written)
         /\ \A p \in Positions \ {next} : Written[p] = defaults[p]
         /\ Written[next] = IF next = target THEN score ELSE entry[next - 1]
<1>1. next \in Positions /\ target \in 1..next
  BY DEF RankingIInv, RankingTypeOK, Positions
<1>2. /\ defaults \in [Positions -> Int] /\ entry \in [Positions -> Int] /\ score \in Int
      /\ Sorted(defaults) /\ Sorted(entry) /\ defaults[3] >= 0
  BY DEF RankingIInv, RankingTypeOK, Proper, Shifting, RankTable
<1>3. \A p \in Positions : p <= next => defaults[p] = entry[p]
  BY <1>1 DEF RankingIInv, Shifting, Positions
<1>4. defaults[target] < score /\ (target > 1 => score <= defaults[target - 1])
  BY <1>1, <1>3 DEF RankingIInv, Shifting, Positions
<1>5. Written \in [Positions -> Int]
  <2>1. next # target => defaults[next - 1] \in Int
    BY <1>1, <1>2 DEF Positions
  <2>2. QED
    BY <1>2, <2>1 DEF Written
<1>6. /\ \A p \in Positions \ {next} : Written[p] = defaults[p]
      /\ Written[next] = IF next = target THEN score ELSE defaults[next - 1]
  BY <1>1, <1>2 DEF Written
<1>7. Written[next] = IF next = target THEN score ELSE entry[next - 1]
  BY <1>1, <1>3, <1>6 DEF Positions
<1>8. Sorted(Written) /\ Written[3] >= 0 /\ Below(defaults, Written)
  <2> USE DEF Positions, Sorted, Below
  <2>1. CASE next = 1
    BY <2>1, <1>1, <1>2, <1>4, <1>5, <1>6
  <2>2. CASE next = 2
    BY <2>2, <1>1, <1>2, <1>4, <1>5, <1>6
  <2>3. CASE next = 3
    BY <2>3, <1>1, <1>2, <1>4, <1>5, <1>6
  <2>4. QED
    BY <1>1, <2>1, <2>2, <2>3
<1>9. QED
  BY <1>1, <1>5, <1>6, <1>7, <1>8 DEF Proper, RankTable

LEMMA FinishGameKeeps ==
  ASSUME RankingIInv, NEW s \in Scores, FinishGame(s)
  PROVE  RankingIInv'
<1>1. s \in Int /\ games \in Seq(Int)
  BY RankingAssumption DEF RankingIInv, RankingTypeOK
<1>2. /\ Target(s) \in 0..3
      /\ Target(s) # 0 => defaults[Target(s)] < s
      /\ Target(s) > 1 => s <= defaults[Target(s) - 1]
  BY <1>1, TargetFits DEF RankingIInv
<1>3. /\ target' = Target(s) /\ next' = IF Target(s) = 0 THEN 0 ELSE 3
      /\ score' = s /\ entry' = defaults
      /\ UNCHANGED <<defaults, unsaved, disk, labels>>
  BY DEF FinishGame
<1>4. games' = games \/ games' = Append(games, s)
  BY DEF FinishGame
<1>5. RankingTypeOK'
  <2>1. games' \in Seq(Int)
    BY <1>1, <1>4
  <2>2. target' \in 0..3 /\ next' \in 0..3 /\ (target' = 0 <=> next' = 0) /\ target' <= next'
    BY <1>2, <1>3
  <2>3. QED
    BY <1>1, <1>3, <2>1, <2>2 DEF RankingIInv, RankingTypeOK
<1>6. \A r : Earned(r, games) => Earned(r, games')
  BY <1>1, <1>4, EarnedGrows
<1>7. Shifting'
  <2> SUFFICES ASSUME target' # 0 PROVE Shifting'
    BY DEF Shifting
  <2>1. next' = 3 /\ entry' = defaults /\ Proper(entry')
    BY <1>3 DEF RankingIInv
  <2>2. \A p \in Positions : defaults'[p] = IF p > next' THEN entry'[p - 1] ELSE entry'[p]
    BY <1>3, <2>1 DEF Positions
  <2>3. QED
    BY <1>2, <1>3, <2>1, <2>2 DEF Shifting
<1>8. Ordered'
  BY <1>3, <1>6 DEF RankingIInv, Ordered
<1>9. QED
  BY <1>3, <1>5, <1>6, <1>7, <1>8 DEF RankingIInv

(* The unsaved states stay ordered when the newest, and best, is appended. *)
LEMMA SetDefaultKeeps ==
  ASSUME RankingIInv, SetDefault
  PROVE  RankingIInv'
<1>1. /\ target # 0 /\ defaults' = Written /\ unsaved' = Append(unsaved, Written)
      /\ UNCHANGED <<disk, score, labels, entry>>
  BY DEF SetDefault
<1>2. /\ next \in Positions /\ target \in 1..next
      /\ Proper(Written) /\ Below(defaults, Written)
      /\ \A p \in Positions \ {next} : Written[p] = defaults[p]
      /\ Written[next] = IF next = target THEN score ELSE entry[next - 1]
  BY <1>1, WrittenIsBetter
<1>3. /\ games \in Seq(Int) /\ score \in Int /\ unsaved \in Seq(RankTable)
      /\ disk \in RankTable /\ labels \in RankTable /\ defaults \in RankTable
      /\ Written \in RankTable
  BY <1>2 DEF RankingIInv, RankingTypeOK, Proper
<1>4. \/ next = target /\ target' = 0 /\ next' = 0 /\ games' = Append(games, score)
      \/ next # target /\ target' = target /\ next' = next - 1 /\ games' = games
  BY DEF SetDefault
<1>5. RankingTypeOK'
  <2>1. unsaved' \in Seq(RankTable)
    BY <1>1, <1>3, AppendProperties
  <2>2. target' \in 0..3 /\ next' \in 0..3 /\ (target' = 0 <=> next' = 0) /\ target' <= next'
    BY <1>2, <1>4 DEF Positions
  <2>3. games' \in Seq(Int)
    <3>1. games \in Seq(Int) /\ Append(games, score) \in Seq(Int)
      BY <1>3, AppendProperties
    <3>2. QED
      BY <3>1, <1>4
  <2>4. QED
    BY <1>1, <1>3, <2>1, <2>2, <2>3 DEF RankingIInv, RankingTypeOK
<1>6. \A r : Earned(r, games) => Earned(r, games')
  BY <1>3, <1>4, EarnedGrows
<1>7. Earned(Written, games')
  <2>1. CASE next = target
    <3>1. Earned(defaults, games')
      BY <1>6 DEF RankingIInv
    <3>2. \E i \in DOMAIN games' : games'[i] = score
      BY <1>3, <1>4, <2>1, AppendProperties
    <3>3. QED
      BY <1>2, <2>1, <3>1, <3>2 DEF Earned
  <2>2. CASE next # target
    <3>1. next - 1 \in Positions /\ defaults[next - 1] = entry[next - 1]
      BY <1>1, <1>2, <2>2 DEF RankingIInv, Shifting, Positions
    <3>2. QED
      BY <1>2, <1>6, <2>2, <3>1 DEF RankingIInv, Earned
  <2>3. QED
    BY <2>1, <2>2
<1>8. Shifting'
  <2> SUFFICES ASSUME target' # 0 PROVE Shifting'
    BY DEF Shifting
  <2>1. next # target /\ target' = target /\ next' = next - 1
    BY <1>4
  <2>2. \A p \in Positions : Written[p] = IF p > next' THEN entry[p - 1] ELSE entry[p]
    BY <1>1, <1>2, <2>1 DEF RankingIInv, Shifting, Positions
  <2>3. QED
    BY <1>1, <2>1, <2>2 DEF RankingIInv, Shifting
<1>9. Ordered'
  <2> DEFINE n == Len(unsaved)
  <2>1. n \in Nat /\ DOMAIN unsaved = 1..n /\ DOMAIN unsaved' = 1..(n + 1)
    BY <1>1, <1>3
  <2>2. /\ \A i \in 1..n : unsaved'[i] = unsaved[i] /\ unsaved[i] \in RankTable
        /\ unsaved'[n + 1] = Written
    BY <1>1, <1>3
  <2> HIDE DEF n
  <2>3. /\ Below(disk, Written) /\ Below(Written, Written)
        /\ \A i \in 1..n : Below(unsaved[i], Written)
    BY <1>2, <1>3, <2>1, <2>2, BelowTransitive, BelowReflexive DEF RankingIInv, Ordered
  <2>4. ASSUME NEW i \in 1..(n + 1)
        PROVE  /\ Proper(unsaved'[i]) /\ Earned(unsaved'[i], games')
               /\ Below(disk, unsaved'[i]) /\ Below(unsaved'[i], Written)
    <3>1. CASE i = n + 1
      BY <3>1, <1>2, <1>7, <2>2, <2>3
    <3>2. CASE i \in 1..n
      BY <3>2, <1>6, <2>1, <2>2, <2>3 DEF RankingIInv, Ordered
    <3>3. QED
      BY <2>1, <3>1, <3>2
  <2>5. ASSUME NEW i \in 1..(n + 1), NEW j \in 1..(n + 1), i < j
        PROVE  Below(unsaved'[i], unsaved'[j])
    <3>1. i \in 1..n
      BY <2>1, <2>5
    <3>2. CASE j = n + 1
      BY <3>1, <3>2, <2>2, <2>3
    <3>3. CASE j \in 1..n
      BY <3>1, <3>3, <2>1, <2>2, <2>5 DEF RankingIInv, Ordered
    <3>4. QED
      BY <2>1, <3>2, <3>3
  <2>6. QED
    BY <1>1, <2>1, <2>3, <2>4, <2>5 DEF Ordered
<1>10. Below(labels, Written)
  BY <1>2, <1>3, BelowTransitive DEF RankingIInv
<1>11. QED
  BY <1>1, <1>2, <1>5, <1>6, <1>7, <1>8, <1>9, <1>10 DEF RankingIInv

LEMMA SaveKeeps ==
  ASSUME RankingIInv, Save
  PROVE  RankingIInv' /\ Below(disk, disk')
<1>1. /\ unsaved \in Seq(RankTable) /\ unsaved # <<>>
      /\ disk' = Head(unsaved) /\ unsaved' = Tail(unsaved)
      /\ UNCHANGED <<defaults, score, target, next, labels, entry, games>>
  BY DEF Save, RankingIInv, RankingTypeOK
<1> DEFINE n == Len(unsaved)
<1>2. /\ n \in Nat /\ n > 0 /\ DOMAIN unsaved = 1..n /\ DOMAIN unsaved' = 1..(n - 1)
      /\ disk' = unsaved[1] /\ unsaved' \in Seq(RankTable)
  BY <1>1, HeadTailProperties
<1>3. \A i \in 1..(n - 1) : unsaved'[i] = unsaved[i + 1]
  BY <1>1, HeadTailProperties
<1> HIDE DEF n
<1>4. /\ Proper(disk') /\ Earned(disk', games) /\ Below(disk, disk') /\ Below(disk', defaults)
  BY <1>2 DEF RankingIInv, Ordered
<1>5. RankingTypeOK'
  BY <1>1, <1>2, <1>4 DEF RankingIInv, RankingTypeOK, Proper
<1>6. Ordered'
  <2>1. ASSUME NEW i \in 1..(n - 1)
        PROVE  /\ Proper(unsaved'[i]) /\ Earned(unsaved'[i], games)
               /\ Below(disk', unsaved'[i]) /\ Below(unsaved'[i], defaults)
    <3>1. i + 1 \in 1..n /\ 1 \in 1..n /\ 1 < i + 1 /\ unsaved'[i] = unsaved[i + 1]
      BY <1>2, <1>3
    <3>2. QED
      BY <1>2, <3>1 DEF RankingIInv, Ordered
  <2>2. ASSUME NEW i \in 1..(n - 1), NEW j \in 1..(n - 1), i < j
        PROVE  Below(unsaved'[i], unsaved'[j])
    <3>1. /\ i + 1 \in 1..n /\ j + 1 \in 1..n /\ i + 1 < j + 1
          /\ unsaved'[i] = unsaved[i + 1] /\ unsaved'[j] = unsaved[j + 1]
      BY <1>2, <1>3, <2>2
    <3>2. QED
      BY <1>2, <3>1 DEF RankingIInv, Ordered
  <2>3. QED
    BY <1>1, <1>2, <1>4, <2>1, <2>2 DEF Ordered
<1>7. Shifting'
  BY <1>1 DEF RankingIInv, Shifting
<1>8. QED
  BY <1>1, <1>4, <1>5, <1>6, <1>7 DEF RankingIInv

LEMMA ShowRankingKeeps ==
  ASSUME RankingIInv, ShowRanking
  PROVE  RankingIInv'
<1>1. labels' = defaults /\ UNCHANGED <<defaults, unsaved, disk, score, target, next, entry, games>>
  BY DEF ShowRanking
<1>2. defaults \in RankTable /\ Below(defaults, defaults)
  BY BelowReflexive DEF RankingIInv, RankingTypeOK
<1>3. RankingTypeOK'
  BY <1>1, <1>2 DEF RankingIInv, RankingTypeOK
<1>4. Shifting' /\ Ordered'
  BY <1>1 DEF RankingIInv, Shifting, Ordered
<1>5. QED
  BY <1>1, <1>2, <1>3, <1>4 DEF RankingIInv

(* A crash falls back to what was saved, which is proper and earned.       *)
LEMMA CrashKeeps ==
  ASSUME RankingIInv, Crash
  PROVE  RankingIInv'
<1>1. /\ defaults' = disk /\ unsaved' = <<>> /\ target' = 0 /\ next' = 0
      /\ labels' = Empty /\ UNCHANGED <<disk, score, entry, games>>
  BY DEF Crash
<1>2. /\ disk \in RankTable /\ Below(disk, disk) /\ Proper(Empty) /\ Below(Empty, disk)
      /\ Empty \in RankTable
  BY BelowReflexive, EmptyIsProper DEF RankingIInv, RankingTypeOK, Proper
<1>3. RankingTypeOK'
  BY <1>1, <1>2 DEF RankingIInv, RankingTypeOK
<1>4. Shifting' /\ Ordered'
  BY <1>1, <1>2 DEF RankingIInv, Shifting, Ordered
<1>5. QED
  BY <1>1, <1>2, <1>3, <1>4 DEF RankingIInv

LEMMA RankingInductive == RankingIInv /\ [RankingNext]_rankVars => RankingIInv'
<1> SUFFICES ASSUME RankingIInv, [RankingNext]_rankVars PROVE RankingIInv'
  OBVIOUS
<1>1. ASSUME NEW s \in Scores, FinishGame(s) PROVE RankingIInv'
  BY <1>1, FinishGameKeeps
<1>2. CASE SetDefault
  BY <1>2, SetDefaultKeeps
<1>3. CASE Save
  BY <1>3, SaveKeeps
<1>4. CASE ShowRanking \/ Crash
  BY <1>4, ShowRankingKeeps, CrashKeeps
<1>5. CASE UNCHANGED rankVars
  <2>1. RankingTypeOK' /\ Shifting' /\ Ordered'
    BY <1>5 DEF rankVars, RankingIInv, RankingTypeOK, Shifting, Ordered
  <2>2. QED
    BY <1>5, <2>1 DEF rankVars, RankingIInv
<1>6. QED
  BY <1>1, <1>2, <1>3, <1>4, <1>5 DEF RankingNext

LEMMA RankingInvariance == RankingSpec => []RankingIInv
BY RankingInitial, RankingInductive, PTL DEF RankingSpec

(* Type correctness, for any scores, games and crashes.                    *)
THEOREM RankingTypeCorrect == RankingSpec => []RankingTypeOK
<1>1. RankingIInv => RankingTypeOK
  BY DEF RankingIInv
<1>2. QED
  BY <1>1, RankingInvariance, PTL

(* Whenever the process dies, between two calls of set or before they are  *)
(* saved, the next one reads a ranking that is in order.                   *)
THEOREM SavedRankingStaysSorted == RankingSpec => []SavedRankingIsSorted
<1>1. RankingIInv => SavedRankingIsSorted
  BY DEF RankingIInv, Proper, SavedRankingIsSorted
<1>2. QED
  BY <1>1, RankingInvariance, PTL

(* ... and that holds only scores of games that ended.                     *)
THEOREM SavedScoresAreEarned == RankingSpec => []SavedScoresWereEarned
<1>1. RankingIInv => SavedScoresWereEarned
  BY DEF RankingIInv, Earned, SavedScoresWereEarned
<1>2. QED
  BY <1>1, RankingInvariance, PTL

(* A leaderboard on the screen is in order and never ahead of the keys.    *)
THEOREM LabelsAreModest == RankingSpec => []LabelsNeverOverstate
<1>1. RankingIInv => LabelsNeverOverstate
  BY DEF RankingIInv, Proper, LabelsNeverOverstate
<1>2. QED
  BY <1>1, RankingInvariance, PTL

(* No step, a crash between two calls of set included, takes a place from  *)
(* what was saved.                                                         *)
THEOREM SavedRankingGrows == RankingSpec => SavedRankingOnlyGrows
<1>1. RankingIInv /\ [RankingNext]_rankVars => [Below(disk, disk')]_rankVars
  <2> SUFFICES ASSUME RankingIInv, RankingNext PROVE Below(disk, disk')
    OBVIOUS
  <2>1. CASE Save
    BY <2>1, SaveKeeps
  <2>2. CASE disk' = disk
    BY <2>2, BelowReflexive DEF RankingIInv, RankingTypeOK
  <2>3. Save \/ disk' = disk
    BY DEF RankingNext, FinishGame, SetDefault, ShowRanking, Crash
  <2>4. QED
    BY <2>1, <2>2, <2>3
<1>2. QED
  BY <1>1, RankingInvariance, PTL DEF RankingSpec, SavedRankingOnlyGrows
-----------------------------------------------------------------------------
(* The ranking that the table of the three best scores is mapped to.       *)
Mapped == IF target = 0 THEN defaults ELSE entry

(* The table after one more score.                                         *)
Recorded(r, s) ==
  [p \in 1..3 |-> IF p = 1 THEN Top!Larger(r[1], s)
                          ELSE Top!Larger(r[p], Top!Smaller(r[p - 1], s))]

(* A score that beats nobody leaves the table alone.                       *)
LEMMA RecordBeaten ==
  ASSUME NEW r, Proper(r), NEW s \in Int, s <= r[3]
  PROVE  Recorded(r, s) = r
<1>1. r \in [1..3 -> Int] /\ r[1] >= r[2] /\ r[2] >= r[3]
  BY DEF Proper, RankTable, Positions, Sorted
<1>2. \A p \in 1..3 : Recorded(r, s)[p] = r[p]
  BY <1>1 DEF Recorded, Top!Larger, Top!Smaller
<1>3. QED
  BY <1>1, <1>2 DEF Recorded

(* A score that fits at place t moves the places from t on down by one.    *)
LEMMA RecordAt ==
  ASSUME NEW r, Proper(r), NEW s \in Int, NEW t \in 1..3, r[t] < s,
         t > 1 => s <= r[t - 1], NEW q \in [1..3 -> Int],
         \A p \in 1..3 : q[p] = IF p = t THEN s ELSE IF p > t THEN r[p - 1] ELSE r[p]
  PROVE  Recorded(r, s) = q
<1>1. r \in [1..3 -> Int] /\ r[1] >= r[2] /\ r[2] >= r[3]
  BY DEF Proper, RankTable, Positions, Sorted
<1>2. \A p \in 1..3 : Recorded(r, s)[p] = q[p]
  BY <1>1 DEF Recorded, Top!Larger, Top!Smaller
<1>3. QED
  BY <1>2 DEF Recorded

(* Without a crash a step of the ranking leaves the table and the games    *)
(* alone, or records one score in both.                                    *)
LEMMA RecordStep ==
  ASSUME ~MayCrash, RankingIInv, RankingNext
  PROVE  \/ UNCHANGED <<Mapped, games>>
         \/ \E s \in Scores : games' = Append(games, s) /\ Mapped' = Recorded(Mapped, s)
<1>1. ASSUME NEW s \in Scores, FinishGame(s)
      PROVE  \/ UNCHANGED <<Mapped, games>>
             \/ games' = Append(games, s) /\ Mapped' = Recorded(Mapped, s)
  <2>1. s \in Int /\ Proper(defaults) /\ Mapped = defaults /\ Mapped' = defaults
    BY <1>1, RankingAssumption DEF FinishGame, RankingIInv, Mapped
  <2>2. CASE Target(s) = 0
    BY <1>1, <2>1, <2>2, TargetFits, RecordBeaten DEF FinishGame
  <2>3. CASE Target(s) # 0
    BY <1>1, <2>1, <2>3 DEF FinishGame
  <2>4. QED
    BY <2>2, <2>3
<1>2. CASE SetDefault /\ next # target
  BY <1>2 DEF SetDefault, Mapped
<1>3. CASE SetDefault /\ next = target
  <2>1. /\ target # 0 /\ next = target /\ Mapped = entry /\ Mapped' = Written
        /\ games' = Append(games, score)
    BY <1>3 DEF SetDefault, Mapped
  <2>2. /\ next \in 1..3 /\ Written \in [1..3 -> Int]
        /\ \A p \in 1..3 \ {next} : Written[p] = defaults[p]
        /\ Written[next] = score
    BY <2>1, WrittenIsBetter DEF Proper, RankTable, Positions
  <2>3. /\ Proper(entry) /\ score \in Scores /\ entry[target] < score
        /\ target > 1 => score <= entry[target - 1]
        /\ \A p \in 1..3 : defaults[p] = IF p > next THEN entry[p - 1] ELSE entry[p]
    BY <2>1 DEF RankingIInv, Shifting, Positions
  <2>4. \A p \in 1..3 : Written[p] = IF p = target THEN score
                                     ELSE IF p > target THEN entry[p - 1] ELSE entry[p]
    BY <2>1, <2>2, <2>3
  <2>5. Recorded(entry, score) = Written
    BY <2>1, <2>2, <2>3, <2>4, RecordAt, RankingAssumption
  <2>6. QED
    BY <2>1, <2>3, <2>5
<1>4. CASE Save \/ ShowRanking
  BY <1>4 DEF Save, ShowRanking, Mapped
<1>5. QED
  BY <1>1, <1>2, <1>3, <1>4 DEF RankingNext, Crash

(* Without crashes UpdateRanking, call by call, implements the table of    *)
(* the three best scores, for any scores and any number of games.          *)
THEOREM RankingImplementsTopThree ==
  ASSUME ~MayCrash
  PROVE  RankingSpec => ImplementsTopThree
<1>1. RankingInit => Top!TopInit
  BY DEF RankingInit, Top!TopInit, Empty, Positions
<1>2. RankingIInv /\ [RankingNext]_rankVars
        => [Top!TopNext]_<<IF target = 0 THEN defaults ELSE entry, games>>
  <2> SUFFICES ASSUME RankingIInv, [RankingNext]_rankVars
               PROVE  [Top!TopNext]_<<IF target = 0 THEN defaults ELSE entry, games>>
    OBVIOUS
  <2>1. CASE UNCHANGED rankVars
    BY <2>1 DEF rankVars
  <2>2. CASE RankingNext
    BY <2>2, RecordStep DEF Mapped, Recorded, Top!TopNext, Top!Record
  <2>3. QED
    BY <2>1, <2>2
<1>3. QED
  BY <1>1, <1>2, RankingInvariance, PTL DEF RankingSpec, ImplementsTopThree, Top!TopSpec
-----------------------------------------------------------------------------
(* TopThree counts with a Cardinality of its own; it is the same one.      *)
LEMMA SameCardinality == \A S : Top!Cardinality(S) = Cardinality(S)
BY DEF Cardinality, Top!Cardinality

(* How many places of a ranking hold v or more: the first ones.            *)
LEMMA AtLeastInRanking ==
  ASSUME NEW r, Proper(r), NEW v \in Int
  PROVE  Top!AtLeast(r, v) = IF r[3] >= v THEN 3 ELSE IF r[2] >= v THEN 2
                             ELSE IF r[1] >= v THEN 1 ELSE 0
<1> DEFINE k == IF r[3] >= v THEN 3 ELSE IF r[2] >= v THEN 2 ELSE IF r[1] >= v THEN 1 ELSE 0
<1>1. r \in [1..3 -> Int] /\ r[1] >= r[2] /\ r[2] >= r[3]
  BY DEF Proper, RankTable, Positions, Sorted
<1>2. {i \in DOMAIN r : r[i] >= v} = 1..k /\ k \in 0..3
  BY <1>1
<1> HIDE DEF k
<1>3. Cardinality(1..k) = k
  <2>1. k \in Int /\ k >= 0
    BY <1>2
  <2>2. QED
    BY <2>1, FS_Interval
<1>4. QED
  BY <1>2, <1>3, SameCardinality DEF k, Top!AtLeast

LEMMA AtLeastAppend ==
  ASSUME NEW g \in Seq(Int), NEW s \in Int, NEW v \in Int
  PROVE  /\ Top!AtLeast(g, v) \in Nat
         /\ Top!AtLeast(Append(g, s), v) = Top!AtLeast(g, v) + (IF s >= v THEN 1 ELSE 0)
<1> DEFINE n == Len(g)
           h == Append(g, s)
           A == {i \in DOMAIN g : g[i] >= v}
<1>1. n \in Nat /\ DOMAIN g = 1..n /\ DOMAIN h = 1..(n + 1)
  BY AppendProperties
<1>2. h[n + 1] = s /\ \A i \in 1..n : h[i] = g[i]
  BY AppendProperties
<1> HIDE DEF h, n
<1>3. {i \in DOMAIN h : h[i] >= v} = IF s >= v THEN A \cup {n + 1} ELSE A
  BY <1>1, <1>2
<1>4. IsFiniteSet(A) /\ n + 1 \notin A
  <2>1. IsFiniteSet(1..n)
    BY <1>1, FS_Interval
  <2>2. QED
    BY <1>1, <2>1, FS_Subset
<1> HIDE DEF A
<1>5. Cardinality(A) \in Nat /\ Cardinality(A \cup {n + 1}) = Cardinality(A) + 1
  BY <1>4, FS_AddElement, FS_CardinalityType
<1>6. Top!AtLeast(g, v) = Cardinality(A)
  BY SameCardinality DEF Top!AtLeast, A
<1>7. Top!AtLeast(h, v) = Cardinality(IF s >= v THEN A \cup {n + 1} ELSE A)
  BY <1>3, SameCardinality DEF Top!AtLeast
<1>8. QED
  BY <1>5, <1>6, <1>7 DEF h

(* For every positive v the table holds as many entries of v or more as    *)
(* there were games, up to three.                                          *)
BestOf(r, g) ==
  \A v \in Int : v > 0 => Top!AtLeast(r, v) = Top!Smaller(3, Top!AtLeast(g, v))

LEMMA RecordKeepsBest ==
  ASSUME NEW r, Proper(r), NEW g \in Seq(Int), NEW s \in Int, BestOf(r, g),
         Proper(Recorded(r, s))
  PROVE  BestOf(Recorded(r, s), Append(g, s))
<1> SUFFICES ASSUME NEW v \in Int, v > 0
             PROVE  Top!AtLeast(Recorded(r, s), v) =
                    Top!Smaller(3, Top!AtLeast(Append(g, s), v))
  BY DEF BestOf
<1> DEFINE q == Recorded(r, s)
           a == Top!AtLeast(g, v)
<1>1. r \in [1..3 -> Int] /\ r[1] >= r[2] /\ r[2] >= r[3]
  BY DEF Proper, RankTable, Positions, Sorted
<1>2. /\ q[1] = IF r[1] < s THEN s ELSE r[1]
      /\ q[2] = IF r[1] < s THEN r[1] ELSE IF r[2] < s THEN s ELSE r[2]
      /\ q[3] = IF r[2] < s THEN r[2] ELSE IF r[3] < s THEN s ELSE r[3]
  BY <1>1 DEF Recorded, Top!Larger, Top!Smaller
<1> HIDE DEF q
<1>3. a \in Nat /\ Top!AtLeast(Append(g, s), v) = a + (IF s >= v THEN 1 ELSE 0)
  BY AtLeastAppend
<1>4. Top!AtLeast(r, v) = IF a < 3 THEN a ELSE 3
  BY <1>3 DEF BestOf, Top!Smaller
<1>5. Top!AtLeast(r, v) = IF r[3] >= v THEN 3 ELSE IF r[2] >= v THEN 2
                          ELSE IF r[1] >= v THEN 1 ELSE 0
  BY AtLeastInRanking
<1>6. Top!AtLeast(q, v) = IF q[3] >= v THEN 3 ELSE IF q[2] >= v THEN 2
                          ELSE IF q[1] >= v THEN 1 ELSE 0
  BY AtLeastInRanking DEF q
<1> HIDE DEF a
<1>7. Top!AtLeast(q, v) = IF a + (IF s >= v THEN 1 ELSE 0) < 3
                          THEN a + (IF s >= v THEN 1 ELSE 0) ELSE 3
  BY <1>1, <1>2, <1>3, <1>4, <1>5, <1>6
<1>8. QED
  BY <1>3, <1>7 DEF q, Top!Smaller

(* Without crashes the keys hold, between two updates, the three best      *)
(* positive scores of all the games played, ties included, however many    *)
(* games there were.                                                       *)
THEOREM KeysHoldBestGames ==
  ASSUME ~MayCrash
  PROVE  RankingSpec => []HoldsBestGames
<1> DEFINE Inv == RankingIInv /\ BestOf(Mapped, games)
<1>1. RankingInit => BestOf(Mapped, games)
  <2> SUFFICES ASSUME RankingInit, NEW v \in Int, v > 0
               PROVE  Top!AtLeast(Empty, v) = Top!Smaller(3, Top!AtLeast(<<>>, v))
    BY DEF RankingInit, Mapped, BestOf
  <2>1. Top!AtLeast(Empty, v) = 0
    BY EmptyIsProper, AtLeastInRanking DEF Empty, Positions
  <2>2. {i \in DOMAIN <<>> : <<>>[i] >= v} = {}
    OBVIOUS
  <2>3. QED
    BY <2>1, <2>2, FS_EmptySet, SameCardinality DEF Top!AtLeast, Top!Smaller
<1>2. RankingIInv => Proper(Mapped)
  BY DEF RankingIInv, Shifting, Mapped
<1>3. ASSUME Inv, RankingIInv', [RankingNext]_rankVars
      PROVE  BestOf(Mapped, games)'
  <2>1. CASE UNCHANGED <<Mapped, games>>
    BY <1>3, <2>1
  <2>2. ASSUME NEW s \in Scores, games' = Append(games, s), Mapped' = Recorded(Mapped, s)
        PROVE  BestOf(Mapped, games)'
    <3>1. Proper(Mapped) /\ Proper(Mapped') /\ games \in Seq(Int) /\ s \in Int
      BY <1>2, <1>3, RankingAssumption DEF RankingIInv, RankingTypeOK, Shifting, Mapped
    <3>2. QED
      BY <1>3, <2>2, <3>1, RecordKeepsBest
  <2>3. QED
    BY <1>3, <2>1, <2>2, RecordStep DEF rankVars, Mapped
<1>4. Inv => HoldsBestGames
  <2> SUFFICES ASSUME Inv, target = 0,
                      NEW v \in {games[i] : i \in DOMAIN games} \cup {defaults[p] : p \in 1..3},
                      v > 0
               PROVE  Top!AtLeast(defaults, v) = Top!Smaller(3, Top!AtLeast(games, v))
    BY DEF HoldsBestGames, Top!HoldsBestGames
  <2>1. v \in Int
    BY DEF RankingIInv, RankingTypeOK, RankTable, Positions
  <2>2. QED
    BY <2>1 DEF BestOf, Mapped
<1>5. QED
  BY <1>1, <1>3, <1>4, RankingInitial, RankingInvariance, PTL DEF RankingSpec
=============================================================================
