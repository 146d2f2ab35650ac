---------------------------- MODULE TickerProofs ----------------------------
(***************************************************************************)
(* Proofs about Ticker for every cadence, ceiling and bound: what the      *)
(* backoff and the upgrade schedule compute for every count, that every    *)
(* variable keeps to its values, that a restarted upgrade schedule is not  *)
(* lost, and that a contact that was connected inherits no cooldown.       *)
(***************************************************************************)
EXTENDS Ticker, Integers, FiniteSetTheorems, SequenceTheorems, WellFoundedInduction, TLAPS

-----------------------------------------------------------------------------
(* The backoff of every attempt.                                           *)

\* Induction, over a set: what holds of 0 and is handed on holds of all numbers.
LEMMA Inductive ==
    ASSUME NEW S, 0 \in S, \A k \in Nat : k \in S => k + 1 \in S
    PROVE  Nat \subseteq S
<1>. DEFINE T == Nat \ S
            Upto == {0..x : x \in T}
<1>. SUFFICES ASSUME T # {} PROVE FALSE
    OBVIOUS
<1>1. Upto \subseteq FiniteSubsetsOf(Nat) /\ Upto # {}
    <2>1. ASSUME NEW x \in T PROVE 0..x \subseteq Nat /\ IsFiniteSet(0..x)
        BY FS_Interval
    <2>. QED
        BY <2>1 DEF FiniteSubsetsOf
<1>2. \E u \in Upto : \A w \in Upto : ~(<<w, u>> \in StrictSubsetOrdering(Nat))
    <2>. HIDE DEF Upto
    <2>. QED
        BY <1>1, FS_StrictSubsetOrderingWellFounded, WFMin
<1>3. PICK x \in T : \A w \in Upto : ~(<<w, 0..x>> \in StrictSubsetOrdering(Nat))
    BY <1>2
<1>4. x \in Nat /\ x - 1 \in T
    BY <1>3
<1>5. 0..(x - 1) \subseteq 0..x /\ x \in 0..x /\ x \notin 0..(x - 1) /\ 0..x \subseteq Nat
    BY <1>4
<1>6. <<0..(x - 1), 0..x>> \in StrictSubsetOrdering(Nat)
    <2>. DEFINE a == 0..(x - 1)
                b == 0..x
    <2>1. a \subseteq b /\ a # b /\ b \subseteq Nat
        BY <1>5
    <2>. HIDE DEF a, b
    <2>. QED
        BY <2>1 DEF StrictSubsetOrdering
<1>. QED
    BY <1>3, <1>4, <1>6

\* The shift of cooldown_for is the repeated doubling its recursion states.
LEMMA FactorIs ==
    Factor = [step \in 0..MAX_STEP |-> IF step = 0 THEN 1 ELSE 2 * Factor[step - 1]]
<1>. DEFINE Next1(n, f) == [step \in 0..n |-> IF step = 0 THEN 1 ELSE 2 * f[step - 1]]
            Solved(n) == \E f : f = Next1(n, f)
            S == {n \in Nat : Solved(n)}
<1>1. 0 \in S
    <2>1. [step \in 0..0 |-> 1] = Next1(0, [step \in 0..0 |-> 1])
        OBVIOUS
    <2>. QED
        BY <2>1
<1>2. ASSUME NEW n \in Nat, n \in S PROVE n + 1 \in S
    <2>1. PICK f : f = Next1(n, f)
        BY <1>2
    <2>2. DEFINE g == Next1(n + 1, f)
    <2>3. ASSUME NEW step \in 0..(n + 1) 
          PROVE  g[step] = IF step = 0 THEN 1 ELSE 2 * g[step - 1]
        <3>1. CASE step = 0
            BY <3>1
        <3>2. CASE step # 0
            <4>1. step - 1 \in 0..n /\ step - 1 \in 0..(n + 1)
                BY <3>2
            <4>2. g[step - 1] = f[step - 1]
                BY <2>1, <4>1
            <4>. QED
                BY <3>2, <4>2
        <3>. QED
            BY <3>1, <3>2
    <2>4. g = Next1(n + 1, g)
        BY <2>3
    <2>5. Solved(n + 1)
        <3>. HIDE DEF g
        <3>. QED
            BY <2>4
    <2>. HIDE DEF g, Next1, Solved
    <2>. QED
        BY <2>5
<1>3. MAX_STEP \in S
    <2>. HIDE DEF S
    <2>. QED
        BY <1>1, <1>2, Inductive, TickerAssumption
<1>4. \E f : f = [step \in 0..MAX_STEP |-> IF step = 0 THEN 1 ELSE 2 * f[step - 1]]
    BY <1>3
<1>. QED
    BY <1>4, Zenon DEF Factor

\* And so a number, that never falls (1u32 << step).
LEMMA FactorGrows ==
    /\ \A step \in 0..MAX_STEP : Factor[step] \in Nat \ {0}
    /\ \A step \in 0..MAX_STEP : step < MAX_STEP => Factor[step + 1] = 2 * Factor[step]
    /\ \A low, high \in 0..MAX_STEP : low <= high => Factor[low] <= Factor[high]
<1>1. \A step \in 0..MAX_STEP :
          Factor[step] = IF step = 0 THEN 1 ELSE 2 * Factor[step - 1]
    BY FactorIs
<1>2. \A step \in 0..MAX_STEP : Factor[step] \in Nat \ {0}
    <2>. DEFINE S == {n \in Nat : n \in 0..MAX_STEP => Factor[n] \in Nat \ {0}}
    <2>1. 0 \in S
        BY <1>1
    <2>2. ASSUME NEW k \in Nat, k \in S PROVE k + 1 \in S
        <3>. SUFFICES ASSUME k + 1 \in 0..MAX_STEP PROVE Factor[k + 1] \in Nat \ {0}
            OBVIOUS
        <3>1. k \in 0..MAX_STEP /\ (k + 1) - 1 = k /\ k + 1 # 0
            BY TickerAssumption
        <3>2. Factor[k + 1] = 2 * Factor[k] /\ Factor[k] \in Nat \ {0}
            BY <1>1, <2>2, <3>1
        <3>. QED
            BY <3>2
    <2>3. Nat \subseteq S
        <3>. HIDE DEF S
        <3>. QED
            BY <2>1, <2>2, Inductive
    <2>. QED
        BY <2>3
<1>3. ASSUME NEW step \in 0..MAX_STEP, step < MAX_STEP
      PROVE  Factor[step + 1] = 2 * Factor[step]
    <2>1. step + 1 \in 0..MAX_STEP /\ (step + 1) - 1 = step /\ step + 1 # 0
        BY <1>3, TickerAssumption
    <2>. QED
        BY <1>1, <2>1
<1>4. ASSUME NEW low \in 0..MAX_STEP
      PROVE  \A high \in 0..MAX_STEP : low <= high => Factor[low] <= Factor[high]
    <2>. DEFINE S == {n \in Nat : low + n <= MAX_STEP => Factor[low] <= Factor[low + n]}
    <2>1. 0 \in S
        BY <1>2
    <2>2. ASSUME NEW k \in Nat, k \in S PROVE k + 1 \in S
        <3>. SUFFICES ASSUME low + (k + 1) <= MAX_STEP
                      PROVE  Factor[low] <= Factor[low + (k + 1)]
            OBVIOUS
        <3>1. /\ low + k \in 0..MAX_STEP /\ low + k < MAX_STEP
              /\ (low + k) + 1 = low + (k + 1)
            BY TickerAssumption
        <3>2. Factor[low + (k + 1)] = 2 * Factor[low + k]
            BY <1>3, <3>1
        <3>3. Factor[low] <= Factor[low + k] /\ low + k \in 0..MAX_STEP
            BY <2>2, <3>1
        <3>. QED
            BY <1>2, <3>2, <3>3
    <2>3. Nat \subseteq S
        <3>. HIDE DEF S
        <3>. QED
            BY <2>1, <2>2, Inductive
    <2>4. ASSUME NEW high \in 0..MAX_STEP, low <= high PROVE Factor[low] <= Factor[high]
        <3>1. high - low \in Nat /\ low + (high - low) = high /\ high <= MAX_STEP
            BY <2>4, TickerAssumption
        <3>. QED
            BY <2>3, <3>1
    <2>. QED
        BY <2>4
<1>. QED
    BY <1>2, <1>3, <1>4

\* cooldown_for(step) for every attempt: from BASE on (or CEILING at once) it
\* doubles up to CEILING, never shrinks, and after MAX_STEP stays what it is.
THEOREM CooldownGrows ==
    /\ Cooldown(0) = Cap(BASE, CEILING)
    /\ \A step \in Nat :
          /\ Cooldown(step) \in 1..CEILING
          /\ step < MAX_STEP => Cooldown(step + 1) = Cap(2 * Cooldown(step), CEILING)
          /\ step >= MAX_STEP => Cooldown(step) = Cooldown(MAX_STEP)
    /\ \A low, high \in Nat : low <= high => Cooldown(low) <= Cooldown(high)
<1>. DEFINE raw(step) == BASE * Factor[Cap(step, MAX_STEP)]
<1>0. \A step \in Nat : Cooldown(step) = Cap(raw(step), CEILING)
    BY DEF Cooldown
<1>1. ASSUME NEW step \in Nat
      PROVE  Cap(step, MAX_STEP) \in 0..MAX_STEP /\ raw(step) \in Nat \ {0}
    <2>1. Cap(step, MAX_STEP) \in 0..MAX_STEP
        BY TickerAssumption DEF Cap
    <2>2. Factor[Cap(step, MAX_STEP)] \in Nat \ {0} /\ BASE \in Nat \ {0}
        BY <2>1, FactorGrows, TickerAssumption
    <2>3. \A a, b \in Nat \ {0} : a * b \in Nat \ {0}
        OBVIOUS
    <2>. QED
        BY <2>1, <2>2, <2>3
<1>2. raw(0) = BASE
    <2>1. Cap(0, MAX_STEP) = 0 /\ 0 \in 0..MAX_STEP
        BY TickerAssumption DEF Cap
    <2>2. Factor[0] = 1
        BY <2>1, FactorIs
    <2>. QED
        BY <2>1, <2>2, TickerAssumption
<1>3. ASSUME NEW step \in Nat, step < MAX_STEP PROVE raw(step + 1) = 2 * raw(step)
    <2>1. Cap(step, MAX_STEP) = step /\ Cap(step + 1, MAX_STEP) = step + 1
          /\ step \in 0..MAX_STEP
        BY <1>3, TickerAssumption DEF Cap
    <2>2. Factor[step + 1] = 2 * Factor[step] /\ Factor[step] \in Nat
        BY <1>3, <2>1, FactorGrows
    <2>3. \A a, b \in Nat : a * (2 * b) = 2 * (a * b)
        OBVIOUS
    <2>. QED
        BY <2>1, <2>2, <2>3, TickerAssumption
<1>4. ASSUME NEW low \in Nat, NEW high \in Nat, low <= high PROVE raw(low) <= raw(high)
    <2>1. /\ Cap(low, MAX_STEP) \in 0..MAX_STEP /\ Cap(high, MAX_STEP) \in 0..MAX_STEP
          /\ Cap(low, MAX_STEP) <= Cap(high, MAX_STEP)
        BY <1>4, TickerAssumption DEF Cap
    <2>2. /\ Factor[Cap(low, MAX_STEP)] <= Factor[Cap(high, MAX_STEP)]
          /\ Factor[Cap(low, MAX_STEP)] \in Nat /\ Factor[Cap(high, MAX_STEP)] \in Nat
        BY <2>1, FactorGrows
    <2>3. \A a, b, c \in Nat : b <= c => a * b <= a * c
        OBVIOUS
    <2>. QED
        BY <2>2, <2>3, TickerAssumption
<1>5. ASSUME NEW step \in Nat, step >= MAX_STEP PROVE Cooldown(step) = Cooldown(MAX_STEP)
    BY <1>5, TickerAssumption DEF Cooldown, Cap
<1>. HIDE DEF raw
<1>6. ASSUME NEW step \in Nat
      PROVE  /\ Cooldown(step) \in 1..CEILING
             /\ step < MAX_STEP => Cooldown(step + 1) = Cap(2 * Cooldown(step), CEILING)
    <2>1. Cooldown(step) \in 1..CEILING
        BY <1>0, <1>1, TickerAssumption DEF Cap
    <2>2. ASSUME step < MAX_STEP PROVE Cooldown(step + 1) = Cap(2 * Cooldown(step), CEILING)
        BY <1>0, <1>1, <1>3, <2>2, TickerAssumption DEF Cap
    <2>. QED
        BY <2>1, <2>2
<1>7. ASSUME NEW low \in Nat, NEW high \in Nat, low <= high
      PROVE  Cooldown(low) <= Cooldown(high)
    BY <1>0, <1>1, <1>4, <1>7, TickerAssumption DEF Cap
<1>8. Cooldown(0) = Cap(BASE, CEILING)
    BY <1>0, <1>2
<1>. QED
    BY <1>5, <1>6, <1>7, <1>8

-----------------------------------------------------------------------------
(* The upgrade schedule of every visit.                                    *)

\* Division with a rest has one result (attempts % Every).
LEMMA Rest ==
    ASSUME NEW q \in Int, NEW r \in 0..(Every - 1), Every * q + r \in Nat
    PROVE  (Every * q + r) % Every = r
<1>. DEFINE n == Every * q + r
<1>1. Every \in Nat \ {0} /\ n \in Nat
    BY TickerAssumption
<1>2. n % Every \in 0..(Every - 1) /\ n = Every * (n \div Every) + (n % Every)
      /\ n \div Every \in Nat
    <2>. HIDE DEF n
    <2>. QED
        BY <1>1
<1>3. \A p \in Int, s \in 0..(Every - 1) : Every * q + r = Every * p + s => r = s
    BY <1>1
<1>. QED
    BY <1>2, <1>3

\* One turn more of the cadence leaves the rest (attempts % Every).
LEMMA RestRepeats ==
    ASSUME NEW n \in Nat
    PROVE  (n + Every) % Every = n % Every
<1>1. /\ n % Every \in 0..(Every - 1) /\ n = Every * (n \div Every) + (n % Every)
      /\ n \div Every \in Nat
    BY TickerAssumption
<1>2. n + Every = Every * ((n \div Every) + 1) + (n % Every)
    <2>1. \A e, d, r \in Nat : Every = e => (e * d + r) + e = e * (d + 1) + r
        OBVIOUS
    <2>. QED
        BY <1>1, <2>1, TickerAssumption
<1>3. n + Every \in Nat /\ (n \div Every) + 1 \in Int
    BY <1>1, TickerAssumption
<1>. QED
    BY <1>1, <1>2, <1>3, Rest

\* The count of the code, and the one folded behind the burst that stands for it.
Folds(attempts, count) ==
    /\ count \in 0..(LastOfBurst + Every)
    /\ attempts \in Nat
    /\ attempts = count \/ (attempts > LastOfBurst /\ count > LastOfBurst)
    /\ attempts % Every = count % Every

\* The count that upgrade_backoff keeps grows for ever (saturating_add): Ticker's, which
\* Counted folds back behind the burst, makes the same visits attempts.
THEOREM UpgradeCountFolds ==
    /\ Folds(0, 0)
    /\ \A attempts, count \in Nat : Folds(attempts, count) =>
          /\ ShouldAttempt(attempts) <=> ShouldAttempt(count)
          /\ Folds(attempts + 1, Counted(count))
<1>1. Folds(0, 0)
    BY TickerAssumption DEF Folds
<1>2. ASSUME NEW attempts \in Nat, NEW count \in Nat, Folds(attempts, count)
      PROVE  ShouldAttempt(attempts) <=> ShouldAttempt(count)
    BY <1>2, TickerAssumption DEF Folds, ShouldAttempt
<1>3. ASSUME NEW n \in Nat, NEW k \in Nat, n % Every = k % Every
      PROVE  (n + 1) % Every = (k + 1) % Every
    <2>1. ASSUME NEW m \in Nat
          PROVE  (m + 1) % Every = IF (m % Every) + 1 = Every THEN 0 ELSE (m % Every) + 1
        <3>1. /\ m % Every \in 0..(Every - 1) /\ m = Every * (m \div Every) + (m % Every)
              /\ m \div Every \in Nat /\ Every \in Nat \ {0}
            BY TickerAssumption
        <3>2. CASE (m % Every) + 1 = Every
            <4>1. m + 1 = Every * ((m \div Every) + 1) + 0
                BY <3>1, <3>2
            <4>2. (m \div Every) + 1 \in Int /\ 0 \in 0..(Every - 1) /\ m + 1 \in Nat
                BY <3>1
            <4>. QED
                BY <3>2, <4>1, <4>2, Rest
        <3>3. CASE (m % Every) + 1 # Every
            <4>1. m + 1 = Every * (m \div Every) + ((m % Every) + 1)
                BY <3>1
            <4>2. m \div Every \in Int /\ (m % Every) + 1 \in 0..(Every - 1) /\ m + 1 \in Nat
                BY <3>1, <3>3
            <4>. QED
                BY <3>3, <4>1, <4>2, Rest
        <3>. QED
            BY <3>2, <3>3
    <2>. QED
        BY <1>3, <2>1
<1>4. ASSUME NEW attempts \in Nat, NEW count \in Nat, Folds(attempts, count)
      PROVE  Folds(attempts + 1, Counted(count))
    <2>1. (attempts + 1) % Every = (count + 1) % Every
        BY <1>3, <1>4 DEF Folds
    <2>2. CASE count < LastOfBurst + Every
        BY <1>4, <2>1, <2>2, TickerAssumption DEF Folds, Counted
    <2>3. CASE count = LastOfBurst + Every
        <3>1. /\ Counted(count) = LastOfBurst + 1 /\ count + 1 = (LastOfBurst + 1) + Every
              /\ LastOfBurst + 1 \in Nat
            BY <2>3, TickerAssumption DEF Counted
        <3>2. (count + 1) % Every = Counted(count) % Every
            BY <3>1, RestRepeats
        <3>3. attempts + 1 > LastOfBurst /\ Counted(count) > LastOfBurst
              /\ Counted(count) \in 0..(LastOfBurst + Every)
            BY <1>4, <2>3, <3>1, TickerAssumption DEF Folds
        <3>. QED
            BY <2>1, <3>2, <3>3 DEF Folds
    <2>. QED
        BY <1>4, <2>2, <2>3, TickerAssumption DEF Folds
<1>. QED
    BY <1>1, <1>2, <1>4

\* However often a contact has been visited, an attempt comes again within the burst
\* and one turn of the cadence (should_attempt_upgrade: periodic, not permanent).
THEOREM UpgradeRecurs ==
    \A attempts \in Nat :
        \E more \in 0..(LastOfBurst + Every) : ShouldAttempt(attempts + more)
<1>1. ASSUME NEW n \in Nat, n > LastOfBurst
      PROVE  \E more \in 0..(Every - 1) : ShouldAttempt(n + more)
    <2>1. /\ n % Every \in 0..(Every - 1) /\ n = Every * (n \div Every) + (n % Every)
          /\ n \div Every \in Nat /\ Every \in Nat \ {0} /\ LastOfBurst \in Nat
        BY TickerAssumption
    <2>2. CASE n % Every = 0
        <3>1. ShouldAttempt(n + 0) /\ 0 \in 0..(Every - 1)
            BY <1>1, <2>1, <2>2 DEF ShouldAttempt
        <3>. QED
            BY <3>1
    <2>3. CASE n % Every # 0
        <3>. DEFINE more == Every - (n % Every)
        <3>1. more \in 0..(Every - 1)
            BY <2>1, <2>3
        <3>2. n + more = Every * ((n \div Every) + 1) + 0
            BY <2>1
        <3>3. (n \div Every) + 1 \in Int /\ 0 \in 0..(Every - 1) /\ n + more \in Nat
            BY <2>1, <3>1
        <3>4. (n + more) % Every = 0
            BY <3>2, <3>3, Rest
        <3>5. n + more > LastOfBurst
            BY <1>1, <2>1, <3>1
        <3>. QED
            BY <3>1, <3>4, <3>5 DEF ShouldAttempt
    <2>. QED
        BY <2>2, <2>3
<1>2. ASSUME NEW n \in Nat, n <= LastOfBurst
      PROVE  \E more \in 0..(LastOfBurst + Every) : ShouldAttempt(n + more)
    <2>1. LastOfBurst + 1 \in Nat /\ LastOfBurst + 1 > LastOfBurst
        BY TickerAssumption
    <2>2. PICK more \in 0..(Every - 1) : ShouldAttempt((LastOfBurst + 1) + more)
        BY <1>1, <2>1
    <2>3. /\ (LastOfBurst + 1 - n) + more \in 0..(LastOfBurst + Every)
          /\ n + ((LastOfBurst + 1 - n) + more) = (LastOfBurst + 1) + more
        BY <1>2, TickerAssumption
    <2>. QED
        BY <2>2, <2>3
<1>3. 0..(Every - 1) \subseteq 0..(LastOfBurst + Every)
    BY TickerAssumption
<1>4. \A n \in Nat : n > LastOfBurst \/ n <= LastOfBurst
    BY TickerAssumption
<1>. QED
    BY <1>1, <1>2, <1>3, <1>4

-----------------------------------------------------------------------------
(* The queue.                                                              *)

\* A query answer without some rows is the others, each once and in its order
\* (the rows drain_queue_for_peer leaves in the sync queue as they are).
LEMMA WithoutKeeps ==
    ASSUME NEW queue \in Seq(Row), IsInjective(queue), NEW rows
    PROVE  /\ Without(queue, rows) \in Seq(Row)
           /\ IsInjective(Without(queue, rows))
           /\ Range(Without(queue, rows)) = Range(queue) \ rows
           /\ \A p, q \in 1..Len(Without(queue, rows)) : p < q =>
                 \E i, j \in 1..Len(queue) :
                     /\ i < j
                     /\ queue[i] = Without(queue, rows)[p]
                     /\ queue[j] = Without(queue, rows)[q]
<1>. DEFINE left == {i \in 1..Len(queue) : queue[i] \notin rows}
            upto(i) == {j \in left : j <= i}
            place(i) == Cardinality(upto(i))
            n == Cardinality(left)
            at(p) == CHOOSE i \in left : place(i) = p
            rest == [p \in 1..n |-> queue[at(p)]]
<1>1. Without(queue, rows) = rest
    BY DEF Without
<1>2. /\ left \subseteq 1..Len(queue) /\ Len(queue) \in Nat /\ IsFiniteSet(left) /\ n \in Nat
      /\ left \subseteq Nat
    <2>1. left \subseteq 1..Len(queue) /\ Len(queue) \in Nat
        OBVIOUS
    <2>. HIDE DEF left
    <2>2. IsFiniteSet(1..Len(queue))
        BY <2>1, FS_Interval
    <2>3. IsFiniteSet(left)
        BY <2>1, <2>2, FS_Subset
    <2>4. n \in Nat
        BY <2>3, FS_CardinalityType
    <2>. QED
        BY <2>1, <2>3, <2>4
<1>3. \A i \in left : upto(i) \in SUBSET left /\ i \in upto(i)
    BY <1>2
<1>. HIDE DEF left
<1>4. ASSUME NEW i \in left PROVE place(i) \in 1..n
    <2>. DEFINE u == upto(i)
    <2>1. u \in SUBSET left /\ u # {}
        BY <1>3
    <2>. HIDE DEF u
    <2>2. Cardinality(u) \in Nat /\ Cardinality(u) <= n /\ Cardinality(u) # 0
        BY <1>2, <2>1, FS_Subset, FS_CardinalityType, FS_EmptySet
    <2>. QED
        BY <1>2, <2>2 DEF u
<1>5. ASSUME NEW i \in left, NEW j \in left, i < j PROVE place(i) < place(j)
    <2>. DEFINE u == upto(i)
                v == upto(j)
    <2>1. u \in SUBSET v /\ v \in SUBSET left /\ j \in v /\ j \notin u
        <3>1. i \in Nat /\ j \in Nat /\ \A k \in left : k \in Nat
            BY <1>2
        <3>2. \A k \in left : k <= i => k <= j
            BY <1>5, <3>1
        <3>3. j <= j /\ ~(j <= i)
            BY <1>5, <3>1
        <3>. QED
            BY <3>2, <3>3
    <2>. HIDE DEF u, v
    <2>2. IsFiniteSet(v) /\ IsFiniteSet(u)
        BY <1>2, <2>1, FS_Subset
    <2>3. Cardinality(u) <= Cardinality(v) /\ (Cardinality(v) = Cardinality(u) => v = u)
        BY <2>1, <2>2, FS_Subset
    <2>4. Cardinality(u) \in Nat /\ Cardinality(v) \in Nat /\ u # v
        BY <2>1, <2>2, FS_CardinalityType
    <2>5. Cardinality(u) < Cardinality(v)
        BY <2>3, <2>4
    <2>. QED
        BY <2>5 DEF u, v
<1>. HIDE DEF upto, place
<1>6. \A i, j \in left :
          (place(i) = place(j) => i = j) /\ (place(i) < place(j) => i < j)
    <2>. SUFFICES ASSUME NEW i \in left, NEW j \in left
                  PROVE  /\ place(i) = place(j) => i = j
                         /\ place(i) < place(j) => i < j
        OBVIOUS
    <2>1. i \in Nat /\ j \in Nat /\ place(i) \in Nat /\ place(j) \in Nat
        BY <1>2, <1>4
    <2>2. (i < j => place(i) < place(j)) /\ (j < i => place(j) < place(i))
        BY <1>5
    <2>. QED
        BY <2>1, <2>2
<1>7. \A p \in 1..n : \E i \in left : place(i) = p
    <2>. DEFINE f == [i \in left |-> place(i)]
    <2>1. f \in Injection(left, 1..n)
        BY <1>4, <1>6 DEF Injection, IsInjective
    <2>2. IsFiniteSet(1..n) /\ Cardinality(1..n) = n
        BY <1>2, FS_Interval
    <2>3. f \in Surjection(left, 1..n)
        <3>. HIDE DEF f
        <3>. QED
            BY <2>1, <2>2, FS_Injection
    <2>. QED
        BY <2>3 DEF Surjection
<1>8. \A p \in 1..n : at(p) \in left /\ place(at(p)) = p
    BY <1>7
<1>. HIDE DEF at
<1>9. \A i \in left : at(place(i)) = i
    BY <1>4, <1>6, <1>8
<1>10. \A p, q \in 1..n : p < q => at(p) < at(q)
    <2>. SUFFICES ASSUME NEW p \in 1..n, NEW q \in 1..n, p < q PROVE at(p) < at(q)
        OBVIOUS
    <2>1. at(p) \in left /\ at(q) \in left /\ place(at(p)) = p /\ place(at(q)) = q
        BY <1>8
    <2>2. place(at(p)) < place(at(q))
        BY <2>1
    <2>. QED
        BY <1>6, <2>1, <2>2
<1>11. \A i \in left : queue[i] \in Row /\ queue[i] \notin rows
    BY DEF left
<1>12. rest \in Seq(Row) /\ Len(rest) = n
    <2>1. \A p \in 1..n : queue[at(p)] \in Row
        BY <1>8, <1>11
    <2>. QED
        BY <1>2, <2>1
<1>13. IsInjective(rest)
    <2>. SUFFICES ASSUME NEW p \in 1..n, NEW q \in 1..n, queue[at(p)] = queue[at(q)]
                  PROVE  p = q
        BY DEF IsInjective
    <2>1. at(p) \in 1..Len(queue) /\ at(q) \in 1..Len(queue)
        BY <1>2, <1>8
    <2>2. at(p) = at(q)
        BY <2>1 DEF IsInjective
    <2>. QED
        BY <1>8, <2>2
<1>14. Range(rest) = Range(queue) \ rows
    <2>1. Range(rest) = {queue[at(p)] : p \in 1..n}
        BY DEF Range
    <2>2. Range(queue) = {queue[i] : i \in 1..Len(queue)}
        BY DEF Range
    <2>3. ASSUME NEW i \in 1..Len(queue), queue[i] \notin rows
          PROVE  \E p \in 1..n : queue[at(p)] = queue[i]
        <3>1. i \in left
            BY <2>3 DEF left
        <3>. QED
            BY <1>4, <1>9, <3>1
    <2>. QED
        BY <1>2, <1>8, <1>11, <2>1, <2>2, <2>3
<1>15. ASSUME NEW p \in 1..n, NEW q \in 1..n, p < q
       PROVE  \E i, j \in 1..Len(queue) : i < j /\ queue[i] = rest[p] /\ queue[j] = rest[q]
    <2>1. at(p) < at(q) /\ at(p) \in 1..Len(queue) /\ at(q) \in 1..Len(queue)
        BY <1>2, <1>8, <1>10, <1>15
    <2>. QED
        BY <2>1
<1>. HIDE DEF rest
<1>. QED
    BY <1>1, <1>12, <1>13, <1>14, <1>15

-----------------------------------------------------------------------------
(* Types.                                                                  *)

\* The swarm has room for one event more as long as there is a connection that can go.
NewsFits == link # "none" => Len(news) <= MaxNews

\* A row that falls due joins the others (the order of due).
LEMMA RowJoins ==
    ASSUME TypeOK, NEW r \in later
    PROVE  /\ Append(due, r) \in Seq(Row) /\ IsInjective(Append(due, r))
           /\ Range(Append(due, r)) = Range(due) \cup {r}
<1>1. /\ due \in Seq(Row) /\ IsInjective(due) /\ r \in Row
      /\ \A i \in 1..Len(due) : due[i] # r
    BY DEF TypeOK, Range
<1>. DEFINE more == Append(due, r)
<1>2. /\ more \in Seq(Row) /\ Len(more) = Len(due) + 1 /\ Len(due) \in Nat
      /\ DOMAIN more = 1..(Len(due) + 1) /\ DOMAIN due = 1..Len(due)
      /\ more[Len(due) + 1] = r /\ \A i \in 1..Len(due) : more[i] = due[i]
    BY <1>1
<1>. HIDE DEF more
<1>3. \A i \in 1..(Len(due) + 1) : i \in 1..Len(due) \/ i = Len(due) + 1
    BY <1>2
<1>4. IsInjective(more)
    BY <1>1, <1>2, <1>3 DEF IsInjective
<1>5. Range(more) = Range(due) \cup {r}
    <2>1. 1..Len(due) \subseteq 1..(Len(due) + 1) /\ Len(due) + 1 \in 1..(Len(due) + 1)
        BY <1>2
    <2>. QED
        BY <1>2, <1>3, <2>1 DEF Range
<1>. QED
    BY <1>2, <1>4, <1>5 DEF more

\* A drain keeps the other rows as they are, and its own either way
\* (drain_queue_for_peer).
LEMMA RowsStay ==
    ASSUME TypeOK, DrainDue \/ DrainAll
    PROVE  /\ due' \in Seq(Row) /\ IsInjective(due')
           /\ later' \subseteq Row \ Range(due')
<1>1. PICK rows \in SUBSET Row : SendRows(rows)
    BY DEF DrainDue, DrainAll, Row
<1>2. PICK acked \in SUBSET rows :
          due' = Without(due, rows) /\ later' = (later \ rows) \cup (rows \ acked)
    BY <1>1 DEF SendRows
<1>3. due \in Seq(Row) /\ IsInjective(due) /\ later \subseteq Row \ Range(due)
    BY DEF TypeOK
<1>4. /\ due' \in Seq(Row) /\ IsInjective(due')
      /\ Range(due') = Range(due) \ rows
    BY <1>2, <1>3, WithoutKeeps
<1>5. later' \subseteq Row \ Range(due')
    BY <1>2, <1>3, <1>4
<1>. QED
    BY <1>4, <1>5

\* An event that joins the others or is taken (the broadcast of NetEvents).
LEMMA NewsStays ==
    ASSUME news \in Seq(Kind \cup {"upgraded", "closed"})
    PROVE  /\ \A event \in Kind \cup {"upgraded", "closed"} :
                 /\ Append(news, event) \in Seq(Kind \cup {"upgraded", "closed"})
                 /\ Len(Append(news, event)) = Len(news) + 1
           /\ news \o <<"direct", "upgraded">> \in Seq(Kind \cup {"upgraded", "closed"})
           /\ Len(news \o <<"direct", "upgraded">>) = Len(news) + 2
           /\ news # <<>> => /\ Tail(news) \in Seq(Kind \cup {"upgraded", "closed"})
                             /\ Len(Tail(news)) = Len(news) - 1
                             /\ Head(news) \in Kind \cup {"upgraded", "closed"}
           /\ Len(news) \in Nat
<1>. DEFINE pair == <<"direct", "upgraded">>
<1>1. pair \in Seq(Kind \cup {"upgraded", "closed"}) /\ Len(pair) = 2
    BY DEF Kind
<1>. HIDE DEF pair
<1>2. /\ news \o pair \in Seq(Kind \cup {"upgraded", "closed"})
      /\ Len(news \o pair) = Len(news) + 2
    <2>. DEFINE Event == Kind \cup {"upgraded", "closed"}
    <2>1. news \in Seq(Event) /\ pair \in Seq(Event)
        BY <1>1
    <2>. HIDE DEF Event
    <2>2. news \o pair \in Seq(Event) /\ Len(news \o pair) = Len(news) + Len(pair)
        BY <2>1, ConcatProperties
    <2>. QED
        BY <1>1, <2>2 DEF Event
<1>3. \A event \in Kind \cup {"upgraded", "closed"} :
          /\ Append(news, event) \in Seq(Kind \cup {"upgraded", "closed"})
          /\ Len(Append(news, event)) = Len(news) + 1
    OBVIOUS
<1>4. news # <<>> => /\ Tail(news) \in Seq(Kind \cup {"upgraded", "closed"})
                     /\ Len(Tail(news)) = Len(news) - 1
                     /\ Head(news) \in Kind \cup {"upgraded", "closed"}
    OBVIOUS
<1>. QED
    BY <1>2, <1>3, <1>4 DEF pair

\* Each step keeps the types and the room (all of the actions).
LEMMA TypeStep == TypeOK /\ NewsFits /\ [Next]_vars => TypeOK' /\ NewsFits'
<1>. USE TickerAssumption DEF netVars, loopVars, tickerVars, rowVars, NewsFits
<1>. SUFFICES ASSUME TypeOK, NewsFits, [Next]_vars PROVE TypeOK' /\ NewsFits'
    OBVIOUS
<1>0. /\ news \in Seq(Kind \cup {"upgraded", "closed"}) /\ Len(news) \in Nat
      /\ Len(news) <= MaxNews + 1 /\ MaxNews \in Nat
    BY DEF TypeOK
<1>1. CASE Tick
    <2>1. backoff' = [attempts |-> backoff.attempts,
                      cool |-> IF backoff.cool = 0 THEN 0 ELSE backoff.cool - 1]
          /\ backoff.attempts \in 0..MAX_STEP /\ backoff.cool \in 0..(CEILING + 1)
        BY <1>1 DEF Tick, TypeOK
    <2>2. backoff' \in [attempts : 0..MAX_STEP, cool : 0..(CEILING + 1)]
        BY <2>1
    <2>. QED
        BY <1>1, <2>2 DEF Tick, TypeOK
<1>2. ASSUME NEW kind \in Kind, Connects(kind) PROVE TypeOK' /\ NewsFits'
    <2>1. /\ news' \in Seq(Kind \cup {"upgraded", "closed"})
          /\ Len(news') = Len(news) + 1 /\ link' \in Kind
        BY <1>0, <1>2, NewsStays DEF Connects
    <2>. QED
        BY <1>0, <1>2, <2>1 DEF Connects, TypeOK
<1>3. CASE PunchesHole
    <2>1. /\ news' \in Seq(Kind \cup {"upgraded", "closed"})
          /\ Len(news') = Len(news) + 2 /\ link' \in Kind
        BY <1>0, <1>3, NewsStays DEF PunchesHole, Kind
    <2>. QED
        BY <1>0, <1>3, <2>1 DEF PunchesHole, TypeOK
<1>4. CASE Drops \/ Redial
    <2>1. /\ link' = "none"
          /\ \/ news' = Append(news, "closed") /\ link # "none"
             \/ news' = news
        BY <1>4 DEF Drops, Redial
    <2>2. /\ Append(news, "closed") \in Seq(Kind \cup {"upgraded", "closed"})
          /\ Len(Append(news, "closed")) = Len(news) + 1
        BY <1>0, NewsStays
    <2>3. news' \in Seq(Kind \cup {"upgraded", "closed"}) /\ Len(news') <= MaxNews + 1
        BY <1>0, <2>1, <2>2
    <2>4. CASE Drops
        BY <2>1, <2>3, <2>4 DEF Drops, TypeOK
    <2>5. CASE Redial
        BY <2>1, <2>3, <2>5 DEF Redial, TypeOK
    <2>. QED
        BY <1>4, <2>4, <2>5
<1>5. ASSUME NEW r \in Row, Enqueue(r) PROVE TypeOK' /\ NewsFits'
    <2>1. scene.rows \subseteq Row
        BY DEF TypeOK, Row
    <2>. QED
        BY <1>5, <2>1 DEF Enqueue, TypeOK
<1>6. ASSUME NEW r \in Row, FallsDue(r) PROVE TypeOK' /\ NewsFits'
    <2>1. due' \in Seq(Row) /\ IsInjective(due') /\ Range(due') = Range(due) \cup {r}
        BY <1>6, RowJoins DEF FallsDue
    <2>2. later' \subseteq Row \ Range(due')
        BY <1>6, <2>1 DEF FallsDue, TypeOK
    <2>. QED
        BY <1>6, <2>1, <2>2 DEF FallsDue, TypeOK
<1>7. CASE HandleNews
    <2>1. /\ news' \in Seq(Kind \cup {"upgraded", "closed"})
          /\ Len(news') <= Len(news) /\ Len(news') \in Nat
          /\ Head(news) \in Kind \cup {"upgraded", "closed"}
        <3>1. news # <<>> /\ news' = Tail(news)
            BY <1>7 DEF HandleNews, HandleEstablished, HandleUpgraded, HandleClosed, Takes
        <3>2. Len(news) # 0
            BY <1>0, <3>1
        <3>. QED
            BY <1>0, <3>1, <3>2, NewsStays
    <2>2. Len(news') <= MaxNews + 1 /\ (link # "none" => Len(news') <= MaxNews)
        BY <1>0, <2>1
    <2>3. CASE HandleEstablished
        <3>1. Head(news) \in Kind
            BY <2>3 DEF HandleEstablished, Takes
        <3>. QED
            BY <2>1, <2>2, <2>3, <3>1 DEF HandleEstablished, TypeOK
    <2>4. CASE HandleUpgraded
        BY <2>1, <2>2, <2>4 DEF HandleUpgraded, TypeOK
    <2>5. CASE HandleClosed
        BY <2>1, <2>2, <2>5 DEF HandleClosed, TypeOK
    <2>. QED
        BY <1>7, <2>3, <2>4, <2>5 DEF HandleNews
<1>8. CASE GoesOn
    <2>1. CASE ForgetsBackoff
        BY <2>1 DEF ForgetsBackoff, TypeOK, Ready
    <2>2. CASE Flushes
        <3>1. due' \in Seq(Row) /\ IsInjective(due') /\ later' \subseteq Row \ Range(due')
            BY <2>2, RowsStay DEF Flushes
        <3>. QED
            BY <2>2, <3>1 DEF Flushes, TypeOK
    <2>3. CASE Refreshes
        BY <2>3 DEF Refreshes, TypeOK, Kind
    <2>4. CASE ClearsUpgrades
        BY <2>4 DEF ClearsUpgrades, TypeOK
    <2>5. CASE Notifies
        BY <2>5 DEF Notifies, TypeOK
    <2>. QED
        BY <1>8, <2>1, <2>2, <2>3, <2>4, <2>5 DEF GoesOn
<1>9. CASE ProbeReached \/ ProbeMissed
    BY <1>9 DEF ProbeReached, ProbeMissed, Cap, TypeOK
<1>10. CASE ChangeDialMode
    <2>1. /\ saver' \in {"idle", "wake"} /\ upgrades' \in {0, upgrades}
        BY <1>10, Zenon DEF ChangeDialMode, ApplyDialMode
    <2>3. wake' \in BOOLEAN /\ owed' \in BOOLEAN
        BY <1>10, Zenon DEF ChangeDialMode, ApplyDialMode, TypeOK
    <2>2. UNCHANGED <<scene, link, news, known, loop, verdict, misses, backoff, ticked, pass, due,
                      later>>
        BY <1>10 DEF ChangeDialMode
    <2>. QED
        BY <2>1, <2>2, <2>3 DEF TypeOK
<1>11. CASE Begin \/ Visit \/ Demote \/ Proceed
    <2>1. CASE Begin
        <3>1. ticked' \in BOOLEAN /\ wake' \in BOOLEAN
            BY <2>1, Zenon DEF Begin, TypeOK
        <3>. QED
            BY <2>1, <3>1 DEF Begin, TypeOK
    <2>2. CASE Visit
        BY <2>2 DEF Visit, TypeOK, Kind
    <2>3. CASE Demote
        BY <2>3 DEF Demote, TypeOK
    <2>4. CASE Proceed
        BY <2>4 DEF Proceed, TypeOK
    <2>. QED
        BY <1>11, <2>1, <2>2, <2>3, <2>4
<1>12. CASE Offline
    <2>1. backoff.attempts \in 0..MAX_STEP
        BY DEF TypeOK
    <2>2. ASSUME NEW jitter \in {0, 1}
          PROVE  Recorded(jitter) \in [attempts : 0..MAX_STEP, cool : 0..(CEILING + 1)]
        <3>1. Cooldown(backoff.attempts) \in 1..CEILING
            <4>1. backoff.attempts \in Nat
                BY <2>1
            <4>. QED
                BY <4>1, CooldownGrows, Zenon
        <3>2. Cap(backoff.attempts + 1, MAX_STEP) \in 0..MAX_STEP
            BY <2>1 DEF Cap
        <3>. QED
            BY <3>1, <3>2 DEF Recorded
    <2>3. backoff' \in [attempts : 0..MAX_STEP, cool : 0..(CEILING + 1)]
        BY <1>12, <2>2 DEF Offline, TypeOK
    <2>. QED
        BY <1>12, <2>3 DEF Offline, TypeOK
<1>13. CASE Relayed
    <2>1. upgrades' \in 0..(LastOfBurst + Every)
        BY <1>13 DEF Relayed, Counted, TypeOK
    <2>. QED
        BY <1>13, <2>1 DEF Relayed, TypeOK
<1>14. CASE Drain
    <2>1. due' \in Seq(Row) /\ IsInjective(due') /\ later' \subseteq Row \ Range(due')
        BY <1>14, RowsStay DEF Drain
    <2>. QED
        BY <1>14, <2>1 DEF Drain, TypeOK
<1>15. CASE UNCHANGED vars
    BY <1>15 DEF vars, TypeOK
<1>. QED
    BY <1>1, <1>2, <1>3, <1>4, <1>5, <1>6, <1>7, <1>8, <1>9, <1>10, <1>11, <1>12, <1>13, <1>14,
       <1>15 DEF Next, Network, Pass

\* Every variable keeps to its values: the counts to their limits, the queue to rows it
\* has once each, no row both due and later (reconnect_backoff, upgrade_backoff, the sync
\* queue).
THEOREM TypeCorrect == Spec => []TypeOK
<1>1. Init => TypeOK /\ NewsFits
    <2>. SUFFICES ASSUME Init PROVE TypeOK /\ NewsFits
        OBVIOUS
    <2>1. news \in Seq(Kind \cup {"upgraded", "closed"}) /\ Len(news) = 0 /\ due \in Seq(Row)
        BY DEF Init
    <2>2. IsInjective(due) /\ later \subseteq Row \ Range(due)
        BY DEF Init, IsInjective
    <2>3. /\ Len(news) <= MaxNews /\ Len(news) <= MaxNews + 1
          /\ misses \in 0..Misses /\ upgrades \in 0..(LastOfBurst + Every)
          /\ backoff \in [attempts : 0..MAX_STEP, cool : 0..(CEILING + 1)]
        BY <2>1, TickerAssumption DEF Init, Ready
    <2>4. ticked \in BOOLEAN /\ wake \in BOOLEAN /\ owed \in BOOLEAN
        BY DEF Init
    <2>5. /\ scene \in Scenes /\ link = "none" /\ known = "offline" /\ loop = "idle"
          /\ saver = "idle" /\ verdict = "Unknown" /\ pass = "idle"
        BY DEF Init
    <2>. QED
        BY <2>1, <2>2, <2>3, <2>4, <2>5 DEF TypeOK, NewsFits
<1>. QED
    BY <1>1, TypeStep, PTL DEF Spec

-----------------------------------------------------------------------------
(* Upgrades.                                                               *)

\* A restarted upgrade count reaches the ticker's next visit of a relayed
\* contact (clear and notify_one of handle_nat_status and update_settings).
THEOREM UpgradeOwedCorrect == Spec => []UpgradeOwed
<1>. USE DEF netVars, loopVars, tickerVars, rowVars
<1>1. Init => UpgradeOwed
    BY DEF Init, UpgradeOwed
<1>2. UpgradeOwed /\ [Next]_vars => UpgradeOwed'
    <2>. SUFFICES ASSUME UpgradeOwed, [Next]_vars PROVE UpgradeOwed'
        OBVIOUS
    <2>. USE DEF UpgradeOwed
    <2>1. CASE Tick \/ Network \/ (\E r \in Row : Enqueue(r) \/ FallsDue(r))
        BY <2>1 DEF Tick, Network, Connects, PunchesHole, Drops, Enqueue, FallsDue
    <2>2. CASE HandleNews
        BY <2>2 DEF HandleNews, HandleEstablished, HandleUpgraded, HandleClosed, Takes
    <2>3. CASE GoesOn
        BY <2>3 DEF GoesOn, ForgetsBackoff, Flushes, Refreshes, ClearsUpgrades, Notifies
    <2>4. CASE ProbeReached \/ ProbeMissed
        BY <2>4 DEF ProbeReached, ProbeMissed
    <2>5. CASE ChangeDialMode
        BY <2>5 DEF ChangeDialMode, ApplyDialMode
    <2>6. CASE Pass
        <3>1. CASE Begin \/ Visit \/ Offline \/ Redial \/ Demote
            BY <2>6, <3>1 DEF Begin, Visit, Offline, Redial, Demote
        <3>2. CASE Relayed
            <4>1. owed' => ~ShouldAttempt(upgrades) /\ owed
                BY <3>2 DEF Relayed
            <4>2. ShouldAttempt(0)
                BY TickerAssumption DEF ShouldAttempt
            <4>. QED
                BY <4>1, <4>2
        <3>3. CASE Proceed \/ Drain
            BY <3>3 DEF Proceed, Drain, Kind
        <3>. QED
            BY <2>6, <3>1, <3>2, <3>3 DEF Pass
    <2>7. CASE UNCHANGED vars
        BY <2>7 DEF vars
    <2>. QED
        BY <2>1, <2>2, <2>3, <2>4, <2>5, <2>6, <2>7 DEF Next
<1>. QED
    BY <1>1, <1>2, PTL DEF Spec

-----------------------------------------------------------------------------
(* The reconnect backoff.                                                  *)

\* The types the argument needs.
Typed ==
    /\ news \in Seq(Kind \cup {"upgraded", "closed"})
    /\ link \in Kind \cup {"none"} /\ known \in Kind \cup {"offline"}
    /\ backoff = [attempts |-> backoff.attempts, cool |-> backoff.cool]
    /\ backoff.attempts \in Nat

\* They are part of the invariant (TypeOK).
LEMMA TypedIsPart == TypeOK => Typed
    BY DEF TypeOK, Typed

\* The first cooldown is a number (cooldown_for(0)).
LEMMA FirstCooldown == Cooldown(0) \in Nat
    BY CooldownGrows, 0 \in Nat

\* An event that joins the others (the broadcast of NetEvents).
LEMMA NewsJoins ==
    ASSUME Typed, NEW kind \in Kind, NEW last \in Nat,
           news' \in Seq(Kind \cup {"upgraded", "closed"}), Len(news') = last, last > Len(news),
           news'[Len(news) + 1] = kind,
           \A i \in 1..last : i > Len(news) + 1 => news'[i] # "closed"
    PROVE  Heralded' /\ InOrder'
<1>1. Len(news) \in Nat /\ Len(news) + 1 \in 1..Len(news')
    BY DEF Typed
<1>2. ASSUME NEW i \in 1..Len(news'), news'[i] = "closed" PROVE i < Len(news) + 1
    <2>1. i # Len(news) + 1
        BY <1>2 DEF Kind
    <2>. QED
        BY <1>1, <1>2, <2>1
<1>. QED
    BY <1>1, <1>2 DEF Heralded, InOrder

\* A connection is heralded by its event (ConnectionEstablished).
LEMMA ConnectsHeralds ==
    ASSUME Typed, NEW kind \in Kind, Connects(kind)
    PROVE  Heralded' /\ InOrder'
<1>1. news' = Append(news, kind) /\ news \in Seq(Kind \cup {"upgraded", "closed"})
    BY DEF Connects, Typed
<1>2. /\ news' \in Seq(Kind \cup {"upgraded", "closed"})
      /\ Len(news) \in Nat /\ Len(news') = Len(news) + 1
      /\ news'[Len(news) + 1] = kind
    BY <1>1
<1>3. Len(news) + 1 \in Nat /\ Len(news) + 1 > Len(news)
    BY <1>2
<1>4. \A i \in 1..(Len(news) + 1) : i > Len(news) + 1 => news'[i] # "closed"
    BY <1>2
<1>. QED
    BY <1>2, <1>3, <1>4, NewsJoins

\* And so is the direct one of an upgrade (handle_dcutr).
LEMMA PunchHeralds ==
    ASSUME Typed, PunchesHole
    PROVE  Heralded' /\ InOrder'
<1>1. news' = news \o <<"direct", "upgraded">> /\ news \in Seq(Kind \cup {"upgraded", "closed"})
    BY DEF PunchesHole, Typed
<1>2. /\ <<"direct", "upgraded">> \in Seq(Kind \cup {"upgraded", "closed"})
      /\ Len(<<"direct", "upgraded">>) = 2
      /\ <<"direct", "upgraded">>[1] = "direct" /\ <<"direct", "upgraded">>[2] = "upgraded"
    BY DEF Kind
<1>3. /\ news' \in Seq(Kind \cup {"upgraded", "closed"})
      /\ Len(news) \in Nat /\ Len(news') = Len(news) + 2
      /\ news'[Len(news) + 1] = "direct" /\ news'[Len(news) + 2] = "upgraded"
    <2>. DEFINE pair == <<"direct", "upgraded">>
    <2>1. pair \in Seq(Kind \cup {"upgraded", "closed"}) /\ Len(pair) = 2
          /\ pair[1] = "direct" /\ pair[2] = "upgraded"
        BY <1>2
    <2>2. news' = news \o pair
        BY <1>1
    <2>. HIDE DEF pair
    <2>. QED
        BY <1>1, <2>1, <2>2
<1>4. Len(news) + 2 \in Nat /\ Len(news) + 2 > Len(news) /\ "direct" \in Kind
    BY <1>3 DEF Kind
<1>5. \A i \in 1..(Len(news) + 2) : i > Len(news) + 1 => news'[i] # "closed"
    <2>. SUFFICES ASSUME NEW i \in 1..(Len(news) + 2), i > Len(news) + 1
                  PROVE  news'[i] # "closed"
        OBVIOUS
    <2>1. i = Len(news) + 2
        BY <1>3
    <2>. QED
        BY <1>3, <2>1
<1>. QED
    BY <1>3, <1>4, <1>5, NewsJoins

\* The event loop takes the oldest event.
LEMMA NewsTaken ==
    ASSUME Typed, NEW kinds, Takes(kinds)
    PROVE  /\ news' \in Seq(Kind \cup {"upgraded", "closed"})
           /\ Head(news) \in kinds /\ Head(news) \in Kind \cup {"upgraded", "closed"}
           /\ Heralded => Heralded' \/ Head(news) \in Kind
           /\ InOrder /\ link' = link => InOrder'
           /\ InOrder /\ link # "none" /\ Head(news) = "closed" => Heralded'
<1>1. /\ news \in Seq(Kind \cup {"upgraded", "closed"}) /\ news # <<>>
      /\ Head(news) \in kinds /\ news' = Tail(news)
    BY DEF Typed, Takes
<1>2. /\ Len(news) \in Nat /\ Len(news) # 0 /\ Len(news') = Len(news) - 1
      /\ Head(news) = news[1] /\ Head(news) \in Kind \cup {"upgraded", "closed"}
      /\ news' \in Seq(Kind \cup {"upgraded", "closed"})
      /\ \A i \in 1..(Len(news) - 1) : news'[i] = news[i + 1]
    BY <1>1
<1>3. \A j \in 1..Len(news) : j # 1 =>
          j - 1 \in 1..Len(news') /\ news'[j - 1] = news[j]
    <2>. SUFFICES ASSUME NEW j \in 1..Len(news), j # 1
                  PROVE  j - 1 \in 1..Len(news') /\ news'[j - 1] = news[j]
        OBVIOUS
    <2>1. j - 1 \in 1..(Len(news) - 1) /\ (j - 1) + 1 = j
        BY <1>2
    <2>. QED
        BY <1>2, <2>1
<1>4. Heralded => Heralded' \/ Head(news) \in Kind
    BY <1>2, <1>3 DEF Heralded
<1>5. ASSUME InOrder, link' = link PROVE InOrder'
    <2>. SUFFICES ASSUME link # "none", NEW i \in 1..Len(news'), news'[i] = "closed"
                  PROVE  \E j \in 1..Len(news') : j > i /\ news'[j] \in Kind
        BY <1>5 DEF InOrder
    <2>1. i + 1 \in 1..Len(news) /\ news[i + 1] = "closed"
        BY <1>2
    <2>2. PICK j \in 1..Len(news) : j > i + 1 /\ news[j] \in Kind
        BY <1>5, <2>1 DEF InOrder
    <2>3. j # 1 /\ j - 1 > i
        BY <1>2, <2>2
    <2>. QED
        BY <1>3, <2>2, <2>3
<1>6. ASSUME InOrder, link # "none", Head(news) = "closed" PROVE Heralded'
    <2>1. 1 \in 1..Len(news) /\ news[1] = "closed"
        BY <1>2, <1>6
    <2>2. PICK j \in 1..Len(news) : j > 1 /\ news[j] \in Kind
        BY <1>6, <2>1 DEF InOrder
    <2>3. j - 1 \in 1..Len(news') /\ news'[j - 1] \in Kind
        BY <1>3, <2>2
    <2>. QED
        BY <2>3 DEF Heralded
<1>. QED
    BY <1>1, <1>2, <1>4, <1>5, <1>6

\* Events stay in order (swarm.rs emits one after the other, the loop takes
\* them so).
LEMMA InOrderStep == Typed /\ InOrder /\ [Next]_vars => InOrder'
<1>. USE DEF netVars, loopVars, tickerVars, rowVars
<1>. SUFFICES ASSUME Typed, InOrder, [Next]_vars PROVE InOrder'
    OBVIOUS
<1>1. ASSUME NEW kind \in Kind, Connects(kind) PROVE InOrder'
    BY <1>1, ConnectsHeralds
<1>2. CASE PunchesHole
    BY <1>2, PunchHeralds
<1>3. CASE Drops
    BY <1>3 DEF Drops, InOrder
<1>4. CASE HandleNews
    BY <1>4, NewsTaken DEF HandleNews, HandleEstablished, HandleUpgraded, HandleClosed
<1>5. CASE Redial
    BY <1>5 DEF Redial, InOrder
<1>6. ASSUME UNCHANGED <<link, news>> PROVE InOrder'
    BY <1>6 DEF InOrder
<1>. QED
    BY <1>1, <1>2, <1>3, <1>4, <1>5, <1>6 DEF Next, Network, Pass, GoesOn, Tick, Enqueue, FallsDue,
       ForgetsBackoff, Flushes, Refreshes, ClearsUpgrades, Notifies, ProbeReached, ProbeMissed,
       ChangeDialMode, Begin, Visit, Offline, Demote, Relayed, Proceed, Drain, vars

\* A connection the event loop knows of is in presence and has no cooldown
\* (ConnectionEstablished; the ticker's arms).
LEMMA SettledStep == Typed /\ InOrder /\ Settled /\ [Next]_vars => Settled'
<1>. USE DEF netVars, loopVars, tickerVars, rowVars
<1>. SUFFICES ASSUME Typed, InOrder, Settled, [Next]_vars PROVE Settled'
    OBVIOUS
<1>1. ASSUME NEW kind \in Kind, Connects(kind) PROVE Settled'
    BY <1>1, ConnectsHeralds DEF Connects, Settled
<1>2. CASE PunchesHole
    BY <1>2, PunchHeralds DEF PunchesHole, Settled
<1>3. CASE Drops
    BY <1>3 DEF Drops, Settled
<1>4. CASE HandleEstablished
    <2>1. known' \in Kind /\ loop' = "forget"
        BY <1>4, NewsTaken DEF HandleEstablished
    <2>. QED
        BY <2>1 DEF Settled, Kind
<1>5. CASE HandleUpgraded
    <2>1. Heralded => Heralded'
        BY <1>5, NewsTaken DEF HandleUpgraded, Kind
    <2>2. loop = "idle" /\ loop' = "direct" /\ UNCHANGED <<link, known, backoff, pass>>
        BY <1>5 DEF HandleUpgraded, Takes
    <2>. QED
        BY <2>1, <2>2 DEF Settled
<1>6. CASE HandleClosed
    <2>1. link' # "none" => Heralded'
        BY <1>6, NewsTaken DEF HandleClosed
    <2>. QED
        BY <2>1 DEF Settled
<1>7. CASE ForgetsBackoff
    BY <1>7, FirstCooldown DEF ForgetsBackoff, Settled, Heralded, Ready
<1>8. CASE Refreshes
    BY <1>8 DEF Refreshes, Settled, Heralded
<1>9. CASE Tick
    <2>1. /\ UNCHANGED <<link, news, known, loop, pass>>
          /\ backoff'.attempts = backoff.attempts
          /\ backoff'.cool = IF backoff.cool = 0 THEN 0 ELSE backoff.cool - 1
        BY <1>9 DEF Tick, Typed
    <2>. QED
        BY <2>1, FirstCooldown DEF Settled, Heralded
<1>10. CASE Visit
    BY <1>10 DEF Visit, Settled, Heralded
<1>11. CASE Offline
    <2>1. /\ UNCHANGED <<link, news, known, loop>> /\ pass = "offline" /\ pass' # "offline"
          /\ backoff' = backoff \/ \E jitter \in {0, 1} : backoff' = Recorded(jitter)
        BY <1>11 DEF Offline
    <2>2. ASSUME NEW jitter \in {0, 1}, backoff' = Recorded(jitter), backoff.attempts = 0
          PROVE  backoff'.attempts <= 1 /\ backoff'.cool \in 0..(Cooldown(0) + 1)
        <3>1. backoff'.cool = Cooldown(0) + jitter /\ backoff'.attempts = Cap(1, MAX_STEP)
            BY <2>2 DEF Recorded
        <3>2. Cap(1, MAX_STEP) <= 1
            BY TickerAssumption DEF Cap
        <3>. QED
            BY <3>1, <3>2, FirstCooldown
    <2>. QED
        BY <2>1, <2>2 DEF Settled, Heralded
<1>12. CASE Redial \/ Demote
    BY <1>12 DEF Redial, Demote, Settled, Heralded
<1>13. CASE Begin \/ Relayed \/ Proceed \/ Drain
    BY <1>13 DEF Begin, Relayed, Proceed, Drain, Settled, Heralded
<1>14. CASE Flushes \/ ClearsUpgrades \/ Notifies \/ ProbeReached \/ ProbeMissed
    BY <1>14 DEF Flushes, ClearsUpgrades, Notifies, ProbeReached, ProbeMissed, Settled, Heralded
<1>15. CASE ChangeDialMode \/ (\E r \in Row : Enqueue(r) \/ FallsDue(r)) \/ UNCHANGED vars
    BY <1>15 DEF ChangeDialMode, Enqueue, FallsDue, vars, Settled, Heralded
<1>. QED
    BY <1>1, <1>2, <1>3, <1>4, <1>5, <1>6, <1>7, <1>8, <1>9, <1>10, <1>11, <1>12, <1>13, <1>14,
       <1>15 DEF Next, Network, HandleNews, GoesOn, Pass

\* A contact that was connected inherits no long cooldown
\* (reconnect_backoff.remove in ConnectionEstablished).
THEOREM NoStaleCooldownCorrect == Spec => []NoStaleCooldown
<1>1. Init => InOrder /\ Settled
    BY DEF Init, InOrder, Settled
<1>2. Settled => NoStaleCooldown
    BY DEF Settled, NoStaleCooldown, Heralded
<1>3. TypeOK /\ InOrder /\ Settled /\ [Next]_vars => InOrder' /\ Settled'
    BY TypedIsPart, InOrderStep, SettledStep
<1>. QED
    BY <1>1, <1>2, <1>3, TypeCorrect, PTL DEF Spec
=============================================================================
