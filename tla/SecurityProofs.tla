--------------------------- MODULE SecurityProofs ---------------------------
(***************************************************************************)
(* The rate limiter of Security, for every width, frequency and delay, and *)
(* the salts of PasswordSalt, for every machine and every length.          *)
(***************************************************************************)
EXTENDS PasswordSalt, WellFoundedInduction, TLAPS

USE SecurityAssumption

\* Division by the frequency is monotonic (monotonic_millis).
LEMMA DivisionMonotonic ==
    ASSUME NEW a \in Nat, NEW b \in Nat, a <= b
    PROVE  /\ a \div Frequency \in Nat
           /\ a \div Frequency <= b \div Frequency
  OBVIOUS

\* The clock is a natural number, never runs backwards and stays below its width by
\* the largest delay (monotonic_millis).
LEMMA ClockFacts ==
    ASSUME NEW c \in Nat
    PROVE  /\ Millis(c) \in Nat
           /\ Millis(c) <= Millis(c + 1)
           /\ Millis(c) + 32 * Second <= U64Max
<1>. DEFINE m(x) == Smaller(x * Second, U64Max)
<1>1. c * Second \in Nat /\ (c + 1) * Second \in Nat /\ c * Second <= (c + 1) * Second
  OBVIOUS
<1>2. m(c) \in Nat /\ m(c + 1) \in Nat /\ m(c) <= m(c + 1) /\ m(c) <= U64Max
  BY <1>1 DEF Smaller
<1>3. /\ m(c) \div Frequency \in Nat
      /\ m(c) \div Frequency <= m(c + 1) \div Frequency
      /\ m(c) \div Frequency <= U64Max \div Frequency
      /\ U64Max \div Frequency \in Nat
  <2>. HIDE DEF m
  <2>1. m(c) \div Frequency \in Nat /\ m(c) \div Frequency <= m(c + 1) \div Frequency
    BY <1>2, DivisionMonotonic, Zenon
  <2>2. m(c) \div Frequency <= U64Max \div Frequency
    BY <1>2, DivisionMonotonic
  <2>3. U64Max \div Frequency \in Nat
    BY DivisionMonotonic
  <2>. QED  BY <2>1, <2>2, <2>3
<1>. QED  BY <1>3 DEF Millis

\* The powers that verify shifts by.
LEMMA Powers ==
    ASSUME NEW e \in 0 .. 5
    PROVE  /\ PowerOfTwo(e) \in 1 .. 32
           /\ e < 5 => PowerOfTwo(e + 1) = 2 * PowerOfTwo(e)
           /\ \A d \in 0 .. e : PowerOfTwo(d) <= PowerOfTwo(e)
<1>1. PowerOfTwo(0) = 1 /\ PowerOfTwo(1) = 2 /\ PowerOfTwo(2) = 4
      /\ PowerOfTwo(3) = 8 /\ PowerOfTwo(4) = 16 /\ PowerOfTwo(5) = 32
  BY DEF PowerOfTwo
<1>2. e = 0 \/ e = 1 \/ e = 2 \/ e = 3 \/ e = 4 \/ e = 5
  OBVIOUS
<1>. QED  BY <1>1, <1>2

\* The delay is positive and at most the capped one (verify).
LEMMA DelayBounds ==
    ASSUME NEW k \in Nat, k >= 3
    PROVE  /\ Delay(k) \in Nat
           /\ Delay(k) <= Second * PowerOfTwo(MaxExponent)
           /\ Second * PowerOfTwo(MaxExponent) \in Nat
           /\ Second * PowerOfTwo(MaxExponent) <= 32 * Second
<1>1. Smaller(k - 3, MaxExponent) \in 0 .. MaxExponent
  BY DEF Smaller
<1>2. /\ PowerOfTwo(MaxExponent) \in 1 .. 32
      /\ PowerOfTwo(Smaller(k - 3, MaxExponent)) \in 1 .. 32
      /\ PowerOfTwo(Smaller(k - 3, MaxExponent)) <= PowerOfTwo(MaxExponent)
  BY <1>1, Powers
<1>3. ASSUME NEW x \in 1 .. 32, NEW y \in 1 .. 32, x <= y
      PROVE  Second * x \in Nat /\ Second * x <= Second * y
  BY <1>3
<1>. QED  BY <1>2, <1>3 DEF Delay

\* One more wrong password adds its predecessor's delay to the sum (MinElapsed).
LEMMA OneMore ==
    ASSUME NEW k \in Nat
    PROVE  /\ MinElapsed(k) \in Nat
           /\ k < 3 => MinElapsed(k + 1) = 0
           /\ k >= 3 => MinElapsed(k + 1) = MinElapsed(k) + Delay(k)
<1>. DEFINE n == k - 3
            M == MaxExponent
            cap == PowerOfTwo(M)
<1>1. cap \in 1 .. 32
  BY Powers
<1>2. CASE k < 3
  BY <1>2 DEF MinElapsed
<1>3. CASE k >= 3 /\ n < M
  <2>1. n \in 0 .. 4 /\ n + 1 \in 1 .. 5 /\ Smaller(n, M) = n /\ n + 1 <= M
    BY <1>3 DEF Smaller
  <2>2. PowerOfTwo(n) \in 1 .. 32 /\ PowerOfTwo(n + 1) = 2 * PowerOfTwo(n)
    BY <2>1, Powers
  <2>3. MinElapsed(k + 1) = Second * (PowerOfTwo(n + 1) - 1)
    BY <2>1 DEF MinElapsed
  <2>4. MinElapsed(k) = Second * (PowerOfTwo(n) - 1)
    <3>1. CASE n = 0
      BY <3>1, <2>1 DEF MinElapsed, PowerOfTwo
    <3>2. CASE n # 0
      BY <3>2, <2>1 DEF MinElapsed
    <3>. QED  BY <3>1, <3>2
  <2>5. Delay(k) = Second * PowerOfTwo(n)
    BY <2>1 DEF Delay
  <2>6. ASSUME NEW x \in 1 .. 32
        PROVE  /\ Second * (x - 1) \in Nat
               /\ Second * (2 * x - 1) = Second * (x - 1) + Second * x
    BY <2>6
  <2>. QED  BY <2>2, <2>3, <2>4, <2>5, <2>6, <1>3
<1>4. CASE k >= 3 /\ n >= M
  <2>1. n \in Nat /\ Smaller(n, M) = M
    BY <1>4 DEF Smaller
  <2>2. MinElapsed(k + 1) = Second * (cap - 1 + (n + 1 - M) * cap)
    BY <1>4, <2>1 DEF MinElapsed
  <2>3. MinElapsed(k) = Second * (cap - 1 + (n - M) * cap)
    <3>1. CASE n > M
      BY <3>1, <2>1 DEF MinElapsed
    <3>2. CASE n = M /\ n > 0
      BY <3>2, <2>1, <1>1 DEF MinElapsed
    <3>3. CASE n = M /\ n = 0
      <4>1. cap = 1
        BY <3>3 DEF PowerOfTwo
      <4>. QED  BY <3>3, <4>1 DEF MinElapsed
    <3>. QED  BY <3>1, <3>2, <3>3, <1>4
  <2>4. Delay(k) = Second * cap
    BY <2>1 DEF Delay
  <2>5. ASSUME NEW c \in 1 .. 32, NEW d \in Nat
        PROVE  /\ Second * (c - 1 + d * c) \in Nat
               /\ Second * (c - 1 + (d + 1) * c) = Second * (c - 1 + d * c) + Second * c
    <3>1. d * c \in Nat /\ (d + 1) * c = d * c + c
      BY <2>5
    <3>2. ASSUME NEW x \in Nat, NEW y \in Nat
          PROVE  Second * x \in Nat /\ Second * (x + y) = Second * x + Second * y
      BY <3>2
    <3>. QED  BY <3>1, <3>2, <2>5
  <2>6. n - M \in Nat /\ n + 1 - M = (n - M) + 1
    BY <2>1, <1>4
  <2>. QED  BY <2>2, <2>3, <2>4, <2>5, <2>6, <1>1, <1>4
<1>. QED  BY <1>2, <1>3, <1>4

\* Init establishes the invariant.
LEMMA InitIInv == Init => IInv
<1>. SUFFICES ASSUME Init PROVE IInv
  OBVIOUS
<1>1. TypeOK
  BY DEF Init, TypeOK
<1>2. MinElapsed(0) = 0
  BY DEF MinElapsed
<1>3. 0 <= Millis(counter)
  BY ClockFacts DEF Init
<1>. QED  BY <1>1, <1>2, <1>3 DEF Init, IInv, Smaller

\* Success, a new password and a restart clear the limiter.
LEMMA ResetFacts ==
    ASSUME Reset, NEW c \in Nat
    PROVE  /\ failed' = 0 /\ blocked' = 0 /\ wrong' = 0 /\ last' = 0 /\ elapsed' = 0
           /\ failed' = Smaller(wrong', U32Max)
           /\ last' <= Millis(c)
           /\ elapsed' >= MinElapsed(wrong')
<1>1. MinElapsed(0) = 0
  BY DEF MinElapsed
<1>. QED  BY <1>1, ClockFacts DEF Reset, Smaller

\* What the parts of IInv say together about the limiter, as facts for the steps.
LEMMA Limiter ==
    ASSUME IInv
    PROVE  /\ failed \in Nat /\ wrong \in Nat /\ last \in Nat /\ elapsed \in Nat
           /\ failed <= U32Max /\ counter \in Nat /\ Millis(counter) \in Nat
  BY ClockFacts DEF IInv, TypeOK

\* A wrong password is counted, delays the next check and stays within the budget.
LEMMA MismatchesIInv == IInv /\ Mismatches => IInv'
<1>. SUFFICES ASSUME IInv, Mismatches PROVE IInv'
  OBVIOUS
<1>1. /\ now \in Nat /\ now <= Millis(counter) /\ now >= blocked /\ now >= last
      /\ wrong' = wrong + 1 /\ last' = now /\ counter' = counter
  BY DEF IInv, TypeOK, Mismatches
<1>2. failed' \in 0 .. U32Max /\ failed' = Smaller(wrong', U32Max)
  BY <1>1, Limiter DEF IInv, Mismatches, CountFailure, Plus, Smaller
<1>3. failed' >= 3 => blocked' = last' + Delay(failed') /\ blocked' \in 0 .. U64Max
  <2>. SUFFICES ASSUME failed' >= 3 PROVE blocked' = now + Delay(failed') /\ blocked' \in 0 .. U64Max
    BY <1>1
  <2>1. Delay(failed') \in Nat /\ Delay(failed') <= 32 * Second
    BY <1>2, DelayBounds
  <2>2. now + 32 * Second <= U64Max
    BY <1>1, Limiter, ClockFacts
  <2>3. blocked' = Plus(now, Delay(failed'), U64Max)
    BY DEF Mismatches, CountFailure
  <2>. QED  BY <2>1, <2>2, <2>3, <1>1 DEF Plus, Smaller
<1>4. failed' < 3 => blocked' = 0
  BY <1>2, <1>1, Limiter DEF IInv, Mismatches, CountFailure, Smaller
<1>5. elapsed' \in Nat /\ elapsed' >= MinElapsed(wrong')
  <2>1. CASE wrong < 3
    <3>1. MinElapsed(wrong') = 0
      BY <2>1, <1>1, Limiter, OneMore
    <3>2. elapsed' \in Nat
      BY <1>1, Limiter DEF Mismatches
    <3>. QED  BY <3>1, <3>2
  <2>2. CASE wrong >= 3
    <3>1. failed >= 3 /\ Delay(failed) = Delay(wrong)
      BY <2>2, Limiter DEF IInv, Smaller, Delay
    <3>2. MinElapsed(wrong') = MinElapsed(wrong) + Delay(wrong) /\ MinElapsed(wrong) \in Nat
      BY <2>2, <1>1, Limiter, OneMore
    <3>3. Delay(wrong) \in Nat
      BY <2>2, Limiter, DelayBounds
    <3>4. now >= last + Delay(wrong)
      BY <3>1, <1>1 DEF IInv
    <3>5. elapsed' = elapsed + (now - last)
      BY <2>2 DEF Mismatches
    <3>6. elapsed >= MinElapsed(wrong)
      BY DEF IInv
    <3>. QED  BY <3>2, <3>3, <3>4, <3>5, <3>6, <1>1, Limiter
  <2>. QED  BY <2>1, <2>2, Limiter
<1>6. pc' \in {"idle", "down"} /\ call' = "none" /\ typed' = NoPassword /\ now' = 0
  BY DEF Mismatches, Returns
<1>7. TypeOK'
  BY <1>1, <1>2, <1>3, <1>4, <1>5, <1>6, Limiter DEF IInv, TypeOK, Mismatches, stored
<1>. QED  BY <1>1, <1>2, <1>3, <1>4, <1>5, <1>6, <1>7 DEF IInv

\* Whatever leaves the limiter and the clock alone keeps what IInv says of them.
LEMMA LimiterKept ==
    ASSUME IInv, TypeOK',
           UNCHANGED <<counter, limiter, ghosts>>,
           pc' # "derive", pc' # "boot",
           pc' = "new" /\ call' # "setup" /\ file' # NoPassword => typed' = file'
    PROVE  IInv'
  BY DEF IInv, limiter, ghosts

\* Time passes: the clock does not run backwards (monotonic_millis).
LEMMA ElapseIInv == IInv /\ Elapse => IInv'
<1>. SUFFICES ASSUME IInv, Elapse PROVE IInv'
  OBVIOUS
<1>1. counter' = counter + 1 /\ counter \in Nat
  BY DEF Elapse, IInv, TypeOK
<1>2. Millis(counter) \in Nat /\ Millis(counter') \in Nat /\ Millis(counter) <= Millis(counter')
  BY <1>1, ClockFacts
<1>3. TypeOK'
  BY <1>1 DEF IInv, TypeOK, Elapse, stored, limiter, ghosts
<1>4. last' <= Millis(counter') /\ (pc' = "derive" => now' <= Millis(counter'))
  BY <1>2 DEF IInv, TypeOK, Elapse, ghosts
<1>. QED  BY <1>3, <1>4 DEF IInv, Elapse, stored, limiter, ghosts

\* A check that may begin begins after the lock-out (verify).
LEMMA BeginVerifyIInv ==
    ASSUME IInv, NEW c \in {"change", "authorize"}, NEW p \in Passwords \cup {NoPassword},
           BeginVerify(c, p)
    PROVE  IInv'
<1>1. /\ now' = Millis(counter) /\ Millis(counter) \in Nat /\ counter' = counter
      /\ Millis(counter) >= blocked /\ Millis(counter) >= last
  BY Limiter DEF BeginVerify, IInv
<1>2. TypeOK'
  BY <1>1 DEF IInv, TypeOK, BeginVerify, stored, limiter, ghosts
<1>. QED  BY <1>1, <1>2 DEF IInv, BeginVerify, limiter, ghosts

\* The right password (verify, change_password).
LEMMA MatchesIInv == IInv /\ Matches => IInv'
<1>. SUFFICES ASSUME IInv, Matches PROVE IInv'
  OBVIOUS
<1>1. counter' = counter /\ counter \in Nat /\ Reset /\ pc' \in {"new", "idle", "down"}
  BY DEF Matches, IInv, TypeOK, Returns
<1>2. pc' = "new" => typed' = file'
  BY DEF Matches, Returns, stored
<1>3. TypeOK'
  BY <1>1, ResetFacts DEF IInv, TypeOK, Matches, Returns, stored
<1>. QED  BY <1>1, <1>2, <1>3, ResetFacts DEF IInv

\* A new password, or none (set_password).
LEMMA SetPasswordIInv ==
    ASSUME IInv, NEW p \in Passwords \cup {NoPassword}, SetPassword(p)
    PROVE  IInv'
<1>1. counter' = counter /\ counter \in Nat /\ Reset /\ pc' \in {"mark", "idle", "down"}
  BY DEF SetPassword, IInv, TypeOK, Returns
<1>2. TypeOK'
  BY <1>1, ResetFacts DEF IInv, TypeOK, SetPassword, Returns
<1>. QED  BY <1>1, <1>2, ResetFacts DEF IInv

\* A restart starts the limiter and the clock afresh.
LEMMA RestartIInv == IInv /\ Restart => IInv'
<1>. SUFFICES ASSUME IInv, Restart PROVE IInv'
  OBVIOUS
<1>1. counter' = 0 /\ Reset /\ pc' = "boot" /\ call' = "setup"
  BY DEF Restart
<1>2. TypeOK'
  BY <1>1, ResetFacts DEF IInv, TypeOK, Restart
<1>. QED  BY <1>1, <1>2, ResetFacts DEF IInv

\* Every step keeps the invariant.
LEMMA NextIInv == IInv /\ [Next]_vars => IInv'
<1>. SUFFICES ASSUME IInv, [Next]_vars PROVE IInv'
  OBVIOUS
<1>1. CASE DerivationFails
  <2>1. TypeOK'
    BY <1>1 DEF IInv, TypeOK, DerivationFails, Returns, stored, limiter, ghosts
  <2>. QED  BY <1>1, <2>1, LimiterKept DEF DerivationFails, Returns
<1>2. CASE BeginChange
  <2>1. TypeOK'
    BY <1>2 DEF IInv, TypeOK, BeginChange, stored, limiter, ghosts
  <2>. QED  BY <1>2, <2>1, LimiterKept DEF BeginChange, stored
<1>3. ASSUME NEW p \in Passwords \cup {NoPassword}, SetPasswordFails(p) PROVE IInv'
  <2>1. TypeOK'
    BY <1>3 DEF IInv, TypeOK, SetPasswordFails, Returns, limiter, ghosts
  <2>. QED  BY <1>3, <2>1, LimiterKept DEF SetPasswordFails, Returns
<1>4. CASE Initialize
  <2>1. TypeOK'
    BY <1>4 DEF IInv, TypeOK, Initialize, Returns, stored, limiter, ghosts
  <2>2. pc' = "new" => call' = call
    BY <1>4 DEF Initialize, Returns
  <2>3. pc = "boot" => call = "setup"
    BY DEF IInv
  <2>. QED  BY <1>4, <2>1, <2>2, <2>3, LimiterKept DEF Initialize, Returns
<1>5. CASE WriteMarker
  <2>1. marker' \in BOOLEAN
    BY <1>5, Zenon DEF IInv, TypeOK, WriteMarker
  <2>2. unsaved' \subseteq Passwords \cup {NoPassword}
    BY <1>5 DEF IInv, TypeOK, WriteMarker
  <2>3. Returns("ok") \/ Returns("error")
    BY <1>5 DEF WriteMarker
  <2>4. TypeOK'
    BY <1>5, <2>1, <2>2, <2>3 DEF IInv, TypeOK, WriteMarker, Returns, limiter, ghosts
  <2>. QED  BY <1>5, <2>4, LimiterKept DEF WriteMarker, Returns
<1>6. CASE ApplicationChanges
  <2>1. TypeOK'
    BY <1>6 DEF IInv, TypeOK, ApplicationChanges, limiter, ghosts
  <2>. QED  BY <1>6, <2>1, LimiterKept DEF ApplicationChanges
<1>7. CASE UNCHANGED vars
  <2>1. TypeOK'
    BY <1>7 DEF IInv, TypeOK, vars, stored, limiter, ghosts
  <2>. QED  BY <1>7, <2>1 DEF IInv, vars, stored, limiter, ghosts
<1>. QED
  BY <1>1, <1>2, <1>3, <1>4, <1>5, <1>6, <1>7, ElapseIInv, BeginVerifyIInv, MatchesIInv,
     MismatchesIInv, SetPasswordIInv, RestartIInv DEF Next

-----------------------------------------------------------------------------

\* What the limiter maintains holds in every behaviour of verify, set_password and
\* their callers.
THEOREM LimiterInvariant == Spec => []IInv
  BY InitIInv, NextIInv, PTL DEF Spec

\* Every variable keeps its type: failed_attempts and blocked_until their widths.
THEOREM LimiterTypes == Spec => []TypeOK
<1>1. IInv => TypeOK
  BY DEF IInv
<1>. QED  BY <1>1, LimiterInvariant, PTL

\* k wrong passwords in a row take at least the sum of their delays (verify).
THEOREM GuessesTakeTime == Spec => []GuessBudget
<1>1. IInv => GuessBudget
  BY DEF IInv, GuessBudget
<1>. QED  BY <1>1, LimiterInvariant, PTL

\* Nobody is told to wait longer than the largest delay (verify).
THEOREM WaitsAreCapped == Spec => []WaitCapped
<1>1. IInv => WaitCapped
  <2>. SUFFICES ASSUME IInv PROVE WaitCapped
    OBVIOUS
  <2>1. CASE failed < 3
    <3>1. Second * PowerOfTwo(MaxExponent) \in Nat
      BY DelayBounds
    <3>. QED  BY <2>1, <3>1, Limiter DEF IInv, WaitCapped
  <2>2. CASE failed >= 3
    <3>1. Delay(failed) \in Nat /\ Delay(failed) <= Second * PowerOfTwo(MaxExponent)
          /\ Second * PowerOfTwo(MaxExponent) \in Nat
      BY <2>2, Limiter, DelayBounds
    <3>. QED  BY <2>2, <3>1, Limiter DEF IInv, WaitCapped
  <2>. QED  BY <2>1, <2>2, Limiter
<1>. QED  BY <1>1, LimiterInvariant, PTL

\* passwd replaces a verifier only in a call that was given its password, whatever
\* applications did to the file before (change_password, set_password).
THEOREM ChangesNeedCurrent == Spec => ChangeNeedsCurrent
<1>. DEFINE Allowed == file' # file => \/ file = NoPassword \/ typed = file
                                       \/ call = "setup" \/ pc' = "boot" \/ pc = "idle"
<1>1. IInv /\ [Next]_vars => [Allowed]_vars
  <2>. SUFFICES ASSUME IInv, Next, file' # file PROVE Allowed
    OBVIOUS
  <2>1. ASSUME NEW p \in Passwords \cup {NoPassword}, SetPassword(p) PROVE Allowed
    BY <2>1 DEF SetPassword, IInv
  <2>2. CASE Restart
    BY <2>2 DEF Restart
  <2>3. CASE ApplicationChanges
    BY <2>3 DEF ApplicationChanges
  <2>. QED
    BY <2>1, <2>2, <2>3 DEF Next, Elapse, Initialize, WriteMarker, BeginVerify, Matches,
       Mismatches, DerivationFails, BeginChange, SetPasswordFails, stored
<1>. QED  BY <1>1, LimiterInvariant, PTL DEF Spec, ChangeNeedsCurrent

-----------------------------------------------------------------------------
(***************************************************************************)
(* The salts.                                                              *)
(***************************************************************************)

\* A set that has 0 and with every number the next one has all of them.
LEMMA Counting ==
    ASSUME NEW T, T \subseteq Nat, 0 \in T, \A n \in T : n + 1 \in T
    PROVE  T = Nat
<1>. DEFINE out == Nat \ T
            R == {pair \in Nat \X Nat : pair[1] < pair[2]}
<1>. SUFFICES ASSUME out # {} PROVE FALSE
  BY Zenon
<1>1. IsWellFoundedOn(R, Nat)
  BY NatLessThanWellFounded DEF OpToRel
<1>2. \A x, y \in Nat : y < x => <<y, x>> \in R
  OBVIOUS
<1>3. out \subseteq Nat
  OBVIOUS
<1>. HIDE DEF R
<1>4. PICK x \in out : \A y \in out : ~(<<y, x>> \in R)
  <2>. HIDE DEF out
  <2>. QED  BY <1>1, <1>3, WFMin, Zenon
<1>5. x \in Nat /\ x # 0 /\ x - 1 \in Nat /\ x - 1 < x
  BY <1>4
<1>6. x - 1 \notin out
  BY <1>2, <1>4, <1>5, Zenon
<1>. QED  BY <1>4, <1>5, <1>6

\* What the loop of VirtioEntropy::fill can do from each offset on.
Filling(outcomes) ==
    /\ outcomes[OutputLength] = {Filled(OutputLength, TRUE)}
    /\ \A offset \in 0 .. OutputLength - 1 :
           outcomes[offset] = {Filled(offset, FALSE)} \cup
                              UNION {outcomes[next] : next \in offset + 1 .. OutputLength}

\* The loop ends: every offset has its outcomes.
LEMMA FillingExists == \E outcomes : Filling(outcomes) /\ VirtioFill = outcomes[0]
<1>. USE OutputAssumption
<1>. DEFINE N == OutputLength
            Round(f, k) == IF k = N THEN {Filled(k, TRUE)}
                           ELSE {Filled(k, FALSE)} \cup UNION {f[next] : next \in k + 1 .. N}
            D(m) == {j \in 0 .. N : N - m <= j}
            T == {m \in Nat : \E f : f = [k \in D(m) |-> Round(f, k)]}
<1>1. 0 \in T
  <2>1. PICK f : f = [k \in D(0) |-> {Filled(k, TRUE)}]
    BY Zenon
  <2>2. \A k \in D(0) : k = N
    OBVIOUS
  <2>3. f = [k \in D(0) |-> Round(f, k)]
    BY <2>1, <2>2, Zenon
  <2>. QED  BY <2>3, Zenon
<1>2. ASSUME NEW m \in T PROVE m + 1 \in T
  <2>1. PICK f : f = [k \in D(m) |-> Round(f, k)]
    BY Zenon
  <2>2. PICK g : g = [k \in D(m + 1) |-> Round(f, k)]
    BY Zenon
  <2>3. D(m) \subseteq D(m + 1) /\ \A k \in D(m + 1) : \A next \in k + 1 .. N : next \in D(m)
    BY m \in Nat
  <2>. HIDE DEF D
  <2>4. \A k \in D(m) : g[k] = f[k]
    <3>. HIDE DEF Round
    <3>. QED  BY <2>1, <2>2, <2>3
  <2>5. ASSUME NEW k \in D(m + 1) PROVE Round(g, k) = Round(f, k)
    <3>1. \A next \in k + 1 .. N : g[next] = f[next]
      BY <2>3, <2>4
    <3>2. {g[next] : next \in k + 1 .. N} = {f[next] : next \in k + 1 .. N}
      BY <3>1
    <3>. QED  BY <3>2, Zenon
  <2>6. g = [k \in D(m + 1) |-> Round(g, k)]
    <3>. HIDE DEF Round
    <3>. QED  BY <2>2, <2>5
  <2>7. m + 1 \in Nat
    OBVIOUS
  <2>. HIDE DEF Round
  <2>. QED  BY <2>6, <2>7
<1>3. T = Nat
  <2>1. T \subseteq Nat
    BY Zenon
  <2>. HIDE DEF T
  <2>. QED  BY <1>1, <1>2, <2>1, Counting, Zenon
<1>4. D(N) = 0 .. N
  OBVIOUS
<1>5. \E f : f = [k \in 0 .. N |-> Round(f, k)]
  <2>1. N \in T
    BY <1>3, Zenon
  <2>. HIDE DEF Round, D
  <2>. QED  BY <1>4, <2>1
<1>. DEFINE F == CHOOSE f : f = [k \in 0 .. N |-> Round(f, k)]
<1>6. F = [k \in 0 .. N |-> Round(F, k)]
  BY <1>5, Zenon
<1>7. VirtioFill = F[0]
  BY DEF VirtioFill
<1>. HIDE DEF F
<1>8. Filling(F)
  <2>1. \A k \in 0 .. N : F[k] = Round(F, k)
    <3>. HIDE DEF Round
    <3>. QED  BY <1>6, SMTT(30)
  <2>2. F[N] = {Filled(N, TRUE)}
    <3>1. N \in 0 .. N
      OBVIOUS
    <3>. QED  BY <2>1, <3>1, Zenon
  <2>3. ASSUME NEW k \in 0 .. N - 1
        PROVE  F[k] = {Filled(k, FALSE)} \cup UNION {F[next] : next \in k + 1 .. N}
    <3>1. k \in 0 .. N /\ k # N
      OBVIOUS
    <3>2. F[k] = Round(F, k)
      BY <2>1, <3>1, Zenon
    <3>. QED  BY <3>1, <3>2, Zenon
  <2>. QED  BY <2>2, <2>3, Zenon DEF Filling
<1>. QED  BY <1>7, <1>8

\* VirtioEntropy::fill returns Ok only with every byte filled.
LEMMA VirtioFillFacts ==
    ASSUME NEW s \in VirtioFill, s.ok
    PROVE  s.random = OutputLength
<1>. USE OutputAssumption
<1>. DEFINE N == OutputLength
            Whole(S) == \A o \in S : o.ok => o.random = N
<1>1. PICK outcomes : Filling(outcomes) /\ VirtioFill = outcomes[0]
  BY FillingExists
<1>. DEFINE T == {m \in Nat : \A k \in 0 .. N : N - m <= k => Whole(outcomes[k])}
<1>2. 0 \in T
  <2>1. Whole(outcomes[N])
    BY <1>1 DEF Filling, Filled
  <2>2. \A k \in 0 .. N : N - 0 <= k => k = N
    OBVIOUS
  <2>. HIDE DEF Whole
  <2>. QED  BY <2>1, <2>2
<1>3. ASSUME NEW m \in T PROVE m + 1 \in T
  <2>1. ASSUME NEW k \in 0 .. N, N - (m + 1) <= k PROVE Whole(outcomes[k])
    <3>1. CASE k = N
      BY <1>1, <3>1 DEF Filling, Filled
    <3>2. CASE k # N
      <4>1. k \in 0 .. N - 1 /\ \A next \in k + 1 .. N : next \in 0 .. N /\ N - m <= next
        BY <2>1, <3>2, m \in Nat
      <4>2. \A next \in k + 1 .. N : Whole(outcomes[next])
        BY <4>1
      <4>3. outcomes[k] = {Filled(k, FALSE)} \cup UNION {outcomes[next] : next \in k + 1 .. N}
        BY <1>1, <4>1, Zenon DEF Filling
      <4>. QED  BY <4>2, <4>3 DEF Filled
    <3>. QED  BY <3>1, <3>2
  <2>2. m + 1 \in Nat
    OBVIOUS
  <2>. HIDE DEF Whole
  <2>. QED  BY <2>1, <2>2
<1>4. N \in T
  <2>1. T \subseteq Nat
    OBVIOUS
  <2>. HIDE DEF T
  <2>2. T = Nat
    BY <1>2, <1>3, <2>1, Counting, Zenon
  <2>. QED  BY <2>2
<1>5. Whole(outcomes[0])
  <2>. HIDE DEF Whole
  <2>. QED  BY <1>4
<1>. QED  BY <1>1, <1>5

\* fill_random returns Ok only with every byte random, whatever devices it finds.
LEMMA SaltFacts ==
    ASSUME NEW s \in Salts, s.ok
    PROVE  s.random = OutputLength
<1>1. CASE s \in VirtioFill
  BY <1>1, VirtioFillFacts
<1>2. CASE \E rdrand : s \in HardwareFill(rdrand)
  BY <1>2 DEF HardwareFill, Filled
<1>. QED  BY <1>1, <1>2 DEF Salts, FillRandom

\* Every verifier of set_password, also one whose write failed, has a random salt
\* (set_password, fill_random).
THEOREM SaltsStayRandom == SaltedSpec => []SaltsAreRandom
<1>1. SaltedInit => SaltsAreRandom
  BY DEF SaltedInit, SaltsAreRandom
<1>2. SaltsAreRandom /\ [SaltedNext]_svars => SaltsAreRandom'
  <2>. SUFFICES ASSUME SaltsAreRandom, [SaltedNext]_svars PROVE SaltsAreRandom'
    OBVIOUS
  <2>1. CASE salts' = salts
    BY <2>1 DEF SaltsAreRandom
  <2>2. ASSUME NEW p, SetSalted(p) PROVE SaltsAreRandom'
    BY <2>2, SaltFacts DEF SetSalted, SaltsAreRandom
  <2>3. ASSUME NEW p, SetSaltedFails(p) PROVE SaltsAreRandom'
    BY <2>3, SaltFacts DEF SetSaltedFails, SaltsAreRandom
  <2>. QED  BY <2>1, <2>2, <2>3, Zenon DEF SaltedNext, svars
<1>. QED  BY <1>1, <1>2, PTL DEF SaltedSpec

\* The salts change nothing of the password: every behaviour with them is one of
\* Security, to which the theorems above apply (set_password).
THEOREM SaltedIsSecurity == SaltedSpec => Spec
<1>1. SaltedInit => Init
  BY DEF SaltedInit
<1>2. [SaltedNext]_svars => [Next]_vars
  BY DEF SaltedNext, svars, SetSalted, SetSaltedFails, Next
<1>. QED  BY <1>1, <1>2, PTL DEF SaltedSpec, Spec
=============================================================================
