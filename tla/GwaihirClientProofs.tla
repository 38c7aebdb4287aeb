-------------------------- MODULE GwaihirClientProofs --------------------------
(***************************************************************************)
(* Proofs about one call of SendWoL, for any statuses, timeouts, delays    *)
(* and attempts: what the recursive definitions compute, the types, and    *)
(* the invariant that relates attempts, answers and the result.            *)
(***************************************************************************)
EXTENDS GwaihirClient, WellFoundedInduction, TLAPS

--------------------------------------------------------------------------------
(* Numbers defined by recursion *)

\* The order of the numbers is well founded: a set of them has a least element.
LEMMA LeastNat ==
    ASSUME NEW S \in SUBSET Nat, S # {}
    PROVE  \E n \in S : \A m \in S : n <= m
<1> DEFINE R == OpToRel(<, Nat)
<1>1. IsWellFoundedOn(R, Nat)
  BY NatLessThanWellFounded
<1>2. PICK n \in S : \A m \in S : <<m, n>> \notin R
  <2> HIDE DEF R
  <2> QED
    BY <1>1, WFMin
<1>3. \A m \in S : <<m, n>> \in R <=> m < n
  BY DEF R, OpToRel
<1>4. \A m \in S : ~(m < n)
  BY <1>2, <1>3
<1> HIDE DEF R
<1> QED
  BY <1>4

\* Induction, for a set of numbers.
LEMMA NatSetInduction ==
    ASSUME NEW S, 0 \in S, \A n \in Nat : n \in S => n + 1 \in S
    PROVE  Nat \subseteq S
<1> DEFINE T == Nat \ S
<1> SUFFICES ASSUME T # {} PROVE FALSE
  OBVIOUS
<1>1. PICK n \in T : \A m \in T : n <= m
  BY LeastNat
<1>2. n \in Nat \ {0} /\ n - 1 \in Nat
  OBVIOUS
<1>3. n - 1 \in S
  BY <1>1, <1>2
<1> QED
  BY <1>2, <1>3

\* A step of a recursion on T, and a function that starts with c and follows it.
IsStep(step, T) == step \in [Nat -> [T -> T]]
Recursion(f, T, c, step) ==
    /\ f \in [Nat -> T] /\ f[0] = c
    /\ \A n \in Nat : f[n + 1] = step[n][f[n]]

\* Two functions start alike and follow the same steps up to n.
SameSteps(f, g, n, step) ==
    /\ f[0] = g[0]
    /\ \A i \in 0 .. n - 1 : f[i + 1] = step[i][f[i]] /\ g[i + 1] = step[i][g[i]]

\* Such functions agree.
LEMMA RecursionIsUnique ==
    ASSUME NEW step, NEW n \in Nat, NEW f, NEW g, SameSteps(f, g, n, step)
    PROVE  f[n] = g[n]
<1> USE DEF SameSteps
<1> DEFINE S == {i \in Nat : i <= n => f[i] = g[i]}
<1>1. 0 \in S
  OBVIOUS
<1>2. ASSUME NEW i \in Nat, i \in S PROVE i + 1 \in S
  <2> SUFFICES ASSUME i + 1 <= n PROVE f[i + 1] = g[i + 1]
    OBVIOUS
  <2>1. i \in 0 .. n - 1 /\ f[i] = g[i]
    BY <1>2
  <2> QED
    BY <2>1
<1>3. Nat \subseteq S
  <2> HIDE DEF S
  <2> QED
    BY <1>1, <1>2, NatSetInduction
<1> QED
  BY <1>3

\* Every recursion has its function.
LEMMA RecursionExists ==
    ASSUME NEW T, NEW c \in T, NEW step, IsStep(step, T)
    PROVE  \E f : Recursion(f, T, c, step)
<1> USE DEF IsStep
<1> DEFINE Upto(n) == {g \in [0..n -> T] :
                         g[0] = c /\ \A i \in 0 .. n - 1 : g[i + 1] = step[i][g[i]]}
           S == {n \in Nat : Upto(n) # {}}
           h == [n \in Nat |-> CHOOSE g : g \in Upto(n)]
           f == [n \in Nat |-> h[n][n]]
<1>1. 0 \in S
  <2>1. [i \in 0..0 |-> c] \in Upto(0)
    OBVIOUS
  <2> QED
    BY <2>1
<1>2. ASSUME NEW n \in Nat, n \in S PROVE n + 1 \in S
  <2>1. PICK g \in Upto(n) : TRUE
    BY <1>2
  <2> DEFINE k == [i \in 0 .. n + 1 |-> IF i = n + 1 THEN step[n][g[n]] ELSE g[i]]
  <2>2. k \in [0 .. n + 1 -> T] /\ k[0] = c
    OBVIOUS
  <2>3. ASSUME NEW i \in 0..n PROVE k[i + 1] = step[i][k[i]]
    <3>1. k[i] = g[i]
      OBVIOUS
    <3>2. CASE i = n
      <4>1. n + 1 \in 0 .. n + 1 /\ k[n + 1] = step[n][g[n]]
        OBVIOUS
      <4> HIDE DEF k
      <4> QED
        BY <3>1, <3>2, <4>1
    <3>3. CASE i # n
      <4>1. i \in 0 .. n - 1 /\ i + 1 \in 0 .. n + 1 /\ i + 1 # n + 1
        BY <3>3
      <4> QED
        BY <3>1, <4>1
    <3> QED
      BY <3>2, <3>3
  <2>4. (n + 1) - 1 = n
    OBVIOUS
  <2> HIDE DEF k
  <2>5. k \in Upto(n + 1)
    BY <2>2, <2>3, <2>4
  <2> QED
    BY <2>5
<1>3. Nat \subseteq S
  <2> HIDE DEF S
  <2> QED
    BY <1>1, <1>2, NatSetInduction
<1>4. ASSUME NEW n \in Nat
      PROVE  /\ h[n] \in [0..n -> T] /\ h[n][0] = c
             /\ \A i \in 0 .. n - 1 : h[n][i + 1] = step[i][h[n][i]]
  <2>1. \E g : g \in Upto(n)
    BY <1>3
  <2>2. h[n] = CHOOSE g : g \in Upto(n)
    OBVIOUS
  <2>3. h[n] \in Upto(n)
    <3> HIDE DEF Upto, h
    <3> QED
      BY <2>1, <2>2
  <2> HIDE DEF h
  <2> QED
    BY <2>3
<1> HIDE DEF h, S, Upto
<1>5. f \in [Nat -> T] /\ f[0] = c
  <2>1. \A n \in Nat : h[n][n] \in T
    <3> SUFFICES ASSUME NEW n \in Nat PROVE h[n][n] \in T
      OBVIOUS
    <3>1. h[n] \in [0..n -> T] /\ n \in 0..n
      BY <1>4
    <3> QED
      BY <3>1
  <2> QED
    BY <2>1, <1>4
<1>6. ASSUME NEW n \in Nat PROVE f[n + 1] = step[n][f[n]]
  <2>1. \A i \in 0 .. n : h[n + 1][i + 1] = step[i][h[n + 1][i]]
    <3>1. (n + 1) - 1 = n /\ n + 1 \in Nat
      OBVIOUS
    <3> QED
      BY <3>1, <1>4
  <2>2. h[n][0] = h[n + 1][0]
    BY <1>4
  <2>3. \A i \in 0 .. n - 1 : /\ h[n][i + 1] = step[i][h[n][i]]
                              /\ h[n + 1][i + 1] = step[i][h[n + 1][i]]
    BY <2>1, <1>4
  <2>4. h[n][n] = h[n + 1][n]
    <3>1. SameSteps(h[n], h[n + 1], n, step)
      BY <2>2, <2>3 DEF SameSteps
    <3> QED
      BY <3>1, RecursionIsUnique
  <2> QED
    BY <2>1, <2>4
<1> HIDE DEF f
<1>7. Recursion(f, T, c, step)
  BY <1>5, <1>6 DEF Recursion
<1> QED
  BY <1>7

\* The smaller of two numbers.
LEMMA MinOfTwo ==
    ASSUME NEW a \in Int, NEW b \in Int
    PROVE  Min({a, b}) = IF a <= b THEN a ELSE b
<1> DEFINE m == IF a <= b THEN a ELSE b
<1>1. m \in {a, b} /\ \A y \in {a, b} : m <= y
  OBVIOUS
<1>2. \A x \in {a, b} : (\A y \in {a, b} : x <= y) => x = m
  OBVIOUS
<1> HIDE DEF m
<1>3. Min({a, b}) = m
  BY <1>1, <1>2 DEF Min
<1> QED
  BY <1>3 DEF m

\* The powers of two.
LEMMA Pow2Recursion ==
    /\ Pow2 \in [Nat -> Nat]
    /\ Pow2[0] = 1
    /\ \A n \in Nat : Pow2[n + 1] = 2 * Pow2[n]
<1> DEFINE step == [n \in Nat |-> [x \in Nat |-> 2 * x]]
<1>1. step \in [Nat -> [Nat -> Nat]] /\ 1 \in Nat
  OBVIOUS
<1>2. PICK f \in [Nat -> Nat] : f[0] = 1 /\ \A n \in Nat : f[n + 1] = step[n][f[n]]
  <2>1. IsStep(step, Nat)
    BY <1>1 DEF IsStep
  <2> HIDE DEF step
  <2>2. \E f : Recursion(f, Nat, 1, step)
    BY <1>1, <2>1, RecursionExists
  <2> QED
    BY <2>2 DEF Recursion
<1>3. \A n \in Nat : f[n + 1] = 2 * f[n]
  BY <1>2
<1>4. f = [k \in Nat |-> IF k = 0 THEN 1 ELSE 2 * f[k - 1]]
  BY <1>2, <1>3
<1>5. Pow2 = [k \in Nat |-> IF k = 0 THEN 1 ELSE 2 * Pow2[k - 1]]
  BY <1>4 DEF Pow2
<1>6. Pow2[0] = 1 /\ \A n \in Nat : Pow2[n + 1] = 2 * Pow2[n]
  BY <1>5
<1>7. \A i \in Nat : Pow2[i] = f[i]
  <2> DEFINE S == {i \in Nat : Pow2[i] = f[i]}
  <2>1. 0 \in S /\ \A n \in Nat : n \in S => n + 1 \in S
    BY <1>2, <1>3, <1>6
  <2> HIDE DEF S
  <2>2. Nat \subseteq S
    BY <2>1, NatSetInduction
  <2> QED
    BY <2>2 DEF S
<1> QED
  BY <1>2, <1>5, <1>6, <1>7

\* The delay that the loop of Backoff computes (types.go:71-77).
LEMMA DelayRecursion ==
    /\ Delay \in [Nat -> Nat]
    /\ Delay[0] = BaseDelay /\ Delay[1] = BaseDelay
    /\ \A n \in Nat \ {0} : Delay[n + 1] = Min({2 * Delay[n], MaxDelay})
<1> USE GwaihirAssumption
<1> DEFINE step == [n \in Nat |-> [x \in Nat |->
                      IF n = 0 THEN BaseDelay ELSE Min({2 * x, MaxDelay})]]
<1>1. step \in [Nat -> [Nat -> Nat]] /\ BaseDelay \in Nat
  <2>1. \A n \in Nat : Min({2 * n, MaxDelay}) \in Nat
    BY MinOfTwo
  <2> QED
    BY <2>1
<1>2. PICK f \in [Nat -> Nat] :
        f[0] = BaseDelay /\ \A n \in Nat : f[n + 1] = step[n][f[n]]
  <2>1. IsStep(step, Nat)
    BY <1>1 DEF IsStep
  <2> HIDE DEF step
  <2>2. \E f : Recursion(f, Nat, BaseDelay, step)
    BY <1>1, <2>1, RecursionExists
  <2> QED
    BY <2>2 DEF Recursion
<1>3. \A n \in Nat :
        f[n + 1] = IF n = 0 THEN BaseDelay ELSE Min({2 * f[n], MaxDelay})
  BY <1>2
<1>4. f = [k \in Nat |-> IF k <= 1 THEN BaseDelay ELSE Min({2 * f[k - 1], MaxDelay})]
  <2> SUFFICES ASSUME NEW k \in Nat
               PROVE  f[k] = IF k <= 1 THEN BaseDelay ELSE Min({2 * f[k - 1], MaxDelay})
    BY <1>2
  <2>1. CASE k = 0
    BY <2>1, <1>2
  <2>2. CASE k # 0
    <3>1. k - 1 \in Nat /\ (k - 1) + 1 = k /\ (k <= 1 <=> k - 1 = 0)
      BY <2>2
    <3> QED
      BY <3>1, <1>3
  <2> QED
    BY <2>1, <2>2
<1>5. Delay = [k \in Nat |->
                 IF k <= 1 THEN BaseDelay ELSE Min({2 * Delay[k - 1], MaxDelay})]
  <2> DEFINE F(g) == [k \in Nat |->
                        IF k <= 1 THEN BaseDelay ELSE Min({2 * g[k - 1], MaxDelay})]
  <2>1. Delay = CHOOSE g : g = F(g)
    BY DEF Delay
  <2>2. f = F(f)
    BY <1>4
  <2> HIDE DEF F
  <2>3. Delay = F(Delay)
    BY <2>1, <2>2
  <2> QED
    BY <2>3 DEF F
<1>6. /\ Delay[0] = BaseDelay /\ Delay[1] = BaseDelay
      /\ \A n \in Nat \ {0} : Delay[n + 1] = Min({2 * Delay[n], MaxDelay})
  <2>1. Delay[0] = BaseDelay /\ Delay[1] = BaseDelay
    BY <1>5
  <2>2. ASSUME NEW n \in Nat \ {0} PROVE Delay[n + 1] = Min({2 * Delay[n], MaxDelay})
    <3>1. n + 1 \in Nat /\ ~(n + 1 <= 1) /\ (n + 1) - 1 = n
      OBVIOUS
    <3> QED
      BY <3>1, <1>5
  <2> QED
    BY <2>1, <2>2
<1>7. \A i \in Nat : Delay[i] = f[i]
  <2> DEFINE S == {i \in Nat : Delay[i] = f[i]}
  <2>1. 0 \in S
    BY <1>2, <1>6
  <2>2. ASSUME NEW n \in Nat, n \in S PROVE n + 1 \in S
    <3>1. CASE n = 0
      <4>1. f[0 + 1] = BaseDelay
        BY <1>3
      <4>2. 0 + 1 = 1
        OBVIOUS
      <4> QED
        BY <3>1, <4>1, <4>2, <1>6
    <3>2. CASE n # 0
      <4>1. n \in Nat \ {0} /\ Delay[n] = f[n]
        BY <2>2, <3>2
      <4>2. f[n + 1] = Min({2 * f[n], MaxDelay}) /\ Delay[n + 1] = Min({2 * Delay[n], MaxDelay})
        BY <4>1, <3>2, <1>3, <1>6
      <4> QED
        BY <4>1, <4>2
    <3> QED
      BY <3>1, <3>2
  <2> HIDE DEF S
  <2>3. Nat \subseteq S
    BY <2>1, <2>2, NatSetInduction
  <2> QED
    BY <2>3 DEF S
<1> QED
  BY <1>2, <1>5, <1>6, <1>7

\* Backoff caps the delay whenever it has doubled it, so that it does not overflow;
\* what it returns is the power of two that its comment speaks of, capped once.
THEOREM BackoffIsCappedPower == \A retry \in Nat \ {0} : Backoff(retry) = CappedDelay(retry)
<1> USE GwaihirAssumption
<1> DEFINE S == {n \in Nat : Backoff(n + 1) = CappedDelay(n + 1)}
<1>1. 0 \in S
  <2>1. Delay[1] = BaseDelay /\ BaseDelay * Pow2[0] = BaseDelay
    BY DelayRecursion, Pow2Recursion
  <2>2. 0 + 1 = 1 /\ 1 - 1 = 0
    OBVIOUS
  <2> QED
    BY <2>1, <2>2 DEF Backoff, CappedDelay
<1>2. ASSUME NEW n \in Nat, n \in S PROVE n + 1 \in S
  <2> DEFINE d == Delay[n + 1]
             b == BaseDelay * Pow2[n]
  <2>1. /\ d \in Nat /\ Delay[n + 2] = Min({2 * d, MaxDelay})
        /\ Delay[n + 2] \in Nat
    BY DelayRecursion
  <2>2. b \in Nat /\ BaseDelay * Pow2[n + 1] = 2 * b
    BY Pow2Recursion
  <2>3. Min({d, MaxDelay}) = Min({b, MaxDelay})
    BY <1>2 DEF Backoff, CappedDelay
  <2> HIDE DEF d, b
  <2>4. Min({Min({2 * d, MaxDelay}), MaxDelay}) = Min({2 * b, MaxDelay})
    BY <2>1, <2>2, <2>3, MinOfTwo
  <2>5. (n + 1) + 1 = n + 2 /\ (n + 2) - 1 = n + 1
    OBVIOUS
  <2>6. Backoff(n + 2) = Min({Min({2 * d, MaxDelay}), MaxDelay})
    BY <2>1 DEF Backoff
  <2>7. CappedDelay(n + 2) = Min({2 * b, MaxDelay})
    BY <2>2, <2>5 DEF CappedDelay
  <2> QED
    BY <2>4, <2>5, <2>6, <2>7
<1> HIDE DEF S
<1>3. Nat \subseteq S
  BY <1>1, <1>2, NatSetInduction
<1> QED
  BY <1>3 DEF S

\* A delay is a number, no longer than MaxDelay.
LEMMA CappedDelayType ==
    ASSUME NEW retry \in Nat \ {0}
    PROVE  CappedDelay(retry) \in 0..MaxDelay
<1> USE GwaihirAssumption
<1>1. BaseDelay * Pow2[retry - 1] \in Nat
  BY Pow2Recursion
<1> QED
  BY <1>1, MinOfTwo DEF CappedDelay

\* The delays of a call add up.
LEMMA SleptRecursion ==
    /\ Slept \in [Nat -> Nat]
    /\ Slept[0] = 0
    /\ \A n \in Nat :
         Slept[n + 1] = Slept[n] + CappedDelay(n + 1) + CappedDelay(n + 1) \div 10
<1> DEFINE most(n) == CappedDelay(n + 1) + CappedDelay(n + 1) \div 10
           step == [n \in Nat |-> [x \in Nat |-> x + most(n)]]
<1>1. \A n \in Nat : most(n) \in Nat
  BY CappedDelayType
<1>2. step \in [Nat -> [Nat -> Nat]] /\ 0 \in Nat
  <2> HIDE DEF most
  <2> QED
    BY <1>1
<1>3. PICK f \in [Nat -> Nat] : f[0] = 0 /\ \A n \in Nat : f[n + 1] = step[n][f[n]]
  <2>1. IsStep(step, Nat)
    BY <1>2 DEF IsStep
  <2> HIDE DEF step
  <2>2. \E f : Recursion(f, Nat, 0, step)
    BY <1>2, <2>1, RecursionExists
  <2> QED
    BY <2>2 DEF Recursion
<1>4. \A n \in Nat : f[n + 1] = f[n] + CappedDelay(n + 1) + CappedDelay(n + 1) \div 10
  <2> SUFFICES ASSUME NEW n \in Nat
               PROVE  f[n + 1] = f[n] + most(n)
    BY <1>1, CappedDelayType
  <2> HIDE DEF most
  <2>1. f[n] \in Nat /\ f[n + 1] = step[n][f[n]]
    BY <1>3
  <2> QED
    BY <2>1
<1>5. f = [n \in Nat |-> IF n = 0 THEN 0
                         ELSE f[n - 1] + CappedDelay(n) + CappedDelay(n) \div 10]
  <2> SUFFICES ASSUME NEW n \in Nat
               PROVE  f[n] = IF n = 0 THEN 0
                             ELSE f[n - 1] + CappedDelay(n) + CappedDelay(n) \div 10
    BY <1>3
  <2>1. CASE n # 0
    <3>1. n - 1 \in Nat /\ (n - 1) + 1 = n
      BY <2>1
    <3> QED
      BY <2>1, <3>1, <1>4
  <2> QED
    BY <2>1, <1>3
<1>6. Slept = [n \in Nat |-> IF n = 0 THEN 0
                             ELSE Slept[n - 1] + CappedDelay(n) + CappedDelay(n) \div 10]
  BY <1>5 DEF Slept
<1>7. /\ Slept[0] = 0
      /\ \A n \in Nat :
           Slept[n + 1] = Slept[n] + CappedDelay(n + 1) + CappedDelay(n + 1) \div 10
  BY <1>6
<1>8. \A i \in Nat : Slept[i] = f[i]
  <2> DEFINE S == {i \in Nat : Slept[i] = f[i]}
  <2>1. 0 \in S /\ \A n \in Nat : n \in S => n + 1 \in S
    BY <1>3, <1>4, <1>7
  <2> HIDE DEF S
  <2>2. Nat \subseteq S
    BY <2>1, NatSetInduction
  <2> QED
    BY <2>2 DEF S
<1> QED
  BY <1>3, <1>6, <1>7, <1>8

--------------------------------------------------------------------------------
(* One call of SendWoL *)

GwTypes ==
    /\ call \in {"idle", "sending", "backoff", "done"}
    /\ attempt \in Nat /\ sent \in Nat
    /\ ctxDone \in BOOLEAN
    /\ answer \in Answers

GwInv ==
    /\ GwTypes
    /\ AttemptsAreCounted
    /\ ResultTellsTheAnswer
    /\ call = "backoff" => ~Definite(answer)

\* No call has been made yet.
LEMMA GwInitially == ASSUME GwInit PROVE GwInv
<1>. USE GwaihirAssumption DEF GwInit
<1>1. GwTypes  BY DEF GwTypes, Answers
<1>2. AttemptsAreCounted  BY DEF AttemptsAreCounted
<1>3. ResultTellsTheAnswer  BY DEF ResultTellsTheAnswer
<1>. QED BY <1>1, <1>2, <1>3 DEF GwInv

\* What handleWoLResponse makes of a status: 401 and 404 are told apart before
\* success is looked for, and neither is a success.
LEMMA Handled ==
    ASSUME NEW s
    PROVE  HandleWoLResponse(s) = IF s = 401 THEN "authentication_failed"
                                  ELSE IF s = 404 THEN "machine_not_found"
                                  ELSE IF Success(s) THEN "nil" ELSE "request_failed"
<1>1. ~Success(401) /\ ~Success(404) BY DEF Success
<1>2. CASE s = 401  BY <1>1, <1>2 DEF HandleWoLResponse
<1>3. CASE s = 404  BY <1>1, <1>3 DEF HandleWoLResponse
<1>4. CASE Success(s) BY <1>1, <1>4 DEF HandleWoLResponse
<1>5. CASE s # 401 /\ s # 404 /\ ~Success(s)  BY <1>5 DEF HandleWoLResponse
<1>. QED BY <1>2, <1>3, <1>4, <1>5

\* The answer of Gwaihir is recorded as it came: a success has sent the packet.
LEMMA AnswerIsKept ==
    ASSUME NEW s \in Statuses \cup {0}, NEW read \in BOOLEAN, Answer(s, read)
    PROVE  /\ answer' \in Answers
           /\ answer'.status = s
           /\ answer'.read = read
           /\ Success(s) => answer'.woken
<1>1. PICK woken \in Woken(s) : answer' = [status |-> s, read |-> read, woken |-> woken]
  BY DEF Answer
<1>2. woken \in BOOLEAN /\ (Success(s) => woken)
  BY <1>1 DEF Woken
<1>. QED BY <1>1, <1>2 DEF Answers

\* An answer that does not settle the call: either it is backed off, and the
\* answer is then no definite one, or it was the last attempt's.
LEMMA NextAttemptKeeps ==
    ASSUME GwInv, NEW s \in Statuses \cup {0}, NEW read \in BOOLEAN, Answer(s, read),
           NextAttempt(s), ~(read /\ (Success(s) \/ NonRetryable(s)))
    PROVE  GwInv'
<1>. USE GwaihirAssumption, AnswerIsKept DEF GwInv
<1>1. CASE attempt < MaxAttempts
  <2>1. /\ call' = "backoff" /\ UNCHANGED <<attempt, ctxDone, sendResult>>
        /\ sent' = sent + 1 /\ call = "sending"
    BY <1>1 DEF NextAttempt, Answer
  <2>2. sendResult = "none"
    BY <2>1 DEF AttemptsAreCounted
  <2>3. GwTypes' /\ AttemptsAreCounted'
    BY <1>1, <2>1, <2>2 DEF GwTypes, AttemptsAreCounted
  <2>4. ResultTellsTheAnswer'
    BY <2>1, <2>2 DEF ResultTellsTheAnswer
  <2>. QED BY <2>3, <2>4 DEF Definite, Success, NonRetryable
<1>2. CASE ~(attempt < MaxAttempts)
  <2>1. /\ call' = "done" /\ UNCHANGED <<attempt, ctxDone>>
        /\ sendResult' = IF s = 0 THEN "network_error" ELSE HandleWoLResponse(s)
        /\ sent' = sent + 1 /\ call = "sending"
    BY <1>2 DEF NextAttempt, Answer, Return
  <2>2. GwTypes'
    BY <2>1 DEF GwTypes
  <2>3. AttemptsAreCounted'
    BY <2>1, Handled DEF GwTypes, AttemptsAreCounted
  <2>4. ResultTellsTheAnswer'
    BY <2>1, Handled DEF ResultTellsTheAnswer, Success
  <2>. QED BY <2>1, <2>2, <2>3, <2>4
<1>. QED BY <1>1, <1>2

\* An answer that settles the call.
LEMMA FinalAnswerKeeps ==
    ASSUME GwInv, NEW s \in Statuses, Answer(s, TRUE), Return(HandleWoLResponse(s))
    PROVE  GwInv'
<1>. USE GwaihirAssumption DEF GwInv
<1>1. /\ call' = "done" /\ UNCHANGED <<attempt, ctxDone>>
      /\ sendResult' = HandleWoLResponse(s)
      /\ sent' = sent + 1 /\ call = "sending"
  BY DEF Answer, Return
<1>a. answer' \in Answers /\ answer'.status = s /\ (Success(s) => answer'.woken)
  BY AnswerIsKept
<1>2. GwTypes'
  BY <1>1, <1>a DEF GwTypes
<1>3. AttemptsAreCounted'
  BY <1>1, Handled DEF GwTypes, AttemptsAreCounted
<1>4. ResultTellsTheAnswer'
  BY <1>1, <1>a, Handled DEF ResultTellsTheAnswer, Success
<1>. QED BY <1>1, <1>2, <1>3, <1>4

\* The invariant of the call is inductive.
LEMMA GwInductive == ASSUME GwInv, [GwNext]_gwVars PROVE GwInv'
<1>. USE GwaihirAssumption DEF GwInv
<1>1. CASE SendWoL
  BY <1>1 DEF SendWoL, GwTypes, AttemptsAreCounted, ResultTellsTheAnswer
<1>2. ASSUME NEW s \in Statuses, AnswerRead(s) PROVE GwInv'
  BY <1>2, FinalAnswerKeeps, NextAttemptKeeps DEF AnswerRead
<1>3. ASSUME NEW s \in Statuses, AnswerCut(s) PROVE GwInv'
  BY <1>3, NextAttemptKeeps DEF AnswerCut
<1>4. CASE AnswerLost
  BY <1>4, NextAttemptKeeps DEF AnswerLost
<1>5. CASE BackoffOver
  BY <1>5 DEF BackoffOver, GwTypes, AttemptsAreCounted, ResultTellsTheAnswer
<1>6. CASE BackoffInterrupted
  BY <1>6 DEF BackoffInterrupted, Return, GwTypes, AttemptsAreCounted,
    ResultTellsTheAnswer
<1>7. CASE ContextEnds
  BY <1>7 DEF ContextEnds, GwTypes, AttemptsAreCounted, ResultTellsTheAnswer
<1>8. CASE GwTick
  BY <1>8 DEF GwTick, GwTypes, AttemptsAreCounted, ResultTellsTheAnswer
<1>9. CASE UNCHANGED gwVars
  BY <1>9 DEF gwVars, GwTypes, AttemptsAreCounted, ResultTellsTheAnswer
<1>. QED BY <1>1, <1>2, <1>3, <1>4, <1>5, <1>6, <1>7, <1>8, <1>9 DEF GwNext, GwStep

\* client.go:130-151: a new attempt follows only an answer that was not definite.
LEMMA NoAttemptAfterDefinite ==
    ASSUME GwInv, [GwNext]_gwVars, attempt > 0, attempt' > attempt
    PROVE  ~Definite(answer)
<1>1. CASE SendWoL  BY <1>1 DEF SendWoL, GwInv, AttemptsAreCounted
<1>2. CASE BackoffOver BY <1>2 DEF BackoffOver, GwInv
<1>3. CASE UNCHANGED attempt  BY <1>3 DEF GwInv, GwTypes
<1>. QED BY <1>1, <1>2, <1>3 DEF GwNext, GwStep, AnswerRead, AnswerCut, AnswerLost,
    Answer, BackoffInterrupted, ContextEnds, GwTick, gwVars

\* The inductive invariant of SendWoL (client.go:94): attempts and requests sent
\* agree, and the result is what the last answer says.
THEOREM GwInvariance == GwSpec => []GwInv
<1>1. GwInit => GwInv
  BY GwInitially
<1>2. GwInv /\ [GwNext]_gwVars => GwInv'
  BY GwInductive
<1> QED
  BY <1>1, <1>2, PTL DEF GwSpec

--------------------------------------------------------------------------------
(* The types *)

\* The timer of a backoff.
LEMMA JitteredIsNat ==
    ASSUME NEW retry \in Nat \ {0}, NEW d \in Jittered(Backoff(retry))
    PROVE  d \in Nat /\ d <= CappedDelay(retry) + CappedDelay(retry) \div 10
<1> DEFINE c == CappedDelay(retry)
<1>1. Backoff(retry) = c /\ c \in Nat
  BY BackoffIsCappedPower, CappedDelayType
<1>2. d \in c..(c + c \div 10)
  BY <1>1 DEF Jittered
<1> HIDE DEF c
<1>3. d \in Nat /\ d <= c + c \div 10
  BY <1>1, <1>2
<1> QED
  BY <1>3 DEF c

\* What only TypeOK says, of the variables that GwTypes leaves out.
LoopTypes ==
    /\ statusCode \in Statuses \cup {0}
    /\ timer \in Nat
    /\ sendResult \in {"none", "nil", "authentication_failed", "machine_not_found",
                       "request_failed", "network_error", "interrupted"}

\* The end of an attempt keeps them: a delay is a number.
LEMMA NextAttemptTypes ==
    ASSUME GwInv, LoopTypes, NEW s \in Statuses \cup {0}, call = "sending", NextAttempt(s)
    PROVE  LoopTypes'
<1>1. attempt \in Nat \ {0}
  BY DEF GwInv, GwTypes, AttemptsAreCounted
<1>2. CASE attempt < MaxAttempts
  <2>1. PICK d \in Jittered(Backoff(attempt)) : timer' = d
    BY <1>2 DEF NextAttempt
  <2>2. timer' \in Nat
    BY <1>1, <2>1, JitteredIsNat
  <2> QED
    BY <1>2, <2>2 DEF NextAttempt, LoopTypes
<1>3. CASE ~(attempt < MaxAttempts)
  BY <1>3, Handled DEF NextAttempt, Return, LoopTypes
<1> QED
  BY <1>2, <1>3

\* Every step keeps the types.
LEMMA GwTypesStay ==
    ASSUME GwInv, GwTypeOK, [GwNext]_gwVars
    PROVE  GwTypeOK'
<1> USE GwaihirAssumption
<1>1. GwInv'
  BY GwInductive
<1>2. attempt' \in 0..MaxAttempts /\ sent' \in 0..MaxAttempts
  <2>1. /\ attempt' \in Nat /\ sent' \in Nat /\ attempt' <= MaxAttempts
        /\ sent' = attempt' \/ sent' = attempt' - 1
    BY <1>1 DEF GwInv, GwTypes, AttemptsAreCounted
  <2>2. \A a, n \in Nat : a <= MaxAttempts /\ (n = a \/ n = a - 1) =>
          a \in 0..MaxAttempts /\ n \in 0..MaxAttempts
    OBVIOUS
  <2> QED
    BY <2>1, <2>2
<1>3. LoopTypes
  BY DEF GwTypeOK, LoopTypes
<1>4. LoopTypes'
  <2>1. CASE SendWoL
    BY <1>3, <2>1 DEF SendWoL, LoopTypes
  <2>2. ASSUME NEW s \in Statuses, AnswerRead(s) PROVE LoopTypes'
    <3>1. CASE Success(s) \/ NonRetryable(s)
      BY <2>2, <3>1, Handled DEF AnswerRead, Return, LoopTypes
    <3>2. CASE ~(Success(s) \/ NonRetryable(s))
      BY <1>3, <2>2, <3>2, NextAttemptTypes DEF AnswerRead, Answer
    <3> QED
      BY <3>1, <3>2
  <2>3. ASSUME NEW s \in Statuses, AnswerCut(s) PROVE LoopTypes'
    BY <1>3, <2>3, NextAttemptTypes DEF AnswerCut, Answer
  <2>4. CASE AnswerLost
    BY <1>3, <2>4, NextAttemptTypes DEF AnswerLost, Answer
  <2>5. CASE BackoffOver
    BY <1>3, <2>5 DEF BackoffOver, LoopTypes
  <2>6. CASE BackoffInterrupted
    BY <1>3, <2>6 DEF BackoffInterrupted, Return, LoopTypes
  <2>7. CASE ContextEnds
    BY <1>3, <2>7 DEF ContextEnds, LoopTypes
  <2>8. CASE GwTick
    BY <1>3, <2>8 DEF GwTick, LoopTypes
  <2>9. CASE UNCHANGED gwVars
    BY <1>3, <2>9 DEF gwVars, LoopTypes
  <2> QED
    BY <2>1, <2>2, <2>3, <2>4, <2>5, <2>6, <2>7, <2>8, <2>9 DEF GwNext, GwStep
<1> QED
  BY <1>1, <1>2, <1>4 DEF GwTypeOK, LoopTypes, GwInv, GwTypes

\* Every variable of a call keeps its type; in particular the delays that Backoff
\* (types.go:71) computes are numbers, however long they get.
THEOREM GwTypeCorrect == GwSpec => []GwTypeOK
<1>1. GwInit => GwTypeOK
  <2> SUFFICES ASSUME GwInit PROVE GwTypeOK
    OBVIOUS
  <2>1. answer \in Answers
    BY DEF GwInit, Answers
  <2>2. 0 \in 0..MaxAttempts
    BY GwaihirAssumption
  <2> QED
    BY <2>1, <2>2 DEF GwInit, GwTypeOK
<1> QED
  BY <1>1, GwTypesStay, GwInvariance, PTL DEF GwSpec

--------------------------------------------------------------------------------
(* The time of a call *)

\* What the attempts and the delays up to the present one may take together.
Budget == attempt * GwTimeout + Slept[IF call = "sending" THEN attempt - 1 ELSE attempt]

\* At time now, counted from the call, the timer ends within the budget.
InTime(now) == call \in {"sending", "backoff"} => now + timer <= Budget

\* One more attempt takes its timeout, one more delay at most a tenth over its cap.
LEMMA BudgetSteps ==
    ASSUME NEW n \in Nat
    PROVE  /\ n * GwTimeout \in Nat /\ Slept[n] \in Nat
           /\ (n + 1) * GwTimeout = n * GwTimeout + GwTimeout
           /\ n # 0 => Slept[n] = Slept[n - 1] + CappedDelay(n) + CappedDelay(n) \div 10
<1> USE GwaihirAssumption
<1>1. n # 0 => Slept[n] = Slept[n - 1] + CappedDelay(n) + CappedDelay(n) \div 10
  <2> SUFFICES ASSUME n # 0
               PROVE  Slept[n] = Slept[n - 1] + CappedDelay(n) + CappedDelay(n) \div 10
    OBVIOUS
  <2>1. n - 1 \in Nat /\ (n - 1) + 1 = n
    OBVIOUS
  <2> QED
    BY <2>1, SleptRecursion
<1>2. n * GwTimeout \in Nat /\ (n + 1) * GwTimeout = n * GwTimeout + GwTimeout
  OBVIOUS
<1>3. Slept[n] \in Nat
  BY SleptRecursion
<1> QED
  BY <1>1, <1>2, <1>3

\* The first attempt starts the budget.
LEMMA SendInTime == ASSUME SendWoL PROVE InTime(0)'
<1>1. Slept[1 - 1] = 0 /\ 1 * GwTimeout = GwTimeout /\ GwTimeout \in Nat
  BY SleptRecursion, GwaihirAssumption
<1> QED
  BY <1>1 DEF SendWoL, InTime, Budget

\* After an attempt there is its delay.
LEMMA NextAttemptInTime ==
    ASSUME GwInv, GwTypeOK, NEW now \in Nat, InTime(now), NEW s, call = "sending",
           attempt' = attempt, NextAttempt(s)
    PROVE  InTime(now)'
<1> DEFINE c == CappedDelay(attempt) + CappedDelay(attempt) \div 10
           slept == Slept[attempt - 1]
           tried == attempt * GwTimeout
<1>1. attempt \in Nat \ {0}
  BY DEF GwInv, GwTypes, AttemptsAreCounted
<1>2. CASE attempt < MaxAttempts
  <2>1. PICK d \in Jittered(Backoff(attempt)) : timer' = d
    BY <1>2 DEF NextAttempt
  <2>2. timer' \in Nat /\ timer' <= c
    BY <1>1, <2>1, JitteredIsNat
  <2>3. c \in Nat /\ slept \in Nat /\ tried \in Nat /\ Slept[attempt] = slept + c
    <3>1. CappedDelay(attempt) \in Nat /\ attempt - 1 \in Nat
      BY <1>1, CappedDelayType, GwaihirAssumption
    <3>2. c \in Nat
      BY <3>1
    <3>3. slept \in Nat /\ tried \in Nat
      BY <1>1, <3>1, BudgetSteps
    <3>4. Slept[attempt] = slept + CappedDelay(attempt) + CappedDelay(attempt) \div 10
      BY <1>1, BudgetSteps
    <3>5. slept + CappedDelay(attempt) + CappedDelay(attempt) \div 10 = slept + c
      BY <3>1, <3>3
    <3> QED
      BY <3>2, <3>3, <3>4, <3>5
  <2>4. timer \in Nat /\ now + timer <= tried + slept
    BY DEF InTime, Budget, GwTypeOK
  <2>5. call' = "backoff"
    BY <1>2 DEF NextAttempt
  <2>6. Budget' = tried + Slept[attempt]
    BY <2>5 DEF Budget
  <2>a. \A t1, t2, tr, sl, de \in Nat : now + t1 <= tr + sl /\ t2 <= de =>
          now + t2 <= tr + (sl + de)
    OBVIOUS
  <2> HIDE DEF c, slept, tried
  <2>7. now + timer' <= tried + (slept + c)
    BY <2>a, <2>2, <2>3, <2>4
  <2> QED
    BY <2>3, <2>6, <2>7 DEF InTime
<1>3. CASE ~(attempt < MaxAttempts)
  BY <1>3 DEF NextAttempt, Return, InTime
<1> QED
  BY <1>2, <1>3

\* No step of the call leaves its budget, as long as no time passes.
LEMMA StepInTime ==
    ASSUME GwInv, GwTypeOK, NEW now \in Nat, InTime(now),
           GwStep \/ ContextEnds \/ UNCHANGED gwVars
    PROVE  InTime(now)'
<1>1. ASSUME NEW s \in Statuses, AnswerRead(s) PROVE InTime(now)'
  BY <1>1, NextAttemptInTime DEF AnswerRead, Answer, Return, InTime
<1>2. ASSUME NEW s \in Statuses, AnswerCut(s) PROVE InTime(now)'
  BY <1>2, NextAttemptInTime DEF AnswerCut, Answer
<1>3. CASE AnswerLost
  BY <1>3, NextAttemptInTime DEF AnswerLost, Answer
<1>4. CASE BackoffOver
  <2>1. /\ attempt \in Nat /\ timer = 0 /\ call = "backoff"
        /\ call' = "sending" /\ attempt' = attempt + 1 /\ timer' = GwTimeout
    BY <1>4 DEF BackoffOver, GwInv, GwTypes
  <2>2. now <= attempt * GwTimeout + Slept[attempt]
    BY <2>1 DEF InTime, Budget
  <2>3. (attempt + 1) - 1 = attempt
    BY <2>1
  <2>4. Budget' = (attempt + 1) * GwTimeout + Slept[attempt]
    BY <2>1, <2>3 DEF Budget
  <2> DEFINE tried == attempt * GwTimeout
             slept == Slept[attempt]
  <2>5. /\ tried \in Nat /\ slept \in Nat /\ GwTimeout \in Nat
        /\ (attempt + 1) * GwTimeout = tried + GwTimeout
    BY <2>1, BudgetSteps, GwaihirAssumption
  <2> HIDE DEF tried, slept
  <2>6. now + GwTimeout <= (tried + GwTimeout) + slept
    BY <2>2, <2>5 DEF tried, slept
  <2> QED
    BY <2>1, <2>4, <2>5, <2>6 DEF InTime, slept
<1>5. CASE BackoffInterrupted
  BY <1>5 DEF BackoffInterrupted, Return, InTime
<1>6. CASE ContextEnds
  BY <1>6 DEF ContextEnds, InTime, Budget
<1>7. CASE UNCHANGED gwVars
  BY <1>7 DEF gwVars, InTime, Budget
<1> QED
  BY <1>1, <1>2, <1>3, <1>4, <1>5, <1>6, <1>7 DEF GwStep

\* Time passes while a timer runs.
LEMMA TickInTime ==
    ASSUME GwInv, GwTypeOK, NEW now \in Nat, InTime(now), GwTick
    PROVE  InTime(now)' /\ InTime(now + 1)'
<1>0. call \in {"sending", "backoff"} => Budget \in Nat
  <2> SUFFICES ASSUME call \in {"sending", "backoff"} PROVE Budget \in Nat
    OBVIOUS
  <2>1. attempt \in Nat /\ attempt - 1 \in Nat
    BY DEF GwInv, GwTypes, AttemptsAreCounted
  <2>2. attempt * GwTimeout \in Nat /\ Slept[attempt] \in Nat /\ Slept[attempt - 1] \in Nat
    BY <2>1, BudgetSteps
  <2> DEFINE slept == Slept[IF call = "sending" THEN attempt - 1 ELSE attempt]
             tried == attempt * GwTimeout
  <2>3. slept \in Nat /\ tried \in Nat
    BY <2>2
  <2> HIDE DEF slept, tried
  <2>4. tried + slept \in Nat
    BY <2>3
  <2> QED
    BY <2>4 DEF Budget, slept, tried
<1>1. Budget' = Budget
  BY DEF GwTick, Budget
<1>2. ASSUME call \in {"sending", "backoff"}
      PROVE  timer \in Nat \ {0} /\ timer' = timer - 1 /\ now + timer <= Budget
  BY <1>2 DEF GwTick, GwDue, GwTypeOK, InTime
<1>3. \A b \in Nat : now + timer <= b /\ timer \in Nat \ {0} =>
        now + (timer - 1) <= b /\ (now + 1) + (timer - 1) <= b
  OBVIOUS
<1>4. call' = call
  BY DEF GwTick
<1> QED
  BY <1>0, <1>1, <1>2, <1>3, <1>4 DEF InTime

\* More attempts and delays take longer.
LEMMA BudgetGrows ==
    ASSUME NEW n \in Nat, NEW m \in Nat, n <= m
    PROVE  n * GwTimeout + Slept[n] <= m * GwTimeout + Slept[m]
<1> USE GwaihirAssumption
<1> DEFINE total(k) == k * GwTimeout + Slept[k]
           S == {k \in Nat : total(n) <= total(n + k)}
<1>1. 0 \in S
  BY BudgetSteps
<1>2. ASSUME NEW k \in Nat, k \in S PROVE k + 1 \in S
  <2>1. /\ n + k \in Nat /\ (n + k) + 1 = n + (k + 1)
        /\ CappedDelay((n + k) + 1) \in Nat
    BY CappedDelayType
  <2>2. \A i, j \in Nat : \A c \in Nat : j = i + c + c \div 10 => i <= j
    OBVIOUS
  <2>3. Slept[n + k] <= Slept[(n + k) + 1]
    BY <2>1, <2>2, SleptRecursion
  <2>4. /\ ((n + k) + 1) * GwTimeout = (n + k) * GwTimeout + GwTimeout
        /\ (n + k) * GwTimeout \in Nat /\ Slept[n + k] \in Nat
        /\ Slept[(n + k) + 1] \in Nat
    BY <2>1, BudgetSteps
  <2>5. total(n + k) <= total((n + k) + 1)
    BY <2>3, <2>4
  <2>6. total(n) \in Nat /\ total(n + k) \in Nat /\ total(n + (k + 1)) \in Nat
    <3>1. \A i \in Nat : total(i) \in Nat
      <4> SUFFICES ASSUME NEW i \in Nat PROVE total(i) \in Nat
        OBVIOUS
      <4>1. i * GwTimeout \in Nat /\ Slept[i] \in Nat
        BY BudgetSteps
      <4> QED
        BY <4>1
    <3> HIDE DEF total
    <3> QED
      BY <3>1
  <2>7. total(n) <= total(n + k)
    BY <1>2
  <2> HIDE DEF total
  <2> QED
    BY <2>1, <2>5, <2>6, <2>7
<1> HIDE DEF S, total
<1>3. Nat \subseteq S
  BY <1>1, <1>2, NatSetInduction
<1>4. m - n \in Nat /\ n + (m - n) = m
  OBVIOUS
<1>5. total(n) <= total(n + (m - n))
  BY <1>3, <1>4 DEF S
<1> QED
  BY <1>4, <1>5 DEF total
================================================================================
