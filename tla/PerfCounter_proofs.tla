-------------------------- MODULE PerfCounter_proofs --------------------------
(***************************************************************************)
(* The invariants of PerfCounter for words of any width, any samples and   *)
(* any number of calls.                                                    *)
(***************************************************************************)
EXTENDS PerfCounter, TLAPS

Half == WORD \div 2

(* The signed range is the word cut in half.                               *)
LEMMA HalfWord == Half \in Nat /\ Half >= 2 /\ WORD = 2 * Half
  BY TimingAssumption DEF Half

(* The ends of int32_t.                                                    *)
LEMMA Int32Range ==
  /\ INT32_MIN = -Half /\ INT32_MAX = Half - 1
  /\ Int32 = -Half .. Half - 1 /\ Int32 \subseteq Int /\ Half \in Int
  BY HalfWord DEF Int32, INT32_MIN, INT32_MAX, Half

(* A quotient by a positive divisor is a word again.                       *)
LEMMA QuotientWord ==
  ASSUME NEW a \in Word, NEW d \in Nat, d >= 1
  PROVE  a \div d \in Word
<1>1. a \in Nat /\ a <= WORD - 1 /\ WORD \in Nat
  BY TimingAssumption DEF Word
<1>2. a \div d \in Int /\ a \div d >= 0 /\ a \div d <= a
  BY <1>1
<1> QED BY <1>1, <1>2 DEF Word

(* A difference of words is a word.                                        *)
LEMMA MinusWord ==
  ASSUME NEW a \in Word, NEW b \in Word
  PROVE  Minus(a, b) \in Word
  BY TimingAssumption DEF Word, Minus

(* The conversion to int32_t yields an int32_t.                            *)
LEMMA ToIntInt32 ==
  ASSUME NEW a \in Word
  PROVE  ToInt(a) \in Int32
  BY HalfWord, Int32Range DEF Word, ToInt, Half

(* The two values computed by a counter are int32_t.                       *)
LEMMA ElapsedInt32 ==
  ASSUME NEW a \in Word, NEW b \in Word
  PROVE  ToInt(get_us_since(a, b)) \in Int32 /\ get_us_since(a, b) \in Word
<1>1. Minus(a, b) \div ticks_per_us \in Word
  BY MinusWord, QuotientWord, TimingAssumption
<1> QED BY <1>1, ToIntInt32 DEF get_us_since

(* So is the average of track_period, whatever its product came to.         *)
LEMMA AverageInt32 ==
  ASSUME TypeOK
  PROVE  average \in Int32
<1>1. value * 15 + period \in Int
  BY Int32Range, TimingAssumption DEF TypeOK, Word
<1>2. (value * 15 + period) % WORD \in Word
  BY <1>1, TimingAssumption DEF Word
<1>3. ((value * 15 + period) % WORD) \div 16 \in Word
  BY <1>2, QuotientWord
<1> QED BY <1>3, ToIntInt32 DEF average

(* And the sum of increment.                                               *)
LEMMA SumInt32 ==
  ASSUME TypeOK, NEW n \in Int32
  PROVE  ToInt((value + n) % WORD) \in Int32
<1>1. value + n \in Int
  BY Int32Range DEF TypeOK
<1>2. (value + n) % WORD \in Word
  BY <1>1, TimingAssumption DEF Word
<1> QED BY <1>2, ToIntInt32

(* A sum that passes the end of a word at most once.                       *)
LEMMA WrapOnce ==
  ASSUME NEW x \in Nat, x < 2 * WORD
  PROVE  x % WORD = (IF x < WORD THEN x ELSE x - WORD)
<1>1. WORD \in Nat /\ WORD >= 4
  BY TimingAssumption
<1> QED BY <1>1

(* Time that passes keeps the elapsed time the difference of the cycle     *)
(* counter and the timer.                                                  *)
LEMMA ElapseTypes ==
  ASSUME TypeOK, NEW cycles \in Steps, Elapse(cycles)
  PROVE  TypeOK'
<1>1. cycles \in Nat /\ WORD \in Nat /\ WORD >= 4 /\ cyccnt \in Nat
  BY PerfAssumption, TimingAssumption DEF TypeOK, Word
<1>2. cyccnt' \in Word
  BY <1>1 DEF Elapse, Word
<1>3. elapsed' \in 0 .. WORD
  BY <1>1 DEF Elapse, TypeOK
<1>4. ASSUME elapsed' < WORD PROVE elapsed' = Minus(cyccnt', partial_timer')
  <2>1. elapsed \in Nat /\ elapsed + cycles < WORD /\ elapsed' = elapsed + cycles
    BY <1>1, <1>4 DEF Elapse, TypeOK
  <2>2. elapsed = Minus(cyccnt, partial_timer) /\ elapsed < WORD
    BY <1>1, <2>1 DEF TypeOK
  <2>3. cyccnt + cycles \in Nat /\ cyccnt + cycles < 2 * WORD
    BY <1>1, <2>1 DEF TypeOK, Word
  <2>4. cyccnt' = (IF cyccnt + cycles < WORD THEN cyccnt + cycles
                   ELSE cyccnt + cycles - WORD)
    <3>1. PICK x \in Nat : x = cyccnt + cycles
      BY <2>3
    <3>2. x % WORD = (IF x < WORD THEN x ELSE x - WORD)
      BY <2>3, <3>1, WrapOnce
    <3>3. cyccnt' = x % WORD
      BY <1>1, <3>1 DEF Elapse
    <3> QED BY <1>1, <3>1, <3>2, <3>3
  <2>5. partial_timer' = partial_timer /\ partial_timer \in Word /\ cyccnt \in Word
    BY DEF Elapse, TypeOK
  <2> QED BY <1>1, <2>1, <2>2, <2>4, <2>5 DEF Minus, Word
<1>5. sinceCall' \in 0 .. WORD
  BY <1>1 DEF Elapse, TypeOK
<1> QED BY <1>2, <1>3, <1>4, <1>5 DEF Elapse, statVars, trackVars, TypeOK

(* What every operation that records a value does to the types: the        *)
(* extremes stay in their type even where the decay is undefined.          *)
LEMMA SetTypes ==
  ASSUME TypeOK, NEW v \in Int32, set(v)
  PROVE  /\ max' \in Int32 /\ min' \in Int32 /\ value' \in Int32
         /\ pc' = "stamp" /\ samples' \in Seq(Int32)
<1>1. Append(samples, v) \in Seq(Int32)
  BY DEF TypeOK
<1>2. max \in Int32 /\ min \in Int32
  BY DEF TypeOK
<1>3. max' \in Int32
  <2>1. CASE max > INT32_MIN
    <3>1. max' = (IF v > max - 1 THEN v ELSE max - 1)
      BY <2>1 DEF set, Decayed
    <3> QED BY <1>2, <2>1, <3>1, Int32Range
  <2>2. CASE ~(max > INT32_MIN)
    <3>1. max' \in {INT32_MAX, v}
      BY <2>2 DEF set, Decayed
    <3> QED BY <3>1, Int32Range, HalfWord
  <2> QED BY <2>1, <2>2
<1>4. min' \in Int32
  <2>1. CASE min < INT32_MAX
    <3>1. min' = (IF v < min + 1 THEN v ELSE min + 1)
      BY <2>1 DEF set, Decayed
    <3> QED BY <1>2, <2>1, <3>1, Int32Range
  <2>2. CASE ~(min < INT32_MAX)
    <3>1. min' \in {INT32_MIN, v}
      BY <2>2 DEF set, Decayed
    <3> QED BY <3>1, Int32Range, HalfWord
  <2> QED BY <2>1, <2>2
<1> QED BY <1>1, <1>3, <1>4 DEF set

(* Between updates: the extremes of the constructor, or those of the       *)
(* recorded values.                                                        *)
Extremes ==
  /\ samples = << >> => max = 1 - Half /\ min = Half - 2
  /\ Envelope

(* The two histories: the timer was set at the second reading of the last  *)
(* call, lost after the first.                                             *)
Gaps ==
  /\ pc # "ticks" /\ sinceCall < WORD => lost + elapsed = sinceCall
  /\ pc = "ticks" /\ interval < WORD =>
       lost <= interval /\ period = (interval - lost) \div ticks_per_us

CounterInv == TypeOK /\ Extremes /\ Gaps

(* The constructor establishes the invariant.                              *)
LEMMA CounterInit == Init => CounterInv
<1> SUFFICES ASSUME Init PROVE CounterInv
  OBVIOUS
<1> USE DEF Init, Constructed
<1>1. cyccnt \in Word /\ value \in Int32 /\ WORD \in Nat /\ WORD >= 4
  BY PerfAssumption, TimingAssumption
<1>2. get_us(cyccnt) \in Word
  BY <1>1, QuotientWord, TimingAssumption DEF get_us
<1>3. max = 1 - Half /\ min = Half - 2 /\ samples = << >>
  BY Int32Range
<1>4. max \in Int32 /\ min \in Int32
  BY <1>3, Int32Range, HalfWord
<1>5. TypeOK
  BY <1>1, <1>2, <1>4 DEF TypeOK, Word
<1>6. Extremes
  BY <1>3, HalfWord DEF Extremes, Envelope
<1>7. Gaps
  BY <1>1 DEF Gaps
<1> QED BY <1>5, <1>6, <1>7 DEF CounterInv

(* Away from the ends of the type the extremes are where the decay is      *)
(* defined: each is on its side of a recorded value.                       *)
LEMMA InsideRange ==
  ASSUME TypeOK, Extremes, Inside
  PROVE  -Half < max /\ max < Half /\ -Half <= min /\ min < Half - 1
<1>1. max \in Int /\ min \in Int /\ max < Half /\ -Half <= min
  BY Int32Range DEF TypeOK
<1>2. CASE samples = << >>
  BY <1>1, <1>2, HalfWord DEF Extremes
<1>3. CASE samples # << >>
  <2> DEFINE n == Len(samples)
  <2>1. n \in 1 .. n /\ n \in Nat /\ samples \in Seq(Int32)
    BY <1>3 DEF TypeOK
  <2>2. samples[n] \in Int32 /\ samples[n] \notin {INT32_MIN, INT32_MAX}
    BY <2>1 DEF Inside
  <2>3. max >= samples[n] - (n - n) /\ min <= samples[n] + (n - n)
    BY <1>3, <2>1 DEF Extremes, Envelope, Age
  <2>4. samples[n] \in Int /\ -Half < samples[n] /\ samples[n] < Half - 1
    BY <2>2, Int32Range
  <2> HIDE DEF n
  <2>5. Half \in Int
    BY HalfWord
  <2> QED BY ONLY <1>1, <2>1, <2>3, <2>4, <2>5
<1> QED BY <1>2, <1>3

(* One update: the samples so far grow older by one, and the new one is    *)
(* of age zero.                                                            *)
LEMMA SetExtremes ==
  ASSUME TypeOK, Extremes, NEW v \in Int32, set(v)
  PROVE  Extremes'
<1>1. samples \in Seq(Int32) /\ samples' = Append(samples, v) /\ value' = v
  BY DEF TypeOK, set
<1> DEFINE n == Len(samples)
<1>2. /\ n \in Nat /\ Len(samples') = n + 1 /\ samples' # << >>
      /\ samples'[n + 1] = v
      /\ \A i \in 1 .. n : samples'[i] = samples[i] /\ samples[i] \in Int
  <2>1. Int32 \subseteq Int
    BY Int32Range
  <2>2. n \in Nat /\ Len(samples') = n + 1 /\ samples' # << >> /\ samples'[n + 1] = v
    BY <1>1
  <2>3. \A i \in 1 .. n : samples'[i] = samples[i] /\ samples[i] \in Int32
    BY <1>1
  <2> QED BY <2>1, <2>2, <2>3
<1> SUFFICES ASSUME Inside' PROVE Envelope'
  BY <1>2 DEF Extremes, Envelope
<1>i. Inside
  BY <1>2 DEF Inside
<1>3. v \in Int /\ -Half <= v /\ v <= Half - 1 /\ max \in Int /\ min \in Int
  BY Int32Range DEF TypeOK
<1>4. /\ max' = (IF v > max - 1 THEN v ELSE max - 1)
      /\ min' = (IF v < min + 1 THEN v ELSE min + 1)
  <2>1. max > INT32_MIN /\ min < INT32_MAX
    BY <1>i, InsideRange, Int32Range
  <2> QED BY <2>1 DEF set, Decayed
<1>5. Envelope'
  <2>1. CASE samples = << >>
    <3>1. n = 0 /\ max = 1 - Half /\ min = Half - 2
      BY <2>1 DEF Extremes
    <3>2. max' = v /\ min' = v
      BY <1>3, <1>4, <3>1, HalfWord
    <3> QED BY <1>1, <1>2, <1>3, <3>1, <3>2 DEF Envelope, Age
  <2>2. CASE samples # << >>
    <3>1. Envelope /\ Inside
      BY <1>i DEF Extremes
    <3>2. PICK a \in 1 .. n : max = samples[a] - (n - a)
      BY <2>2, <3>1 DEF Envelope, Age
    <3>3. PICK b \in 1 .. n : min = samples[b] + (n - b)
      BY <2>2, <3>1 DEF Envelope, Age
    <3>4. \A i \in 1 .. n : max >= samples[i] - (n - i) /\ min <= samples[i] + (n - i)
      BY <2>2, <3>1 DEF Envelope, Age
    <3>5. \E i \in 1 .. n + 1 : max' = samples'[i] - (n + 1 - i)
      <4>1. CASE v > max - 1
        <5>1. max' = samples'[n + 1] - (n + 1 - (n + 1)) /\ n + 1 \in 1 .. n + 1
          BY <1>2, <1>3, <1>4, <4>1
        <5> QED BY <5>1
      <4>2. CASE ~(v > max - 1)
        BY <1>2, <1>3, <1>4, <3>2, <4>2
      <4> QED BY <4>1, <4>2
    <3>6. \E i \in 1 .. n + 1 : min' = samples'[i] + (n + 1 - i)
      <4>1. CASE v < min + 1
        <5>1. min' = samples'[n + 1] + (n + 1 - (n + 1)) /\ n + 1 \in 1 .. n + 1
          BY <1>2, <1>3, <1>4, <4>1
        <5> QED BY <5>1
      <4>2. CASE ~(v < min + 1)
        <5>1. min' = min + 1 /\ samples'[b] = samples[b] /\ samples[b] \in Int /\ b \in Int
          BY <1>2, <1>3, <1>4, <4>2
        <5>2. b \in 1 .. n + 1 /\ n \in Int
          BY <1>2
        <5>3. min' = samples'[b] + (n + 1 - b)
          <6> HIDE DEF n
          <6> QED BY ONLY <3>3, <5>1, <5>2
        <5> QED BY <5>2, <5>3
      <4> QED BY <4>1, <4>2
    <3>7. ASSUME NEW i \in 1 .. n + 1
          PROVE  max' >= samples'[i] - (n + 1 - i) /\ min' <= samples'[i] + (n + 1 - i)
      <4>1. CASE i = n + 1
        BY <1>2, <1>3, <1>4, <4>1
      <4>2. CASE i \in 1 .. n
        <5>1. samples'[i] = samples[i] /\ samples[i] \in Int /\ i \in Int
          BY <1>2, <4>2
        <5>2. max >= samples[i] - (n - i) /\ min <= samples[i] + (n - i)
          BY <3>4, <4>2
        <5>3. max' >= max - 1 /\ min' <= min + 1 /\ max' \in Int /\ min' \in Int
          BY <1>3, <1>4
        <5>4. n \in Int /\ n + 1 - i = (n - i) + 1
          BY <1>2, <5>1
        <5>5. max \in Int /\ min \in Int /\ n - i \in Int
          BY <1>3, <5>1, <5>4
        <5>6. /\ max - 1 >= samples[i] - (n - i) - 1
              /\ min + 1 <= samples[i] + (n - i) + 1
          <6> HIDE DEF n
          <6> QED BY ONLY <5>1, <5>2, <5>4, <5>5
        <5> HIDE DEF n
        <5> QED BY ONLY <5>1, <5>3, <5>4, <5>5, <5>6
      <4> QED BY <1>2, <4>1, <4>2
    <3>8. Len(samples') = n + 1 /\ value' = samples'[Len(samples')]
      BY <1>1, <1>2
    <3> HIDE DEF n
    <3>9. (\E i \in 1 .. Len(samples) : max = samples[i] - Age(i))'
      BY <1>2, <3>5, <3>8 DEF Age
    <3>10. (\E i \in 1 .. Len(samples) : min = samples[i] + Age(i))'
      BY <1>2, <3>6, <3>8 DEF Age
    <3>11. (\A i \in 1 .. Len(samples) : max >= samples[i] - Age(i))'
      BY <1>2, <3>7, <3>8 DEF Age
    <3>12. (\A i \in 1 .. Len(samples) : min <= samples[i] + Age(i))'
      BY <1>2, <3>7, <3>8 DEF Age
    <3> QED BY <3>8, <3>9, <3>10, <3>11, <3>12 DEF Envelope
  <2> QED BY <2>1, <2>2
<1> QED BY <1>5

(* Every operation preserves the types.                                    *)
LEMMA TypesStep == TypeOK /\ [Next]_vars => TypeOK'
<1> SUFFICES ASSUME TypeOK, [Next]_vars PROVE TypeOK'
  OBVIOUS
<1> USE DEF TypeOK, timerVars, trackVars, statVars
<1>1. ASSUME NEW cycles \in Steps, Elapse(cycles) PROVE TypeOK'
  BY <1>1, ElapseTypes
<1>2. ASSUME NEW v \in Samples, Set(v) PROVE TypeOK'
  <2>1. v \in Int32 /\ set(v)
    BY <1>2, PerfAssumption DEF Set
  <2> QED BY <1>2, <2>1, SetTypes DEF Set
<1>3. ASSUME NEW n \in Samples, Increment(n) PROVE TypeOK'
  <2>1. ToInt((value + n) % WORD) \in Int32
    BY PerfAssumption, SumInt32
  <2> QED BY <1>3, <2>1, SetTypes DEF Increment
<1>4. CASE TimedStart
  BY <1>4, TimingAssumption DEF TimedStart, Minus, Word
<1>5. CASE TimedEnd
  <2>1. ToInt(get_us_since(cyccnt, partial_timer)) \in Int32
    BY ElapsedInt32
  <2> QED BY <1>5, <2>1, SetTypes DEF TimedEnd
<1>6. CASE TrackNothing
  BY <1>6 DEF TrackNothing
<1>7. CASE TrackPeriod
  <2>1. get_us_since(cyccnt, partial_timer) \in Word
    BY ElapsedInt32
  <2> QED BY <1>7, <2>1, TimingAssumption DEF TrackPeriod
<1>8. CASE TrackTicks
  <2>1. average \in Int32
    BY AverageInt32
  <2>2. /\ max' \in Int32 /\ min' \in Int32 /\ value' \in Int32
        /\ pc' = "stamp" /\ samples' \in Seq(Int32)
    BY <1>8, <2>1, SetTypes DEF TrackTicks
  <2> QED BY <1>8, <2>2, TimingAssumption DEF TrackTicks, Minus, Word
<1>9. CASE Stamp
  <2>1. get_us(cyccnt) \in Word
    BY QuotientWord, TimingAssumption DEF get_us
  <2> QED BY <1>9, <2>1 DEF Stamp
<1>10. CASE UNCHANGED vars
  BY <1>10 DEF vars
<1> QED BY <1>1, <1>2, <1>3, <1>4, <1>5, <1>6, <1>7, <1>8, <1>9, <1>10 DEF Next

(* Only an update changes the extremes.                                    *)
LEMMA ExtremesStep == TypeOK /\ Extremes /\ [Next]_vars => Extremes'
<1> SUFFICES ASSUME TypeOK, Extremes, [Next]_vars PROVE Extremes'
  OBVIOUS
<1>1. ASSUME UNCHANGED statVars PROVE Extremes'
  BY <1>1 DEF Extremes, Envelope, Inside, Age, statVars
<1>2. ASSUME NEW cycles \in Steps, Elapse(cycles) PROVE Extremes'
  BY <1>1, <1>2 DEF Elapse
<1>3. ASSUME NEW v \in Samples, Set(v) PROVE Extremes'
  <2>1. v \in Int32 /\ set(v)
    BY <1>3, PerfAssumption DEF Set
  <2> QED BY <2>1, SetExtremes
<1>4. ASSUME NEW n \in Samples, Increment(n) PROVE Extremes'
  <2>1. ToInt((value + n) % WORD) \in Int32
    BY PerfAssumption, SumInt32
  <2> QED BY <1>4, <2>1, SetExtremes DEF Increment
<1>5. CASE TimedEnd
  <2>1. ToInt(get_us_since(cyccnt, partial_timer)) \in Int32
    BY ElapsedInt32 DEF TypeOK
  <2> QED BY <1>5, <2>1, SetExtremes DEF TimedEnd
<1>6. CASE TrackTicks
  <2>1. average \in Int32
    BY AverageInt32
  <2> QED BY <1>6, <2>1, SetExtremes DEF TrackTicks
<1>7. CASE TimedStart \/ TrackNothing \/ TrackPeriod \/ Stamp \/ UNCHANGED vars
  BY <1>1, <1>7 DEF TimedStart, TrackNothing, TrackPeriod, Stamp, vars
<1> QED BY <1>2, <1>3, <1>4, <1>5, <1>6, <1>7 DEF Next

(* The histories agree with the timer: set at the second reading, measured *)
(* at the first.                                                           *)
LEMMA GapsStep == TypeOK /\ Gaps /\ [Next]_vars => Gaps'
<1> SUFFICES ASSUME TypeOK, Gaps, [Next]_vars PROVE Gaps'
  OBVIOUS
<1>t. /\ elapsed \in Nat /\ sinceCall \in Nat /\ lost \in Nat /\ interval \in Nat
      /\ elapsed <= WORD /\ WORD \in Nat /\ WORD >= 4
  BY TimingAssumption DEF TypeOK
<1> USE DEF Gaps, timerVars, trackVars
<1>1. ASSUME NEW cycles \in Steps, Elapse(cycles) PROVE Gaps'
  <2>1. cycles \in Nat
    BY PerfAssumption
  <2>2. /\ elapsed' = IF elapsed + cycles < WORD THEN elapsed + cycles ELSE WORD
        /\ sinceCall' = IF sinceCall + cycles < WORD THEN sinceCall + cycles ELSE WORD
        /\ UNCHANGED <<pc, lost, interval, period>>
    BY <1>1 DEF Elapse
  <2>3. ASSUME pc' # "ticks", sinceCall' < WORD PROVE lost' + elapsed' = sinceCall'
    <3>1. sinceCall + cycles < WORD /\ sinceCall' = sinceCall + cycles
      BY <1>t, <2>1, <2>2, <2>3
    <3>2. lost + elapsed = sinceCall
      BY <1>t, <2>1, <2>2, <2>3, <3>1
    <3>3. elapsed + cycles < WORD
      BY <1>t, <2>1, <3>1, <3>2
    <3> QED BY <1>t, <2>1, <2>2, <3>1, <3>2, <3>3
  <2> QED BY <2>2, <2>3
<1>2. CASE TimedStart
  BY <1>2, <1>t DEF TimedStart
<1>3. CASE TrackPeriod
  <2>1. /\ pc = "idle" /\ pc' = "ticks" /\ interval' = sinceCall /\ lost' = lost
        /\ period' = Minus(cyccnt, partial_timer) \div ticks_per_us
    BY <1>3 DEF TrackPeriod, Called, get_us_since
  <2>2. ASSUME interval' < WORD
        PROVE  lost' <= interval' /\ period' = (interval' - lost') \div ticks_per_us
    <3>1. lost + elapsed = sinceCall
      BY <2>1, <2>2
    <3>2. elapsed < WORD
      BY <1>t, <2>1, <2>2, <3>1
    <3>3. elapsed = Minus(cyccnt, partial_timer)
      BY <3>2 DEF TypeOK
    <3>4. sinceCall - lost = elapsed /\ lost <= sinceCall
      BY <1>t, <3>1
    <3> QED BY <2>1, <3>3, <3>4
  <2> QED BY <2>1, <2>2
<1>4. CASE TrackTicks
  <2>1. pc' = "stamp" /\ elapsed' = 0 /\ lost' = sinceCall /\ sinceCall' = sinceCall
    BY <1>4 DEF TrackTicks, set
  <2> QED BY <1>t, <2>1
<1>5. ASSUME pc # "ticks", pc' # "ticks", UNCHANGED <<lost, elapsed, sinceCall>>
      PROVE  Gaps'
  BY <1>5
<1>6. ASSUME NEW v \in Samples, Set(v) \/ Increment(v) PROVE Gaps'
  <2>1. pc # "ticks" /\ pc' # "ticks" /\ UNCHANGED <<lost, elapsed, sinceCall>>
    BY <1>6 DEF Set, Increment, set, Called
  <2> QED BY <1>5, <2>1
<1>7. CASE TimedEnd \/ TrackNothing \/ Stamp
  <2>1. pc # "ticks" /\ pc' # "ticks" /\ UNCHANGED <<lost, elapsed, sinceCall>>
    BY <1>7 DEF TimedEnd, TrackNothing, Stamp, set, Called
  <2> QED BY <1>5, <2>1
<1>8. CASE UNCHANGED vars
  BY <1>8 DEF vars
<1> QED BY <1>1, <1>2, <1>3, <1>4, <1>6, <1>7, <1>8 DEF Next

(* The inductive invariant of a counter.                                   *)
THEOREM CounterInvariant == Spec => []CounterInv
<1>1. CounterInv /\ [Next]_vars => CounterInv'
  BY TypesStep, ExtremesStep, GapsStep DEF CounterInv
<1> QED BY CounterInit, <1>1, PTL DEF Spec

(* The elapsed time is the difference of the two words, across every wrap. *)
THEOREM CounterTypes == Spec => []TypeOK
<1>1. CounterInv => TypeOK
  BY DEF CounterInv
<1> QED BY CounterInvariant, <1>1, PTL

(* The extremes of update_stats are exact after any number of updates, as  *)
(* long as no end of int32_t was recorded.                                 *)
THEOREM EnvelopeCorrect == Spec => []Envelope
<1>1. CounterInv => Envelope
  BY DEF CounterInv, Extremes
<1> QED BY CounterInvariant, <1>1, PTL

(* Their decay never overflows then, however many updates come.            *)
THEOREM DecayNeverOverflows == Spec => []DecayInRange
<1>1. CounterInv => DecayInRange
  BY InsideRange, Int32Range DEF CounterInv, DecayInRange
<1> QED BY CounterInvariant, <1>1, PTL

(* Less than a turn of the cycle counter is less than Half microseconds.   *)
LEMMA QuotientHalf ==
  ASSUME NEW a \in Word
  PROVE  a \div ticks_per_us < Half /\ a \div ticks_per_us \in Nat
<1>1. /\ a \in Nat /\ a < 2 * Half /\ Half \in Nat
      /\ ticks_per_us \in Nat /\ ticks_per_us >= 2
  BY HalfWord, TimingAssumption DEF Word
<1> DEFINE q == a \div ticks_per_us
<1>2. q \in Nat /\ q * ticks_per_us <= a
  BY <1>1
<1> HIDE DEF q
<1>3. q * 2 <= q * ticks_per_us
  BY <1>1, <1>2
<1>4. q < Half
  BY <1>1, <1>2, <1>3
<1> QED BY <1>2, <1>4 DEF q

(* timed_end is exact over any wrap of the cycle counter.                  *)
THEOREM TimedAlwaysExact == Spec => TimedExact
<1>1. CounterInv /\ [Next]_vars
      => [TimedEnd /\ elapsed < WORD => value' = elapsed \div ticks_per_us]_vars
  <2> SUFFICES ASSUME CounterInv, TimedEnd, elapsed < WORD
               PROVE  value' = elapsed \div ticks_per_us
    OBVIOUS
  <2>1. elapsed = Minus(cyccnt, partial_timer) /\ elapsed \in Word
    BY TimingAssumption DEF CounterInv, TypeOK, Word
  <2>2. value' = ToInt(elapsed \div ticks_per_us)
    BY <2>1 DEF TimedEnd, set, get_us_since
  <2>3. elapsed \div ticks_per_us < Half
    BY <2>1, QuotientHalf
  <2> QED BY <2>2, <2>3 DEF ToInt, Half
<1> QED BY CounterInvariant, <1>1, PTL DEF Spec, TimedExact

(* track_period records a mean of the average so far and of the time from  *)
(* call to call, less what passed between the two readings of a call.      *)
THEOREM TrackAlwaysAverages == Spec => TrackAverages
<1> DEFINE measured == (interval - lost) \div ticks_per_us
           Means ==
             TrackTicks /\ interval < WORD /\ value >= 0 /\ value * 15 + measured < WORD
             => Between(value', value, measured)
<1>1. CounterInv /\ [Next]_vars => [Means]_vars
  <2> SUFFICES ASSUME CounterInv, TrackTicks, interval < WORD,
                      value >= 0, value * 15 + measured < WORD
               PROVE  Between(value', value, measured)
    OBVIOUS
  <2>1. pc = "ticks" /\ value' = average
    BY DEF TrackTicks, set
  <2>2. measured = period
    BY <2>1 DEF CounterInv, Gaps
  <2>3. period \in Nat /\ value \in Nat
    BY TimingAssumption, Int32Range DEF CounterInv, TypeOK, Word
  <2>4. PICK x \in Nat : x = value * 15 + period
    BY <2>3
  <2>5. x < WORD /\ x % WORD = x
    <3>1. x < WORD /\ WORD \in Nat
      BY <2>2, <2>4, TimingAssumption
    <3> QED BY <3>1, WrapOnce
  <2>6. value' = ToInt(x \div 16)
    BY <2>1, <2>4, <2>5 DEF average
  <2>7. x \div 16 < Half
    BY <2>5, HalfWord
  <2>8. value' = x \div 16
    BY <2>6, <2>7 DEF ToInt, Half
  <2> HIDE DEF measured
  <2>9. Between(value', value, period)
    BY <2>3, <2>4, <2>8 DEF Between
  <2> QED BY <2>2, <2>9
<1> QED BY CounterInvariant, <1>1, PTL DEF Spec, TrackAverages

(* A product by an even factor is even.                                    *)
LEMMA EvenProduct ==
  ASSUME NEW a \in Nat, NEW d \in Nat, d % 2 = 0
  PROVE  (a * d) % 2 = 0
<1>1. PICK k \in Nat : d = 2 * k
  BY d \div 2 \in Nat
<1>2. PICK m \in Nat : m = a * k
  OBVIOUS
<1>3. a * d = 2 * m
  BY <1>1, <1>2
<1>4. (2 * m) % 2 = 0
  OBVIOUS
<1> QED BY <1>3, <1>4

(* A quotient undoes a product.                                            *)
LEMMA QuotientOfProduct ==
  ASSUME NEW a \in Nat, NEW d \in Nat, d >= 1
  PROVE  (a * d) \div d = a
<1> DEFINE q == (a * d) \div d
<1>1. a * d \in Nat
  OBVIOUS
<1>2. q \in Int /\ q * d <= a * d /\ a * d < (q + 1) * d
  BY <1>1
<1> HIDE DEF q
<1>3. ~(q > a)
  BY <1>2
<1>4. ~(q < a)
  BY <1>2
<1> QED BY <1>2, <1>3, <1>4 DEF q

(* A time that fits comes back from us_to_ticks and ticks_to_us, and its   *)
(* ticks, an even number, are not taken for the delay without end.         *)
LEMMA UsRoundTrip ==
  ASSUME NEW us \in Word, us * ticks_per_us < WORD
  PROVE  /\ us_to_ticks(us) = us * ticks_per_us
         /\ us_to_ticks(us) # portMAX_DELAY
         /\ ticks_to_us(us_to_ticks(us)) = us
<1>1. /\ us \in Nat /\ WORD \in Nat /\ WORD >= 4 /\ WORD % 2 = 0
      /\ ticks_per_us \in Nat /\ ticks_per_us >= 2 /\ ticks_per_us % 2 = 0
  BY TimingAssumption DEF Word
<1>2. PICK t \in Nat : t = us * ticks_per_us
  BY <1>1
<1>3. us # MAX_DELAY
  <2>1. 2 * us <= us * ticks_per_us
    BY <1>1
  <2> QED BY <1>1, <1>2, <2>1 DEF MAX_DELAY
<1>4. t % WORD = t
  BY <1>1, <1>2, WrapOnce
<1>5. us_to_ticks(us) = t
  BY <1>2, <1>3, <1>4 DEF us_to_ticks
<1>6. t # portMAX_DELAY
  <2>1. t % 2 = 0
    BY <1>1, <1>2, EvenProduct
  <2> QED BY <1>1, <2>1 DEF portMAX_DELAY
<1>7. t \div ticks_per_us = us
  BY <1>1, <1>2, QuotientOfProduct
<1> QED BY <1>2, <1>5, <1>6, <1>7 DEF ticks_to_us

(* A multiple of the quotient is no more than the dividend.                *)
LEMMA BelowQuotient ==
  ASSUME NEW a \in Nat, NEW d \in Nat, d >= 1, NEW x \in 0 .. a \div d
  PROVE  x * d <= a
<1> DEFINE q == a \div d
<1>1. q \in Nat /\ q * d <= a /\ x \in Nat /\ x <= q
  OBVIOUS
<1> HIDE DEF q
<1>2. x * d <= q * d
  BY <1>1
<1> QED BY <1>1, <1>2

(* Microseconds and milliseconds that the cycle counter can show survive   *)
(* the way to ticks and back.                                              *)
THEOREM RoundTripCorrect == Spec => []RoundTrip
<1>1. CounterInv => RoundTrip
  <2> SUFFICES ASSUME CounterInv PROVE RoundTrip
    OBVIOUS
  <2>1. /\ cyccnt \in Nat /\ cyccnt < WORD /\ WORD \in Nat /\ WORD >= 4
        /\ ticks_per_us \in Nat /\ ticks_per_us >= 2 /\ Thousand \in Nat /\ Thousand >= 2
    BY TimingAssumption DEF CounterInv, TypeOK, Word
  <2>2. get_us(cyccnt) \in Nat
    BY <2>1 DEF get_us
  <2>3. ASSUME NEW us \in 0 .. get_us(cyccnt)
        PROVE  us \in Word /\ us * ticks_per_us < WORD
    <3>1. us \in Nat /\ us * ticks_per_us <= cyccnt
      BY <2>1, BelowQuotient DEF get_us
    <3>2. us <= us * ticks_per_us /\ us * ticks_per_us \in Nat
      BY <2>1, <3>1
    <3> QED BY <2>1, <3>1, <3>2 DEF Word
  <2>4. ASSUME NEW ms \in 0 .. get_ms(cyccnt)
        PROVE  ticks_to_ms(ms_to_ticks(ms)) = ms
    <3>1. ms \in Nat /\ ms * Thousand <= get_us(cyccnt)
      BY <2>1, <2>2, BelowQuotient DEF get_ms
    <3>2. PICK us \in Nat : us = ms * Thousand
      BY <2>1, <3>1
    <3>3. us \in Word /\ us * ticks_per_us < WORD
      BY <2>2, <2>3, <3>1, <3>2
    <3>4. us_to_ticks(us) # portMAX_DELAY /\ ticks_to_us(us_to_ticks(us)) = us
      BY <3>3, UsRoundTrip
    <3>5. 2 * ms <= us
      BY <2>1, <3>1, <3>2
    <3>6. us < WORD /\ ms # MAX_DELAY
      BY <2>1, <3>1, <3>3, <3>5 DEF Word, MAX_DELAY
    <3>7. us % WORD = us
      BY <2>1, <3>6, WrapOnce
    <3>8. ms_to_ticks(ms) = us_to_ticks(us)
      BY <3>2, <3>6, <3>7 DEF ms_to_ticks
    <3>9. us \div Thousand = ms
      BY <2>1, <3>1, <3>2, QuotientOfProduct
    <3> QED BY <3>4, <3>8, <3>9 DEF ticks_to_ms
  <2> QED BY <2>3, <2>4, UsRoundTrip DEF RoundTrip
<1> QED BY CounterInvariant, <1>1, PTL
=============================================================================
