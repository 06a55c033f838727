----------------------------- MODULE PerfCounter -----------------------------
(***************************************************************************)
(* One PerfCounter of instrumentation.h, the free-running cycle counter it *)
(* reads, and a client that calls its operations in any order.             *)
(***************************************************************************)
EXTENDS Timing, Sequences

CONSTANTS
  Samples,    (* the values given to set and increment, a set of integers  *)
  Garbage,    (* what value may hold before the first set                  *)
  Steps,      (* the numbers of cycles that may pass at a time             *)
  StartTicks, (* the values of the cycle counter at construction           *)
  MaxCalls    (* bound: calls of one counter's life                        *)

INT32_MIN == -(WORD \div 2)
INT32_MAX == (WORD \div 2) - 1
Int32 == INT32_MIN .. INT32_MAX

ASSUME PerfAssumption ==
  /\ MaxCalls \in Nat /\ Steps \subseteq Nat /\ StartTicks \subseteq Word
  /\ Samples \cup Garbage \subseteq Int32

VARIABLES
  cyccnt,         (* DWT->CYCCNT                                           *)
  max, min, value, last_update_us, partial_timer,
  pc,             (* the next reading of the cycle counter in the running  *)
                  (* call: "ticks" in track_period, "stamp" in             *)
                  (* update_stats; "idle" between calls                    *)
  period,         (* the local variable of track_period, 0 outside it      *)
  elapsed,        (* history: cycles since the timer was set, WORD for a   *)
                  (* turn of the counter or more, and if it never was      *)
  sinceCall,      (* history: likewise since the last call of timed_start  *)
                  (* or of a track_period that recorded something          *)
  interval,       (* history: sinceCall when track_period was called, WORD *)
                  (* outside it                                            *)
  lost,           (* history: from the first to the second reading of the  *)
                  (* last such call, 0 after timed_start                   *)
  samples,        (* history: the values recorded, oldest first            *)
  untracked       (* history: calls of track_period that recorded nothing  *)

statVars  == <<max, min, value, samples>>
timerVars == <<partial_timer, elapsed, sinceCall, lost>>
trackVars == <<period, interval, untracked>>
vars == <<cyccnt, statVars, last_update_us, pc, timerVars, trackVars>>

(* The constructor leaves value uninitialised.                             *)
Constructed(highest, lowest) ==
  /\ cyccnt \in StartTicks
  /\ max = highest /\ min = lowest
  /\ value \in Garbage
  /\ last_update_us = get_us(cyccnt)
  /\ partial_timer = 0
  /\ pc = "idle" /\ period = 0
  /\ elapsed = WORD /\ sinceCall = WORD /\ interval = WORD /\ lost = 0
  /\ samples = << >> /\ untracked = 0

(* Mutant: max starts at the end of its type.                              *)
Init_lowest == Constructed(INT32_MIN, INT32_MAX - 1)

Init == Constructed(INT32_MIN + 1, INT32_MAX - 1)

(* Time passes, between two readings of one call too: the task may be      *)
(* preempted.  The counter wraps.                                          *)
Elapse(cycles) ==
  /\ cyccnt' = (cyccnt + cycles) % WORD
  /\ elapsed' = IF elapsed + cycles < WORD THEN elapsed + cycles ELSE WORD
  /\ sinceCall' = IF sinceCall + cycles < WORD THEN sinceCall + cycles ELSE WORD
  /\ UNCHANGED <<statVars, last_update_us, pc, partial_timer, lost, trackVars>>

(* max-- and min++ at the end of int32_t are undefined.  The processor     *)
(* wraps; a compiler may as well compare new_value with the value before.  *)
Decayed(new_value, max_after, min_after) ==
  /\ max' \in (IF max > INT32_MIN THEN {max_after} ELSE {INT32_MAX, new_value})
  /\ min' \in (IF min < INT32_MAX THEN {min_after} ELSE {INT32_MIN, new_value})

(* Mutant: the extremes are compared before they decay.                    *)
set_decay_last(new_value) ==
  /\ pc' = "stamp"
  /\ value' = new_value /\ samples' = Append(samples, new_value)
  /\ Decayed(new_value, (IF new_value > max THEN new_value ELSE max) - 1,
                        (IF new_value < min THEN new_value ELSE min) + 1)

(* set and update_stats: the extremes decay by one, then take the value.   *)
set(new_value) ==
  /\ pc' = "stamp"
  /\ value' = new_value /\ samples' = Append(samples, new_value)
  /\ Decayed(new_value, IF new_value > max - 1 THEN new_value ELSE max - 1,
                        IF new_value < min + 1 THEN new_value ELSE min + 1)

(* update_stats ends with a reading of its own.                            *)
Stamp ==
  /\ pc = "stamp"
  /\ pc' = "idle"
  /\ last_update_us' = get_us(cyccnt)
  /\ UNCHANGED <<cyccnt, statVars, timerVars, trackVars>>

Called == pc = "idle" /\ Len(samples) + untracked < MaxCalls

Set(new_value) ==
  /\ Called
  /\ set(new_value)
  /\ UNCHANGED <<cyccnt, last_update_us, timerVars, trackVars>>

(* value may still be garbage: nothing requires a set before.  The sum, an *)
(* int32_t, wraps as the processor's does.                                 *)
Increment(n) ==
  /\ Called
  /\ set(ToInt((value + n) % WORD))
  /\ UNCHANGED <<cyccnt, last_update_us, timerVars, trackVars>>

TimedStart ==
  /\ pc = "idle"
  /\ partial_timer' = cyccnt
  /\ elapsed' = 0 /\ sinceCall' = 0 /\ lost' = 0
  /\ UNCHANGED <<cyccnt, statVars, last_update_us, pc, trackVars>>

(* Mutant: the absolute difference.                                        *)
TimedEnd_no_wrap ==
  /\ Called
  /\ set(ToInt((IF cyccnt >= partial_timer THEN cyccnt - partial_timer
                ELSE partial_timer - cyccnt) \div ticks_per_us))
  /\ UNCHANGED <<cyccnt, last_update_us, timerVars, trackVars>>

TimedEnd ==
  /\ Called
  /\ set(ToInt(get_us_since(cyccnt, partial_timer)))
  /\ UNCHANGED <<cyccnt, last_update_us, timerVars, trackVars>>

(* A counter whose timer is 0 is left as it is, the timer too.             *)
TrackNothing ==
  /\ Called
  /\ partial_timer = 0
  /\ untracked' = untracked + 1
  /\ UNCHANGED <<cyccnt, statVars, last_update_us, pc, timerVars, period, interval>>

(* track_period reads the counter for the period...                        *)
TrackPeriod ==
  /\ Called
  /\ partial_timer # 0
  /\ pc' = "ticks"
  /\ period' = get_us_since(cyccnt, partial_timer)
  /\ interval' = sinceCall /\ sinceCall' = 0
  /\ UNCHANGED <<cyccnt, statVars, last_update_us, partial_timer, elapsed, lost, untracked>>

(* (value * 15 + period) / 16 in uint32_t; the product, an int32_t, wraps  *)
(* as the processor's does.                                                *)
average == ToInt(((value * 15 + period) % WORD) \div 16)

(* Mutant: partial_timer is not moved on.                                  *)
TrackTicks_timer_kept ==
  /\ pc = "ticks"
  /\ elapsed' = 0 /\ lost' = sinceCall
  /\ period' = 0 /\ interval' = WORD
  /\ set(average)
  /\ UNCHANGED <<cyccnt, last_update_us, partial_timer, sinceCall, untracked>>

(* ... and again for the timer, and records the average.                   *)
TrackTicks ==
  /\ pc = "ticks"
  /\ partial_timer' = cyccnt
  /\ elapsed' = 0 /\ lost' = sinceCall
  /\ period' = 0 /\ interval' = WORD
  /\ set(average)
  /\ UNCHANGED <<cyccnt, last_update_us, sinceCall, untracked>>

Next ==
  \/ \E cycles \in Steps : Elapse(cycles)
  \/ \E v \in Samples : Set(v) \/ Increment(v)
  \/ TimedStart \/ TimedEnd \/ TrackNothing \/ TrackPeriod \/ TrackTicks \/ Stamp

Spec == Init /\ [][Next]_vars

-----------------------------------------------------------------------------
(* Types, and that the elapsed time is what the timer and the cycle        *)
(* counter say, across the wraps of the counter.                           *)
TypeOK ==
  /\ cyccnt \in Word /\ partial_timer \in Word /\ last_update_us \in Word
  /\ max \in Int32 /\ min \in Int32 /\ value \in Int32
  /\ pc \in {"idle", "ticks", "stamp"} /\ period \in Word
  /\ {elapsed, sinceCall, interval, lost} \subseteq 0 .. WORD
  /\ samples \in Seq(Int32) /\ untracked \in Nat
  /\ elapsed < WORD => elapsed = Minus(cyccnt, partial_timer)

(* No value recorded was an end of int32_t.                                *)
Inside == \A i \in 1 .. Len(samples) : samples[i] \notin {INT32_MIN, INT32_MAX}

(* The extremes of update_stats are exact for a history of any length, as  *)
(* long as no end of int32_t was recorded: max is the largest sample after *)
(* each lost one for every update since, and min the smallest after each   *)
(* gained one, so the initial bounds have no influence and value lies      *)
(* between the two.                                                        *)
Age(i) == Len(samples) - i

Envelope ==
  Inside /\ samples # << >> =>
    /\ \E i \in 1 .. Len(samples) : max = samples[i] - Age(i)
    /\ \A i \in 1 .. Len(samples) : max >= samples[i] - Age(i)
    /\ \E i \in 1 .. Len(samples) : min = samples[i] + Age(i)
    /\ \A i \in 1 .. Len(samples) : min <= samples[i] + Age(i)
    /\ value = samples[Len(samples)]

(* max-- and min++ never overflow, however many updates come, when no      *)
(* value recorded is an end of int32_t: each stays on its side of value,   *)
(* and the constructor leaves room for the first update.                   *)
DecayInRange == Inside => max > INT32_MIN /\ min < INT32_MAX

(* timed_end records the whole microseconds since timed_start, even when   *)
(* the cycle counter wrapped in between, as long as it did not make a      *)
(* whole turn.                                                             *)
TimedExact ==
  [][TimedEnd /\ elapsed < WORD => value' = elapsed \div ticks_per_us]_vars

Between(x, a, b) == (a <= x /\ x <= b) \/ (b <= x /\ x <= a)

(* Measured from call to call: when nothing overflows, track_period moves  *)
(* value towards the time since the call before, less what passed in that  *)
(* call between its two readings of the counter, and not past it.          *)
TrackAverages ==
  [][ LET measured == (interval - lost) \div ticks_per_us
      IN  TrackTicks /\ interval < WORD /\ value >= 0 /\ value * 15 + measured < WORD
          => Between(value', value, measured) ]_vars

(* Every time the cycle counter can show survives the way to ticks and     *)
(* back, and is never taken for the delay without end on the way.          *)
RoundTrip ==
  /\ \A us \in 0 .. get_us(cyccnt) : ticks_to_us(us_to_ticks(us)) = us
  /\ \A ms \in 0 .. get_ms(cyccnt) : ticks_to_ms(ms_to_ticks(ms)) = ms

(* "Used to determine the average period between each call to the          *)
(* function": of the calls of track_period, only the first has no period.  *)
PeriodTracked == untracked <= 1
=============================================================================
