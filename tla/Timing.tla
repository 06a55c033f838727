------------------------------- MODULE Timing -------------------------------
(***************************************************************************)
(* The conversions of timing.h between cycles, microseconds and            *)
(* milliseconds, on words of any width.                                    *)
(***************************************************************************)
EXTENDS Integers

CONSTANTS
  WORD,          (* 2^32: the number of values of a uint32_t               *)
  ticks_per_us,  (* 168                                                    *)
  Thousand       (* 1000: us in a ms, smaller where WORD is                *)

ASSUME TimingAssumption ==
  /\ WORD \in Nat /\ ticks_per_us \in Nat /\ Thousand \in Nat
  /\ WORD >= 4 /\ WORD % 2 = 0  (* a power of two in the code            *)
  /\ ticks_per_us >= 2 /\ ticks_per_us % 2 = 0 /\ Thousand >= 2

Word == 0 .. WORD - 1

MAX_DELAY == WORD - 1
portMAX_DELAY == WORD - 1

(* Arithmetic of uint32_t.                                                 *)
Minus(a, b) == IF a >= b THEN a - b ELSE a - b + WORD

(* A value converted to int32_t.                                           *)
ToInt(a) == IF a < WORD \div 2 THEN a ELSE a - WORD

get_us_since(raw_now, raw_start) == Minus(raw_now, raw_start) \div ticks_per_us

get_us(ticks) == ticks \div ticks_per_us

get_ms(ticks) == get_us(ticks) \div Thousand

us_to_ticks(us) ==
  IF us = MAX_DELAY THEN portMAX_DELAY ELSE (us * ticks_per_us) % WORD

ms_to_ticks(ms) ==
  IF ms = MAX_DELAY THEN portMAX_DELAY ELSE us_to_ticks((ms * Thousand) % WORD)

ticks_to_us(ticks) ==
  IF ticks = portMAX_DELAY THEN MAX_DELAY ELSE ticks \div ticks_per_us

(* Mutant: cycles are taken for microseconds.                              *)
ticks_to_ms_of_cycles(ticks) ==
  IF ticks = portMAX_DELAY THEN MAX_DELAY ELSE ticks \div Thousand

ticks_to_ms(ticks) ==
  IF ticks = portMAX_DELAY THEN MAX_DELAY ELSE ticks_to_us(ticks) \div Thousand
=============================================================================
