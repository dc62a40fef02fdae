------------------------------ MODULE RtpUtils ------------------------------
(***************************************************************************)
(* python/RtpUtils_mod.c: mu-law and linear resampling, as operators. The  *)
(* code keeps two tables of the scalar functions; resample_linear computes *)
(* in doubles, and exactly so when in_rate / out_rate is a multiple of a   *)
(* small power of 1/2. The operators compute with fractions.               *)
(***************************************************************************)
EXTENDS Integers, Sequences
LOCAL INSTANCE FiniteSetsExt

ULAW_BIAS == 132
ULAW_CLIP == 32635

Abs(x) == IF x < 0 THEN -x ELSE x

\* Mutant: the search for the leading bit ends a step early.
ExponentCut(mag) == Max({1} \cup {e \in 2 .. 7 : (mag \div 2 ^ (e + 7)) % 2 = 1})

\* The loop over exponent and mask.
Exponent(mag) == Max({0} \cup {e \in 1 .. 7 : (mag \div 2 ^ (e + 7)) % 2 = 1})

linear2ulaw(sample) ==
  LET sign == IF sample < 0 THEN 128 ELSE 0
      mag == ULAW_BIAS + Min({Abs(sample), ULAW_CLIP})
      mantissa == (mag \div 2 ^ (Exponent(mag) + 3)) % 16
  IN  255 - (sign + 16 * Exponent(mag) + mantissa)

ulaw2linear(ulaw) ==
  LET u == 255 - ulaw
      sample == (8 * (u % 16) + ULAW_BIAS) * 2 ^ ((u \div 16) % 8) - ULAW_BIAS
  IN  IF u >= 128 THEN -sample ELSE sample

-----------------------------------------------------------------------------
\* round_half_even_ll of the fraction num / den.
RoundHalfEven(num, den) ==
  LET fl == num \div den
      twice == 2 * (num % den)
  IN  IF twice < den \/ (twice = den /\ fl % 2 = 0) THEN fl ELSE fl + 1

\* Sample i of the output. The product is by in_rate / out_rate.
Interpolated(pcm, i, in_rate, out_rate) ==
  LET idx == (i * in_rate) \div out_rate
      rem == (i * in_rate) % out_rate
  IN  IF idx >= Len(pcm) - 1 THEN pcm[Len(pcm)]
      ELSE RoundHalfEven(pcm[idx + 1] * out_rate
                           + (pcm[idx + 2] - pcm[idx + 1]) * rem, out_rate)

Clamped(val) == Max({-32768, Min({32767, val})})

\* Mutant: the last sample of the input has no interval to its right.
ResampledLen(n_in, in_rate, out_rate) ==
  Max({1, RoundHalfEven((n_in - 1) * out_rate, in_rate)})

ResampleLen(n_in, in_rate, out_rate) ==
  Max({1, RoundHalfEven(n_in * out_rate, in_rate)})

resample_linear(pcm, in_rate, out_rate) ==
  IF in_rate = out_rate \/ pcm = << >> THEN pcm
  ELSE [i \in 1 .. ResampleLen(Len(pcm), in_rate, out_rate) |->
          Clamped(Interpolated(pcm, i - 1, in_rate, out_rate))]
=============================================================================
