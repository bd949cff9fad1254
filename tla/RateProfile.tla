---------------------------- MODULE RateProfile -----------------------------
(***************************************************************************)
(* rate_profile.rs: the factor by which a phase runs faster or slower than *)
(* its average, as pairs of changes that cancel out.  Factors are counted  *)
(* in Units of 1, times in ticks, integrals in Units times ticks.  A       *)
(* segment is kept as its start, duration and the integral of its whole    *)
(* deviation, deviation * duration / 2.  The squared sine has half of its  *)
(* integral at half of the segment; segments last at most two ticks, so    *)
(* that is the only inner point at which an integral is taken.             *)
(***************************************************************************)
EXTENDS Integers, Sequences, FiniteSetsExt, Totals

CONSTANTS Unit,
          MaxSegments  (* MAX_RATE_SEGMENTS                                 *)

ASSUME RateProfileAssumption == {Unit, MaxSegments} \subseteq Nat \ {0}

(* RandomSource::uniform: the two ends stand for the range. *)
Uniform(range) == {range[1], range[2]}

SegmentEnd(segment) == segment.start + segment.duration

IntegratedDeviationTo(segment, elapsed) ==
  IF elapsed >= SegmentEnd(segment) THEN segment.integral
  ELSE (segment.integral * (elapsed - segment.start)) \div segment.duration

(* integrated_factor_to; the prefix sums are the sum over the segments     *)
(* that are complete.                                                      *)
IntegratedFactorTo(profile, elapsed) ==
  IF elapsed = profile.duration THEN Unit * profile.duration
  ELSE LET begun == {i \in DOMAIN profile.segments : profile.segments[i].start < elapsed}
       IN Unit * elapsed
            + Total([i \in begun |-> IntegratedDeviationTo(profile.segments[i], elapsed)])

IntegratedFactorBetween(profile, start, end) ==
  IntegratedFactorTo(profile, end) - IntegratedFactorTo(profile, start)

(* SmoothRateProfile::new: in order, within the duration, and balanced. *)
ValidProfile(profile) ==
  /\ \A i \in DOMAIN profile.segments :
       /\ SegmentEnd(profile.segments[i]) <= profile.duration
       /\ i > 1 => profile.segments[i].start >= SegmentEnd(profile.segments[i - 1])
  /\ Total([i \in DOMAIN profile.segments |-> profile.segments[i].integral]) = 0

(* create_smooth_rate_profile: the profiles its draws may lead to, pairs   *)
(* of segments from the cursor on.  Draws that lead beyond MaxSegments end *)
(* in SegmentLimit: they are kept, for TooManySegments to tell.            *)
Pairs(cursor, remaining, factors, changes) ==
  {LET positive == IF draw.positive_first THEN draw.first ELSE draw.second
       negative == IF draw.positive_first THEN draw.second ELSE draw.first
       balance == IF draw.balanced THEN 0
                  ELSE Min({(factors[2] - Unit) * positive, (Unit - factors[1]) * negative})
       half == IF draw.positive_first THEN balance \div 2 ELSE -(balance \div 2)
   IN << [start |-> cursor, duration |-> draw.first, integral |-> half],
         [start |-> cursor + draw.first, duration |-> draw.second, integral |-> -half] >> :
   draw \in
     UNION {[first : {first},
             second : Uniform(<<changes[1], Min({changes[2], remaining - first})>>),
             positive_first : BOOLEAN, balanced : BOOLEAN] :
              first \in Uniform(<<changes[1], Min({changes[2], remaining - changes[1]})>>)}}

Profiles(duration, factors, changes) ==
  LET from[cursor \in 0..duration] ==
        IF duration - cursor < 2 * changes[1] \/ Unit \in {factors[1], factors[2]} THEN {<<>>}
        ELSE UNION {{pair \o rest : rest \in from[SegmentEnd(pair[2])]} :
                      pair \in Pairs(cursor, duration - cursor, factors, changes)}
  IN {[duration |-> duration, segments |-> segments] : segments \in from[0]}

TooManySegments(profile) == Len(profile.segments) > MaxSegments
=============================================================================
