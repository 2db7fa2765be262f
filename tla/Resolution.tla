----------------------------- MODULE Resolution -----------------------------
(***************************************************************************)
(* Processor.calculateTargetResolution of go-av: the loop over the         *)
(* standard resolutions that looks for the nearest aspect ratio, and what  *)
(* is made of its outcome.  Ratios are exact here and float64 in the code: *)
(* equal ratios are equal in both, and other differences agree unless the  *)
(* ratio lies exactly in the middle of two standard ones.                  *)
(***************************************************************************)
EXTENDS Integers, Sequences

CONSTANT Sizes   \* the <<width, height>> of the media files considered

ASSUME SizesAssumption == Sizes \subseteq Nat \X Nat

(* standardResolutions, each with its ratio rw / rh in lowest terms. *)
Size(w, h, rw, rh) == [w |-> w, h |-> h, rw |-> rw, rh |-> rh]

Standard == <<
  Size(854, 480, 427, 240), Size(1280, 720, 16, 9), Size(1920, 1080, 16, 9),
  Size(2560, 1440, 16, 9), Size(3840, 2160, 16, 9), Size(1080, 1080, 1, 1),
  Size(1080, 1920, 9, 16), Size(1080, 1350, 4, 5) >>

VARIABLES width, height,  \* of the media file
          next,           \* the next resolution to look at
          best,           \* bestRes; 0 is the zero value of the struct
          result          \* what the function returned

vars == <<width, height, next, best, result>>

NoResult == <<-1, -1>>

\* |w/h - rw/rh| is Gap(w, h, r) / (h * rh)
Gap(w, h, r) ==
  LET d == w * r.rh - h * r.rw IN IF d < 0 THEN -d ELSE d

\* r is strictly nearer to w/h than s
Closer(w, h, r, s) == Gap(w, h, r) * s.rh < Gap(w, h, s) * r.rh

(* The initial minDiff is 999999.  A height of 0 makes every difference    *)
(* infinite or NaN, which is never smaller.                                *)
MinDiff == 999999
Acceptable(r) ==
  height > 0 /\ Gap(width, height, r) \div (height * r.rh) < MinDiff

-----------------------------------------------------------------------------
Init ==
  /\ \E s \in Sizes : width = s[1] /\ height = s[2]
  /\ next = 1
  /\ best = 0
  /\ result = NoResult

\* Mutant of Better: of equal differences the last one wins.
BetterOrEqual(i) ==
  IF best = 0 THEN Acceptable(Standard[i])
              ELSE ~ Closer(width, height, Standard[best], Standard[i])

\* diff < minDiff
Better(i) ==
  IF best = 0 THEN Acceptable(Standard[i])
              ELSE Closer(width, height, Standard[i], Standard[best])

\* Mutant of Compare: the entry after the nearest one is remembered.
CompareOffByOne ==
  /\ next <= Len(Standard)
  /\ best' = IF Better(next) THEN next + 1 ELSE best
  /\ next' = next + 1
  /\ UNCHANGED <<width, height, result>>

Compare ==
  /\ next <= Len(Standard)
  /\ best' = IF Better(next) THEN next ELSE best
  /\ next' = next + 1
  /\ UNCHANGED <<width, height, result>>

\* Mutant of Target: one side smaller than the standard is enough.
TargetEitherSide ==
  IF best = 0 THEN <<0, 0>>
  ELSE IF width < Standard[best].w \/ height < Standard[best].h
    THEN <<width, height>>
    ELSE <<Standard[best].w, Standard[best].h>>

\* The source's size if it is smaller both ways, else the standard size.
Target ==
  IF best = 0 THEN <<0, 0>>
  ELSE IF width < Standard[best].w /\ height < Standard[best].h
    THEN <<width, height>>
    ELSE <<Standard[best].w, Standard[best].h>>

Return ==
  /\ next = Len(Standard) + 1
  /\ result = NoResult
  /\ result' = Target
  /\ UNCHANGED <<width, height, next, best>>

Next == Compare \/ Return

Spec == Init /\ [][Next]_vars

-----------------------------------------------------------------------------
TypeOK ==
  /\ <<width, height>> \in Sizes
  /\ next \in 1 .. Len(Standard) + 1
  /\ best \in 0 .. next - 1
  /\ result = NoResult \/ result \in Nat \X Nat

(***************************************************************************)
(* Whatever the order of the table, the loop keeps the first of the        *)
(* nearest ratios seen: nothing seen is nearer, and of two equally near    *)
(* ones (four entries are 16:9) the earlier is kept.                       *)
(***************************************************************************)
FirstNearest ==
  best # 0 =>
    \A i \in 1 .. next - 1 :
      /\ ~ Closer(width, height, Standard[i], Standard[best])
      /\ i < best => Closer(width, height, Standard[best], Standard[i])

(***************************************************************************)
(* Sending a produced video through the worker again does not change its   *)
(* size: the target of a target is the target itself.  Chosen is the       *)
(* function calculateTargetResolution computes, without the loop.          *)
(***************************************************************************)
Chosen(w, h) ==
  LET first == CHOOSE i \in DOMAIN Standard : \A k \in DOMAIN Standard \ {i} :
                 IF k < i THEN Closer(w, h, Standard[i], Standard[k])
                          ELSE ~ Closer(w, h, Standard[k], Standard[i])
  IN  IF w < Standard[first].w /\ h < Standard[first].h
        THEN <<w, h>> ELSE <<Standard[first].w, Standard[first].h>>

Stable == result \notin {NoResult, <<0, 0>>} => Chosen(result[1], result[2]) = result

(***************************************************************************)
(* go-av/README.md:22-30 lists eight standard resolutions and line 212     *)
(* logs resolution=1080p for a target of 1920 by 1080: a source that has a *)
(* standard resolution keeps it.                                           *)
(***************************************************************************)
StandardSizes == {<<Standard[i].w, Standard[i].h>> : i \in DOMAIN Standard}

StandardSizesKept ==
  result # NoResult /\ <<width, height>> \in StandardSizes =>
    result = <<width, height>>
=============================================================================
