----------------------------- MODULE VisionMath -----------------------------
(***************************************************************************)
(* What the vision provider computes before and after its models run       *)
(* (providers/onnx_vision.rs): from the text detector's map to boxes, from *)
(* the recognizer's steps to text, from a query's tokens to the fixed      *)
(* length the icon model takes, and from its boxes to those reported.      *)
(*                                                                         *)
(* A behaviour takes one sample and computes its result.  Probabilities    *)
(* are tenths.                                                             *)
(***************************************************************************)
EXTENDS Integers, Sequences, FiniteSets, SequencesExt

CONSTANTS Samples,    \* records of kind "map", "steps", "tokens" or "boxes"
          MapThreshold, BoxThreshold, MinEdge,   \* of the detector
          Keys,       \* the recognizer's dictionary
          Length, Pad,            \* of the icon model's text
          MaxOverlap, MaxBoxes,   \* of its boxes: tenths of their union
          None

VARIABLES sample, result

mathVars == <<sample, result>>

Least(S) == CHOOSE x \in S: \A y \in S: x <= y
Most(S) == CHOOSE x \in S: \A y \in S: x >= y
AtMost(a, b) == IF a < b THEN a ELSE b
AtLeast(a, b) == IF a > b THEN a ELSE b

-----------------------------------------------------------------------------
(* The detector's map: [w, h, prob, cell].                                 *)

Cells(m) == 0..(m.w * m.h - 1)
Lit(m) == {i \in Cells(m): m.prob[i] > MapThreshold}

\* The cells left, right, above and below, as far as the map has them.
Neighbours(m, i) ==
  {j \in Cells(m): \/ j \in {i - m.w, i + m.w}
                   \/ j \in {i - 1, i + 1} /\ j \div m.w = i \div m.w}
RECURSIVE Flood(_, _), Components(_, _)
Flood(m, seen) ==
  LET more == {i \in Lit(m): \E j \in seen: i \in Neighbours(m, j)}
  IN IF more \subseteq seen THEN seen ELSE Flood(m, seen \union more)
\* One flood from each lit cell no earlier flood has reached.
Components(m, left) ==
  IF left = {} THEN {}
  ELSE LET c == Flood(m, {Least(left)}) IN {c} \union Components(m, left \ c)

Columns(m, c) == {i % m.w : i \in c}
Rows(m, c) == {i \div m.w : i \in c}
Mass(m, c) == FoldFunctionOnSet(LAMBDA p, sum: p + sum, 0, m.prob, c)

Kept(m, c) ==
  /\ Mass(m, c) >= BoxThreshold * Cardinality(c)
  /\ Most(Columns(m, c)) - Least(Columns(m, c)) + 1 >= MinEdge
  /\ Most(Rows(m, c)) - Least(Rows(m, c)) + 1 >= MinEdge

\* The component's box, grown on each side by its area times the ratio over its
\* circumference, as far as the map goes, in pixels of the frame.
Grown(m, c) ==
  LET x0 == Least(Columns(m, c))  x1 == Most(Columns(m, c))
      y0 == Least(Rows(m, c))     y1 == Most(Rows(m, c))
      bw == x1 - x0 + 1           bh == y1 - y0 + 1
      d == AtLeast(1, (bw * bh * 16) \div (20 * (bw + bh)))
  IN [x |-> AtLeast(0, x0 - d) * m.cell, y |-> AtLeast(0, y0 - d) * m.cell,
      right |-> (AtMost(x1 + d, m.w - 1) + 1) * m.cell,
      bottom |-> (AtMost(y1 + d, m.h - 1) + 1) * m.cell]

DetBoxes(m) == {[of |-> c, box |-> Grown(m, c)] : c \in {c \in Components(m, Lit(m)): Kept(m, c)}}

-----------------------------------------------------------------------------
(* The recognizer: the best class at each step, 0 for none.                *)

\* MUTANT of Emits: a blank does not end a repeat.
EmitsAcrossBlanks(path, t) ==
  /\ path[t] # 0 /\ path[t] - 1 < Len(Keys)
  /\ \A u \in 1..(t - 1): path[u] # path[t] \/ \E v \in (u + 1)..(t - 1): path[v] \notin {0, path[t]}
Emits(path, t) ==
  /\ path[t] # 0 /\ path[t] - 1 < Len(Keys)
  /\ t > 1 => path[t] # path[t - 1]
Decode(path) ==
  LET emitted == SelectSeq([t \in DOMAIN path |-> t], LAMBDA t: Emits(path, t))
  IN [i \in DOMAIN emitted |-> Keys[path[emitted[i]]]]

-----------------------------------------------------------------------------
(* The icon model: its tokens, and its boxes.                              *)

\* The last token ends the text, also where the text is cut.
ClipPad(ids) ==
  LET cut == IF Len(ids) <= Length THEN ids
             ELSE Append(SubSeq(ids, 1, Length - 1), Last(ids))
  IN [ids |-> [i \in 1..Length |-> IF i <= Len(cut) THEN cut[i] ELSE Pad], real |-> Len(cut)]

Overlap(a, b) ==
  LET w == AtMost(a.x + a.w, b.x + b.w) - AtLeast(a.x, b.x)
      h == AtMost(a.y + a.h, b.y + b.h) - AtLeast(a.y, b.y)
  IN IF w <= 0 \/ h <= 0 THEN 0 ELSE w * h
\* Whether two boxes share more than MaxOverlap tenths of what they cover.
Clash(a, b) == LET both == Overlap(a, b)
               IN 10 * both > MaxOverlap * (a.w * a.h + b.w * b.h - both)

Sorted(boxes) == SortSeq(boxes, LAMBDA a, b: a.score > b.score)
\* The best first, each kept that clashes with none kept before it.
Suppress(boxes) ==
  FoldLeft(LAMBDA kept, b: IF \E i \in DOMAIN kept: Clash(kept[i], b) THEN kept
                           ELSE Append(kept, b),
           <<>>, Sorted(boxes))
Reported(boxes) == LET kept == Suppress(boxes)
                   IN SubSeq(kept, 1, AtMost(Len(kept), MaxBoxes))

-----------------------------------------------------------------------------
Init == sample \in Samples /\ result = None
Compute ==
  /\ result = None
  /\ result' = CASE sample.kind = "map" -> DetBoxes(sample)
                 [] sample.kind = "steps" -> Decode(sample.path)
                 [] sample.kind = "tokens" -> ClipPad(sample.ids)
                 [] sample.kind = "boxes" -> Reported(sample.boxes)
  /\ UNCHANGED sample
Next == Compute
Spec == Init /\ [][Next]_mathVars
-----------------------------------------------------------------------------
(* Properties: each result against what it should be, said another way.    *)

\* Every region of lit cells that is strong and large enough has one box, that
\* covers it and lies in the frame; a region is a set no lit neighbour of which
\* is outside and that does not fall apart.
Adjacent(m, i, j) ==
  LET dx == (i % m.w) - (j % m.w)
      dy == (i \div m.w) - (j \div m.w)
  IN dx * dx + dy * dy = 1
Region(m, c) ==
  /\ \A i \in Lit(m) \ c, j \in c: ~Adjacent(m, i, j)
  /\ \A part \in SUBSET c \ {{}, c}: \E i \in part, j \in c \ part: Adjacent(m, i, j)
BoxesRight(m, boxes) ==
  /\ {b.of : b \in boxes} = {c \in SUBSET Lit(m) \ {{}}: Region(m, c) /\ Kept(m, c)}
  /\ \A b \in boxes:
       /\ \A i \in b.of: /\ (i % m.w) * m.cell \in b.box.x..(b.box.right - m.cell)
                         /\ (i \div m.w) * m.cell \in b.box.y..(b.box.bottom - m.cell)
       /\ b.box.x >= 0 /\ b.box.right <= m.w * m.cell
       /\ b.box.y >= 0 /\ b.box.bottom <= m.h * m.cell

\* The text is what is left of the steps when runs of a class become one of it
\* and blanks, and classes the dictionary lacks, go.
RECURSIVE Collapse(_)
Collapse(path) ==
  IF Len(path) < 2 THEN path
  ELSE LET rest == Collapse(Tail(path))
       IN IF Head(path) = Head(rest) THEN rest ELSE <<Head(path)>> \o rest
TextRight(path, text) ==
  LET left == SelectSeq(Collapse(path), LAMBDA k: k \in 1..Len(Keys))
  IN text = [i \in DOMAIN left |-> Keys[left[i]]]

\* The text has the model's length, begins with the query's tokens, and the last
\* real token is the one that ends the query.
TokensRight(ids, r) ==
  /\ Len(r.ids) = Length /\ r.real = AtMost(Length, Len(ids))
  /\ r.real > 0 => r.ids[r.real] = Last(ids)
  /\ \A i \in 1..(r.real - 1): r.ids[i] = ids[i]

\* No two boxes reported clash, the best come first, and one left out clashes
\* with a better one that was reported, or there were too many.
IconsRight(boxes, kept) ==
  /\ Len(kept) <= MaxBoxes
  /\ \A i, j \in DOMAIN kept: i < j => ~Clash(kept[i], kept[j]) /\ kept[i].score >= kept[j].score
  /\ \A b \in ToSet(boxes) \ ToSet(kept):
       \/ Len(kept) = MaxBoxes /\ \A i \in DOMAIN kept: kept[i].score >= b.score
       \/ \E i \in DOMAIN kept: Clash(kept[i], b) /\ kept[i].score >= b.score

AlgorithmsRight ==
  result # None =>
    CASE sample.kind = "map" -> BoxesRight(sample, result)
      [] sample.kind = "steps" -> TextRight(sample.path, result)
      [] sample.kind = "tokens" -> TokensRight(sample.ids, result)
      [] sample.kind = "boxes" -> IconsRight(sample.boxes, result)
=============================================================================
