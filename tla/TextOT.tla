------------------------------- MODULE TextOT -------------------------------
(***************************************************************************)
(* The text type of ShareJS, the same in document-updater and in the       *)
(* browser: an op is a sequence of components, each of which inserts a     *)
(* text at a position or deletes one there, after those before it. Texts   *)
(* are sequences of characters. (Comments are left out: they change no     *)
(* text, and no other component is changed by one.)                        *)
(***************************************************************************)
EXTENDS Naturals, Sequences, SequencesExt

CONSTANT Failed             \* instead of a text: an exception

Insert(s, p) == [kind |-> "i", s |-> s, p |-> p]
Delete(s, p) == [kind |-> "d", s |-> s, p |-> p]
\* A component that throws wherever it is applied.
Clash == [kind |-> "clash", s |-> <<>>, p |-> 0]

Lesser(a, b) == IF a < b THEN a ELSE b
Greater(a, b) == IF a < b THEN b ELSE a

\* s.slice(a, b) and s.slice(a).
Slice(s, a, b) == SubSeq(s, a + 1, Lesser(b, Len(s)))
From(s, a) == SubSeq(s, a + 1, Len(s))
End(c) == c.p + Len(c.s)

StrInject(s1, pos, s2) == Slice(s1, 0, pos) \o s2 \o From(s1, pos)

\* One turn of apply's loop.
ApplyComponent(text, c) ==
    CASE text = Failed -> Failed
      [] text # Failed /\ c.kind = "i" -> StrInject(text, c.p, c.s)
      [] text # Failed /\ c.kind = "d" /\ Slice(text, c.p, End(c)) = c.s ->
            Slice(text, 0, c.p) \o From(text, End(c))
      [] OTHER -> Failed

Apply(text, op) == FoldLeft(ApplyComponent, text, op)

\* Mutant: text inserted before the end of the last insert goes to its end.
AppendAtEnd(op, c) ==
    LET last == op[Len(op)] IN
    IF c.kind # "clash" /\ c.s = <<>> THEN op
    ELSE IF op = <<>> THEN <<c>>
    ELSE IF last.kind = "i" /\ c.kind = "i" /\ last.p <= c.p /\ c.p <= End(last)
         THEN [op EXCEPT ![Len(op)].s = @ \o c.s]
    ELSE IF last.kind = "d" /\ c.kind = "d" /\ c.p <= last.p /\ last.p <= End(c)
         THEN [op EXCEPT ![Len(op)] = Delete(StrInject(c.s, last.p - c.p, last.s), c.p)]
    ELSE Append(op, c)

\* append: joined to the last component if that is of its kind and they touch.
AppendTo(op, c) ==
    LET last == op[Len(op)] IN
    IF c.kind # "clash" /\ c.s = <<>> THEN op
    ELSE IF op = <<>> THEN <<c>>
    ELSE IF last.kind = "i" /\ c.kind = "i" /\ last.p <= c.p /\ c.p <= End(last)
         THEN [op EXCEPT ![Len(op)].s = StrInject(@, c.p - last.p, c.s)]
    ELSE IF last.kind = "d" /\ c.kind = "d" /\ c.p <= last.p /\ last.p <= End(c)
         THEN [op EXCEPT ![Len(op)] = Delete(StrInject(c.s, last.p - c.p, last.s), c.p)]
    ELSE Append(op, c)

Compose(op1, op2) == FoldLeft(AppendTo, op1, op2)
Normalize(op) == Compose(<<>>, op)

TransformPosition(pos, c, insertAfter) ==
    IF c.kind = "i" THEN IF c.p < pos \/ (c.p = pos /\ insertAfter) THEN pos + Len(c.s) ELSE pos
    ELSE IF pos <= c.p THEN pos
    ELSE IF pos <= End(c) THEN c.p
    ELSE pos - Len(c.s)

\* A delete over an insert: what precedes the inserted text, and what follows it.
DeleteOverInsert(c, other) ==
    LET before == Slice(c.s, 0, IF c.p < other.p THEN other.p - c.p ELSE 0)
    IN <<Delete(before, c.p), Delete(From(c.s, Len(before)), c.p + Len(other.s))>>

\* A delete over a delete: what the other one has left of it. Where they
\* overlap they must delete the same text.
DeleteOverDelete(c, other) ==
    LET start == Greater(c.p, other.p)
        end == Lesser(End(c), End(other))
        rest == (IF c.p < other.p THEN Slice(c.s, 0, other.p - c.p) ELSE <<>>)
             \o (IF End(c) > End(other) THEN From(c.s, End(other) - c.p) ELSE <<>>)
    IN IF c.p >= End(other) THEN Delete(c.s, c.p - Len(other.s))
       ELSE IF End(c) <= other.p THEN c
       ELSE IF Slice(c.s, start - c.p, end - c.p) # Slice(other.s, start - other.p, end - other.p)
       THEN Clash
       ELSE Delete(rest, TransformPosition(c.p, other, FALSE))

\* transformComponent: c over other, appended to dest.
TransformComponent(dest, c, other, side) ==
    CASE "clash" \in {c.kind, other.kind} -> AppendTo(dest, Clash)
      [] c.kind = "i" ->
            AppendTo(dest, Insert(c.s, TransformPosition(c.p, other, side = "right")))
      [] c.kind = "d" /\ other.kind = "i" -> Compose(dest, DeleteOverInsert(c, other))
      [] c.kind = "d" /\ other.kind = "d" -> AppendTo(dest, DeleteOverDelete(c, other))

Ops == Seq([kind : {"i", "d", "clash"}, s : Seq(Nat), p : Nat])

\* transformX's loops: the first component of the right op meets those of the left
\* one, which become done, and enters out when it has met them all. If it falls
\* apart, its parts meet the rest as an op.
Cross[done \in Ops, left \in Ops, right \in Ops, out \in Ops] ==
    IF right = <<>> THEN [left |-> left, right |-> out]
    ELSE IF left = <<>> THEN Cross[<<>>, done, Tail(right), AppendTo(out, Head(right))]
    ELSE LET crossed == TransformComponent(done, Head(left), Head(right), "left")
             next == TransformComponent(<<>>, Head(right), Head(left), "right")
             x == Cross[<<>>, Tail(left), next, <<>>]
         IN CASE next = <<>> -> Cross[<<>>, Compose(crossed, Tail(left)), Tail(right), out]
              [] Len(next) = 1 -> Cross[crossed, Tail(left), next \o Tail(right), out]
              [] OTHER -> Cross[<<>>, Compose(crossed, x.left), Tail(right), Compose(out, x.right)]

\* Two concurrent ops, each over the other.
TransformX(leftOp, rightOp) == Cross[<<>>, leftOp, rightOp, <<>>]

Transform(op, other, side) ==
    IF side = "left" THEN TransformX(op, other).left ELSE TransformX(other, op).right
=============================================================================
