--------------------------- MODULE MCLeadPipeline ---------------------------
(* Instances of LeadPipeline for TLC.                                      *)
EXTENDS LeadPipeline, TLC

CONSTANTS k1, r1, x1, x2, p1, e1, tp, tpp, te, junk, d1

SameName == [k \in Key |-> r1]
Reading == Blank :> None @@ junk :> None @@ tp :> p1 @@ tpp :> p1 @@ te :> e1
Domain == e1 :> d1
Executions == Permutations({x1, x2})

Line(n, company, phone, email, at, last) ==
  [n |-> n, company |-> company, phone |-> phone, email |-> email, at |-> at, last |-> last]

(* One contact twice, spelled in two ways, the older row last; one known   *)
(* by an email only; rows that no step likes.                              *)
Mixed ==
  {Line(1, "named", tp, te, 2, None), Line(2, "named", tpp, te, 1, None),
   Line(3, "named", Blank, te, 1, None), Line(4, "hollow", tp, te, 1, None),
   Line(5, "named", tp, Blank, BadTime, None)}

(* A last contact of today, one that cannot be parsed; a row cut off.      *)
Contacted == {Line(6, "named", tp, junk, 1, 0), Line(7, "named", Blank, te, 1, BadTime)}
Cut == {Line(8, "named", tp, Blank, NoColumn, None)}

AnyFile == {Mixed, Contacted, Cut}
=============================================================================
