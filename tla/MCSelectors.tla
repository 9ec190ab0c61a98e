---------------------------- MODULE MCSelectors ----------------------------
(***************************************************************************)
(* Selectors for small documents, with two tag names.                      *)
(***************************************************************************)
EXTENDS Selectors

A == [tag |-> "a", has |-> None, not |-> None]
B == [tag |-> "b", has |-> None, not |-> None]
Star == [tag |-> "*", has |-> None, not |-> None]
Having(c, S) == [c EXCEPT !.has = S]
Lacking(c, S) == [c EXCEPT !.not = S]
One(parts, rel) == <<[parts |-> parts, rel |-> rel]>>

MCTags == {"a", "b"}
MCSel ==
    [in |-> One(<<A, B>>, <<" ">>),
     deep |-> One(<<A, B, A>>, <<" ", " ">>),
     mixed |-> One(<<A, Star, B>>, <<" ", "~">>),
     child |-> One(<<A, Star, Star>>, <<">", " ">>),
     next |-> One(<<Star, B, A>>, <<"~", "+">>),
     group |-> One(<<A, B>>, <<" ">>) \o One(<<B, A>>, <<"~">>),
     outside |-> One(<<Lacking(Star, "in"), B>>, <<"~">>),
     holds |-> One(<<Having(A, "in")>>, <<>>),
     amid |-> One(<<A, Having(Star, "in"), B>>, <<" ", " ">>),
     beside |-> One(<<Having(Star, "deep"), Star>>, <<"~">>)]
\* (Not among them: :has of a selector with ~ or +, to the left of another part.)
Plain == {"in", "deep", "mixed", "child", "next", "group", "outside", "holds",
          "amid", "beside"}
MCNames == DOMAIN MCSel
=============================================================================
