----------------------------- MODULE MCPlainClone ---------------------------
EXTENDS PlainClone

Obj(type, body) == [type |-> type, body |-> body]
A == Obj("blob", "a")
B == Obj("blob", "b")
F == Obj("blob", "f")
U == Obj("tree", "u")
T == Obj("tree", "t")
C == Obj("commit", "c")
D == Obj("commit", "d")
G == Obj("tag", "g")
H == Obj("tag", "h")

Entry(name, mode, oid) == [name |-> name, mode |-> mode, oid |-> oid]
MCEntries ==
  [body \in {"t", "u"} |->
     IF body = "u" THEN <<Entry("x", "exec", A)>>
     ELSE <<Entry("m", "gitlink", C), Entry("x", "file", A), Entry("y", "dir", U),
            Entry("z", "link", B), Entry("w", "file", F)>>]
MCHeader == [body \in {"c", "d", "g", "h"} |->
               CASE body = "c" -> T [] body = "d" -> U [] body = "g" -> D [] body = "h" -> G]

Ref(kind, name, oid) == [kind |-> kind, name |-> name, oid |-> oid]
MCWanted  == {"HEAD", "v"}
MCAdverts ==
  {<<Ref("head", "HEAD", C), Ref("branch", "v", C), Ref("tag", "v", G)>>,
   <<Ref("head", "HEAD", H), Ref("tag", "v", G)>>,
   <<Ref("tag", "w", C)>>}

Whole(o)    == [kind |-> "whole", oid |-> o, back |-> 0, base |-> NoObject]
Ofs(o, n)   == [kind |-> "ofs", oid |-> o, back |-> n, base |-> NoObject]
RefTo(o, b) == [kind |-> "ref", oid |-> o, back |-> 0, base |-> b]

\* A blob is whole or a delta on the next one of A, B, F, A.  An ofs delta whose
\* base does not come earlier points nowhere.
After(o) == CASE o = A -> B [] o = B -> F [] o = F -> A
Encoded(order, kinds) ==
  [i \in DOMAIN order |->
     LET o == order[i]
         back == {i - j : j \in {n \in DOMAIN order : order[n] = After(o)}}
     IN  CASE kinds[o] = "whole" -> Whole(o)
           [] kinds[o] = "ref" -> RefTo(o, After(o))
           [] kinds[o] = "ofs" -> Ofs(o, Max(back \cup {0}))]

Orders == UNION {{order \in [1 .. Cardinality(S) -> S] : IsInjective(order)}
                 : S \in {R \in SUBSET {A, B, F} : Cardinality(R) >= 2}}
Upper == <<Whole(C), Whole(D), Whole(G), Whole(H), Whole(T)>>
MCPacks ==
  {Upper \o trees \o Encoded(order, kinds)
     : trees \in {<<>>, <<Whole(U)>>}, order \in Orders, kinds \in [{A, B, F} -> {"whole", "ofs", "ref"}]}
  \cup {Upper \o <<Whole(U), RefTo(B, A), Whole(A), Whole(F), o>> : o \in {Whole(A), RefTo(B, F)}}
=============================================================================
