---------------------------- MODULE MCSchemaProof ----------------------------
(* Documents and claims for SchemaProof: a field of 601 elements, years 0..40. *)
EXTENDS SchemaProof

V(kind, n) == [kind |-> kind, n |-> n]
F(name, type, required, secretFlag, publicFlag) ==
  [name |-> name, type |-> type, required |-> required, secret |-> secretFlag, public |-> publicFlag]
K(type, names, op, value, bounds) ==
  [type |-> type, fields |-> names, op |-> op, value |-> value, bounds |-> bounds]
Doc(fs, cs) == [fields |-> fs, constraints |-> cs]

KindList == <<"numtext", "exptext", "datetext", "word", "booltext", "niltext">>
MCCodes == -2 .. 80
MCHash ==
  [t \in [kind : TextKinds, n : MCCodes] |->
     90 + 6 * t.n + (CHOOSE i \in 1 .. 6 : KindList[i] = t.kind)]

Absent == V("absent", 0)
Flags == {<<TRUE, FALSE, FALSE>>, <<FALSE, TRUE, TRUE>>, <<TRUE, FALSE, TRUE>>}
A(type) == {F("a", type, g[1], g[2], g[3]) : g \in Flags}
B(type) == {F("b", type, FALSE, TRUE, g) : g \in BOOLEAN}
FieldLists ==
  {<<>>, <<F("", "integer", TRUE, TRUE, FALSE)>>}
    \cup {<<f>> : f \in UNION {A(t) : t \in {"integer", "string", "boolean", "date", ""}}}
    \cup {<<f, g>> : f \in A("integer") \cup A("string"), g \in B("integer")}
    \cup {<<f, f>> : f \in A("integer")}

Constants1 == {V("number", n) : n \in {-2, 0, 2, 3, 4}} \cup
  {V("numtext", 4), V("word", 0), V("word", 2), V("null", 0), V("bool", 1), Absent}
ConstraintLists ==
  {<<>>, <<K("", <<"a">>, "eq", Absent, <<>>)>>, <<K("range_check", <<>>, "", Absent, <<>>)>>,
   <<K("membership", <<"a">>, "eq", Absent, <<>>)>>}
    \cup {<<K("comparison", <<"a">>, op, v, <<>>)>> :
            op \in Operators \cup {"between"}, v \in Constants1}
    \cup {<<K("comparison", <<"a", "b">>, op, Absent, <<>>)>> : op \in Operators}
    \cup {<<K("comparison", <<"a">>, "ge", V("number", 2), <<>>),
            K("comparison", <<"b">>, op, V("number", 4), <<>>)>> : op \in Operators}
    \cup {<<K("range_check", ns, "between", Absent, bs)>> :
            ns \in {<<"a">>, <<"a", "b">>},
            bs \in {<<2, 4>>, <<4, 4>>, <<2, 3>>, <<-2, 4>>, <<2>>}}
    \cup {<<K("age_verification", <<"a">>, "ge", v, <<>>)>> :
            v \in {V("number", 4), V("numtext", 4), V("null", 0), V("word", 2)}}

AgeFields == <<F("y", "integer", TRUE, TRUE, FALSE), F("m", "integer", TRUE, TRUE, FALSE),
               F("d", "integer", TRUE, TRUE, FALSE)>>
AgeConstraint == K("age_verification", <<"y", "m", "d">>, "ge", V("number", 36), <<>>)
AgeClaims(y, m, d) ==
  [name \in {"y", "m", "d"} |->
     V("number", 2 * (CASE name = "y" -> y [] name = "m" -> m [] OTHER -> d))]

MCDefaultAgeSchema ==
  Doc(AgeFields, <<AgeConstraint,
                   K("range_check", <<"m">>, "between", Absent, <<2, 24>>),
                   K("range_check", <<"d">>, "between", Absent, <<2, 62>>)>>)
MCDefaultClaims == AgeClaims(10, 10, 18)
MCToday == [date |-> <<34, 6, 15>>, unix |-> 3]

AValues == {V("number", n) : n \in {-2, 0, 2, 3, 4, 80}} \cup
  {V("numtext", 2), V("numtext", 4), V("datetext", 0), V("datetext", 2), V("datetext", -2),
   V("word", 0), V("word", 2), V("bool", 1), V("booltext", 0), V("null", 0)}
SmallClaims ==
  {<<>>} \cup {[x \in {"a"} |-> v] : v \in AValues}
    \cup {[x \in {"a", "b"} |-> IF x = "a" THEN v ELSE w] :
            v \in {V("number", 2), V("number", 4), V("word", 2), V("numtext", 4)},
            w \in {V("number", 0), V("number", 4), V("number", -2)}}
BirthClaims ==
  {AgeClaims(y, m, d) : y \in {-1, 0, 15, 16, 17}, m \in {0, 1, 5, 6, 7, 12, 13},
                        d \in {0, 1, 14, 15, 16, 31, 32}}

MCInputs ==
  [document : {Doc(fs, cs) : fs \in FieldLists, cs \in ConstraintLists}, claims : SmallClaims]
    \cup [document : {Doc(AgeFields, <<AgeConstraint>>), MCDefaultAgeSchema, NoDocument},
          claims : BirthClaims \cup {<<>>}]
=============================================================================
