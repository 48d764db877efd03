------------------------ MODULE DynamicCircuitProofs ------------------------
(***************************************************************************)
(* What the constraints of the dynamic circuit say, for every field large  *)
(* enough for the integers in use: on integers from 0 to MaxInt the        *)
(* comparison of residues is the comparison of integers, a birthday is the *)
(* boundary of an age, and a text matches itself only, in every copy.      *)
(* Then the provers of SchemaProof, for all documents and claims: a copy   *)
(* that is refused was refused for its own reason, so that its end says    *)
(* what the constraints say.                                               *)
(***************************************************************************)
EXTENDS SchemaProof, SequenceTheorems, TLAPS

JsonNumber(i) == [kind |-> "number", n |-> 2 * i]

-----------------------------------------------------------------------------
\* An integer that needs no reduction is its own residue.
LEMMA Small ==
  ASSUME NEW i \in 0 .. MaxInt
  PROVE  Elt(i) = i /\ i \in Element /\ Succ(i) = i + 1
BY FieldAssumption DEF Elt, Element, Succ

\* A negative one becomes a residue above every integer in use.
LEMMA Wrapped ==
  ASSUME NEW i \in -MaxInt .. -1
  PROVE  Elt(i) \in Element /\ Elt(i) > MaxInt /\ Elt(i) + 1 <= P
BY FieldAssumption DEF Elt, Element

\* A whole JSON number is converted to itself.
LEMMA NumberConverts ==
  ASSUME NEW i \in 0 .. MaxInt
  PROVE  /\ ConvertToVariable("integer", JsonNumber(i)) = i
         /\ WalletConstant(JsonNumber(i)) = i
         /\ ChainConstant("integer", JsonNumber(i)) = i
<1>1. Trunc(2 * i) = i
  BY FieldAssumption DEF Trunc
<1>2. Elt(Trunc(JsonNumber(i).n)) = i
  BY <1>1, Small DEF JsonNumber
<1>3. ConvertToInt(JsonNumber(i)) = i
  BY <1>2 DEF ConvertToInt, JsonNumber, Numeric
<1>4. ConvertToVariable("integer", JsonNumber(i)) = i
  BY <1>3 DEF ConvertToVariable, JsonNumber
<1>5. WalletConstant(JsonNumber(i)) = i
  BY <1>2 DEF WalletConstant, JsonNumber, TextKinds
<1>6. ChainConstant("integer", JsonNumber(i)) = i
  BY <1>4 DEF ChainConstant, ChainValue, JsonNumber
<1> QED
  BY <1>4, <1>5, <1>6

-----------------------------------------------------------------------------
\* applyComparisonConstraint compares integers as the schema means it, each of
\* the six operators, and also at the boundary where gt and lt add one.
THEOREM ComparisonExact ==
  ASSUME NEW op \in Operators, NEW l \in 0 .. MaxInt, NEW r \in 0 .. MaxInt
  PROVE  Compare(op, Elt(l), Elt(r)) <=> Meant(op, l, r)
<1>1. Elt(l) = l /\ Elt(r) = r /\ Succ(l) = l + 1 /\ Succ(r) = r + 1
  BY Small
<1>2. l \in Int /\ r \in Int
  OBVIOUS
<1>3. CASE op = "ge"
  BY <1>1, <1>2, <1>3 DEF Compare, Meant, LessOrEqual
<1>4. CASE op = "gt"
  BY <1>1, <1>2, <1>4 DEF Compare, Meant, LessOrEqual
<1>5. CASE op = "le"
  BY <1>1, <1>2, <1>5 DEF Compare, Meant, LessOrEqual
<1>6. CASE op = "lt"
  BY <1>1, <1>2, <1>6 DEF Compare, Meant, LessOrEqual
<1>7. CASE op \in {"eq", "ne"}
  BY <1>1, <1>2, <1>7 DEF Compare, Meant
<1> QED
  BY <1>3, <1>4, <1>5, <1>6, <1>7 DEF Operators

\* From the JSON numbers of a claim and of a schema to the comparison: the wallet
\* and the blockchain client accept exactly what the schema means.
THEOREM ClaimComparisonExact ==
  ASSUME NEW op \in Operators, NEW claim \in 0 .. MaxInt, NEW constant \in 0 .. MaxInt
  PROVE  /\ Compare(op, WalletValue("integer", JsonNumber(claim)), WalletConstant(JsonNumber(constant)))
              <=> Meant(op, claim, constant)
         /\ Compare(op, ChainValue("integer", JsonNumber(claim)),
                    ChainConstant("integer", JsonNumber(constant)))
              <=> Meant(op, claim, constant)
<1>1. WalletValue("integer", JsonNumber(claim)) = claim /\ ChainValue("integer", JsonNumber(claim)) = claim
  BY NumberConverts DEF WalletValue, ChainValue
<1>2. /\ WalletConstant(JsonNumber(constant)) = constant
      /\ ChainConstant("integer", JsonNumber(constant)) = constant
  BY NumberConverts
<1>3. Compare(op, claim, constant) <=> Meant(op, claim, constant)
  BY ComparisonExact, Small
<1> QED
  BY <1>1, <1>2, <1>3

\* applyRangeConstraint holds the value between its bounds.
THEOREM RangeExact ==
  ASSUME NEW e \in 0 .. MaxInt, NEW a \in 0 .. MaxInt, NEW b \in 0 .. MaxInt
  PROVE  InRange(e, a, b) <=> a <= e /\ e <= b
BY Small DEF InRange, LessOrEqual

\* Why the properties speak of integers from 0 on: a negative claim passes ge and
\* gt against any constant, and fails le and lt.
THEOREM NegativePassesGe ==
  ASSUME NEW l \in -MaxInt .. -1, NEW r \in 0 .. MaxInt
  PROVE  Compare("ge", Elt(l), Elt(r)) /\ ~Compare("le", Elt(l), Elt(r))
<1>1. Elt(r) = r /\ Elt(l) \in Int /\ Elt(l) > MaxInt
  BY Small, Wrapped DEF Element
<1>2. Elt(r) \in Int /\ Elt(l) > Elt(r)
  BY <1>1, FieldAssumption
<1> QED
  BY <1>1, <1>2 DEF Compare, LessOrEqual

\* applyAgeConstraint of the blockchain client accepts exactly the valid days on
\* or before the birthday, although it looks at the month in the last admitted
\* year and at the day in today's month only.
THEOREM AgeByDateExact ==
  ASSUME NEW y \in 0 .. MaxInt, NEW m \in Element, NEW d \in Element,
         NEW years \in Nat, NEW today, today[1] \in Int, today[2] \in 1 .. 12, today[3] \in 1 .. 31,
         today[1] - years \in 0 .. MaxInt
  PROVE  AgeByDate(y, m, d, years, today) <=>
           m \in 1 .. 12 /\ d \in 1 .. 31 /\ OldEnough(y, m, d, years, today)
<1> DEFINE last == today[1] - years
<1>1. Elt(last) = last /\ last \in Int
  BY Small
<1>2. y \in Int /\ m \in Int /\ d \in Int
  BY FieldAssumption DEF Element
<1>3. CASE y = last
  BY <1>1, <1>2, <1>3 DEF AgeByDate, OldEnough, LessOrEqual
<1>4. CASE y # last
  BY <1>1, <1>2, <1>4 DEF AgeByDate, OldEnough, LessOrEqual
<1> QED
  BY <1>3, <1>4

\* A text claim equals a text constant in the circuit exactly when the texts are
\* the same, in every copy: each side is hashed once, and the copies agree.
THEOREM TextsMatchThemselves ==
  ASSUME NEW s \in Text, NEW t \in Text
  PROVE  /\ Compare("eq", WalletValue("string", s), WalletConstant(t)) <=> s = t
         /\ Compare("eq", ChainValue("string", s), ChainConstant("string", t)) <=> s = t
         /\ ChainValue("string", s) = WalletValue("string", s)
<1>1. s.kind \in TextKinds /\ t.kind \in TextKinds
  BY DEF Text
<1>2. Sprint(s) = s
  BY <1>1 DEF Sprint, TextKinds
<1>3. WalletValue("string", s) = Hash[s] /\ ChainValue("string", s) = Hash[s]
  BY <1>1, <1>2 DEF WalletValue, ChainValue
<1>4. WalletConstant(t) = Hash[t]
  BY <1>1 DEF WalletConstant, TextKinds
<1>5. ChainConstant("string", t) = Hash[t]
  BY <1>1 DEF ChainConstant, ChainValue, TextKinds
<1>6. Hash[s] = Hash[t] <=> s = t
  BY HashAssumption
<1> QED
  BY <1>3, <1>4, <1>5, <1>6 DEF Compare
-----------------------------------------------------------------------------
(***************************************************************************)
(* The provers: what each stage of a copy stands on.                       *)
(***************************************************************************)
Defined(c, k) == IF c = "wallet" THEN WalletDefined(k) ELSE ChainDefined(k)
AllDefined(c) == \A k \in Constraints(c) : Defined(c, k)
AllHold(c) == \A k \in Constraints(c) : Holds(c, k)

Readable(c) == Schema(c) \in Document /\ Prepared(Schema(c))
Ready(c) == Readable(c) /\ fields[c] = PreparedFields(Schema(c))
Filled(c) ==
  /\ secret[c] = Fill(c, fields[c], Claims(c), SecretFieldOrder(fields[c]))
  /\ public[c] = Fill(c, fields[c], Claims(c), PublicFieldOrder(fields[c]))
Complete(c) == Assigned(fields[c], Claims(c), Range(secret[c]) \cup Range(public[c]))

\* A copy ends with a proof exactly when nothing has stopped it: each refusal
\* has its own reason, and what came before it was in order.
Parsing(c) ==
  \/ stage[c] = "parse" /\ fields[c] = <<>>
  \/ stage[c] = "refused" /\ fields[c] = <<>> /\ ~Readable(c)
Compiling(c) ==
  Ready(c) /\ (stage[c] = "compile" \/ (stage[c] = "refused" /\ ~AllDefined(c)))
Assigning(c) ==
  /\ Ready(c) /\ AllDefined(c)
  /\ stage[c] = "assign" \/ (stage[c] = "refused" /\ Filled(c) /\ ~Complete(c))
Proving(c) ==
  /\ Ready(c) /\ AllDefined(c) /\ Filled(c) /\ Complete(c)
  /\ \/ stage[c] = "prove"
     \/ stage[c] = "proof" /\ AllHold(c)
     \/ stage[c] = "refused" /\ ~AllHold(c)
Course(c) == Parsing(c) \/ Compiling(c) \/ Assigning(c) \/ Proving(c)

Given ==
  /\ document \in Document \cup {NoDocument} /\ AreClaims(claims)
  /\ stage = [c \in Copies |-> stage[c]] /\ fields = [c \in Copies |-> fields[c]]
  /\ secret = [c \in Copies |-> secret[c]] /\ public = [c \in Copies |-> public[c]]

Inv == Given /\ \A c \in Copies : Course(c)

\* What a copy reads: the wallet the document itself, the blockchain client its
\* default in its place.
LEMMA Reads ==
  ASSUME Given
  PROVE  /\ \A c \in Copies : AreClaims(Claims(c))
         /\ Schema("blockchain") \in Document
         /\ Schema("wallet") = document /\ Claims("wallet") = claims
         /\ document # NoDocument => \A c \in Copies : Schema(c) = document /\ document \in Document
         /\ claims # <<>> => \A c \in Copies : Claims(c) = claims
BY InputsAssumption DEF Given, Schema, Claims, Copies

\* A prepared field has its name and publicity, and a type.
LEMMA PrepareKeeps ==
  ASSUME NEW f \in Field
  PROVE  /\ PrepareField(f).name = f.name /\ PrepareField(f).public = f.public
         /\ PrepareField(f).type = IF f.type = "" THEN "string" ELSE f.type
<1> DEFINE t == IF f.type = "" THEN "string" ELSE f.type
           b == ~f.public
<1>1. PrepareField(f) = [f EXCEPT !.secret = b, !.type = t]
  BY DEF PrepareField
<1> HIDE DEF t, b
<1>2. /\ PrepareField(f).type = t
      /\ PrepareField(f).name = f.name /\ PrepareField(f).public = f.public
  BY <1>1 DEF Field
<1> QED BY <1>2 DEF t

\* The prepared fields of a document.
LEMMA PreparedAre ==
  ASSUME NEW s \in Document, Prepared(s)
  PROVE  /\ PreparedFields(s) # <<>> /\ Len(PreparedFields(s)) = Len(s.fields)
         /\ DOMAIN PreparedFields(s) = 1 .. Len(s.fields) /\ Len(s.fields) \in Nat
         /\ \A i \in 1 .. Len(s.fields) :
              /\ s.fields[i] \in Field
              /\ PreparedFields(s)[i] = PrepareField(s.fields[i])
              /\ PreparedFields(s)[i].name = s.fields[i].name
              /\ PreparedFields(s)[i].public = s.fields[i].public
              /\ PreparedFields(s)[i].type = IF s.fields[i].type = "" THEN "string" ELSE s.fields[i].type
         /\ Names(PreparedFields(s)) = Names(s.fields)
<1> DEFINE fs == PreparedFields(s)
           n == Len(s.fields)
<1>1. s.fields \in Seq(Field) /\ s.fields # <<>>
  BY DEF Document, Prepared
<1>2. n \in Nat /\ n # 0 /\ \A i \in 1 .. n : s.fields[i] \in Field
  BY <1>1, EmptySeq, LenProperties, ElementOfSeq
<1>3. fs = [i \in 1 .. n |-> PrepareField(s.fields[i])]
  BY DEF PreparedFields
<1> DEFINE F == {PrepareField(f) : f \in Field}
<1>4. \A i \in 1 .. n : PrepareField(s.fields[i]) \in F
  BY <1>2
<1>5. fs \in [1 .. n -> F]
  BY <1>3, <1>4
<1>6. fs \in Seq(F)
  BY <1>2, <1>5, SeqDef
<1>7. DOMAIN fs = 1 .. n /\ DOMAIN fs = 1 .. Len(fs) /\ Len(fs) \in Nat
  BY <1>5, <1>6, LenProperties
<1>8. Len(fs) = n
  BY <1>2, <1>7
<1>9. fs # <<>>
  BY <1>2, <1>8, EmptySeq
<1>10. ASSUME NEW i \in 1 .. n
       PROVE  /\ fs[i] = PrepareField(s.fields[i])
              /\ fs[i].name = s.fields[i].name /\ fs[i].public = s.fields[i].public
              /\ fs[i].type = IF s.fields[i].type = "" THEN "string" ELSE s.fields[i].type
  <2>1. fs[i] = PrepareField(s.fields[i]) /\ s.fields[i] \in Field
    BY <1>2, <1>3
  <2> QED BY <2>1, PrepareKeeps
<1>11. Names(fs) = Names(s.fields)
  BY <1>8, <1>10 DEF Names
<1> QED BY <1>2, <1>7, <1>8, <1>9, <1>10, <1>11

\* The place of a field, and its definition.
LEMMA PositionIs ==
  ASSUME NEW fs, NEW name \in Names(fs)
  PROVE  Position(fs, name) \in 1 .. Len(fs) /\ fs[Position(fs, name)].name = name
<1>1. \E i \in 1 .. Len(fs) : fs[i].name = name
  BY DEF Names
<1> QED BY <1>1 DEF Position

\* A field whose slot is filled has a claim.
LEMMA FilledHasClaim ==
  ASSUME NEW c, Filled(c), Err \notin Range(secret[c]) \cup Range(public[c]),
         NEW i \in 1 .. Len(fields[c])
  PROVE  /\ fields[c][i].name \in DOMAIN Claims(c)
         /\ IF fields[c][i].public
            THEN public[c][i] = SlotValue(c, fields[c][i].type, Claims(c)[fields[c][i].name])
            ELSE secret[c][i] = SlotValue(c, fields[c][i].type, Claims(c)[fields[c][i].name])
<1> DEFINE f == fields[c][i]
           v == SlotValue(c, f.type, Claims(c)[f.name])
<1>1. CASE f.public
  <2>1. i \in PublicFieldOrder(fields[c])
    BY <1>1 DEF PublicFieldOrder
  <2>2. i \in DOMAIN public[c] /\ public[c][i] = IF f.name \in DOMAIN Claims(c) THEN v ELSE Err
    BY <2>1 DEF Filled, Fill
  <2>3. public[c][i] # Err
    BY <2>2 DEF Range
  <2> QED BY <1>1, <2>2, <2>3
<1>2. CASE ~f.public
  <2>1. i \in SecretFieldOrder(fields[c])
    BY <1>2 DEF SecretFieldOrder
  <2>2. i \in DOMAIN secret[c] /\ secret[c][i] = IF f.name \in DOMAIN Claims(c) THEN v ELSE Err
    BY <2>1 DEF Filled, Fill
  <2>3. secret[c][i] # Err
    BY <2>2 DEF Range
  <2> QED BY <1>2, <2>2, <2>3
<1> QED BY <1>1, <1>2

\* fieldVariable finds what AssignValues has put in the slot of the field.
LEMMA VariableIsClaim ==
  ASSUME Given, NEW c \in Copies, Filled(c), Err \notin Range(secret[c]) \cup Range(public[c]),
         NEW name \in Names(fields[c])
  PROVE  /\ Claims(c)[name] \in Value /\ Claims(c)[name].kind # "absent"
         /\ FieldVariable(c, name)
              = SlotValue(c, FieldDefinition(fields[c], name).type, Claims(c)[name])
<1> DEFINE i == Position(fields[c], name)
<1>1. i \in 1 .. Len(fields[c]) /\ fields[c][i].name = name
  BY PositionIs
<1>2. FieldDefinition(fields[c], name) = fields[c][i]
  BY DEF FieldDefinition
<1>3. FieldVariable(c, name) = IF fields[c][i].public THEN public[c][i] ELSE secret[c][i]
  BY DEF FieldVariable
<1> HIDE DEF i
<1>4. name \in DOMAIN Claims(c)
  BY <1>1, FilledHasClaim
<1>5. FieldVariable(c, name) = SlotValue(c, fields[c][i].type, Claims(c)[name])
  BY <1>1, <1>3, FilledHasClaim
<1>6. Claims(c)[name] \in Value /\ Claims(c)[name].kind # "absent"
  BY <1>4, Reads DEF AreClaims
<1> QED BY <1>2, <1>5, <1>6

\* A copy that had all it needs to prove has a proof exactly when the
\* constraints hold: nothing else can have stopped it.
LEMMA ProofMeansHold ==
  ASSUME Inv, NEW c \in Copies, ReachedProve(c)
  PROVE  /\ Ready(c) /\ AllDefined(c) /\ Filled(c)
         /\ Err \notin Range(secret[c]) \cup Range(public[c])
         /\ stage[c] = "proof" <=> AllHold(c)
<1>1. /\ Course(c) /\ stage[c] \in {"proof", "refused"} /\ fields[c] # <<>>
      /\ Err \notin Range(secret[c]) \cup Range(public[c])
      /\ DOMAIN Claims(c) \subseteq Names(fields[c]) /\ AllDefined(c)
  BY DEF Inv, ReachedProve, Ended, Witnessed, AllDefined, Defined
<1>2. ~Parsing(c) /\ ~Compiling(c)
  BY <1>1 DEF Parsing, Compiling
<1>3. ~Assigning(c)
  <2> SUFFICES ASSUME Ready(c), Filled(c)
               PROVE  Complete(c)
    BY <1>1 DEF Assigning
  <2>1. \A i \in 1 .. Len(fields[c]) : fields[c][i].name \in DOMAIN Claims(c)
    BY <1>1, FilledHasClaim
  <2>2. DOMAIN fields[c] = 1 .. Len(fields[c])
    BY PreparedAre DEF Ready, Readable
  <2> QED BY <1>1, <2>1, <2>2 DEF Complete, Assigned, Range
<1>4. Proving(c)
  BY <1>1, <1>2, <1>3 DEF Course
<1> QED BY <1>1, <1>4 DEF Proving
-----------------------------------------------------------------------------
(***************************************************************************)
(* The invariant holds.                                                    *)
(***************************************************************************)
\* A step of the other copy.
Apart(c) ==
  /\ UNCHANGED <<document, claims>>
  /\ stage'[c] = stage[c] /\ fields'[c] = fields[c]
  /\ secret'[c] = secret[c] /\ public'[c] = public[c]

\* What is defined and what holds depends on the copy's own circuit only.
LEMMA SameCircuit ==
  ASSUME NEW c \in Copies, UNCHANGED <<document, claims>>, fields'[c] = fields[c]
  PROVE  /\ Readable(c)' = Readable(c) /\ Ready(c)' = Ready(c) /\ AllDefined(c)' = AllDefined(c)
         /\ secret'[c] = secret[c] /\ public'[c] = public[c] =>
              /\ Filled(c)' = Filled(c) /\ Complete(c)' = Complete(c)
              /\ AllHold(c)' = AllHold(c)
<1>1. /\ Schema(c)' = Schema(c) /\ Claims(c)' = Claims(c)
      /\ Constraints(c)' = Constraints(c)
  BY DEF Schema, Claims, Constraints
<1>2. Readable(c)' = Readable(c) /\ Ready(c)' = Ready(c)
  BY <1>1 DEF Readable, Ready
<1>3. \A k : Defined(c, k)' = Defined(c, k)
  BY DEF Defined, ChainDefined, Copies
<1>4. AllDefined(c)' = AllDefined(c)
  BY <1>1, <1>3 DEF AllDefined
<1>5. ASSUME secret'[c] = secret[c], public'[c] = public[c]
      PROVE  Filled(c)' = Filled(c) /\ Complete(c)' = Complete(c) /\ AllHold(c)' = AllHold(c)
  <2>1. \A name : FieldVariable(c, name)' = FieldVariable(c, name)
    BY <1>5 DEF FieldVariable
  <2>2. ASSUME NEW k
        PROVE  Holds(c, k)' = Holds(c, k)
    <3>1. RangeHolds(c, k)' = RangeHolds(c, k)
      BY <2>1 DEF RangeHolds
    <3>2. ComparisonHolds(c, k)' = ComparisonHolds(c, k)
      BY <2>1 DEF ComparisonHolds, Constant
    <3>3. CASE c = "wallet"
      <4>1. WalletAgeHolds(k)' = WalletAgeHolds(k)
        BY <2>1, <3>3 DEF WalletAgeHolds
      <4> QED BY <3>1, <3>2, <3>3, <4>1 DEF Holds
    <3>4. CASE c = "blockchain"
      <4>1. ChainAgeHolds(k)' = ChainAgeHolds(k)
        BY <2>1, <3>4 DEF ChainAgeHolds
      <4> QED BY <3>1, <3>2, <3>4, <4>1 DEF Holds
    <3> QED BY <3>3, <3>4 DEF Copies
  <2>3. AllHold(c)' = AllHold(c)
    BY <1>1, <2>2 DEF AllHold
  <2> QED BY <1>1, <1>5, <2>3 DEF Filled, Complete
<1> QED BY <1>2, <1>4, <1>5

\* So its course is its own.
LEMMA CourseStays ==
  ASSUME NEW c \in Copies, Course(c), Apart(c)
  PROVE  Course(c)'
<1>1. /\ Readable(c)' = Readable(c) /\ Ready(c)' = Ready(c) /\ AllDefined(c)' = AllDefined(c)
      /\ Filled(c)' = Filled(c) /\ Complete(c)' = Complete(c) /\ AllHold(c)' = AllHold(c)
      /\ stage'[c] = stage[c] /\ fields'[c] = fields[c]
  BY SameCircuit DEF Apart
<1> QED BY <1>1 DEF Course, Parsing, Compiling, Assigning, Proving

\* One copy at a time.
LEMMA OneMoves ==
  ASSUME Inv, NEW c \in Copies, Course(c)', Given', UNCHANGED <<document, claims>>,
         \A d \in Copies \ {c} : /\ stage'[d] = stage[d] /\ fields'[d] = fields[d]
                                 /\ secret'[d] = secret[d] /\ public'[d] = public[d]
  PROVE  Inv'
<1>1. \A d \in Copies \ {c} : Course(d)'
  BY CourseStays DEF Inv, Apart
<1> QED BY <1>1 DEF Inv

\* The initial state.
LEMMA InvInit == Init => Inv
<1> SUFFICES ASSUME Init PROVE Inv
  OBVIOUS
<1>1. document \in Document \cup {NoDocument} /\ AreClaims(claims)
  BY InputsAssumption DEF Init
<1>2. Given
  BY <1>1 DEF Init, Given
<1>3. \A c \in Copies : Parsing(c)
  BY DEF Init, Parsing
<1> QED BY <1>2, <1>3 DEF Inv, Course

\* prepare takes a readable document, and nothing else.
LEMMA PrepareKeepsInv ==
  ASSUME Inv, NEW c \in Copies, stage[c] = "parse", UNCHANGED <<document, claims>>,
         \/ Schema(c) \in Document /\ Prepare(c, Schema(c))
         \/ /\ Schema(c) \notin Document
            /\ Goto(c, "refused") /\ UNCHANGED <<fields, secret, public>>
  PROVE  Inv'
<1>1. Given /\ fields[c] = <<>>
  BY DEF Inv, Course, Parsing, Compiling, Assigning, Proving
<1>2. CASE Readable(c)
  <2> DEFINE fs == PreparedFields(Schema(c))
  <2>1. /\ fields' = [fields EXCEPT ![c] = fs]
        /\ secret' = [secret EXCEPT ![c] = EmptySlots(SecretFieldOrder(fs))]
        /\ public' = [public EXCEPT ![c] = EmptySlots(PublicFieldOrder(fs))]
        /\ stage' = [stage EXCEPT ![c] = "compile"]
    BY <1>2 DEF Prepare, Readable, Goto
  <2> HIDE DEF fs
  <2>2. Given'
    BY <1>1, <2>1 DEF Given
  <2>3. fields'[c] = fs /\ stage'[c] = "compile"
    BY <1>1, <2>1 DEF Given
  <2>4. Schema(c)' = Schema(c) /\ Readable(c)'
    BY <1>2 DEF Schema, Readable
  <2>5. Course(c)'
    BY <2>3, <2>4 DEF Course, Compiling, Ready, fs
  <2>6. \A d \in Copies \ {c} : /\ stage'[d] = stage[d] /\ fields'[d] = fields[d]
                                /\ secret'[d] = secret[d] /\ public'[d] = public[d]
    BY <1>1, <2>1 DEF Given
  <2> QED BY <2>2, <2>5, <2>6, OneMoves
<1>3. CASE ~Readable(c)
  <2>1. stage' = [stage EXCEPT ![c] = "refused"] /\ UNCHANGED <<fields, secret, public>>
    BY <1>3 DEF Prepare, Readable, Goto
  <2>2. Given'
    BY <1>1, <2>1 DEF Given
  <2>3. fields'[c] = <<>> /\ stage'[c] = "refused"
    BY <1>1, <2>1 DEF Given
  <2>4. ~Readable(c)'
    BY <1>3 DEF Schema, Readable
  <2>5. Course(c)'
    BY <2>3, <2>4 DEF Course, Parsing
  <2>6. \A d \in Copies \ {c} : stage'[d] = stage[d]
    BY <1>1, <2>1 DEF Given
  <2> QED BY <2>1, <2>2, <2>5, <2>6, OneMoves
<1> QED BY <1>2, <1>3

\* Define refuses a constraint, or compiles them all.
LEMMA CompileKeeps ==
  ASSUME Inv, NEW c \in Copies, stage[c] = "compile", Goto(c, IF AllDefined(c) THEN "assign" ELSE "refused"),
         UNCHANGED <<document, claims, fields, secret, public>>
  PROVE  Inv'
<1>1. Given /\ Ready(c)
  BY DEF Inv, Course, Parsing, Compiling, Assigning, Proving
<1>2. Ready(c)' /\ AllDefined(c)' = AllDefined(c)
  BY <1>1, SameCircuit
<1>3. stage' = [stage EXCEPT ![c] = IF AllDefined(c) THEN "assign" ELSE "refused"]
  BY DEF Goto
<1>4. Given' /\ \A d \in Copies \ {c} : stage'[d] = stage[d]
  BY <1>1, <1>3 DEF Given
<1>5. stage'[c] = IF AllDefined(c) THEN "assign" ELSE "refused"
  BY <1>1, <1>3 DEF Given
<1>6. Course(c)'
  BY <1>2, <1>5 DEF Course, Compiling, Assigning
<1> QED BY <1>4, <1>6, OneMoves

\* AssignValues fills the slots, and refuses an incomplete witness.
LEMMA AssignKeeps ==
  ASSUME Inv, NEW c \in Copies, stage[c] = "assign", Assign(c)
  PROVE  Inv'
<1>1. Given /\ Ready(c) /\ AllDefined(c)
  BY DEF Inv, Course, Parsing, Compiling, Assigning, Proving
<1> DEFINE newSecret == Fill(c, fields[c], Claims(c), SecretFieldOrder(fields[c]))
           newPublic == Fill(c, fields[c], Claims(c), PublicFieldOrder(fields[c]))
           ok == Assigned(fields[c], Claims(c), Range(newSecret) \cup Range(newPublic))
<1>2. /\ secret' = [secret EXCEPT ![c] = newSecret] /\ public' = [public EXCEPT ![c] = newPublic]
      /\ stage' = [stage EXCEPT ![c] = IF ok THEN "prove" ELSE "refused"]
      /\ UNCHANGED <<document, claims, fields>>
  BY DEF Assign, Goto
<1>3. Ready(c)' /\ AllDefined(c)'
  BY <1>1, <1>2, SameCircuit
<1> HIDE DEF newSecret, newPublic, ok
<1>4. Given' /\ \A d \in Copies \ {c} : /\ stage'[d] = stage[d] /\ fields'[d] = fields[d]
                                        /\ secret'[d] = secret[d] /\ public'[d] = public[d]
  BY <1>1, <1>2 DEF Given
<1>5. /\ secret'[c] = newSecret /\ public'[c] = newPublic
      /\ stage'[c] = IF ok THEN "prove" ELSE "refused"
  BY <1>1, <1>2 DEF Given
<1>6. Claims(c)' = Claims(c)
  BY <1>2 DEF Claims
<1>7. Filled(c)' /\ (Complete(c)' <=> ok)
  BY <1>2, <1>5, <1>6 DEF Filled, Complete, newSecret, newPublic, ok
<1>8. Course(c)'
  BY <1>3, <1>5, <1>7 DEF Course, Assigning, Proving
<1> QED BY <1>2, <1>4, <1>8, OneMoves

\* Prove decides by the constraints.
LEMMA ProveKeeps ==
  ASSUME Inv, NEW c \in Copies, stage[c] = "prove", Goto(c, IF AllHold(c) THEN "proof" ELSE "refused"),
         UNCHANGED <<document, claims, fields, secret, public>>
  PROVE  Inv'
<1>1. Given /\ Ready(c) /\ AllDefined(c) /\ Filled(c) /\ Complete(c)
  BY DEF Inv, Course, Parsing, Compiling, Assigning, Proving
<1>2. /\ Ready(c)' /\ AllDefined(c)' /\ Filled(c)' /\ Complete(c)' /\ AllHold(c)' = AllHold(c)
  BY <1>1, SameCircuit
<1>3. stage' = [stage EXCEPT ![c] = IF AllHold(c) THEN "proof" ELSE "refused"]
  BY DEF Goto
<1>4. Given' /\ \A d \in Copies \ {c} : stage'[d] = stage[d]
  BY <1>1, <1>3 DEF Given
<1>5. stage'[c] = IF AllHold(c) THEN "proof" ELSE "refused"
  BY <1>1, <1>3 DEF Given
<1>6. Course(c)'
  BY <1>2, <1>5 DEF Course, Proving
<1> QED BY <1>4, <1>6, OneMoves

\* The constraints of a document, as a set.
LEMMA ConstraintsAre ==
  ASSUME NEW c, Schema(c) \in Document
  PROVE  /\ Constraints(c) = {Schema(c).constraints[i] : i \in 1 .. Len(Schema(c).constraints)}
         /\ Constraints(c) \subseteq Constraint
<1>1. Schema(c).constraints \in Seq(Constraint)
  BY DEF Document
<1> QED BY <1>1, LenProperties, ElementOfSeq DEF Constraints, Range

\* Every step.
LEMMA InvStep == Inv /\ [Next]_vars => Inv'
<1> SUFFICES ASSUME Inv, [Next]_vars PROVE Inv'
  OBVIOUS
<1>1. Given /\ "wallet" \in Copies /\ "blockchain" \in Copies
  BY DEF Inv, Copies
<1>2. CASE UNCHANGED vars
  BY <1>2, CourseStays DEF vars, Inv, Apart, Given
<1>3. CASE WalletParse
  BY <1>1, <1>3, Reads, PrepareKeepsInv, InputsAssumption DEF WalletParse, Given
<1>4. CASE ChainParse
  BY <1>1, <1>4, Reads, PrepareKeepsInv DEF ChainParse
<1>5. CASE WalletCompile
  <2>1. Schema("wallet") \in Document /\ Schema("wallet") = document /\ stage["wallet"] = "compile"
    BY <1>1, <1>5, Reads DEF WalletCompile, Inv, Course, Parsing, Compiling, Assigning, Proving, Ready, Readable
  <2>2. AllDefined("wallet") <=>
          \A i \in 1 .. Len(document.constraints) : WalletDefined(document.constraints[i])
    BY <2>1, ConstraintsAre DEF AllDefined, Defined
  <2> QED BY <1>1, <1>5, <2>2, CompileKeeps DEF WalletCompile
<1>6. CASE ChainCompile
  <2>1. Schema("blockchain") \in Document
    BY <1>1, Reads
  <2>2. AllDefined("blockchain") <=>
          LET cs == Schema("blockchain").constraints IN \A i \in 1 .. Len(cs) : ChainDefined(cs[i])
    BY <2>1, ConstraintsAre DEF AllDefined, Defined
  <2> QED BY <1>1, <1>6, <2>2, CompileKeeps DEF ChainCompile
<1>7. CASE WalletAssign
  BY <1>1, <1>7, AssignKeeps DEF WalletAssign
<1>8. CASE ChainAssign
  BY <1>1, <1>8, AssignKeeps DEF ChainAssign
<1>9. ASSUME NEW c \in Copies, Prove(c)
      PROVE  Inv'
  <2>1. Schema(c) \in Document /\ stage[c] = "prove"
    BY <1>9 DEF Prove, Inv, Course, Parsing, Compiling, Assigning, Proving, Ready, Readable
  <2>2. AllHold(c) <=> LET cs == Schema(c).constraints IN \A i \in 1 .. Len(cs) : Holds(c, cs[i])
    BY <2>1, ConstraintsAre DEF AllHold
  <2> QED BY <1>9, <2>1, <2>2, ProveKeeps DEF Prove
<1>10. CASE Done
  BY <1>2, <1>10 DEF Done
<1> QED BY <1>2, <1>3, <1>4, <1>5, <1>6, <1>7, <1>8, <1>9, <1>10 DEF Next

\* The invariant holds throughout.
LEMMA Invariance == Spec => []Inv
BY InvInit, InvStep, PTL DEF Spec
-----------------------------------------------------------------------------
(***************************************************************************)
(* What the provers promise.                                               *)
(***************************************************************************)
\* The fields of a constraint are fields of the document.
LEMMA FieldsNamed ==
  ASSUME NEW c \in Copies, Ready(c), NEW k \in Constraints(c)
  PROVE  /\ k \in Constraint /\ Len(k.fields) \in Nat \ {0}
         /\ (Len(k.fields) = 1 /\ ~(Len(k.fields) > 1)) \/ Len(k.fields) > 1
         /\ \A i \in 1 .. Len(k.fields) : k.fields[i] \in Names(fields[c])
<1>1. k \in Constraint /\ \E i \in 1 .. Len(Schema(c).constraints) : k = Schema(c).constraints[i]
  BY ConstraintsAre DEF Ready, Readable
<1>2. k.fields # <<>> /\ Range(k.fields) \subseteq Names(Schema(c).fields)
  BY <1>1 DEF Ready, Readable, Prepared
<1>3. k.fields \in Seq(STRING)
  BY <1>1 DEF Constraint
<1>4. Len(k.fields) \in Nat \ {0} /\ DOMAIN k.fields = 1 .. Len(k.fields)
  BY <1>2, <1>3, EmptySeq, LenProperties
<1>5. Names(fields[c]) = Names(Schema(c).fields)
  BY PreparedAre DEF Ready, Readable
<1>6. \A n \in Nat \ {0} : (n = 1 /\ ~(n > 1)) \/ n > 1
  OBVIOUS
<1> QED BY <1>1, <1>2, <1>4, <1>5, <1>6 DEF Range

\* A plain number of an integer field is in its slot as it is.
LEMMA PlainSlot ==
  ASSUME NEW c \in Copies, NEW v \in Value, PlainNumber(v)
  PROVE  SlotValue(c, "integer", v) = Number(v) /\ Number(v) \in 0 .. MaxInt
<1>1. v.kind \in Numeric /\ Number(v) \in 0 .. MaxInt /\ v.kind # "null"
  BY DEF PlainNumber, Numeric
<1>2. Elt(Trunc(v.n)) = Number(v)
  BY <1>1, Small DEF Number
<1>3. ConvertToVariable("integer", v) = Number(v)
  BY <1>1, <1>2 DEF ConvertToVariable, ConvertToInt
<1> QED BY <1>1, <1>3 DEF SlotValue, WalletValue, ChainValue

\* A plain number as a constant.
LEMMA PlainConstant ==
  ASSUME NEW v \in Value, PlainNumber(v), v.kind = "number"
  PROVE  WalletConstant(v) = Number(v) /\ ChainConstant("integer", v) = Number(v)
<1>1. WalletConstant(v) = Elt(Trunc(v.n))
  BY DEF WalletConstant, TextKinds
<1>2. Elt(Trunc(v.n)) = Number(v)
  BY Small DEF Number, PlainNumber
<1>3. ChainConstant("integer", v) = SlotValue("blockchain", "integer", v)
  BY DEF ChainConstant, SlotValue
<1>4. SlotValue("blockchain", "integer", v) = Number(v)
  BY PlainSlot DEF Copies
<1> QED BY <1>1, <1>2, <1>3, <1>4

\* The integer of a field of a plain constraint.
LEMMA PlainVariable ==
  ASSUME Inv, NEW c \in Copies, ReachedProve(c), NEW name \in Names(fields[c]),
         FieldDefinition(fields[c], name).type = "integer", PlainNumber(Claims(c)[name])
  PROVE  FieldVariable(c, name) = Number(Claims(c)[name]) /\ Number(Claims(c)[name]) \in 0 .. MaxInt
<1>1. Filled(c) /\ Err \notin Range(secret[c]) \cup Range(public[c])
  BY ProofMeansHold
<1>2. /\ Claims(c)[name] \in Value
      /\ FieldVariable(c, name) = SlotValue(c, "integer", Claims(c)[name])
  BY <1>1, VariableIsClaim DEF Inv
<1> QED BY <1>2, PlainSlot

\* A range or a comparison over plain integers.
LEMMA PlainHolds ==
  ASSUME Inv, NEW c \in Copies, ReachedProve(c), NEW k \in Constraints(c), PlainInteger(c, k)
  PROVE  Holds(c, k) <=> Says(c, k)
<1> DEFINE N(i) == Number(Claims(c)[k.fields[i]])
<1>1. Ready(c) /\ Defined(c, k)
  BY ProofMeansHold DEF AllDefined
<1>2. /\ k \in Constraint /\ Len(k.fields) \in Nat \ {0}
      /\ \A i \in 1 .. Len(k.fields) : k.fields[i] \in Names(fields[c])
  BY <1>1, FieldsNamed
<1>3. \A i \in 1 .. Len(k.fields) :
        FieldVariable(c, k.fields[i]) = N(i) /\ N(i) \in 0 .. MaxInt
  BY <1>2, PlainVariable DEF PlainInteger
<1>4. 1 \in 1 .. Len(k.fields)
  BY <1>2
<1>5. FieldVariable(c, k.fields[1]) = N(1) /\ N(1) \in 0 .. MaxInt
  BY <1>3, <1>4
<1>6. FieldDefinition(fields[c], k.fields[1]).type = "integer"
  BY <1>4 DEF PlainInteger
<1>7. CASE k.type = "range_check"
  <2>1. Trunc(k.bounds[1]) \in 0 .. MaxInt /\ Trunc(k.bounds[2]) \in 0 .. MaxInt
    BY <1>7 DEF PlainInteger
  <2>2. Holds(c, k) <=> InRange(N(1), Trunc(k.bounds[1]), Trunc(k.bounds[2]))
    BY <1>5, <1>7 DEF Holds, RangeHolds
  <2>3. Says(c, k) <=> Trunc(k.bounds[1]) <= N(1) /\ N(1) <= Trunc(k.bounds[2])
    BY <1>7 DEF Says
  <2> QED BY <1>5, <2>1, <2>2, <2>3, RangeExact
<1>8. CASE k.type = "comparison"
  <2>1. k.op \in Operators
    BY <1>1, <1>6, <1>8 DEF Defined, WalletDefined, ChainDefined, Copies
  <2>2. ASSUME NEW r, r \in 0 .. MaxInt
        PROVE  Compare(k.op, N(1), r) <=> Meant(k.op, N(1), r)
    BY <1>5, <2>1, <2>2, ComparisonExact, Small
  <2>3. CASE Len(k.fields) > 1
    <3>1. 2 \in 1 .. Len(k.fields)
      BY <1>2, <2>3
    <3>2. FieldVariable(c, k.fields[2]) = N(2) /\ N(2) \in 0 .. MaxInt
      BY <1>3, <3>1
    <3>3. Holds(c, k) <=> Compare(k.op, N(1), N(2))
      BY <1>5, <1>8, <2>3, <3>2 DEF Holds, ComparisonHolds
    <3>4. Says(c, k) <=> Meant(k.op, N(1), N(2))
      BY <1>8, <2>3 DEF Says
    <3> QED BY <2>2, <3>2, <3>3, <3>4
  <2>4. CASE ~(Len(k.fields) > 1)
    <3>1. Len(k.fields) = 1
      BY <1>1, <2>4, FieldsNamed
    <3>2. k.value \in Value /\ PlainNumber(k.value) /\ k.value.kind = "number"
      BY <1>2, <1>8, <3>1 DEF PlainInteger, Constraint
    <3>3. Constant(c, k) = Number(k.value)
      BY <1>6, <3>2, PlainConstant DEF Constant
    <3>4. Number(k.value) \in 0 .. MaxInt
      BY <3>2 DEF PlainNumber
    <3>5. Holds(c, k) <=> Compare(k.op, N(1), Number(k.value))
      BY <1>5, <1>8, <2>4, <3>3 DEF Holds, ComparisonHolds
    <3>6. Says(c, k) <=> Meant(k.op, N(1), Number(k.value))
      BY <1>8, <2>4 DEF Says
    <3> QED BY <2>2, <3>4, <3>5, <3>6
  <2> QED BY <2>3, <2>4
<1> QED BY <1>7, <1>8 DEF PlainInteger

\* The integer of an age or of a year.
LEMMA IntegerValue ==
  ASSUME NEW v \in Value
  PROVE  ValueAsInt(v) \in Int
<1>1. v.n \in Int
  BY HashAssumption DEF Value
<1> QED BY <1>1 DEF ValueAsInt, Trunc

\* An age by birth time.
LEMMA BirthHolds ==
  ASSUME Inv, NEW c \in Copies, ReachedProve(c), NEW k \in Constraints(c), PlainBirth(c, k)
  PROVE  Holds(c, k) <=> Says(c, k)
<1> DEFINE v == Claims(c)[k.fields[1]]
<1>1. /\ Ready(c) /\ Filled(c) /\ Err \notin Range(secret[c]) \cup Range(public[c])
  BY ProofMeansHold
<1>2. /\ k \in Constraint /\ Len(k.fields) \in Nat \ {0}
      /\ \A i \in 1 .. Len(k.fields) : k.fields[i] \in Names(fields[c])
  BY <1>1, FieldsNamed
<1>3. k.fields[1] \in Names(fields[c])
  BY <1>2
<1>4. /\ c = "wallet" /\ k.type = "age_verification" /\ v.kind = "datetext" /\ v.n >= 0
      /\ LatestBirth(k) >= 0 /\ FieldDefinition(fields[c], k.fields[1]).type = "date"
  BY DEF PlainBirth
<1>5. v \in Value /\ FieldVariable(c, k.fields[1]) = SlotValue(c, "date", v)
  BY <1>1, <1>3, <1>4, VariableIsClaim DEF Inv
<1> HIDE DEF v
<1>6. v.n \in Int
  BY <1>5, HashAssumption DEF Value
<1>7. SlotValue(c, "date", v) = v.n
  <2>1. Elt(v.n) = v.n
    BY <1>4, <1>6 DEF Elt
  <2> QED BY <1>4, <2>1 DEF SlotValue, WalletValue, ConvertToVariable, ConvertToDate
<1>8. LatestBirth(k) \in Int /\ Elt(LatestBirth(k)) = LatestBirth(k)
  <2>1. ValueAsInt(k.value) \in Int
    BY <1>2, IntegerValue DEF Constraint
  <2>2. ValueAsInt(k.value) * YearLength \in Int
    BY <2>1, FieldAssumption
  <2>3. LatestBirth(k) \in Int
    BY <2>2, TodayAssumption DEF LatestBirth
  <2> QED BY <1>4, <2>3 DEF Elt
<1>9. Holds(c, k) <=> v.n <= LatestBirth(k)
  BY <1>4, <1>5, <1>7, <1>8 DEF Holds, WalletAgeHolds, AgeByTime, LessOrEqual, LatestBirth
<1>10. Says(c, k) <=> v.n <= LatestBirth(k)
  BY <1>4 DEF Says, v
<1> QED BY <1>9, <1>10

\* A circuit over residues says what its schema says over the integers, for
\* every document and every claims whose numbers are plain: the prover succeeds
\* exactly when all comparisons, ranges and ages by birth time hold.
THEOREM CircuitsMeanSchemas == Spec => []CircuitMeansSchema
<1>1. ASSUME Inv
      PROVE  CircuitMeansSchema
  <2> SUFFICES ASSUME NEW c \in Copies, ReachedProve(c),
                      \A k \in Constraints(c) : PlainInteger(c, k) \/ PlainBirth(c, k)
               PROVE  stage[c] = "proof" <=> \A k \in Constraints(c) : Says(c, k)
    BY DEF CircuitMeansSchema
  <2>1. \A k \in Constraints(c) : Holds(c, k) <=> Says(c, k)
    BY <1>1, PlainHolds, BirthHolds
  <2>2. stage[c] = "proof" <=> AllHold(c)
    BY <1>1, ProofMeansHold
  <2> QED BY <2>1, <2>2 DEF AllHold
<1> QED BY <1>1, Invariance, PTL

\* The public inputs of a proof are the values of the fields the document marks
\* public, whatever it says of their secrecy, and of no other, for every
\* document and all claims.
THEOREM DisclosesPublic == Spec => []DisclosesOnlyPublic
<1>1. ASSUME Inv
      PROVE  DisclosesOnlyPublic
  <2> SUFFICES ASSUME NEW c \in Copies, stage[c] \in {"prove", "proof"}
               PROVE  LET fs == Schema(c).fields
                          Read(f) == LET type == IF f.type = "" THEN "string" ELSE f.type IN
                                     SlotValue(c, type, Claims(c)[f.name]) IN
                      public[c] = [i \in {j \in 1 .. Len(fs) : fs[j].public} |-> Read(fs[i])]
    BY DEF DisclosesOnlyPublic
  <2>1. Ready(c) /\ Filled(c) /\ Err \notin Range(secret[c]) \cup Range(public[c])
    BY <1>1 DEF Inv, Course, Parsing, Compiling, Assigning, Proving, Complete, Assigned
  <2> DEFINE fs == Schema(c).fields
             gs == fields[c]
             Type(f) == IF f.type = "" THEN "string" ELSE f.type
             M == {j \in 1 .. Len(fs) : fs[j].public}
  <2>2. /\ Len(gs) = Len(fs)
        /\ \A i \in 1 .. Len(fs) : /\ gs[i].name = fs[i].name /\ gs[i].public = fs[i].public
                                   /\ gs[i].type = Type(fs[i])
    BY <2>1, PreparedAre DEF Ready, Readable
  <2>3. PublicFieldOrder(gs) = M
    BY <2>2 DEF PublicFieldOrder
  <2>4. public[c] = [i \in M |-> IF gs[i].name \in DOMAIN Claims(c)
                                 THEN SlotValue(c, gs[i].type, Claims(c)[gs[i].name]) ELSE Err]
    BY <2>1, <2>3 DEF Filled, Fill
  <2>5. ASSUME NEW i \in M
        PROVE  /\ gs[i].name \in DOMAIN Claims(c) /\ gs[i].name = fs[i].name
               /\ gs[i].type = Type(fs[i])
    BY <2>1, <2>2, FilledHasClaim
  <2> HIDE DEF M, gs
  <2>6. public[c] = [i \in M |-> SlotValue(c, Type(fs[i]), Claims(c)[fs[i].name])]
    BY <2>4, <2>5
  <2> QED BY <2>6 DEF M
<1> QED BY <1>1, Invariance, PTL

\* What a claim prints as is a text.
LEMMA PrintsText ==
  ASSUME NEW v \in Value, v.kind # "absent"
  PROVE  /\ Sprint(v) \in Text
         /\ v.kind \in TextKinds => v \in Text /\ Sprint(v) = v
<1>1. v.n \in Codes /\ v.kind \in TextKinds \cup {"number", "bool", "null"}
  BY DEF Value
<1>2. CASE v.kind \in TextKinds
  <2>1. Sprint(v) = v
    BY <1>2 DEF Sprint, TextKinds
  <2>2. v \in Text
    BY <1>2 DEF Text, Value
  <2> QED BY <2>1, <2>2
<1>3. CASE v.kind \notin TextKinds
  <2>1. \E t \in TextKinds : Sprint(v) = [v EXCEPT !.kind = t]
    BY <1>1, <1>3 DEF Sprint, TextKinds
  <2>2. Sprint(v) \in Text
    BY <2>1 DEF Text, Value
  <2> QED BY <1>3, <2>2
<1> QED BY <1>2, <1>3

\* A string claim and its constant are each hashed once: for every document
\* with one equality on a string field, the wallet proves exactly the text of
\* the constant.
THEOREM StringsHashedOnce == Spec => []StringHashedOnce
<1>1. ASSUME Inv
      PROVE  StringHashedOnce
  <2> DEFINE c == "wallet"
  <2> SUFFICES ASSUME ReachedProve(c), NEW k \in Constraints(c), Constraints(c) = {k}, TextEquality(k)
               PROVE  stage[c] = "proof" <=> Sprint(Claims(c)[k.fields[1]]) = k.value
    BY DEF StringHashedOnce
  <2>1. c \in Copies
    BY DEF Copies
  <2>2. /\ Ready(c) /\ Filled(c) /\ Err \notin Range(secret[c]) \cup Range(public[c])
        /\ stage[c] = "proof" <=> AllHold(c)
    BY <1>1, <2>1, ProofMeansHold
  <2>3. stage[c] = "proof" <=> Holds(c, k)
    BY <2>2 DEF AllHold
  <2>4. k \in Constraint /\ k.fields[1] \in Names(fields[c])
    BY <2>1, <2>2, FieldsNamed
  <2>5. /\ k.type = "comparison" /\ k.op = "eq" /\ ~(Len(k.fields) > 1) /\ k.value.kind \in TextKinds
        /\ FieldDefinition(fields[c], k.fields[1]).type = "string"
    BY DEF TextEquality
  <2> DEFINE v == Claims(c)[k.fields[1]]
  <2>6. /\ v \in Value /\ v.kind # "absent"
        /\ FieldVariable(c, k.fields[1]) = SlotValue(c, "string", v)
    BY <1>1, <2>1, <2>2, <2>4, <2>5, VariableIsClaim DEF Inv
  <2> HIDE DEF v
  <2>7. Sprint(v) \in Text
    BY <2>6, PrintsText
  <2>8. k.value \in Text
    BY <2>4, <2>5 DEF Constraint, Value, Text
  <2>9. SlotValue(c, "string", v) = Hash[Sprint(v)]
    BY DEF SlotValue, WalletValue
  <2>10. Constant(c, k) = Hash[k.value]
    BY <2>5 DEF Constant, WalletConstant, TextKinds
  <2>11. Holds(c, k) <=> Hash[Sprint(v)] = Hash[k.value]
    BY <2>5, <2>6, <2>9, <2>10 DEF Holds, ComparisonHolds, Compare
  <2>12. Hash[Sprint(v)] = Hash[k.value] <=> Sprint(v) = k.value
    BY <2>7, <2>8, HashAssumption
  <2> QED BY <2>3, <2>11, <2>12 DEF v
<1> QED BY <1>1, Invariance, PTL

\* The blockchain client proves an age exactly for the valid days on or before
\* the birthday, for every date of today and every age.
THEOREM AgesExact == Spec => []AgeExact
<1>1. ASSUME Inv
      PROVE  AgeExact
  <2> DEFINE c == "blockchain"
             N(k, i) == Number(Claims(c)[k.fields[i]])
  <2> SUFFICES ASSUME ReachedProve(c), NEW k \in Constraints(c), PlainAge(c, k), Constraints(c) = {k}
               PROVE  stage[c] = "proof" <=>
                        /\ ValidDay(N(k, 1), N(k, 2), N(k, 3))
                        /\ OldEnough(N(k, 1), N(k, 2), N(k, 3), ValueAsInt(k.value), Today.date)
    BY DEF AgeExact
  <2>1. c \in Copies
    BY DEF Copies
  <2>2. /\ Ready(c) /\ AllDefined(c)
        /\ stage[c] = "proof" <=> AllHold(c)
    BY <1>1, <2>1, ProofMeansHold
  <2>3. stage[c] = "proof" <=> Holds(c, k)
    BY <2>2 DEF AllHold
  <2>4. k.type = "age_verification" /\ ValueAsInt(k.value) \in 0 .. Today.date[1]
    BY DEF PlainAge
  <2>5. Len(k.fields) = 3
    BY <2>2, <2>4 DEF AllDefined, Defined, ChainDefined
  <2>6. \A i \in 1 .. 3 : k.fields[i] \in Names(fields[c])
    BY <2>1, <2>2, <2>5, FieldsNamed
  <2>7. \A i \in 1 .. 3 : FieldVariable(c, k.fields[i]) = N(k, i) /\ N(k, i) \in 0 .. MaxInt
    BY <1>1, <2>1, <2>6, PlainVariable DEF PlainAge
  <2>8. /\ FieldVariable(c, k.fields[1]) = N(k, 1) /\ FieldVariable(c, k.fields[2]) = N(k, 2)
        /\ FieldVariable(c, k.fields[3]) = N(k, 3)
        /\ N(k, 1) \in 0 .. MaxInt /\ N(k, 2) \in 0 .. MaxInt /\ N(k, 3) \in 0 .. MaxInt
    BY <2>7
  <2>9. Holds(c, k) <=> AgeByDate(N(k, 1), N(k, 2), N(k, 3), ValueAsInt(k.value), Today.date)
    BY <2>4, <2>8 DEF Holds, ChainAgeHolds
  <2>10. N(k, 2) \in Element /\ N(k, 3) \in Element
    BY <2>8, Small
  <2>11. /\ ValueAsInt(k.value) \in Nat /\ Today.date[1] \in Int
         /\ Today.date[1] - ValueAsInt(k.value) \in 0 .. MaxInt
    BY <2>4, TodayAssumption, FieldAssumption
  <2> HIDE DEF N
  <2>12. AgeByDate(N(k, 1), N(k, 2), N(k, 3), ValueAsInt(k.value), Today.date) <=>
           /\ N(k, 2) \in 1 .. 12 /\ N(k, 3) \in 1 .. 31
           /\ OldEnough(N(k, 1), N(k, 2), N(k, 3), ValueAsInt(k.value), Today.date)
    BY <2>8, <2>10, <2>11, TodayAssumption, AgeByDateExact
  <2> QED BY <2>3, <2>8, <2>9, <2>12 DEF ValidDay
<1> QED BY <1>1, Invariance, PTL
-----------------------------------------------------------------------------
(***************************************************************************)
(* The two copies.                                                         *)
(***************************************************************************)
\* Both put the same value into a slot, unless a string field has a claim that
\* is no text.
LEMMA SameSlot ==
  ASSUME NEW type, NEW v \in Value, type = "string" => v.kind \in TextKinds
  PROVE  SlotValue("wallet", type, v) = SlotValue("blockchain", type, v)
<1>1. CASE type = "string"
  <2>1. v.kind \in TextKinds /\ v.kind # "absent"
    BY <1>1 DEF TextKinds
  <2>2. Sprint(v) = v
    BY <2>1, PrintsText
  <2> QED BY <1>1, <2>1, <2>2 DEF SlotValue, WalletValue, ChainValue
<1>2. CASE type # "string"
  BY <1>2 DEF SlotValue, WalletValue, ChainValue
<1> QED BY <1>1, <1>2

\* Both read the same constant where it is of the type of its field.
LEMMA SameConstant ==
  ASSUME NEW type, NEW v \in Value,
         \/ type = "integer" /\ v.kind = "number"
         \/ type = "date" /\ v.kind = "number" /\ Whole(v.n)
         \/ type = "string" /\ v.kind \in TextKinds
  PROVE  WalletConstant(v) = ChainConstant(type, v)
<1>1. CASE type = "integer" /\ v.kind = "number"
  <2>1. WalletConstant(v) = Elt(Trunc(v.n))
    BY <1>1 DEF WalletConstant, TextKinds
  <2> QED BY <1>1, <2>1 DEF ChainConstant, ChainValue, ConvertToVariable, ConvertToInt, Numeric
<1>2. CASE type = "date" /\ v.kind = "number" /\ Whole(v.n)
  <2> DEFINE t == [v EXCEPT !.kind = "numtext"]
  <2>1. WalletConstant(v) = Elt(Trunc(v.n))
    BY <1>2 DEF WalletConstant, TextKinds
  <2>2. t.kind = "numtext" /\ t.n = v.n
    BY DEF Value
  <2>3. ChainConstant(type, v) = ChainValue("date", t)
    BY <1>2 DEF ChainConstant
  <2> HIDE DEF t
  <2>4. Decimal(t) = Elt(Trunc(v.n))
    BY <1>2, <2>2 DEF Decimal, Sprint
  <2>5. ChainValue("date", t) = Decimal(t)
    BY <2>2 DEF ChainValue, ConvertToVariable, ConvertToDate
  <2> QED BY <2>1, <2>3, <2>4, <2>5
<1>3. CASE type = "string" /\ v.kind \in TextKinds
  <2>1. WalletConstant(v) = Hash[v]
    BY <1>3 DEF WalletConstant, TextKinds
  <2>2. v.kind # "number"
    BY <1>3 DEF TextKinds
  <2> QED BY <1>3, <2>1, <2>2 DEF ChainConstant, ChainValue
<1> QED BY <1>1, <1>2, <1>3

\* Both define such a constraint, and with the same slots it holds for both.
LEMMA SameConstraint ==
  ASSUME NEW k \in Constraint, fields["wallet"] = fields["blockchain"], SameToBoth(k),
         (Len(k.fields) = 1 /\ ~(Len(k.fields) > 1)) \/ Len(k.fields) > 1
  PROVE  /\ WalletDefined(k) <=> ChainDefined(k)
         /\ secret["wallet"] = secret["blockchain"] /\ public["wallet"] = public["blockchain"] =>
              Holds("wallet", k) = Holds("blockchain", k)
<1> DEFINE type == FieldDefinition(fields["wallet"], k.fields[1]).type
           W == "wallet"
           B == "blockchain"
<1>1. CASE k.type = "range_check"
  <2>1. WalletDefined(k) <=> ChainDefined(k)
    BY <1>1 DEF WalletDefined, ChainDefined
  <2>2. ASSUME secret[W] = secret[B], public[W] = public[B]
        PROVE  Holds(W, k) = Holds(B, k)
    <3>1. \A name : FieldVariable(W, name) = FieldVariable(B, name)
      BY <2>2 DEF FieldVariable
    <3> QED BY <1>1, <3>1 DEF Holds, RangeHolds
  <2> QED BY <2>1, <2>2
<1>2. CASE k.type = "comparison"
  <2>1. type = "string" => k.op \in {"eq", "ne"}
    BY <1>2 DEF SameToBoth
  <2>2. k.value \in Value
    BY DEF Constraint
  <2>3. ~(Len(k.fields) > 1) =>
          \/ type = "integer" /\ k.value.kind = "number"
          \/ type = "date" /\ k.value.kind = "number" /\ Whole(k.value.n)
          \/ type = "string" /\ k.value.kind \in TextKinds
    BY <1>2 DEF SameToBoth
  <2>4. ~(Len(k.fields) > 1) => WalletConstant(k.value) = ChainConstant(type, k.value)
    BY <2>2, <2>3, SameConstant
  <2>5. WalletDefined(k) <=>
          k.op \in Operators /\ (Len(k.fields) = 1 => WalletConstant(k.value) # Err)
    BY <1>2 DEF WalletDefined
  <2>6. ChainDefined(k) <=>
          /\ k.op \in IF type = "string" THEN {"eq", "ne"} ELSE Operators
          /\ Len(k.fields) = 1 => ChainConstant(type, k.value) # Err
    BY <1>2 DEF ChainDefined
  <2>7. Len(k.fields) = 1 => ~(Len(k.fields) > 1)
    OBVIOUS
  <2>8. {"eq", "ne"} \subseteq Operators
    BY DEF Operators
  <2>9. WalletDefined(k) <=> ChainDefined(k)
    BY <2>1, <2>4, <2>5, <2>6, <2>7, <2>8
  <2>10. ASSUME secret[W] = secret[B], public[W] = public[B]
         PROVE  Holds(W, k) = Holds(B, k)
    <3>1. \A name : FieldVariable(W, name) = FieldVariable(B, name)
      BY <2>10 DEF FieldVariable
    <3>2. ~(Len(k.fields) > 1) => Constant(W, k) = Constant(B, k)
      BY <2>4 DEF Constant
    <3>3. ComparisonHolds(W, k) = ComparisonHolds(B, k)
      BY <3>1, <3>2 DEF ComparisonHolds
    <3> QED BY <1>2, <3>3 DEF Holds
  <2> QED BY <2>9, <2>10
<1> QED BY <1>1, <1>2 DEF SameToBoth

\* Where a document uses what both copies understand, they accept the same
\* claims: for every such document and all claims.
THEOREM CopiesDoAgree == Spec => []CopiesAgree
<1>1. ASSUME Inv
      PROVE  CopiesAgree
  <2> DEFINE W == "wallet"
             B == "blockchain"
  <2> SUFFICES ASSUME \A c \in Copies : Ended(c), document # NoDocument, claims # <<>>,
                      fields[W] # <<>> => \A k \in Constraints(W) : SameToBoth(k),
                      \A f \in Range(fields[W]) :
                        f.type = "string" /\ f.name \in DOMAIN claims
                          => claims[f.name].kind \in TextKinds
               PROVE  stage[W] = stage[B]
    BY DEF CopiesAgree
  <2>1. /\ W \in Copies /\ B \in Copies /\ Course(W) /\ Course(B)
        /\ stage[W] \in {"proof", "refused"} /\ stage[B] \in {"proof", "refused"}
    BY <1>1 DEF Copies, Inv, Ended
  <2>2. /\ Schema(W) = document /\ Schema(B) = document /\ document \in Document
        /\ Claims(W) = claims /\ Claims(B) = claims /\ AreClaims(claims)
    BY <1>1, <2>1, Reads DEF Inv, Given
  <2>3. CASE ~Prepared(document)
    <3>1. ~Readable(W) /\ ~Readable(B)
      BY <2>2, <2>3 DEF Readable
    <3> QED BY <2>1, <3>1 DEF Course, Parsing, Compiling, Assigning, Proving, Ready
  <2>4. CASE Prepared(document)
    <3>1. Readable(W) /\ Readable(B)
      BY <2>2, <2>4 DEF Readable
    <3>2. Ready(W) /\ Ready(B)
      BY <2>1, <3>1 DEF Course, Parsing, Compiling, Assigning, Proving
    <3>3. fields[W] = PreparedFields(document) /\ fields[B] = PreparedFields(document)
      BY <2>2, <3>2 DEF Ready
    <3>4. fields[W] # <<>> /\ DOMAIN fields[W] = 1 .. Len(fields[W])
      BY <2>2, <2>4, <3>3, PreparedAre
    <3>5. Constraints(W) = Constraints(B)
      BY <2>2 DEF Constraints
    <3>6. ASSUME NEW k \in Constraints(W)
          PROVE  /\ WalletDefined(k) <=> ChainDefined(k)
                 /\ secret[W] = secret[B] /\ public[W] = public[B] => Holds(W, k) = Holds(B, k)
      <4>1. SameToBoth(k)
        BY <3>4
      <4>2. k \in Constraint /\ ((Len(k.fields) = 1 /\ ~(Len(k.fields) > 1)) \/ Len(k.fields) > 1)
        BY <2>1, <3>2, FieldsNamed
      <4> QED BY <3>3, <4>1, <4>2, SameConstraint
    <3>7. AllDefined(W) <=> AllDefined(B)
      BY <3>5, <3>6 DEF AllDefined, Defined
    <3>8. CASE ~AllDefined(W)
      BY <2>1, <3>1, <3>7, <3>8 DEF Course, Parsing, Compiling, Assigning, Proving
    <3>9. CASE AllDefined(W)
      <4>1. Filled(W) /\ Filled(B)
        BY <2>1, <3>1, <3>7, <3>9 DEF Course, Parsing, Compiling, Assigning, Proving
      <4>2. ASSUME NEW i \in 1 .. Len(fields[W]), fields[W][i].name \in DOMAIN claims
            PROVE  SlotValue(W, fields[W][i].type, claims[fields[W][i].name])
                     = SlotValue(B, fields[W][i].type, claims[fields[W][i].name])
        <5>1. fields[W][i] \in Range(fields[W])
          BY <3>4 DEF Range
        <5>2. claims[fields[W][i].name] \in Value
          BY <2>2, <4>2 DEF AreClaims
        <5> QED BY <4>2, <5>1, <5>2, SameSlot
      <4>3. /\ secret[W] = Fill(W, fields[W], claims, SecretFieldOrder(fields[W]))
            /\ secret[B] = Fill(B, fields[W], claims, SecretFieldOrder(fields[W]))
            /\ public[W] = Fill(W, fields[W], claims, PublicFieldOrder(fields[W]))
            /\ public[B] = Fill(B, fields[W], claims, PublicFieldOrder(fields[W]))
        BY <2>2, <3>3, <4>1 DEF Filled
      <4>4. \A S \in SUBSET (1 .. Len(fields[W])) :
              Fill(W, fields[W], claims, S) = Fill(B, fields[W], claims, S)
        BY <4>2 DEF Fill
      <4>5. secret[W] = secret[B] /\ public[W] = public[B]
        BY <4>3, <4>4 DEF SecretFieldOrder, PublicFieldOrder
      <4>6. Complete(W) <=> Complete(B)
        BY <2>2, <3>3, <4>5 DEF Complete
      <4>7. AllHold(W) <=> AllHold(B)
        BY <3>5, <3>6, <4>5 DEF AllHold
      <4> QED BY <2>1, <3>1, <3>7, <3>9, <4>6, <4>7
              DEF Course, Parsing, Compiling, Assigning, Proving
    <3> QED BY <3>8, <3>9
  <2> QED BY <2>3, <2>4
<1> QED BY <1>1, Invariance, PTL

-----------------------------------------------------------------------------
(***************************************************************************)
(* Types.                                                                  *)
(***************************************************************************)
\* A copy has a slot for each of its fields, on the side of its kind.
Slotted(c) ==
  /\ DOMAIN secret[c] = SecretFieldOrder(fields[c])
  /\ DOMAIN public[c] = PublicFieldOrder(fields[c])
Slots == \A c \in Copies : Slotted(c)

\* Before the schema is parsed there are neither fields nor slots.
LEMMA SlotsInit == Init => Slots
<1> SUFFICES ASSUME Init, NEW c \in Copies
             PROVE  Slotted(c)
  BY DEF Slots
<1>1. fields[c] = <<>> /\ secret[c] = <<>> /\ public[c] = <<>>
  BY DEF Init
<1> QED BY <1>1 DEF Slotted, SecretFieldOrder, PublicFieldOrder

\* prepare and AssignValues make a slot for each field they know.
LEMMA SlotsStep == Inv /\ Slots /\ [Next]_vars => Slots'
<1> SUFFICES ASSUME Inv, Slots, [Next]_vars
             PROVE  Slots'
  OBVIOUS
<1>1. /\ fields = [c \in Copies |-> fields[c]]
      /\ secret = [c \in Copies |-> secret[c]] /\ public = [c \in Copies |-> public[c]]
  BY DEF Inv, Given
<1>2. ASSUME NEW copy \in Copies, NEW s, Prepare(copy, s)
      PROVE  Slots'
  <2>1. CASE Prepared(s)
    <3> DEFINE fs == PreparedFields(s)
    <3>1. /\ fields' = [fields EXCEPT ![copy] = fs]
          /\ secret' = [secret EXCEPT ![copy] = EmptySlots(SecretFieldOrder(fs))]
          /\ public' = [public EXCEPT ![copy] = EmptySlots(PublicFieldOrder(fs))]
      BY <1>2, <2>1 DEF Prepare
    <3> HIDE DEF fs
    <3>2. /\ DOMAIN EmptySlots(SecretFieldOrder(fs)) = SecretFieldOrder(fs)
          /\ DOMAIN EmptySlots(PublicFieldOrder(fs)) = PublicFieldOrder(fs)
      BY DEF EmptySlots
    <3> QED BY <1>1, <3>1, <3>2 DEF Slots, Slotted
  <2>2. CASE ~Prepared(s)
    BY <1>2, <2>2 DEF Prepare, Slots, Slotted
  <2> QED BY <2>1, <2>2
<1>3. ASSUME NEW copy \in Copies, Assign(copy)
      PROVE  Slots'
  <2> DEFINE fs == fields[copy]
             newSecret == Fill(copy, fs, Claims(copy), SecretFieldOrder(fs))
             newPublic == Fill(copy, fs, Claims(copy), PublicFieldOrder(fs))
  <2>1. /\ secret' = [secret EXCEPT ![copy] = newSecret]
        /\ public' = [public EXCEPT ![copy] = newPublic] /\ fields' = fields
    BY <1>3 DEF Assign
  <2>2. DOMAIN newSecret = SecretFieldOrder(fs) /\ DOMAIN newPublic = PublicFieldOrder(fs)
    BY DEF Fill
  <2> HIDE DEF newSecret, newPublic
  <2> QED BY <1>1, <2>1, <2>2 DEF Slots, Slotted
<1>4. CASE UNCHANGED <<fields, secret, public>>
  BY <1>4 DEF Slots, Slotted
<1>5. CASE WalletParse
  BY <1>2, <1>4, <1>5 DEF WalletParse, Copies
<1>6. CASE ChainParse
  BY <1>2, <1>6 DEF ChainParse, Copies
<1>7. CASE WalletAssign \/ ChainAssign
  BY <1>3, <1>7 DEF WalletAssign, ChainAssign, Copies
<1>8. CASE WalletCompile \/ ChainCompile \/ (\E c \in Copies : Prove(c)) \/ Done \/ UNCHANGED vars
  BY <1>4, <1>8 DEF WalletCompile, ChainCompile, Prove, Done, vars
<1> QED BY <1>5, <1>6, <1>7, <1>8 DEF Next

\* The provers keep a secret or a public slot for every field of the schema and
\* prove only when all of them are set, for every document and all claims.
THEOREM ProversTypeCorrect == Spec => []TypeOK
<1>1. ASSUME Inv, Slots
      PROVE  TypeOK
  <2>1. stage \in [Copies -> Stages]
    <3>1. \A c \in Copies : stage[c] \in Stages
      BY <1>1 DEF Inv, Course, Parsing, Compiling, Assigning, Proving, Stages
    <3> QED BY <1>1, <3>1 DEF Inv, Given
  <2>2. ASSUME NEW c \in Copies
        PROVE  /\ DOMAIN secret[c] \cup DOMAIN public[c] = DOMAIN fields[c]
               /\ DOMAIN secret[c] \cap DOMAIN public[c] = {}
    <3>1. fields[c] = <<>> \/ Ready(c)
      BY <1>1 DEF Inv, Course, Parsing, Compiling, Assigning, Proving
    <3>2. DOMAIN fields[c] = 1 .. Len(fields[c])
      BY <3>1, PreparedAre, EmptySeq, LenProperties DEF Ready, Readable
    <3> QED BY <1>1, <3>2 DEF Slots, Slotted, SecretFieldOrder, PublicFieldOrder
  <2>3. ASSUME NEW c \in Copies, stage[c] \in {"prove", "proof"}
        PROVE  Err \notin Range(secret[c]) \cup Range(public[c])
    BY <1>1, <2>3 DEF Inv, Course, Parsing, Compiling, Assigning, Proving, Complete, Assigned
  <2> QED BY <2>1, <2>2, <2>3 DEF TypeOK
<1> QED BY <1>1, SlotsInit, SlotsStep, Invariance, PTL DEF Spec
=============================================================================
