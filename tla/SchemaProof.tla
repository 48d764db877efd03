----------------------------- MODULE SchemaProof -----------------------------
(***************************************************************************)
(* Proving a schema: ProveDynamicFromSchema of the wallet and CreateZKP of *)
(* the blockchain client, from the schema document and the claims to a     *)
(* proof or the stage that refused.  Both copies run on the same document  *)
(* and claims, so that their verdicts can be compared; the API's copy is   *)
(* the text of the wallet's and only compiles (Presentation).              *)
(*                                                                         *)
(* A field is a record of name, type, and the flags required, secret and   *)
(* public; a constraint has a type, the names of its fields, an operator,  *)
(* a JSON value, and for a range the sequence of its bounds (in halves).   *)
(***************************************************************************)
EXTENDS DynamicCircuit, Functions

CONSTANTS
  Inputs,       \* pairs of a document (a record of fields and constraints) and
                \* claims (a function from names to values)
  NoDocument,   \* an empty schema JSON
  DefaultAgeSchema, DefaultClaims,  \* what CreateZKP uses in its place
  Today         \* year, month and day of time.Now, and the Unix time

Field == [name : STRING, type : STRING, required : BOOLEAN, secret : BOOLEAN, public : BOOLEAN]
Constraint == [type : STRING, fields : Seq(STRING), op : STRING, value : Value, bounds : Seq(Int)]
Document == [fields : Seq(Field), constraints : Seq(Constraint)]
AreClaims(values) == \A name \in DOMAIN values : values[name] \in Value /\ values[name].kind # "absent"

ASSUME InputsAssumption ==
  /\ NoDocument \notin Document
  /\ \A input \in Inputs : input.document \in Document \cup {NoDocument} /\ AreClaims(input.claims)
  /\ DefaultAgeSchema \in Document /\ AreClaims(DefaultClaims)
ASSUME TodayAssumption ==
  /\ Today.unix \in Int
  /\ Today.date[1] \in 0 .. MaxInt /\ Today.date[2] \in 1 .. 12 /\ Today.date[3] \in 1 .. 31

Copies == {"wallet", "blockchain"}
Stages == {"parse", "compile", "assign", "prove", "proof", "refused"}

VARIABLES
  document,  \* the schema JSON both copies are given
  claims,    \* the assignments both copies are given
  stage,     \* per copy: the step to take, or how it ended
  fields,    \* per copy: the prepared field definitions
  secret,    \* per copy: SecretValues
  public     \* per copy: PublicValues

vars == <<document, claims, stage, fields, secret, public>>

-----------------------------------------------------------------------------
(* schema.go *)

Schema(copy) == IF copy = "blockchain" /\ document = NoDocument
                THEN DefaultAgeSchema ELSE document
Claims(copy) == IF copy = "blockchain" /\ claims = <<>> THEN DefaultClaims ELSE claims

Names(fs) == {fs[i].name : i \in 1 .. Len(fs)}

\* Mutant: secret wins over public.
PrepareFieldSecret(f) ==
  [f EXCEPT !.public = f.public /\ ~f.secret,
            !.secret = f.secret \/ ~f.public,
            !.type = IF f.type = "" THEN "string" ELSE f.type]

\* Public wins over secret, a field that says neither is secret, and a field
\* without a type is a string.
PrepareField(f) ==
  [f EXCEPT !.secret = ~f.public,
            !.type = IF f.type = "" THEN "string" ELSE f.type]

\* prepare refuses nameless and duplicate fields and dangling constraints.
Prepared(s) ==
  /\ s.fields # <<>>
  /\ "" \notin Names(s.fields)
  /\ IsInjective([i \in 1 .. Len(s.fields) |-> s.fields[i].name])
  /\ \A i \in 1 .. Len(s.constraints) :
       LET c == s.constraints[i] IN
       c.type # "" /\ c.fields # <<>> /\ Range(c.fields) \subseteq Names(s.fields)

PreparedFields(s) == [i \in 1 .. Len(s.fields) |-> PrepareField(s.fields[i])]

\* The fields of each kind, by their positions in the document, whose order the
\* slices keep.
SecretFieldOrder(fs) == {i \in 1 .. Len(fs) : ~fs[i].public}
PublicFieldOrder(fs) == {i \in 1 .. Len(fs) : fs[i].public}

Position(fs, name) == CHOOSE i \in 1 .. Len(fs) : fs[i].name = name
FieldDefinition(fs, name) == fs[Position(fs, name)]

-----------------------------------------------------------------------------
(* dynamic_circuit.go *)

\* NewDynamicCircuit and Clone: one slot per field, unset.
EmptySlots(order) == [i \in order |-> Err]

\* fieldVariable: where the value of a field is.
FieldVariable(copy, name) ==
  LET i == Position(fields[copy], name) IN
  IF fields[copy][i].public THEN public[copy][i] ELSE secret[copy][i]

RangeDefined(c) == Len(c.fields) = 1 /\ Len(c.bounds) = 2 /\ \A i \in 1 .. 2 : Whole(c.bounds[i])

Constant(copy, c) ==
  IF copy = "wallet" THEN WalletConstant(c.value)
  ELSE ChainConstant(FieldDefinition(fields[copy], c.fields[1]).type, c.value)

WalletDefined(c) ==
  CASE c.type = "range_check" -> RangeDefined(c)
    [] c.type = "comparison" ->
         /\ c.op \in Operators
         /\ Len(c.fields) = 1 => WalletConstant(c.value) # Err
    [] c.type = "age_verification" -> Len(c.fields) = 1 /\ HasInt(c.value)
    [] OTHER -> FALSE

ChainDefined(c) ==
  CASE c.type = "range_check" -> RangeDefined(c)
    [] c.type = "comparison" ->
         LET type == FieldDefinition(fields["blockchain"], c.fields[1]).type IN
         /\ c.op \in IF type = "string" THEN {"eq", "ne"} ELSE Operators
         /\ Len(c.fields) = 1 => ChainConstant(type, c.value) # Err
    [] c.type = "age_verification" -> Len(c.fields) = 3 /\ HasInt(c.value)
    [] OTHER -> FALSE

RangeHolds(copy, c) ==
  InRange(FieldVariable(copy, c.fields[1]), Trunc(c.bounds[1]), Trunc(c.bounds[2]))

ComparisonHolds(copy, c) ==
  Compare(c.op, FieldVariable(copy, c.fields[1]),
          IF Len(c.fields) > 1 THEN FieldVariable(copy, c.fields[2]) ELSE Constant(copy, c))

WalletAgeHolds(c) ==
  AgeByTime(FieldVariable("wallet", c.fields[1]), ValueAsInt(c.value), Today.unix)

ChainAgeHolds(c) ==
  LET At(i) == FieldVariable("blockchain", c.fields[i]) IN
  AgeByDate(At(1), At(2), At(3), ValueAsInt(c.value), Today.date)

Holds(copy, c) ==
  CASE c.type = "range_check" -> RangeHolds(copy, c)
    [] c.type = "comparison" -> ComparisonHolds(copy, c)
    [] c.type = "age_verification" ->
         IF copy = "wallet" THEN WalletAgeHolds(c) ELSE ChainAgeHolds(c)

-----------------------------------------------------------------------------
(* The two provers. *)

Init ==
  /\ \E input \in Inputs : document = input.document /\ claims = input.claims
  /\ stage = [c \in Copies |-> "parse"]
  /\ fields = [c \in Copies |-> <<>>]
  /\ secret = [c \in Copies |-> <<>>]
  /\ public = [c \in Copies |-> <<>>]

Goto(copy, s) == stage' = [stage EXCEPT ![copy] = s]

\* ParseSchema, then NewDynamicCircuit on what it prepared.
Prepare(copy, s) ==
  IF Prepared(s)
  THEN LET fs == PreparedFields(s) IN
       /\ fields' = [fields EXCEPT ![copy] = fs]
       /\ secret' = [secret EXCEPT ![copy] = EmptySlots(SecretFieldOrder(fs))]
       /\ public' = [public EXCEPT ![copy] = EmptySlots(PublicFieldOrder(fs))]
       /\ Goto(copy, "compile")
  ELSE Goto(copy, "refused") /\ UNCHANGED <<fields, secret, public>>

WalletParse ==
  /\ stage["wallet"] = "parse"
  /\ \/ document = NoDocument
        /\ Goto("wallet", "refused") /\ UNCHANGED <<fields, secret, public>>
     \/ document # NoDocument /\ Prepare("wallet", document)
  /\ UNCHANGED <<document, claims>>

ChainParse ==
  /\ stage["blockchain"] = "parse"
  /\ Prepare("blockchain", Schema("blockchain"))
  /\ UNCHANGED <<document, claims>>

\* frontend.Compile calls Define: the first constraint that is not defined ends it.
WalletCompile ==
  /\ stage["wallet"] = "compile"
  /\ Goto("wallet", IF \A i \in 1 .. Len(document.constraints) : WalletDefined(document.constraints[i])
                    THEN "assign" ELSE "refused")
  /\ UNCHANGED <<document, claims, fields, secret, public>>

ChainCompile ==
  /\ stage["blockchain"] = "compile"
  /\ LET cs == Schema("blockchain").constraints IN
     Goto("blockchain", IF \A i \in 1 .. Len(cs) : ChainDefined(cs[i])
                        THEN "assign" ELSE "refused")
  /\ UNCHANGED <<document, claims, fields, secret, public>>

\* AssignValues and NewWitness: every claim must be a field of the schema and
\* convert, every required field must be assigned, and no slot may stay nil.
Assigned(fs, values, slots) ==
  /\ DOMAIN values \subseteq Names(fs)
  /\ \A f \in Range(fs) : f.required => f.name \in DOMAIN values
  /\ Err \notin slots

\* What a copy puts in the slot of a field.
SlotValue(copy, type, v) ==
  IF copy = "wallet" THEN WalletValue(type, v) ELSE ChainValue(type, v)

Fill(copy, fs, values, order) ==
  [i \in order |-> IF fs[i].name \in DOMAIN values
                   THEN SlotValue(copy, fs[i].type, values[fs[i].name]) ELSE Err]

Assign(copy) ==
  LET fs == fields[copy]
      values == Claims(copy)
      newSecret == Fill(copy, fs, values, SecretFieldOrder(fs))
      newPublic == Fill(copy, fs, values, PublicFieldOrder(fs)) IN
  /\ secret' = [secret EXCEPT ![copy] = newSecret]
  /\ public' = [public EXCEPT ![copy] = newPublic]
  /\ Goto(copy, IF Assigned(fs, values, Range(newSecret) \cup Range(newPublic))
                THEN "prove" ELSE "refused")
  /\ UNCHANGED <<document, claims, fields>>

WalletAssign == stage["wallet"] = "assign" /\ Assign("wallet")
ChainAssign == stage["blockchain"] = "assign" /\ Assign("blockchain")

\* groth16.Prove finds a proof exactly when the witness satisfies every constraint.
Prove(copy) ==
  /\ stage[copy] = "prove"
  /\ LET cs == Schema(copy).constraints IN
     Goto(copy, IF \A i \in 1 .. Len(cs) : Holds(copy, cs[i]) THEN "proof" ELSE "refused")
  /\ UNCHANGED <<document, claims, fields, secret, public>>

Done == (\A c \in Copies : stage[c] \in {"proof", "refused"}) /\ UNCHANGED vars

Next ==
  \/ WalletParse \/ WalletCompile \/ WalletAssign
  \/ ChainParse \/ ChainCompile \/ ChainAssign
  \/ \E c \in Copies : Prove(c)
  \/ Done

Spec == Init /\ [][Next]_vars

-----------------------------------------------------------------------------
(***************************************************************************)
(* Properties.                                                             *)
(***************************************************************************)

\* A refused witness may hold unset slots; one that is to be proved may not.
TypeOK ==
  /\ stage \in [Copies -> Stages]
  /\ \A c \in Copies :
       /\ DOMAIN secret[c] \cup DOMAIN public[c] = DOMAIN fields[c]
       /\ DOMAIN secret[c] \cap DOMAIN public[c] = {}
       /\ stage[c] \in {"prove", "proof"} => Err \notin Range(secret[c]) \cup Range(public[c])

\* What the proof discloses: the public inputs of a proof are the values of
\* the fields the document marks public, in its order, and of no other field,
\* whatever the document says of their secrecy (prepare, PublicFieldOrder and
\* AssignValues of both copies).
DisclosesOnlyPublic ==
  \A c \in Copies : stage[c] \in {"prove", "proof"} =>
    LET fs == Schema(c).fields
        Read(f) == LET type == IF f.type = "" THEN "string" ELSE f.type IN
                   SlotValue(c, type, Claims(c)[f.name]) IN
    public[c] = [i \in {j \in 1 .. Len(fs) : fs[j].public} |-> Read(fs[i])]

Ended(c) == stage[c] \in {"proof", "refused"}
Witnessed(c) == Err \notin Range(secret[c]) \cup Range(public[c]) /\ fields[c] # <<>>

\* The integer a claim or a constant stands for.
Number(v) == Trunc(v.n)
PlainNumber(v) == v.kind \in Numeric /\ Number(v) \in 0 .. MaxInt

\* A range or comparison that speaks of whole numbers in 0..MaxInt only.
PlainInteger(c, k) ==
  /\ \A i \in 1 .. Len(k.fields) :
       /\ FieldDefinition(fields[c], k.fields[i]).type = "integer"
       /\ PlainNumber(Claims(c)[k.fields[i]])
  /\ \/ k.type = "range_check" /\ \A i \in 1 .. 2 : Trunc(k.bounds[i]) \in 0 .. MaxInt
     \/ /\ k.type = "comparison"
        /\ Len(k.fields) = 1 => k.value.kind = "number" /\ PlainNumber(k.value)

\* A birth time from 1970 on, and an age that reaches back no further.
LatestBirth(k) == Today.unix - ValueAsInt(k.value) * YearLength
PlainBirth(c, k) ==
  /\ c = "wallet" /\ k.type = "age_verification"
  /\ FieldDefinition(fields[c], k.fields[1]).type = "date"
  /\ Claims(c)[k.fields[1]].kind = "datetext"
  /\ Claims(c)[k.fields[1]].n >= 0 /\ LatestBirth(k) >= 0

\* What such a constraint says of the claims, over the integers.
Says(c, k) ==
  LET N(i) == Number(Claims(c)[k.fields[i]]) IN
  CASE k.type = "range_check" -> Trunc(k.bounds[1]) <= N(1) /\ N(1) <= Trunc(k.bounds[2])
    [] k.type = "comparison" -> Meant(k.op, N(1), IF Len(k.fields) > 1 THEN N(2) ELSE Number(k.value))
    [] k.type = "age_verification" -> Claims(c)[k.fields[1]].n <= LatestBirth(k)

Constraints(c) == Range(Schema(c).constraints)
ReachedProve(c) ==
  /\ Ended(c) /\ Witnessed(c)
  /\ DOMAIN Claims(c) \subseteq Names(fields[c])
  /\ \A k \in Constraints(c) : IF c = "wallet" THEN WalletDefined(k) ELSE ChainDefined(k)

\* A circuit over residues says what its schema says over the integers: when
\* every number of the constraints and of their claims is in the int64 range
\* and not negative, the prover succeeds exactly when all the comparisons,
\* ranges and ages by birth time hold (applyComparisonConstraint,
\* applyRangeConstraint, applyAgeConstraint; the successor in gt and lt is
\* where an off-by-one would be, and a time before 1970 where it fails).
CircuitMeansSchema ==
  \A c \in Copies :
    ReachedProve(c) /\ (\A k \in Constraints(c) : PlainInteger(c, k) \/ PlainBirth(c, k))
      => (stage[c] = "proof" <=> \A k \in Constraints(c) : Says(c, k))

\* An equality of a string field with a text.
TextEquality(k) ==
  /\ k.type = "comparison" /\ k.op = "eq" /\ Len(k.fields) = 1
  /\ k.value.kind \in TextKinds
  /\ FieldDefinition(fields["wallet"], k.fields[1]).type = "string"

\* A string claim is hashed once on its way into the circuit, and its constant
\* once: the wallet proves an equality on a string field exactly for the text
\* of the constant ("double hashing", AssignValues of the wallet).
StringHashedOnce ==
  ReachedProve("wallet") =>
    \A k \in Constraints("wallet") :
      Constraints("wallet") = {k} /\ TextEquality(k)
        => (stage["wallet"] = "proof" <=> Sprint(Claims("wallet")[k.fields[1]]) = k.value)

ValidDay(y, m, d) == y \in 0 .. MaxInt /\ m \in 1 .. 12 /\ d \in 1 .. 31

\* Year, month and day as numbers from 0 on, and an age that reaches back to
\* the year 0 at most.
PlainAge(c, k) ==
  /\ k.type = "age_verification"
  /\ \A i \in 1 .. 3 : /\ FieldDefinition(fields[c], k.fields[i]).type = "integer"
                       /\ PlainNumber(Claims(c)[k.fields[i]])
  /\ ValueAsInt(k.value) \in 0 .. Today.date[1]

\* The blockchain client proves such an age exactly for the birthdays of that
\* age: the birthday itself counts, the day after does not, in every month of
\* the last admitted year (applyAgeConstraint and its Selects).
AgeExact ==
  LET c == "blockchain" IN
  ReachedProve(c) =>
    \A k \in Constraints(c) :
      PlainAge(c, k) /\ Constraints(c) = {k} =>
        LET N(i) == Number(Claims(c)[k.fields[i]]) IN
        (stage[c] = "proof" <=>
           ValidDay(N(1), N(2), N(3)) /\ OldEnough(N(1), N(2), N(3), ValueAsInt(k.value), Today.date))

\* A constant that says the same to both copies: a number for a number, a
\* text for a string; two fields, or a range, need none.
SameToBoth(k) ==
  LET type == FieldDefinition(fields["wallet"], k.fields[1]).type IN
  CASE k.type = "range_check" -> TRUE
    [] k.type = "comparison" ->
         /\ type = "string" => k.op \in {"eq", "ne"}
         /\ \/ Len(k.fields) > 1
            \/ type = "integer" /\ k.value.kind = "number"
            \/ type = "date" /\ k.value.kind = "number" /\ Whole(k.value.n)
            \/ type = "string" /\ k.value.kind \in TextKinds
    [] OTHER -> FALSE

\* The copies of the circuit have drifted apart in how they read strings and
\* constants; where a document uses what both understand (no age constraint, a
\* constant of its field's type, texts for strings) they accept the same claims.
CopiesAgree ==
  (\A c \in Copies : Ended(c)) /\ document # NoDocument /\ claims # <<>> =>
    \/ /\ fields["wallet"] # <<>>
       /\ \E k \in Constraints("wallet") : ~SameToBoth(k)
    \/ \E f \in Range(fields["wallet"]) :
         /\ f.type = "string" /\ f.name \in DOMAIN claims
         /\ claims[f.name].kind \notin TextKinds
    \/ stage["wallet"] = stage["blockchain"]
=============================================================================
