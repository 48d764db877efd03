--------------------------- MODULE DynamicCircuit ---------------------------
(***************************************************************************)
(* The dynamic circuit (system/pkg/zkp and its copies in the wallet and in *)
(* the blockchain client): how a claim becomes an element of the scalar    *)
(* field, and what the constraints of a schema assert about elements.      *)
(* The copies of the API and of the wallet are the same text; the copy of  *)
(* the blockchain client treats strings, constants and ages differently    *)
(* (operators named Chain...).                                             *)
(*                                                                         *)
(* A JSON value is a record of a kind and a number: a JSON number, or a    *)
(* string holding one, is counted in halves (n = 3 is 1.5), so that the    *)
(* truncation of fractions is seen; a date string is its Unix time; other  *)
(* strings are numbered.  An element is its residue in 0..P-1, and Err     *)
(* stands for the error a Go function returns.                             *)
(***************************************************************************)
EXTENDS Integers, Sequences

CONSTANTS
  P,           \* the order of the scalar field
  MaxInt,      \* bound on integers: int64 against 254 bits of P in the code
  Codes,       \* the n of a JSON value
  Hash,        \* SHA-256 of a string as an element
  PlainBelow,  \* floats from here on print with an exponent (10^6)
  YearLength   \* secondsPerYear: 365 days

TextKinds == {"numtext", "exptext", "datetext", "word", "booltext", "niltext"}
Numeric == {"number", "numtext", "exptext"}
Text == [kind : TextKinds, n : Codes]
Value == [kind : TextKinds \cup {"number", "bool", "null", "absent"}, n : Codes]
Element == 0 .. P - 1
Err == -1

ASSUME FieldAssumption ==
  /\ P \in Nat /\ MaxInt \in Nat /\ 2 * MaxInt + 2 < P
  /\ PlainBelow \in Nat /\ YearLength \in Nat
ASSUME HashAssumption ==
  /\ Codes \subseteq Int
  /\ Hash \in [Text -> Element]
  /\ \A s, t \in Text : Hash[s] = Hash[t] => s = t

-----------------------------------------------------------------------------
(***************************************************************************)
(* gnark's view of numbers: constants and witnesses are reduced modulo P,  *)
(* AssertIsLessOrEqual compares residues.                                  *)
(***************************************************************************)
Elt(n) == IF n < 0 THEN n + P ELSE n
Succ(e) == IF e + 1 = P THEN 0 ELSE e + 1
LessOrEqual(x, y) == x <= y

\* int64(f): towards zero.
Trunc(n) == IF n >= 0 THEN n \div 2 ELSE -((-n) \div 2)
Whole(n) == n % 2 = 0

\* fmt.Sprint of a JSON value: a float prints with an exponent from 10^6 on.
Sprint(v) ==
  CASE v.kind = "number" ->
         [v EXCEPT !.kind = IF v.n < 2 * PlainBelow /\ -v.n < 2 * PlainBelow
                            THEN "numtext" ELSE "exptext"]
    [] v.kind = "bool" -> [v EXCEPT !.kind = "booltext"]
    [] v.kind = "null" -> [v EXCEPT !.kind = "niltext"]
    [] OTHER -> v

\* A printed value handed to gnark must read as a whole number without exponent.
Decimal(v) ==
  LET t == Sprint(v) IN
  IF t.kind = "numtext" /\ Whole(t.n) THEN Elt(Trunc(t.n)) ELSE Err

ConvertToInt(v) == IF v.kind \in Numeric THEN Elt(Trunc(v.n)) ELSE Err

\* strconv.ParseBool also takes "0" and "1"; a JSON number is refused.
ConvertToBool(v) ==
  CASE v.kind \in {"bool", "booltext"} -> v.n
    [] v.kind = "numtext" /\ v.n \in {0, 2} -> v.n \div 2
    [] OTHER -> Err

ConvertToDate(v) == IF v.kind = "datetext" THEN Elt(v.n) ELSE Decimal(v)

\* A string field is printed and read back by gnark.
ConvertToVariable(type, v) ==
  CASE v.kind = "null" -> Err
    [] type \in {"integer", "number"} -> ConvertToInt(v)
    [] type = "boolean" -> ConvertToBool(v)
    [] type = "date" -> ConvertToDate(v)
    [] OTHER -> Decimal(v)

\* Mutant: the printed hash is hashed again, as for any other string.
WalletValueTwice(type, v) ==
  IF type = "string"
  THEN LET e == Hash[Sprint(v)]
           t == [kind |-> "numtext", n |-> 2 * e] IN
       IF t \in Text THEN Hash[t] ELSE (e + 1) % P
  ELSE ConvertToVariable(type, v)

\* ProveDynamicFromSchema hashes what a string field prints as; AssignValues
\* sees a number, prints it in decimal and gnark reads the hash back.
WalletValue(type, v) ==
  IF type = "string" THEN Hash[Sprint(v)] ELSE ConvertToVariable(type, v)

\* convertToStringFieldValue: only strings are hashed.
ChainValue(type, v) ==
  IF type = "string"
  THEN IF v.kind \in TextKinds THEN Hash[v] ELSE Err
  ELSE ConvertToVariable(type, v)

-----------------------------------------------------------------------------
(***************************************************************************)
(* Constants of a schema, and the constraints.                             *)
(***************************************************************************)

\* A JSON string is hashed whatever the field's type; null reads as "".
EmptyText == [kind |-> "word", n |-> 0]
WalletConstant(v) ==
  CASE v.kind \in TextKinds -> Hash[v]
    [] v.kind = "null" -> Hash[EmptyText]
    [] v.kind = "number" -> Elt(Trunc(v.n))
    [] OTHER -> Err

\* Mutant: a string constant is read as a number, not hashed.
ChainConstantPlain(type, v) ==
  IF type = "string" THEN Decimal(v) ELSE ChainValue(type, v)

\* constantValueForField decodes numbers as json.Number, which prints as written.
ChainConstant(type, v) ==
  ChainValue(type, IF v.kind = "number" /\ type \in {"string", "date"}
                   THEN [v EXCEPT !.kind = "numtext"] ELSE v)

\* ValueAsInt reads null as 0 and a numeric string as its number.
HasInt(v) == v.kind \in Numeric \cup {"null"}
ValueAsInt(v) == IF v.kind = "null" THEN 0 ELSE Trunc(v.n)

Operators == {"ge", "gt", "le", "lt", "eq", "ne"}

\* Mutant: gt and lt forget the successor.
CompareLoose(op, left, right) ==
  CASE op \in {"ge", "gt"} -> LessOrEqual(right, left)
    [] op \in {"le", "lt"} -> LessOrEqual(left, right)
    [] op = "eq" -> left = right
    [] op = "ne" -> left # right

\* applyComparisonConstraint on two elements.
Compare(op, left, right) ==
  CASE op = "ge" -> LessOrEqual(right, left)
    [] op = "gt" -> LessOrEqual(Succ(right), left)
    [] op = "le" -> LessOrEqual(left, right)
    [] op = "lt" -> LessOrEqual(Succ(left), right)
    [] op = "eq" -> left = right
    [] op = "ne" -> left # right

\* applyRangeConstraint: whole bounds a and b.
InRange(e, a, b) == LessOrEqual(Elt(a), e) /\ LessOrEqual(e, Elt(b))

\* applyAgeConstraint over a birth time: years of 365 days.
AgeByTime(birth, years, now) == LessOrEqual(birth, Elt(now - years * YearLength))

\* Mutant: the month is not looked at before the day.
AgeByDateDay(y, m, d, years, today) ==
  LET last == today[1] - years
      sel == y = Elt(last) IN
  /\ LessOrEqual(y, Elt(last))
  /\ LessOrEqual(1, m) /\ LessOrEqual(m, 12)
  /\ LessOrEqual(m, IF sel THEN today[2] ELSE 12)
  /\ LessOrEqual(1, d) /\ LessOrEqual(d, 31)
  /\ LessOrEqual(d, IF sel THEN today[3] ELSE 31)

\* applyAgeConstraint over year, month and day of the blockchain client.
AgeByDate(y, m, d, years, today) ==
  LET last == today[1] - years
      sel == y = Elt(last) IN
  /\ LessOrEqual(y, Elt(last))
  /\ LessOrEqual(1, m) /\ LessOrEqual(m, 12)
  /\ LessOrEqual(m, IF sel THEN today[2] ELSE 12)
  /\ LessOrEqual(1, d) /\ LessOrEqual(d, 31)
  /\ LessOrEqual(d, IF sel /\ m = today[2] THEN today[3] ELSE 31)

-----------------------------------------------------------------------------
(***************************************************************************)
(* What the constraints are meant to say, over the integers.               *)
(***************************************************************************)
Meant(op, l, r) ==
  CASE op = "ge" -> l >= r [] op = "gt" -> l > r [] op = "le" -> l <= r
    [] op = "lt" -> l < r  [] op = "eq" -> l = r [] op = "ne" -> l # r

\* Born on or before the day that many years before today.
OldEnough(y, m, d, years, today) ==
  LET last == today[1] - years IN
  \/ y < last
  \/ y = last /\ m < today[2]
  \/ y = last /\ m = today[2] /\ d <= today[3]
=============================================================================
