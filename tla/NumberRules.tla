----------------------------- MODULE NumberRules -----------------------------
(***************************************************************************)
(* How the core (internal/core/core.go, as translated) judges a number     *)
(* that parsed by the rules declared for its door: it moves the exact      *)
(* decimal to the declared step, judges what came of it by the bounds and  *)
(* the enum list, sees whether the door's type holds it, and at a float    *)
(* door judges the float once more.                                        *)
(***************************************************************************)
EXTENDS Integers

CONSTANTS
    Whole,             \* the decimal 1: whole numbers are its multiples
    IntegerRange,      \* the decimals an integer door's type spans
    DecimalRange,      \* the decimals a Decimal holds
    FloatOf,           \* the float nearest to each decimal, or Infinite
    Infinite

ASSUME NumberAssumption ==
    /\ Whole \in Nat \ {0}
    /\ IntegerRange \subseteq Int /\ DecimalRange \subseteq Int
    /\ Infinite \notin Int
    /\ DOMAIN FloatOf \subseteq Int
    /\ \A n \in DOMAIN FloatOf : FloatOf[n] \in Int \cup {Infinite}
    /\ \A m, n \in DOMAIN FloatOf :
          m <= n /\ FloatOf[m] # Infinite /\ FloatOf[n] # Infinite => FloatOf[m] <= FloatOf[n]

Lowers == {"minimum", "exclusiveMinimum"}
Uppers == {"maximum", "exclusiveMaximum"}

(* The slot of the declaration each bound is laid in.                      *)
Bounds == [kind \in Lowers \cup Uppers \cup {"multipleOf"} |->
             CASE kind \in Lowers      -> "lower"
               [] kind \in Uppers      -> "upper"
               [] kind = "multipleOf"  -> "multipleOf"]

(* checked.go's Rounding.                                                  *)
Strict == 0
Midpoint == 1
Floor == 2
Ceiling == 3

(* What a judgement delivers, with the enum entry matched at the text      *)
(* door, or why it delivers nothing.                                       *)
NoEntry == 0

Delivers(value, adjusted, entry) ==
    [status |-> "value", value |-> value, adjusted |-> adjusted, entry |-> entry]
Breaks(keyword) == [status |-> "violation", keyword |-> keyword]
Faults(reason) == [status |-> "fault", reason |-> reason]

-----------------------------------------------------------------------------
(* Mutant: a tie goes up.                                                  *)
TiesUp(v, step, mode) ==
    LET low == v \div step
        twice == 2 * (v % step)
        up == \/ mode = Ceiling /\ twice # 0
              \/ mode = Midpoint /\ twice >= step
    IN  step * (IF up THEN low + 1 ELSE low)

(* The multiple of step the mode takes v to, v itself when it is one; a    *)
(* tie of Midpoint's to the even one.                                      *)
Rounded(v, step, mode) ==
    LET low == v \div step
        twice == 2 * (v % step)
        up == \/ mode = Ceiling /\ twice # 0
              \/ mode = Midpoint /\ (twice > step \/ (twice = step /\ low % 2 = 1))
    IN  step * (IF up THEN low + 1 ELSE low)

Within(kind, v, bound) ==
    CASE kind = "minimum"          -> v >= bound
      [] kind = "exclusiveMinimum" -> v > bound
      [] kind = "maximum"          -> v <= bound
      [] kind = "exclusiveMaximum" -> v < bound

(* The declared bounds v is outside of: at most one, for a declaration has *)
(* one lower bound, one upper, and the lower is below the upper.           *)
Broken(flags, v, limits) ==
    { kind \in flags \cap (Lowers \cup Uppers) : ~Within(kind, v, limits[Bounds[kind]]) }

(* The door's type holds the decimal.                                      *)
Holds(door, n) ==
    CASE door = "integer" -> n % Whole = 0 /\ n \in IntegerRange
      [] door = "decimal" -> n \in DecimalRange
      [] door = "float"   -> FloatOf[n] # Infinite

(* Mutant: a float is not judged again.                                    *)
NotAgain(door, c, n) == {}

(* At a float door the float is judged by the bounds as floats.            *)
Again(door, c, n) ==
    IF door # "float" THEN {}
    ELSE Broken(c.flags, FloatOf[n], [lower |-> FloatOf[c.lower], upper |-> FloatOf[c.upper]])

(* What the declared step makes of v.                                      *)
Exact(c, v) == IF "multipleOf" \in c.flags THEN Rounded(v, c.multipleOf, c.rounding) ELSE v

Listed(c, n) == \E i \in DOMAIN c.decimals : c.decimals[i] = n

(* The judgement of v: the first rule it breaks, in the core's order.      *)
JudgeNumber(door, c, v) ==
    LET exact == Exact(c, v)
        outside == Broken(c.flags, exact, c)
    IN  IF exact # v /\ c.rounding = Strict THEN Breaks("multipleOf")
        ELSE IF outside # {} THEN Breaks(CHOOSE kind \in outside : TRUE)
        ELSE IF "enum" \in c.flags /\ ~Listed(c, exact) THEN Breaks("enum")
        ELSE IF ~Holds(door, exact) THEN Faults("OutOfRange")
        ELSE IF Again(door, c, exact) # {}
             THEN Breaks(CHOOSE kind \in Again(door, c, exact) : TRUE)
        ELSE Delivers(IF door = "float" THEN FloatOf[exact] ELSE exact, exact # v, NoEntry)
=============================================================================
