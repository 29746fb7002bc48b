----------------------------- MODULE Constraints -----------------------------
(***************************************************************************)
(* go/checked.go's NewConstraints: rules laid into a declaration one by    *)
(* one, each bound converted by the core, the whole judged by the core     *)
(* once, and the Constraints a caller then hands a checked door, which     *)
(* judges a value by it.                                                   *)
(***************************************************************************)
EXTENDS TextRules

CONSTANTS
    Rules,             \* the rules callers build, the zero Rule among them
    MaxRules,          \* bound: rules in one declaration
    MaxUint32,         \* math.MaxUint32
    Numbers,           \* numbers checked doors are asked about
    Texts,             \* texts the checked text door is asked about
    NotADecimal,       \* what cast_declared_decimal makes of other text: code 8
    Nothing,           \* a field not declared, nil
    Panic              \* a caller-bug panic

(* A text of a rule is the decimal it converts to and its bytes; a rule    *)
(* is [kind, text, length, rounding, entries, numbers].                    *)
Door == {"integer", "float", "decimal", "text"}

Kinds == Lowers \cup Uppers \cup {"multipleOf", "rounding", "minLength", "maxLength", "trim", "enum"}

ZeroKind == "zero"

Lengths == {"minLength", "maxLength"}

Entry == [decimal : DOMAIN FloatOf \cup {NotADecimal}, bytes : Seq(Nat)]

(* Rules as their constructors fill them in, the numbers and texts doors   *)
(* are asked about, and decimals wide enough for what rounding makes.      *)
ASSUME ConstraintsAssumption ==
    /\ MaxRules \in Nat /\ MaxUint32 \in Nat
    /\ \A r \in Rules :
          /\ r.kind \in Kinds \cup {ZeroKind}
          /\ r.kind \in DOMAIN Bounds => r.text \in Entry
          /\ r.kind \in Lengths => r.length \in Int
          /\ r.kind = "rounding" => r.rounding \in Nat
          /\ r.kind = "enum" => r.entries \in Seq(Entry) /\ r.numbers \in BOOLEAN
    /\ Numbers \cup {0} \subseteq DOMAIN FloatOf
    /\ \A v \in Numbers, r \in Rules, mode \in 0 .. 3 :
          r.kind = "multipleOf" /\ r.text.decimal \in Nat \ {0} =>
              Rounded(v, r.text.decimal, mode) \in DOMAIN FloatOf
    /\ Texts \subseteq Seq(Nat)
    /\ NotADecimal \notin Int /\ Nothing \notin Int
    /\ Nothing \notin Seq(Int) \cup Seq(Nat)

(* The declaration (RawConstraints and the enum list); a flag is named for *)
(* the kind that sets it, and size tells a declaration from the zero one.  *)
ZeroDeclaration ==
    [size |-> 0, flags |-> {}, rounding |-> 0, minLength |-> 0, maxLength |-> 0,
     lower |-> 0, upper |-> 0, multipleOf |-> 0,
     decimals |-> Nothing, packedText |-> Nothing, texts |-> Nothing]

VARIABLES
    phase,             \* "idle", "building", "checking", "done"
    door,              \* V's door
    rules,             \* the arguments of NewConstraints its loop has ranged over
    seen,              \* the kinds it has met
    d,                 \* the declaration so far
    refusal,           \* the code of the error returned, or Nothing
    held,              \* the Constraints the caller holds
    judged,            \* the declarations the core has accepted (history)
    crossed,           \* what a checked door handed the core, Panic, or Nothing
    asked,             \* the number or text it was asked about
    answer             \* what it answered, or Panic

vars == <<phase, door, rules, seen, d, refusal, held, judged, crossed, asked, answer>>

Init ==
    /\ phase = "idle"
    /\ door \in Door
    /\ rules = <<>> /\ seen = {}
    /\ d = ZeroDeclaration
    /\ refusal = Nothing
    /\ held = ZeroDeclaration
    /\ judged = {}
    /\ crossed = Nothing /\ asked = Nothing /\ answer = Nothing

-----------------------------------------------------------------------------
(* The keywords the core takes at each door.                               *)
Taken ==
    LET numeric == Lowers \cup Uppers \cup {"multipleOf"}
    IN  [integer |-> numeric \cup {"enum"}, float |-> numeric, decimal |-> numeric,
         text |-> {"minLength", "maxLength", "trim", "enum"}]

(* A bound, a step or an entry the door could hold.                        *)
Fits(dr, n) == dr = "integer" => Holds("integer", n)

(* Mutant: the entries are compared without folding.                       *)
EntriesAsWritten(entries) == IsInjective(entries)

EntriesApart(entries) == IsInjective([i \in DOMAIN entries |-> Fold(entries[i])])

(* The code the core refuses a declaration with, 0 for none: the first of  *)
(* these it finds. Only the judgement of a new declaration is complete;    *)
(* a checked door leaves the comparison of the entries out.                *)
Refusal(dr, decl, complete) ==
    LET has(kind) == kind \in decl.flags
        sided(kinds) == decl.flags \cap kinds # {}
        numbers == IF decl.decimals = Nothing THEN <<>> ELSE decl.decimals
        texts == IF decl.packedText = Nothing THEN <<>> ELSE EntriesOf(decl.packedText)
        used == { decl[Bounds[kind]] : kind \in decl.flags \cap DOMAIN Bounds }
        finding(code, found) == [code |-> code, found |-> found]
        findings ==
          << finding(11, decl.size = 0),
             finding(1, ~(decl.flags \subseteq Taken[dr])),
             finding(2, Lowers \subseteq decl.flags),
             finding(3, Uppers \subseteq decl.flags),
             finding(4, sided(Lowers) /\ sided(Uppers) /\ decl.lower >= decl.upper),
             finding(6, ~has("multipleOf") /\ decl.rounding # Strict),
             finding(5, has("multipleOf") /\ decl.multipleOf <= 0),
             finding(7, {"minLength", "maxLength"} \subseteq decl.flags
                          /\ decl.minLength > decl.maxLength),
             finding(8, \E n \in used \cup ToSet(numbers) : ~Fits(dr, n)),
             finding(9, \E i \in DOMAIN texts : ~Utf8(texts[i])),
             finding(10, complete /\ ~(IsInjective(numbers) /\ EntriesApart(texts))),
             finding(11, decl.rounding > Ceiling),
             finding(11, ~has("enum") /\ numbers \o texts # <<>>),
             finding(12, has("enum") /\ numbers \o texts = <<>>),
             finding(13, \E i \in DOMAIN texts :
                            \/ texts[i] = <<>>
                            \/ has("trim") /\ Trimmed(texts[i]) # texts[i]) >>
        found == { i \in DOMAIN findings : findings[i].found }
    IN  IF found = {} THEN 0 ELSE findings[Min(found)].code

-----------------------------------------------------------------------------
(* NewConstraints begins on a declaration of none. The rules are its       *)
(* arguments; each is chosen when the loop reaches it, since nothing looks *)
(* at a rule before its turn.                                              *)
NewConstraints ==
    /\ phase = "idle"
    /\ phase' = "building"
    /\ d' = [ZeroDeclaration EXCEPT !.size = 1]
    /\ UNCHANGED <<door, rules, seen, refusal, held, judged, crossed, asked, answer>>

Reach(r, kinds) ==
    /\ phase = "building" /\ Len(rules) < MaxRules
    /\ r.kind \in kinds
    /\ rules' = Append(rules, r)

(* Mutant: the declaration so far comes back beside the error.             *)
RefuseKeepsDeclaration(code) ==
    /\ phase' = "done"
    /\ refusal' = code
    /\ held' = d
    /\ UNCHANGED <<door, seen, d, judged, crossed, asked, answer>>

(* A refusal returns the zero Constraints, whatever was laid out so far.   *)
Refuse(code) ==
    /\ phase' = "done"
    /\ refusal' = code
    /\ held' = ZeroDeclaration
    /\ UNCHANGED <<door, seen, d, judged, crossed, asked, answer>>

(* A refusal of the binding's own has code 0.                              *)
Own == 0

Lay(kind, decl) ==
    /\ d' = [decl EXCEPT !.flags = @ \cup ({kind} \ {"rounding"})]
    /\ seen' = seen \cup {kind}
    /\ UNCHANGED <<phase, door, refusal, held, judged, crossed, asked, answer>>

ZeroRule(r) == Reach(r, {ZeroKind}) /\ Refuse(Own)

DeclaredTwice(r) == Reach(r, Kinds) /\ r.kind \in seen /\ Refuse(Own)

First(r, kinds) == Reach(r, kinds) /\ r.kind \notin seen

(* A bound or step, through the core's conversion; the two lower bounds    *)
(* share a slot, and the two upper ones.                                   *)
TakeBound(r) ==
    /\ First(r, DOMAIN Bounds)
    /\ IF r.text.decimal = NotADecimal THEN Refuse(8)
       ELSE Lay(r.kind, [d EXCEPT ![Bounds[r.kind]] = r.text.decimal])

TakeRounding(r) ==
    First(r, {"rounding"}) /\ Lay(r.kind, [d EXCEPT !.rounding = r.rounding])

TakeTrim(r) == First(r, {"trim"}) /\ Lay(r.kind, d)

(* length: a uint32, or refused here.                                      *)
TakeLength(r) ==
    /\ First(r, Lengths)
    /\ IF r.length \notin 0..MaxUint32 THEN Refuse(Own)
       ELSE Lay(r.kind, [d EXCEPT ![r.kind] = r.length])

(* Mutant: the loop that packs stops one entry short.                      *)
PackedButLast(entries) ==
    LET kept == SubSeq(entries, 1, Len(entries) - 1)
    IN  FlattenSeq([i \in DOMAIN kept |-> <<Len(kept[i].bytes)>> \o kept[i].bytes])

(* pack: decimals but at the text door, whose entries cross as a length    *)
(* and bytes each; no entries cross as none, for the core to refuse.       *)
Packed(entries) ==
    FlattenSeq([i \in DOMAIN entries |-> <<Len(entries[i].bytes)>> \o entries[i].bytes])

Decimals(entries) == [i \in DOMAIN entries |-> entries[i].decimal]

TakeEnum(r) ==
    /\ First(r, {"enum"})
    /\ \/ r.entries = <<>> /\ Lay(r.kind, d)
       \/ /\ r.entries # <<>> /\ door # "text"
          /\ IF NotADecimal \in Range(Decimals(r.entries)) THEN Refuse(8)
             ELSE Lay(r.kind, [d EXCEPT !.decimals = Decimals(r.entries)])
       \/ /\ r.entries # <<>> /\ door = "text"
          /\ IF r.numbers THEN Refuse(Own)
             ELSE Lay(r.kind, [d EXCEPT !.packedText = Packed(r.entries), !.texts = r.entries])

RulesDone ==
    /\ phase = "building"
    /\ phase' = "checking"
    /\ UNCHANGED <<door, rules, seen, d, refusal, held, judged, crossed, asked, answer>>

(* callConstraintsCheck: the core's judgement, its code when it refuses.   *)
ConstraintsCheck ==
    /\ phase = "checking"
    /\ UNCHANGED rules
    /\ IF Refusal(door, d, TRUE) # 0 THEN Refuse(Refusal(door, d, TRUE))
       ELSE /\ phase' = "done"
            /\ held' = d
            /\ judged' = judged \cup {d}
            /\ UNCHANGED <<door, seen, d, refusal, crossed, asked, answer>>

(* Mutant: the entry matched is not looked up.                             *)
AsGiven(c, verdict) == verdict

(* checkedText: a match delivers the caller's own entry.                   *)
CheckedText(c, verdict) ==
    IF verdict.status # "value" THEN verdict
    ELSE IF verdict.entry = NoEntry THEN verdict
    ELSE [verdict EXCEPT !.value = c.texts[verdict.entry].bytes]

(* What a checked door is asked about: a text, or a number that parsed.    *)
Askable == IF door = "text" THEN Texts ELSE { n \in Numbers : Holds(door, n) }

(* The core's answer: a declaration it refuses is a binding bug, a panic.  *)
Answer(given) ==
    IF Refusal(door, held, FALSE) # 0 THEN Panic
    ELSE IF door = "text" THEN CheckedText(held, JudgeText(held, given))
    ELSE JudgeNumber(door, held, given)

(* Check, CheckFromFloat64, CheckString: the zero Constraints panics,      *)
(* whether never built or left by a refusal the caller ignored.            *)
Check(given) ==
    /\ phase \in {"idle", "done"} /\ crossed = Nothing
    /\ asked' = given
    /\ crossed' = IF held.size = 0 THEN Panic ELSE held
    /\ answer' = IF held.size = 0 THEN Panic ELSE Answer(given)
    /\ UNCHANGED <<phase, door, rules, seen, d, refusal, held, judged>>

Next ==
    \/ NewConstraints
    \/ \E r \in Rules :
          \/ ZeroRule(r) \/ DeclaredTwice(r) \/ TakeBound(r) \/ TakeRounding(r)
          \/ TakeTrim(r) \/ TakeLength(r) \/ TakeEnum(r)
    \/ RulesDone \/ ConstraintsCheck
    \/ \E given \in Askable : Check(given)

Spec == Init /\ [][Next]_vars

-----------------------------------------------------------------------------
(* The accessors.                                                          *)
Accessor(c, kind) ==
    IF kind \notin c.flags THEN Nothing
    ELSE IF kind \in DOMAIN Bounds THEN c[Bounds[kind]]
    ELSE IF kind \in Lengths THEN c[kind] ELSE TRUE

-----------------------------------------------------------------------------
Declared(kind) == { r \in ToSet(rules) : r.kind = kind }

Built == phase = "done" /\ refusal = Nothing

(* What a rule declares, as its accessor ought to report it.               *)
Worth(r) ==
    IF r.kind \in DOMAIN Bounds THEN r.text.decimal
    ELSE IF r.kind \in Lengths THEN r.length ELSE TRUE

(* A Constraints says what its rules said, each once: no bound is lost     *)
(* where two kinds share a slot of the layout, and none is reported that   *)
(* was not declared (NewConstraints, the accessors). The enum list that    *)
(* crosses is the declared one, entry by entry, so the index the core      *)
(* answers with names the caller's own entry (pack, checkedText).          *)
HoldsWhatWasDeclared ==
    Built =>
        /\ \A kind \in Kinds \ {"rounding"} :
              IF Declared(kind) = {} THEN Accessor(held, kind) = Nothing
              ELSE Declared(kind) = { r \in ToSet(rules) :
                                        r.kind = kind /\ Worth(r) = Accessor(held, kind) }
        /\ \A r \in Declared("enum") :
              IF door = "text"
              THEN /\ EntriesOf(held.packedText) = [i \in DOMAIN r.entries |-> r.entries[i].bytes]
                   /\ held.texts = r.entries
              ELSE held.decimals = Decimals(r.entries)

(* A caller's rules mean something at a door: NewConstraints's doc, read   *)
(* off the rules and not off the layout.                                   *)
Meaningful(rs, dr) ==
    LET declared == ToSet(rs)
        of(kinds) == { r \in declared : r.kind \in kinds }
        bounds == of(DOMAIN Bounds)
        steps == of({"multipleOf"})
    IN  /\ \A r \in declared : r.kind # ZeroKind
        /\ \A i, j \in DOMAIN rs : rs[i].kind = rs[j].kind => i = j
        /\ \A r \in declared :
              \/ r.kind \in Taken[dr]
              \/ r.kind = "rounding" /\ (r.rounding = 0 \/ dr # "text")
        /\ \A r \in bounds : r.text.decimal # NotADecimal /\ Fits(dr, r.text.decimal)
        /\ \A r \in of(Lengths) : r.length \in 0..MaxUint32
        /\ \A r \in of({"minLength"}), s \in of({"maxLength"}) : r.length <= s.length
        /\ \A r, s \in of(Lowers) : r = s
        /\ \A r, s \in of(Uppers) : r = s
        /\ \A low \in of(Lowers), up \in of(Uppers) : low.text.decimal < up.text.decimal
        /\ \A r \in steps : r.text.decimal > 0
        /\ \A r \in of({"rounding"}) : r.rounding \in 0..3 /\ (r.rounding # 0 => steps # {})
        /\ \A r \in of({"enum"}) :
              LET e == r.entries IN
              /\ e # <<>>
              /\ dr = "integer" =>
                    /\ \A i \in DOMAIN e : e[i].decimal # NotADecimal /\ Fits(dr, e[i].decimal)
                    /\ \A i, j \in DOMAIN e : e[i].decimal = e[j].decimal => i = j
              /\ dr = "text" =>
                    /\ ~r.numbers
                    /\ \A i \in DOMAIN e :
                          /\ Utf8(e[i].bytes) /\ e[i].bytes # <<>>
                          /\ of({"trim"}) # {} =>
                                e[i].bytes[1] \notin White /\ Last(e[i].bytes) \notin White
                    /\ \A i, j \in DOMAIN e : Fold(e[i].bytes) = Fold(e[j].bytes) => i = j

(* NewConstraints accepts exactly what means something at the door,        *)
(* whatever the order of the rules.                                        *)
AcceptsTheMeaningful == phase = "done" => (Built <=> Meaningful(rules, door))

(* No checked door ever hands the core a declaration it did not accept,    *)
(* also when the caller ignored NewConstraints's error or never called it. *)
JudgedBeforeUse == crossed \notin {Nothing, Panic} => crossed \in judged


-----------------------------------------------------------------------------
Answered(status) == answer \notin {Nothing, Panic} /\ answer.status = status

AsFloat(n) == IF door = "float" THEN FloatOf[n] ELSE n

Mode == IF Declared("rounding") = {} THEN Strict
        ELSE (CHOOSE r \in Declared("rounding") : TRUE).rounding

(* A text's code points: its bytes but those that continue one.            *)
Characters(s) == Len(s) - Cardinality({ i \in DOMAIN s : s[i] \in Continuation })

(* A value a checked door delivers meets every rule the caller declared,   *)
(* as they were declared: the bounds after rounding (and after the float   *)
(* was formed), a whole number of steps, the lengths in code points after  *)
(* trimming, and the caller's own enum entry, at its index, matched by the *)
(* text given (JudgeNumber, JudgeText, checkedText).                       *)
CheckedValuesMeetTheRules ==
    Answered("value") =>
        /\ \A r \in Declared("multipleOf") :
              \E n \in DOMAIN FloatOf : n % r.text.decimal = 0 /\ answer.value = AsFloat(n)
        /\ \A kind \in Lowers \cup Uppers : \A r \in Declared(kind) :
              Within(kind, answer.value, AsFloat(r.text.decimal))
        /\ \A r \in Declared("minLength") : Characters(answer.value) >= r.length
        /\ \A r \in Declared("maxLength") : Characters(answer.value) <= r.length
        /\ Declared("trim") # {} => Trimmed(answer.value) = answer.value
        /\ \A r \in Declared("enum") :
              IF door = "text"
              THEN /\ answer.value = r.entries[answer.entry].bytes
                   /\ Fold(answer.value) \in {Fold(asked), Fold(Trimmed(asked))}
              ELSE \E i \in DOMAIN r.entries : r.entries[i].decimal = answer.value

(* A delivered number is the nearest the declared mode allows to the one   *)
(* asked about: itself without a mode or when it is a multiple already,    *)
(* the multiple below or above, or the nearest with a tie to the even one; *)
(* and Adjusted says whether it moved.                                     *)
RoundedAsDeclared ==
    Answered("value") /\ door \in {"integer", "decimal"} =>
        /\ answer.adjusted <=> answer.value # asked
        /\ answer.adjusted => Mode # Strict
        /\ \A r \in Declared("multipleOf") :
              LET step == r.text.decimal
                  moved == answer.value - asked
              IN  /\ -step < moved /\ moved < step
                  /\ Mode = Floor => moved <= 0
                  /\ Mode = Ceiling => moved >= 0
                  /\ Mode = Midpoint => /\ -step <= 2 * moved /\ 2 * moved <= step
                                        /\ 2 * moved \in {-step, step} =>
                                              (answer.value \div step) % 2 = 0

(* A violation names a rule the caller declared and the value breaks; a    *)
(* fault is only for a text with nothing in it or not UTF-8, or a number   *)
(* the door's type no longer holds once it is rounded.                     *)
RejectionsNameABrokenRule ==
    LET given == IF Declared("trim") # {} THEN Trimmed(asked) ELSE asked
        steps == Declared("multipleOf")
        exact == IF steps = {} THEN asked
                 ELSE Rounded(asked, (CHOOSE r \in steps : TRUE).text.decimal, Mode)
    IN  /\ Answered("violation") =>
              \E r \in Declared(answer.keyword) :
                \/ /\ r.kind \in Lowers \cup Uppers
                   /\ \/ ~Within(r.kind, exact, r.text.decimal)
                      \/ ~Within(r.kind, AsFloat(exact), AsFloat(r.text.decimal))
                \/ r.kind = "multipleOf" /\ asked % r.text.decimal # 0 /\ Mode = Strict
                \/ r.kind = "minLength" /\ Characters(given) < r.length
                \/ r.kind = "maxLength" /\ Characters(given) > r.length
                \/ /\ r.kind = "enum" /\ door = "text"
                   /\ \A i \in DOMAIN r.entries : Fold(r.entries[i].bytes) # Fold(given)
                \/ /\ r.kind = "enum" /\ door # "text"
                   /\ \A i \in DOMAIN r.entries : r.entries[i].decimal # exact
        /\ Answered("fault") =>
              IF door = "text" THEN given = <<>> \/ ~Utf8(asked)
              ELSE exact # asked /\ Mode # Strict /\ ~Holds(door, exact)
=============================================================================
