----------------------------- MODULE MCDoorCalls -----------------------------
(***************************************************************************)
(* Requests for DoorCalls, on a scratch of twelve cells a page: a header   *)
(* of six, a RawConstraints of one, a RawCheck of two, declarations        *)
(* aligned to two.  BaseText is six cells, MaxText fifteen.                *)
(***************************************************************************)
EXTENDS DoorCalls, TLC

CONSTANTS a, b, comma, dot, de, compact, month, lowerBound, enumOnly, city

Bare == [call |-> "callDetailed", ok |-> TRUE, door |-> 1, number |-> Nothing,
         text |-> <<>>, format |-> Nothing, periods |-> Nothing, options |-> Nothing,
         vocab |-> <<>>, decl |-> Nothing, enum |-> <<>>]

Numeric(text, format) == [Bare EXCEPT !.door = 4, !.text = text, !.format = format]
Dated(text) == [Bare EXCEPT !.door = 21, !.text = text, !.periods = de,
                            !.options = compact, !.vocab = <<month>>]
Float == [Bare EXCEPT !.call = "callDetailedFromF64", !.number = a]
CheckedText(text, decl, enum) ==
    [Bare EXCEPT !.call = "callChecked", !.door = 18, !.text = text, !.decl = decl,
                 !.enum = enum]
CheckedFloat == [Bare EXCEPT !.call = "callCheckedFromF64", !.number = a, !.decl = lowerBound]
Judging(decl, enum) ==
    [Bare EXCEPT !.call = "callConstraintsCheck", !.decl = decl, !.enum = enum]
Declared(text) == [Bare EXCEPT !.call = "callDeclaredDecimal", !.text = text]
Version == [Bare EXCEPT !.call = "packedVersion"]

Long == <<a, b, a, b, a, b, a>>
TooLong == Long \o Long \o <<a, b>>

Verdicts ==
    << [of |-> Numeric(<<a>>, comma), code |-> 0],
       [of |-> Numeric(<<a, b>>, dot), code |-> 2],
       [of |-> Dated(<<b>>), code |-> 0],
       [of |-> Numeric(Long, dot), code |-> 0],
       [of |-> Numeric(TooLong, dot), code |-> 0],
       [of |-> [Numeric(<<a>>, dot) EXCEPT !.ok = FALSE], code |-> 0],
       [of |-> Float, code |-> 3],
       [of |-> Bare, code |-> 1],
       [of |-> CheckedText(<<a>>, enumOnly, <<city>>), code |-> 0, entry |-> 0],
       [of |-> CheckedText(<<a>>, lowerBound, <<>>), code |-> 0],
       [of |-> CheckedText(<<b, b>>, lowerBound, <<>>), code |-> 4, keyword |-> 6],
       [of |-> CheckedText(<<b, a, b>>, enumOnly, <<city>>), code |-> 2],
       [of |-> CheckedFloat, code |-> 4, keyword |-> 1],
       [of |-> Judging(lowerBound, <<>>), code |-> 0],
       [of |-> Judging(enumOnly, <<city, city>>), code |-> 10],
       [of |-> Declared(<<b>>), code |-> 0],
       [of |-> Declared(<<a, a>>), code |-> 8],
       [of |-> Version, code |-> 65536] >>

Requests(rows) == { Verdicts[k].of : k \in rows }

(* Every kind of call, for one goroutine after another.                    *)
AllRequests == Requests(DOMAIN Verdicts)

(* A short call, and one its caller gets wrong.                            *)
FewRequests == Requests({6, 18})

(* Anything but a request as its caller made it is a contract violation.   *)
MCCore(q) ==
    LET known == { k \in DOMAIN Verdicts : Verdicts[k].of = q }
        full == (IF known = {} THEN [code |-> -1] ELSE Verdicts[CHOOSE k \in known : TRUE])
                   @@ [keyword |-> 0, entry |-> NoEntry]
    IN  [code |-> full.code, keyword |-> full.keyword, entry |-> full.entry]

MCTotals == { Total(r) : r \in Request }

Symmetry == Permutations(Goroutine) \cup Permutations(Instance)
=============================================================================
