--------------------------- MODULE DurationConvert ---------------------------
(***************************************************************************)
(* go/cast.go's Duration.AsDuration: the protobuf pair the duration doors  *)
(* return, as one count of nanoseconds in a signed machine integer.        *)
(***************************************************************************)
EXTENDS Integers

CONSTANTS
    MaxInt,            \* 2^63 - 1, what an int64 and so a time.Duration holds
    NanosPerSecond,    \* time.Second: 10^9
    Window             \* the core's duration window in seconds: 10,000 years

(* The least integer is no whole number of seconds.                        *)
ASSUME DurationAssumption ==
    /\ MaxInt \in Nat \ {0} /\ Window \in Nat
    /\ NanosPerSecond \in Nat \ {0} /\ NanosPerSecond <= MaxInt
    /\ (MaxInt + 1) % NanosPerSecond # 0

(* What a duration door returns: nanoseconds of the seconds' own sign.     *)
Durations ==
    { d \in [seconds : -Window .. Window, nanos : -(NanosPerSecond - 1) .. NanosPerSecond - 1] :
        d.seconds * d.nanos >= 0 }

(* int64 arithmetic wraps.                                                 *)
Wrap64(x) == ((x + MaxInt + 1) % (2 * MaxInt + 2)) - MaxInt - 1

MaxSeconds == MaxInt \div NanosPerSecond

(* Mutant: the last whole second refused.                                  *)
AsDurationStrict(d) ==
    IF d.seconds >= MaxSeconds \/ d.seconds < -MaxSeconds
    THEN [value |-> 0, ok |-> FALSE]
    ELSE [value |-> Wrap64(Wrap64(d.seconds * NanosPerSecond) + d.nanos), ok |-> TRUE]

AsDuration(d) ==
    IF d.seconds > MaxSeconds \/ d.seconds < -MaxSeconds
    THEN [value |-> 0, ok |-> FALSE]
    ELSE [value |-> Wrap64(Wrap64(d.seconds * NanosPerSecond) + d.nanos), ok |-> TRUE]

-----------------------------------------------------------------------------
(* The duration named exactly, and whether a time.Duration holds it.       *)
Exactly(d) == d.seconds * NanosPerSecond + d.nanos
Representable(d) == Exactly(d) \in -MaxInt - 1 .. MaxInt

=============================================================================
