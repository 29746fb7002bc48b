# A TLA+ model of HyperCast's Go binding

HyperCast casts text to typed values. Its grammars are written in Rust and
reach Go as 106,300 generated lines (`go/internal/core/core.go`: WebAssembly
translated to Go). What is written by hand in `go/` is the binding: it decides
which instance of the core a call runs on, lays the call's text and
declarations out in that instance's memory, calls an export, reads the verdict
back and makes a Go value, a fault or a panic of it. This directory models the
binding, and of the core what the binding depends on and what can be stated
against the documentation: what its entries refuse, how it judges a declaration,
a format or a vocabulary, how it judges a value by a declaration, which bytes of
the out-value a door stores, its spreadsheet calendar, and, of its grammars, how
it reads an integer.

## The system

| Component | State it keeps | Operations | How it meets the others |
|---|---|---|---|
| Scratch layout (`core.go` 40-128, 486-533) | none: offsets and limits | `acquireScratch`'s sizes, `scratchPagesFor`, `declarationAt`, pointer arithmetic | fixes where every other part reads and writes |
| Instances (`core.go` 77-223) | `primaryOnce`, `thePrimary` and its mutex, a `sync.Pool`, each instance's pages | `primary`, `acquire`, `acquireScratch`, `release`; a panic; a collection | every call takes one and gives it back |
| Calls (`core.go` 225-295, 378-603) | the memory of each instance, the call's locals | load text, format, periods, options, vocabulary, declaration; the export; `result`, `check` | between acquire and release |
| Doors (`cast.go`, `checked.go`, `detailed.go`, `dates.go`) | none | every exported function over text or a number, and the dispatch by type | checks arguments, crosses, reads the out-value at a shape |
| Verdicts (`cast.go` 561, `checked.go` 653-779, `detailed.go`) | none | `failed`, `rejected`, `checkedText`, `slice`, `Optional` and their twins | after release, on copies |
| Constraints (`checked.go` 184-617) | a declaration | rule constructors, `NewConstraints`, accessors | judged once by the core, then sent with every checked call |
| Formats (`cast.go` 162-385, `interop.go` 250-560) | `NumFormat`, `DateFormat` | builders, `valid`, `fault`, `layout` | checked and laid out by every numeric door |
| Month vocabularies (`dates.go`) | packed bytes | `NewMonthNames`, `monthNamesFromPacked`, `dateCall` | judged by the core, then sent with the doors that read one |
| Values (`cast.go` 391-560) | none | `Decimal.String`, `Duration.AsDuration` | what the doors return |
| Excel serials (`cast.go`; in the core fn123-125, fn143) | none | `ExcelSerialFromFloat64`, `ExcelTime`, `ExcelDuration` | the doors over a workbook's own numbers |
| Integer grammar (in the core fn52-58, fn31, fn32, fn98, fn99) | none | the eight integer doors: trim, detect, shortcuts, undress, scan | reads the text under the format the binding laid out |
| Core (`internal/core/core.go`) | an instance's memory | three entries, and the judgement of declarations | called by every door |

What is hard in it: calls from any number of goroutines share instances whose
memory is never cleared; a panic inside the core leaves an instance that must
never run again; `sync.Pool` may lose what it holds at any collection; sizes
decide between three kinds of instance; five tables map types to doors;
declarations cross as bytes and are judged twice, by the binding and by the
core, which must agree to the last byte; a number is moved to a step, judged by
its bounds, and, as a float, judged again; a text is read by two shortcuts and a
long way that must say the same. `PROJECT.json` lists the hazards line
by line with the properties that answer them.

## Modules

| Module | Models | Extends |
|---|---|---|
| `ScratchLayout` | offsets, `MaxText`, `scratchPagesFor`, `declarationAt`, int32 pointers | |
| `ScratchCalls` | `acquireScratch` asked by a plain or a checked call of any size | `ScratchLayout` |
| `InstancePool` | once, primary, pool, one-offs, panics, collections | `ScratchLayout` |
| `DoorRequests` | what callers hand over, what the core may answer, what a door owes | `ScratchLayout` |
| `Doors` | the abstract specification: each goroutine asks, each is answered from its own request | `DoorRequests` |
| `DoorCalls` | `callDetailed` and its siblings, on memory cell by cell; implements `Doors` | `InstancePool`, `DoorRequests` |
| `DoorTable` | types to doors; what each door checks, hands over and reads; what the core's entries refuse and store | |
| `DoorSessions` | one question through several exported functions, and every verdict a core could return | `DoorTable` |
| `NumberRules` | the core's judgement of a number: step, bounds, enum, range, the float again | |
| `TextRules` | the core's judgement of a text: trim, lengths, enum | `NumberRules` |
| `Constraints` | `NewConstraints`, the core's judgement of the declaration, and a checked door's answer | `TextRules` |
| `NumFormats` | `NumFormat`, `DateFormat`, and the core's judgement of the bytes laid out | |
| `MonthVocabulary` | `dates.go`, and the core's judgement of packed bytes | |
| `Powers` | powers of ten and of two, as recursive functions | |
| `DecimalText` | `Decimal.String` | `Powers` |
| `DurationConvert` | `Duration.AsDuration` | |
| `ExcelSerials` | snapping a double to a time, serials to dates | `Powers` |
| `IntegerText` | an integer door's reading of a text under a number format | `Powers` |
| `DoorSessionsProofs`, `NumFormatsProofs`, `MonthVocabularyProofs`, `IntegerTextProofs` | theorems | the module they name |
| `DoorCallsProofs` | theorems about `ScratchLayout`, `InstancePool` and `DoorCalls` | `DoorCalls`, `ScratchCalls` |
| `ConstraintsProofs` | theorems about `NumberRules`, `TextRules` and `Constraints` | `Constraints` |
| `ValuesProofs` | theorems about `DecimalText`, `DurationConvert` and `ExcelSerials` | `MCValues` |
| `SequenceLemmas` | induction over the naturals and over an interval, powers, and what flattening a sequence does | `Powers` |

`MC*` modules hold the requests, rules, symbols, vocabularies and arguments TLC
runs on; `MCValues` composes `DurationConvert` and `ExcelSerials`, which have no
state of their own, into questions and answers, beside `DecimalText`.

The generated core has no names: functions are `fn14`, `fn143`. The map in
`PROJECT.json` gives the lines each definition translates, and the comments say
what was read there. Memory and registers are abstracted to the values they
hold, jumps to the conditions that take them; the order of checks is kept, as
the first one that fails decides the answer.

### How state and actions correspond to the code

- `InstancePool`. A goroutine's `pc` is the point it has reached in
  `acquireScratch` / `acquire` / the call / `release`; the code between two
  points touches no shared state, so a step is one access to it. `OnceBegin`,
  `CreatePrimary`, `OnceEnd` and `OnceDone` are `sync.Once`, whose callers wait
  until its function has returned. `TryLock` and `TryLockFails` are the two
  outcomes of `mu.TryLock`. `pool` and `victim` are `sync.Pool`'s current and
  victim caches, `GC` its clean-up; `PoolGet` may return anything they hold and
  `PoolNew` is its `New`, which the real pool may call although another P holds
  an instance. `Trap` is a panic inside the core: `release` is not deferred
  (`core.go` 383), so the call just ends. Instances are names; a collected
  instance's name may be used again, an abandoned one's never, so that `trapped`
  can tell whether the damaged instance comes back.
- `DoorCalls`. `mem[i]` maps each offset of instance i's scratch to a cell: what
  a load wrote there, or what the core wrote for a request. A call is its list of
  steps in source order (`Program`); loads write at the offsets of
  `ScratchLayout`, `CoreStep` lets the core see what its pointers show it
  (`Seen`) and write what it writes, `ResultStep` and `CheckStep` copy the report
  out, `ReleaseStep` gives the instance back, and only then `Verdict` makes an
  answer of the copies. A byte of text, a whole format or a whole declaration is
  one cell: only where it lies and whose it is matters. The core writes the
  RawCheck only under a value or a violation, and leaves what was there under a
  fault.
- `DoorSessions`. `question` is what a caller declares, `told` what each exported
  function made of it. A surface that can be asked the question either refuses
  its arguments (`Refuses`) or crosses (`Crosses`). `judged` is the core as a
  function: a crossing is answered once, whatever asks again, but that answer may
  be any verdict, sound or not. Two doors that read the same bytes
  (`AsRead`) therefore get the same verdict, and what differs is the binding's.
- `Constraints`. One action per turn of `NewConstraints`'s loop and per outcome.
  A rule is chosen when the loop reaches it, which is the same as choosing the
  arguments first, since nothing looks ahead, and much cheaper to explore. Texts
  carry the decimal they convert to and their bytes. `Refusal` is the core's
  judgement of a declaration, check by check in its order, with the code it
  answers. `Check` is a checked door: it hands over what the caller holds
  (`crossed`), is asked about a value (`asked`), and answers (`answer`) with
  `NumberRules` or `TextRules`. The core compares enum entries with each other
  when `NewConstraints` asks, and not again at a checked door (`complete`).
- `NumFormats`. One value `f` holds the fields of a `NumFormat` and a
  `DateFormat`; a caller sets fields (they are exported) or chains builders, then
  enters a door. A symbol is a sequence of code points with their UTF-8 widths.
  `valid`, `fault` and the core's check are translated separately, each in its
  own order; the core's reads the laid-out slots, whose length byte starts over at
  `ByteValues`.
- `MonthVocabulary`. `at` is `judgeMonthNames`'s position in the packed bytes;
  each way an entry can fail is an action, guarded by the failure of the checks
  before it. The four bytes of a length word are one cell, and names are shorter than the
  4 GiB at which `NewMonthNames` narrows a length to 32 bits (`dates.go` 156). `CoreJudges` is the
  core's own pass (`fn90`), with the table of hashes that spares it comparing
  names in full: `Hash` is any function, `Slots` how many hashes are kept.
- `DecimalText`. `Decimal.String`'s loops, one action per turn, over a buffer
  indexed as in the source.
- `DurationConvert`. `AsDuration` with the multiplication and the sum wrapped as
  int64 arithmetic wraps.
- `ExcelSerials`. A double is its sign, mantissa and shift, 4 * mantissa / 2^shift
  days, which leaves quarters of a mantissa's unit for the half gaps at a power of
  two. `FirstStored` and `LastStored` are the first
  and last nanosecond that round to it,
  `Snapped` the core's choice between them. A float's rounding is exact integer
  arithmetic here, as it is in the core.

- `IntegerText`. `text` grows by a piece (`Type`) and the door reads it again
  (`read`): `Parse` is the whole door. A text is a sequence of characters, upper and
  lower case one letter, a separator one character, and a span counts characters
  where the core counts bytes; what depends on a character's bytes is in `Wide`
  (the shortcut does not serve a separator of more than one byte). `DigitsAlone`
  and `PlainlyDressed` are the shortcuts, `Undress` and `Scan` the long way:
  `Scanned` folds `ScanStep`, one turn of the core's loop, over the numeral. The
  128-bit magnitude is a number that becomes `TooMuch` for ever. The functions for
  the eight widths are copies of one another; the 8-bit one is translated. The
  model was compared with the core, run on some 33,000 random formats and texts at
  three widths, before its properties were stated.

## What is checked

| Run | Instance | What it shows |
|---|---|---|
| `layout` | pages of 256 bytes, the header's real region sizes, 12 of 16 pages the host's: every text to past `MaxText`, with up to 40 bytes of vocabulary or enum list behind it | regions inside the scratch, declaration and padding included; pointers exact on both sides of the sign bit; `MaxText` admits nothing the host cannot address |
| `pool` | 3 goroutines, 5 instance names, 1 panic, sizes on both sides of the base scratch | five safety invariants and `PrimaryIsForEver` |
| `calls_one` | 1 goroutine, all requests, in every order | each kind of call after each other kind reads and reports its own, and gives its instance back before it judges |
| `calls_live` | 2 goroutines, 4 names, 1 panic, 2 requests | the whole of `Doors`, its fairness included: every call is answered |
| `doors` | every question with defined arguments and their neighbours, two surfaces each, every verdict | no contract violation reaches the core; the bytes read are bytes stored; all surfaces tell one story; absent means empty; a broken verdict panics |
| `constraints` | sequences of 3 rules at 4 kinds of door, then one of 8 numbers or texts | acceptance equals meaning, accessors tell what was declared, nothing unjudged crosses; what is delivered meets the rules, is rounded as declared, and a rejection names a rule that is broken |
| `months` | 2 months, names to 3 bytes, up to 3 entries; packed vocabularies to 6 cells | the binding and the core judge alike, the error names the first fault, the two doors that read a vocabulary get the one declared whole, whatever options go with it |
| `formats` | slots of 2 and 3 bytes, symbols of every kind, 2 edits | `valid`, `fault`, the documented rules and the core's check agree |
| `values` | an 8-bit integer of nanoseconds, 10 to the second; doubles of 10 bits in 20 binades; the real calendar's days from 1900 to 2301 and 9990 to 9999, in both systems; decimals of words of 2^5 and 2^4, scale to 2, a buffer of 5 | what fits converts exactly; a double reads as the time with the fewest digits it stores; serials follow the calendar day by day; a decimal's text is canonical, reads back and stays in its buffer |
| `numerals` | five formats (accounting with trailing signs; money grouped apart from numbers, Indian; a sign and digits of its own, with spaces that group; detection; radix prefixes and exponents), texts of up to 5 pieces | the shortcuts say what the long way says; a strict policy refuses wrong groups and nothing else; a declared symbol takes no text away; every documented spelling of a number reads back; detection reads what one convention reads, or asks |
| `duration_wraps` | the same integer | the first finding below |
| `detect_currency` | the detection format | the second finding below |

Why the bounds are enough. Three goroutines give a call on the primary, one from
the pool and one racing them, and instance names suffice for one each, the
primary and an abandoned one; an instance's state does not depend on how many
others exist, and the pool's invariants are proved for any number. One goroutine
suffices for what a call makes of the leftovers of another, which `calls_one` runs
for every pair; two, in `calls_live`, for calls that interleave; and that a call is
answered from its own request whatever runs beside it is proved for any number of
goroutines. `MaxTraps`,
`MaxMissed`, `MaxRules`, `MaxEdits` and `MaxAsked` bound history that would
otherwise grow; three rules are enough for two that share a slot and one that
bears on both, `MaxEdits` = 2 enough to set two symbols equal or to chain two
builders, and `MaxAsked` = 2 enough for properties that compare two answers.
`MaxMissed` = 0 makes `New` run only on an empty pool in the runs; the
theorems hold for every value.

Layout sizes are scaled because TLC's integers have 32 bits and the real ranges
2^31 values. The scaled host is harder than either real one: its pages bound `MaxText`, as a
32-bit host's do, and its texts pass a pointer's sign bit, as a 64-bit host's do until the
slice limit stops them. The theorems cover the real sizes.
A format's slots hold two and three bytes and code points one and two, so that
symbols fill their slots, overflow them and are cut in the middle of a code point; their
length byte starts over at 4, so that a symbol can be too long for it too. In `months`, one hash is kept and names
of one length share it, so that a name meets one of its own hash, one of another
and one whose hash was not kept. In `constraints`, numbers are tenths and floats
four tenths apart up to 5.2, so that a float can cross a bound its decimal respects
and overflow; a type's range ends at 3, so that rounding can leave it.

In `numerals` a door spans 18 bits, the scan computes to 999,999, the first shortcut
serves five digits and an exponent counts to 7, so that a text of five pieces, some of
them three digits, passes each of these bounds. Its pieces are the digits, separators,
signs and symbols its format declares, and one that it does not: enough for a group of
every size at every place, a sign or symbol twice, at either edge, inside, before and
behind a gap, an exponent after groups, and a text that is a prefix only.

The doubles of `values` have `Precision` = 9 bits under their first instead of 52, a
day of two seconds of 100 nanoseconds, and their own last days: enough for
doubles that store no nanosecond, one, and several of each number of digits, for
both halves of a gap at a power of two, for an instant that snaps to the next
day, across the phantom and past the last. (With `Precision` = 7 no double snaps to
midnight.) `Day`, `Second` and `Digits` are tied by `ExcelAssumption`; the calendar, which is a
function of whole days only, is checked at its real size beside it. `DoublesAssumption`
relates the precision to the last day and to the window as 52 bits are related to
9999-12-31 and 10,000 years. A double of 2^54 days or more would need a negative shift and a
subnormal a mantissa below `Precision` bits; the first is out of range, the second reads as zero.

`layout`, `constraints`, `months`, `formats`, `values`, `numerals`, `doors` and the two
violation runs set `CHECK_DEADLOCK FALSE`: their modules describe one construction
followed by one use, or a bounded session of questions, and then stop. The pool
and the calls never stop, and are checked for deadlock.

### Fairness

`FairSpec` of `DoorCalls` assumes weak fairness of each goroutine's steps from the
moment it has entered a door to its return, and nothing else: the Go
scheduler runs every runnable goroutine, `TryLock` and `sync.Pool.Get` never
block, `sync.Once` blocks only while another goroutine runs its function, and the
core's exports return (a trap is a step too, but not a fair one). Nobody owes a
new call, a collection or a panic.

### Findings

`AsDuration` (`cast.go` 553) compares whole seconds with the largest number that
an int64 of nanoseconds holds and ignores the nanoseconds. A duration of exactly
9,223,372,036 s and 854,775,808 ns or more passes the guard and its sum wraps; the
negative side from -854,775,809 ns. The comment (`cast.go` 551) says the method
reports false beyond the range, and the package comment (`cast.go` 30) that it
does so "rather than silently wrapping". Run `duration_wraps` shows it in a
scaled integer; `values` shows that everything in range converts.

Under `SeparatorDetect` the core counts the points and commas of the whole text before
it takes the currency symbol off (`core.go` 14649). With `Currency` "kr.", "kr.100" is
Malformed, ambiguous at the symbol's own point, and "kr.1,234,567" is Malformed at its
first comma, while both are read when the symbol is spelled "kr". The documentation says
of the symbol that "it never takes part in the digit scan, so a symbol containing a
separator character (`kr.` under `.` grouping) is fine" (`go/README.md` 312, `cast.go`
298), and excepts no style. Run `detect_currency` finds such a text.

A remark without a run: `NumFormat`'s documentation says that nothing that parsed before
a symbol was declared stops parsing once it is. That holds of the signs, the currency
symbol and the native digits (`DeclaringReadsNoLess`); the amount's own separators are
documented one by one as read in place of the number's, so amounts written with the
latter do stop parsing. A currency symbol that is itself the spelling of a sign is not
among the formats of the runs.

## What is proved

All from the named assumptions alone, which TLC evaluates on every run:

| Assumption | Says |
|---|---|
| `LayoutAssumption` | positive sizes, a header that fits the base scratch, a host within the guest's address space |
| `PoolAssumption` | totals are naturals, `NoInstance` is no instance |
| `CellAssumption` | a header region has a cell, a RawConstraints is one cell and a RawCheck two; the base scratch's text is short of the guest's limit |
| `RequestAssumption` | a request carries what its call has parameters for and no more |
| `CoreAssumption` | the codes, keywords and entries of the core's contract |
| `DoorAssumption` | the binding's bounds of a pivot lie within the core's; the sentinels are nothing a caller declares or a door crosses with |
| `SessionAssumption` | the text is shorter than a word counts; options are records of their fields |
| `NumberAssumption` | decimals are integers, `Whole` is positive, the float nearest to a decimal grows with it |
| `FoldingAssumption` | folding takes a code point to a code point |
| `ConstraintsAssumption` | rules are as their constructors fill them in; a number rounded is one of the decimals there are |
| `FormatAssumption`, `FaultAssumption` | slots are shorter than a length byte counts, a code point takes one to four bytes and a wide space more than one; no fault is not a fault |
| `VocabularyAssumption`, `CallerAssumption` | bytes are naturals; what callers declare is typed and not `Nothing` |
| `SameUnicode` | names the binding folds to the same, the core folds to the same (`dates.go` 239-241 says both use one Unicode; only this half of it is needed). The converse case, names Go alone folds together, is outside the model |
| `DecimalAssumption` | the buffer has room for every magnitude's digits, a sign and a point |
| `DurationAssumption` | a second is no more than the integer holds, and the least integer is no whole number of seconds |
| `ExcelAssumption` | a second is as many digits of nanoseconds, a day whole seconds, the last days are naturals |
| `DoublesAssumption` | no double in range is so coarse that it stores two whole seconds, and one past `MaxShift` is nearer to zero than to the first nanosecond |
| `YearsAssumption` | the calendar is asked about 1900 to 9999 |
| `IntegerTextAssumption` | the type's range and a shortcut's digits lie within the magnitude the scan computes in; spaces that stand for each other are white |
| `NotationsAssumption` | formats are ones `valid` takes; no digit or ASCII sign is white, and a native digit has more than one byte |

Two of these were found by a proof that failed without them. `DurationAssumption`'s last
part holds of 2^63 and 10^9; if it did not, `AsDuration` would refuse the least
duration, which is in range. And `NumFormats` had a length byte that counted without
end: a symbol of 256 bytes or more wraps it, the core then reads another length, and
whether it takes the bytes is no longer whether `valid` takes the symbol.
`CoreTakesWhatValidTakes` is therefore stated of symbols whose length is told, with the
other direction for all: what `valid` takes, the core takes. (No door hands over what
`valid` refuses.)

The first part of `DoorCallsProofs` proves, for every size, that a call's regions lie inside the
scratch `acquireScratch` picks and apart from each other (`PlainCallsAreLaidOut`,
`CheckedCallsAreLaidOut`), that `MaxText` admits nothing the host refuses
(`MaxTextIsEnough`), that int32 pointers name the right bytes past 2^31
(`PlainPointersAreExact`, `CheckedPointersAreExact`), and that one-offs are minimal
(`OneOffsAreMinimal`). `CallsFitHolds` and `HostNeverRefusesHolds` state the first four of
every call `acquireScratch` is asked for. The arguments rest on two lemmas about division
(`PagesRoundUp`, `DeclarationPastText`) and one about wrapping (`WrapIsFaithful`).

Its second part proves the safety invariants of `InstancePool` and
`PrimaryIsForEver`, for any number of goroutines, instances, panics and
collections. None of them is inductive alone: that two calls never share an
instance depends on the pool not offering one that is held, on the primary's lock
being taken exactly while a call is on it, on a fresh name being neither, and on
no call getting past `primary()` before the primary exists. `IInv` is their
conjunction with four facts more: `OnceProtocol` (at most one creator, and the
primary exists from its creation on), `LeasesMean` (what a lease says about its
instance), `SizesDecide` (what brought a call to where it is) and `PrimaryLives`
(the primary has the base pages and is not in the pool). One lemma per action
shows that `IInv` is preserved, with a step per conjunct the action can disturb;
`NextInv` combines them. `ScratchHoldsCall` follows from `IInv` and
`ScratchLayout`'s arithmetic without being part of it. `PoolTypeCorrect` and
`AbandonedNeverServes` are proved and not run: the first only types the state; for the
second the runs have `PoolIsClean` and `LockIsAccountedFor`, which say where an
abandoned instance could come back from.

Its third part proves that `DoorCalls` implements `Doors` (`PromiseKept`), for any
requests, number of goroutines, sizes and leftovers in the scratch. It goes from
the pool upwards. `CallsArePoolSteps`: a step of a call is a step of the pool or
leaves the pool alone, so that `IInv` holds of the calls. From the layout's theorems,
the spans of a call's loads lie inside its scratch and apart (`LoadSpans`,
`LoadsApart`), so that a load leaves the earlier ones in place (`LoadPlaces`), and when
all are in place the core's pointers show it the request (`PlacedIsSeen`); what the core
then writes is what the copies will hold (`CoreReports`), and their judgement is the
promise (`AnswerIsPromised`). The invariant `CallInv` ties these together over time: besides
`IInv`, every goroutine is at one of eight stages (`Sound`), each of which says what is left
of its program and what its scratch holds of it: while `Loading`, every load it wants is
either still to come or in place; in `ToRead` and `ToCheck`, the core's reports are there;
once `Over`, the copies are. Without the stages nothing relates the memory to the
request, as the memory is never cleared. Another goroutine's step cannot disturb a
stage (`Undisturbed`), because it writes only the instance it holds, which by
`ExclusiveUse` is another one. `CoreReadsItsCall`, `ReportIsItsOwn`, `ReleasedBeforeJudged`
and the refinement are then read off the stages.

The first part of `ConstraintsProofs` is about the core's judgement of a number and of a
text, for every declaration, value, step and range of floats. `RoundedIsAStep`: whatever
the mode, rounding yields a whole number of steps, less than one step away, on the side
the mode declares, at most half a step for the midpoint. Its proof splits on whether the
step is rounded up, from the one fact that a number is its quotient times the step plus a
remainder below it. `DeliveredMeetsTheRules`: whenever a number door delivers, the exact
decimal is in every bound, on its step, in its enum and in its type's range, and at a
float door the float is in the bounds as floats; it follows the judgement's refusals one
by one. `ListReadsBack`: an enum's texts, packed as lengths and bytes, are read back by
the core as they were. `DeliveredTextMeetsTheRules` is the same promise for a text.

Its second part proves the five invariants of `Constraints`, for any rules in any order
and number. `ConstraintsInv` says, at each point of `NewConstraints`'s loop, that the
declaration being built is `Laid` out from the rules taken so far: its flags name them and
no others, no kind came twice, and each rule `Bears` on the declaration. This last part is
delicate. Inclusive and exclusive bounds share a slot, so that the later of two lower
bounds overwrites the earlier; what stays true is that a lower bound has its slot or both
are flagged, and then the core refuses the declaration. From `Laid`, the lemma
`CoreTakesTheMeaningful` shows that the core takes the declaration exactly when the rules
mean something together, which is `AcceptsTheMeaningful`; that the accepted declaration
says what the rules say gives `HoldsWhatWasDeclared`, and with the first part
`CheckedValuesMeetTheRules`, `RoundedAsDeclared` and `RejectionsNameABrokenRule`, which
speak of the rules as a caller wrote them and not of the bytes. `JudgedBeforeUse`
(`OnlyJudgedCross`): what a caller holds is the zero Constraints or an accepted
declaration, as a refusal from any rule leaves the zero one.

`DoorSessionsProofs` proves the five invariants of `DoorSessions`, for any options, any
verdicts and sessions of any length. `SessionInv` says that everything a session recorded
is explained by the question alone: a surface told what it did because it refused, or
because its crossing is one the question has, the core's one verdict on that crossing
is a verdict it can give, and the answer is what the binding makes of it. `OneStory`
compares two such explanations; `NoContractViolation` and `ReadsWhatTheCoreWrote` go
through the table of doors and the core's table of entries, door by door, with the shapes
of both. The tables' `CASE`s are opened once, in the lemmas named `...Cases`. The attempt
found two overlapping arms in a table, for which TLC takes the first and TLA+ says nothing;
the table was corrected.

`NumFormatsProofs` proves the four invariants of `NumFormats`, for every symbol and every
sequence of edits and builders. One formula, `NumFormatRules`, states the rules once, a
conjunct per kind of field; `valid`, `fault`, the documentation's list and the core's check
of the bytes are each shown equal to it, so that no pair has to be compared. The core sees
bytes only; that they tell symbols apart, and that a cut symbol never passes for another, is
an induction over the code points.

`MonthVocabularyProofs` proves the three invariants of `MonthVocabulary`, for every
declaration, every packed vocabulary, any hash and any number of hashes kept. Packed bytes
hold their entries in one way only (`EntriesLie`, `LieOnce`), what is packed is read
back (`PacksBack`, `DeclaredReadsBack`), and each check of the core breaks where the
binding's breaks (`CoreBreaksAsGo`), except that the core may fold together what the
binding does not (`CleanButFolded`). `VocabularyInv` says, while judging, that the
position is the end of an entry, that the names and months met are those of the entries
before it, and that none of these is faulty; and once judged, that the verdict is the
bytes' own; and that what has crossed is the vocabulary held, whole, at the two doors that
read one (`Crossing`), which needs that nothing crosses before the verdict. That the table of hashes hides no duplicate, for any hash, is
`JudgesAsTheCoreDoes`'s share.

`ValuesProofs` proves the four invariants of `values`, for all sizes. For
`Decimal.String`, `DecimalInv` says that the digits written and the magnitude left make up
the magnitude asked about, digit by digit, and that the place left in the buffer is enough
for what is left (its bound is `Tens`, as each turn divides by ten); `ReadsBack` follows.
For `AsDuration`, `WhatFitsIsExact`, and `OnlyTheLastSecondWraps`: what is converted
wrongly has the last whole second of its sign, so the finding above is the
only one. For the calendar, years are counted from the first of March, which makes the day
of a date a sum of floors; `CivilOfDay` inverts it, so numbers tell dates apart and the next
number is the next date; `CellInv` then ties a cell's serial to its date through the epoch
and the phantom day, whence `SerialsFollowTheCalendar` for every year from 1900 to 9999.

For the snapping, every quantity is a quotient by the double's scale. `StoredRange`: what a
double stores is the interval from the core's first to its last nanosecond, ties and odd
mantissas included, and `StoredWithin`: it is shorter than a second, or the core would not
be right to take the last whole second without comparing. `FinerSteps`: a double that stores a
multiple of a step stores one of every finer step, which is why the core, and `Step`, may
count the steps that have one to find the coarsest (`StepIsCoarsest`, `CoarsestIsMax`). Of
the coarsest step's multiples the nearest is the last before the double or the first after
(`NearestIsMoment`), and `SnappedIsMoment` goes through the core's four ways to a time.
A time that snaps to midnight is the next day's (`SnapIsMoment`). Then each door's refusals
are shown to be out of range by the double itself, `ExcelDuration`'s second bound with the
fact that no double is snapped by more than a second.

`IntegerTextProofs` proves `RoutesAgree`, for every text, format and width, of formats whose
`SymbolsApart`. The long way and a shortcut are followed through the same text. `DigitsAlone`
has no dress but a sign; `PlainlyDressed` looks for a sign and a currency symbol at fixed
places, where the long way trims, tries four spellings at each end and decides which sign
counts. The undressing lemmas go through the shortcut's cases (a sign before the symbol,
behind it, none, parentheses, the symbol at the end) and show that the long way then leaves
the same numeral, sign and amount: the numeral starts and ends with an ASCII digit, which no
symbol holds, so nothing more can be taken off. Then the scan: along a plain numeral it stays
in `PlainState`, where no fault has come, the value is that of the digits so far and `run`
counts from the last separator; a strict policy's `Conforms` is what keeps each separator
from being a fault. The digits are few enough for `Tens[ShortcutDigits]` to bound the value
(this is why the shortcut counts them), so the magnitude cannot overflow where the shortcut
reads. The inductive invariant `Typed` says only that the notation is one of those assumed
and the text made of characters.

The first attempt failed, and rightly. The shortcut looks for the currency symbol before
declared signs, the long way the other way round, so that a format whose currency symbol
and sign can be mistaken for each other reads differently on the two routes: with
`Currency` "-" and `TrailingSign`, the shortcut takes "5-" for five of a currency and the
long way for minus five. `SymbolsApart` excludes this: where a currency symbol is declared,
neither declared sign starts as it does, nor, with `TrailingSign`, does any sign end as it
does. The documentation says nothing of such formats, and `valid` takes them.

`SequenceLemmas` holds what these share. The library states induction with an operator
parameter; `NatInd` states it of a set instead, from the well-foundedness of the finite
subsets of the naturals, and `NatRecursion` that a function defined by recursion exists.
By these the recursive functions of the models (`EntriesOf`, `EntriesFrom`, `Tens`, `Twos`,
`FlattenSeq`, the values of digits) can be unfolded in proofs.

Only model-checked:

- liveness (`KeepsPromiseEnd`), which is out of the proof system's reach;
- `PoliciesJudgeGroups`, `DeclaringReadsNoLess`, `SpellingsReadBack` and
  `DetectionReadsOrAsks`, of `IntegerText`. Each compares readings of one text under two
  formats, or of a text built from digits.

## Not modelled

- The core's other text grammars (booleans, reals, decimals, dates, times, durations,
  UUIDs, spans), its 128-bit arithmetic and its Unicode tables, the bulk of the
  generated lines. Except in `IntegerText`, a text arrives in the models already
  parsed: as the decimal it is, or as bytes with their properties (`White`,
  `Continuation`, `Folding`). What those grammars are to accept is documented mostly in
  the repository's corpus, case by case. The generated code repeats each of them per
  door, so most of its lines are copies of one another, which is why the lines mapped
  are a small share of the file: a definition is mapped to the one copy it translates.
- Of the integer grammar: separators of more than one character, invalid UTF-8, the 16- to
  64-bit copies, and the percent sign, which the integer doors never read.
- `ExcelDuration` multiplies the double by 86,400 in floating point before it
  compares with its window; the product is exact here. Serials in text come
  through the number grammar.
- `resetPool`, a test hook; TinyGo, whose cooperative scheduler is one goroutine
  here; `decodeLE` on big-endian hosts; the texts of errors and panics; `Raw`,
  `PackedEnum` and the conversions of a raw shape to a Go struct, which copy fields.
- Version reporting beyond the call that fetches it; the regeneration tool; the
  smoke program; tests and the corpus.
- Races the caller makes: writing `Invariant` or a `[]byte` text during a call.

## What is left

1. Proofs: the other properties of `IntegerText`, on the lemmas `IntegerTextProofs` has of
   the dress and the scan.
2. The other number grammars of the core, which share `IntegerText`'s dress and scan and
   add a fraction, a percent sign and a rounding to the nearest float; then booleans,
   UUIDs and times of day.
