---------------------------- MODULE RetryPeriods ----------------------------
(***************************************************************************)
(* The `retries' list of a domain: Configuration::get() drops the periods  *)
(* that are not positive, sorts the others, and turns the times from the   *)
(* initial failure into delays from one retry to the next, in place, from  *)
(* the end of the vector, with one pointer that reads and one that writes. *)
(* Indices start at 1 here: begin() is 1, end() is Len(retries) + 1.       *)
(***************************************************************************)
EXTENDS Integers, Sequences, FiniteSets

CONSTANTS
    Period,     \* the numbers the list may hold
    MaxLen      \* the longest list: a bound of the model

ASSUME RetryPeriodsAssumption ==
    /\ Period \subseteq Int
    /\ MaxLen \in Nat

VARIABLES
    configured, \* the list in the configuration file
    retries,    \* Domain::retries
    t,          \* where the next difference is written
    f,          \* where the next time is read
    pc

vars == <<configured, retries, t, f, pc>>

Init ==
    /\ configured \in UNION {[1 .. m -> Period] : m \in 0 .. MaxLen}
    /\ retries = <<>>
    /\ t = 0
    /\ f = 0
    /\ pc = "read"

\* The places of the list that Configuration::get() keeps.
Kept(c) == {i \in DOMAIN c : c[i] > 0}

\* Mutant of Ahead: the times in the order of the file.
AheadInFile(c, i, j) == i <= j

\* The place i of the list comes before the place j, or is the same: by the period,
\* and equal periods, which nothing tells apart, in the order of the file.
Ahead(c, i, j) == c[i] < c[j] \/ (c[i] = c[j] /\ i <= j)

\* The positive periods of the list, sorted.
Arranged(c) ==
    LET nth(k) == CHOOSE i \in Kept(c) : Cardinality({j \in Kept(c) : Ahead(c, j, i)}) = k
    IN [k \in 1 .. Cardinality(Kept(c)) |-> c[nth(k)]]

\* The test of the code is on the length of the list in the file.
MustConvert == Len(configured) > 1

Read ==
    /\ pc = "read"
    /\ retries' = Arranged(configured)
    /\ t' = Len(retries')           \* end() - 1
    /\ f' = t'
    /\ pc' = IF MustConvert THEN "convert" ELSE "done"
    /\ UNCHANGED configured

\* Mutant of NextSlot: a null difference is kept.
EverySlot(d) == t - 1

\* A null difference, from a time given twice, is overwritten by the next one.
NextSlot(d) == IF d # 0 THEN t - 1 ELSE t

Difference ==
    /\ pc = "convert"
    /\ f \in 2 .. Len(retries)
    /\ LET d == retries[f] - retries[f - 1]
       IN /\ retries' = [retries EXCEPT ![t] = d]
          /\ t' = NextSlot(d)
    /\ f' = f - 1
    /\ UNCHANGED <<configured, pc>>

\* erase(begin() + 1, ++t)
Erase ==
    /\ pc = "convert" /\ f = 1
    /\ retries' = <<retries[1]>> \o SubSeq(retries, t + 1, Len(retries))
    /\ pc' = "done"
    /\ UNCHANGED <<configured, t, f>>

\* The vector is empty and f is before begin(), which it will never meet.
ReadsOutside ==
    /\ pc = "convert" /\ f < 1
    /\ pc' = "undefined"
    /\ UNCHANGED <<configured, retries, t, f>>

Next == Read \/ Difference \/ Erase \/ ReadsOutside

Spec == Init /\ [][Next]_vars

-----------------------------------------------------------------------------
(* Properties *)

\* Every variable has its type; the periods are unsigned in the code.
TypeOK ==
    /\ Len(configured) <= MaxLen
    /\ Len(retries) <= MaxLen
    /\ \A i \in 1 .. Len(retries) : retries[i] \in Nat
    /\ t \in 0 .. MaxLen
    /\ f \in 0 .. MaxLen
    /\ pc \in {"read", "convert", "done", "undefined"}

\* The times of the retries, relative to the initial failure.
Times == {configured[i] : i \in 1 .. Len(configured)} \cap (Nat \ {0})

\* The same delays, from the set of the times.
Delays(times) ==
    [i \in 1 .. Cardinality(times) |->
        LET nth(k) == CHOOSE x \in times : Cardinality({y \in times : y <= x}) = k
        IN IF i = 1 THEN nth(1) ELSE nth(i) - nth(i - 1)]

\* The delays that the conversion leaves add up to the times of the list: in any
\* order, with repetitions, as undervest.conf.5 says.
DelaysMatchTimes == pc = "done" => retries = Delays(Times)

\* The writing pointer stays at or behind the reading one, so that no time is
\* overwritten before it was read, and what is left between them is null.
WritesBehindReads ==
    (pc = "convert" /\ Times # {}) =>
        /\ 1 <= f /\ f <= t /\ t <= Len(retries)
        /\ \A i \in 1 .. f : retries[i] = Arranged(configured)[i]
        /\ \A i \in t + 1 .. Len(retries) : retries[i] > 0

\* The conversion leaves the vector only if the list has several periods and all
\* of them are ignored (configuration.cpp:324-333): with any positive period among
\* them, the reading pointer meets the beginning.
UndefinedIfAllIgnored == pc = "undefined" => Len(configured) > 1 /\ Times = {}

\* "non-positive retry period ignored": a list of such periods is an empty list.
AlwaysDefined == pc # "undefined"
=============================================================================
